-------------------------- MODULE MCQueryLimiter --------------------------
(* Instances of QueryLimiter for TLC. *)
EXTENDS QueryLimiter, TLC

CONSTANTS q1, q2, q3, p1, p2

\* All compete for one project, one of them uses another as well.
OneOfBoth == q1 :> {p1} @@ q2 :> {p1} @@ q3 :> {p1, p2}

===========================================================================
