----------------------------- MODULE MCGateway -----------------------------
(* Instances of Gateway for TLC. *)
EXTENDS Gateway, TLC

CONSTANTS a, b, r1, r2

\* One provider is the first choice, the other only a fallback.
Fallback == {<<a, b>>}

=============================================================================
