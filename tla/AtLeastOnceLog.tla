-------------------------- MODULE AtLeastOnceLog --------------------------
(***************************************************************************)
(* What a consumer group that commits its offsets by hand promises of one  *)
(* Kafka partition: messages are only appended, each may be handled any    *)
(* number of times, and an offset is committed only when every message     *)
(* below it has been handled.  The committed offset may go back, when the  *)
(* commit of a slow former owner arrives late; it never runs ahead of the  *)
(* work.  SyncJobs and Pipelines are shown to implement this.              *)
(***************************************************************************)
EXTENDS Naturals, Sequences

CONSTANT Message

VARIABLES
  log,        \* the partition
  handled,    \* the offsets whose processing has come to an end
  committed   \* the group's committed offset

vars == <<log, handled, committed>>

Init == log = << >> /\ handled = {} /\ committed = 0

\* One send, which the client library may repeat or the broker may lose.
Produce ==
  /\ log' \in Seq(Message)
  /\ Len(log') >= Len(log)
  /\ \A i \in 1..Len(log) : log'[i] = log[i]
  /\ UNCHANGED <<handled, committed>>

\* Processing of one message ends, in success or in an error that is logged.
Handle ==
  /\ \E i \in 1..Len(log) : handled' = handled \cup {i}
  /\ UNCHANGED <<log, committed>>

\* The committed offset moves, forward or back.
Commit ==
  /\ \E n \in 0..Len(log) : (1..n) \subseteq handled /\ committed' = n
  /\ UNCHANGED <<log, handled>>

Next == Produce \/ Handle \/ Commit

Spec == Init /\ [][Next]_vars

===========================================================================
