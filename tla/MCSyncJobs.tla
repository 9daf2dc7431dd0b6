---------------------------- MODULE MCSyncJobs ----------------------------
(* Instances of SyncJobs for TLC. *)
EXTENDS SyncJobs, TLC

CONSTANTS i1, l1, a1, m1, c1, c2

WorkerRoles == i1 :> "interval" @@ l1 :> "lifecycle"
MixedRoles == i1 :> "interval" @@ a1 :> "api" @@ m1 :> "manual"
ManualRoles == m1 :> "manual"

\* The consumers are interchangeable.
ConsumerSymmetry == Permutations(Consumers)

=============================================================================
