-------------------------- MODULE SyncJobs_proofs --------------------------
(***************************************************************************)
(* Proofs about the job queue, for any number of producers, consumers,     *)
(* jobs and faults.                                                        *)
(***************************************************************************)
EXTENDS SyncJobs, SequenceTheorems, TLAPS

-----------------------------------------------------------------------------
(* Types. *)

\* The job id a producer works on is the id of a row.
ProducerJob ==
  \A p \in Producers :
    prod[p].pc \in {"publish", "committx", "markfailed"} => prod[p].job \in Jobs

\* The message in hand is a message of the partition.
MessageInHand ==
  \A c \in Consumers : cons[c].pc \in Handling => cons[c].cur \in 1..Len(log)

TypeInv == TypeOK /\ ProducerJob /\ MessageInHand

\* send_sync_job appends copies of one id: a log stays a log, keeps its
\* messages in place, and holds the id if there was at least one copy.
LEMMA AppendCopies ==
  ASSUME NEW s \in Seq(Jobs), NEW j \in Jobs, NEW n \in Nat
  PROVE  /\ s \o [i \in 1..n |-> j] \in Seq(Jobs)
         /\ Len(s \o [i \in 1..n |-> j]) = Len(s) + n
         /\ \A i \in 1..Len(s) : (s \o [k \in 1..n |-> j])[i] = s[i]
         /\ n >= 1 => (s \o [i \in 1..n |-> j])[Len(s) + 1] = j
<1> DEFINE t == [i \in 1..n |-> j]
<1>1. t \in Seq(Jobs) /\ Len(t) = n
  BY DEF Jobs
<1>2. n >= 1 => t[1] = j
  OBVIOUS
<1> HIDE DEF t
<1>3. s \o t \in Seq(Jobs) /\ Len(s \o t) = Len(s) + n
  BY <1>1
<1>4. \A i \in 1..Len(s) : (s \o t)[i] = s[i]
  BY <1>1
<1>5. n >= 1 => (s \o t)[Len(s) + 1] = j
  BY <1>1, <1>2
<1> QED
  BY <1>3, <1>4, <1>5 DEF t

\* The initial state is well typed.
LEMMA InitType == Init => TypeInv
BY BoundsAssumption, RoleAssumption
DEF Init, TypeInv, TypeOK, ProducerJob, MessageInHand, ProducerState, ConsumerState, Idle, Fresh,
    Jobs, RowStates, Visible, JobTypes, Roles, Tiers, Handling

\* The moves of a producer: deciding on a type, and going on.
LEMMA DecideType ==
  ASSUME TypeInv, NEW p \in Producers, NEW ty \in JobTypes, NEW pc \in {"dedup", "insert"},
         Decide(p, ty, pc)
  PROVE  prod' \in [Producers -> ProducerState] /\ ProducerJob'
<1> DEFINE r == [pc |-> pc, type |-> ty, job |-> 1]
<1>1. r \in ProducerState /\ r.pc = pc
  BY DEF ProducerState
<1>2. prod' = [prod EXCEPT ![p] = r]
  BY DEF Decide
<1> HIDE DEF r
<1> QED
  BY <1>1, <1>2 DEF TypeInv, TypeOK, ProducerJob

\* A producer that goes on stays well typed.
LEMMA GoType ==
  ASSUME TypeInv, NEW p \in Producers,
         NEW pc \in {"idle", "insert", "committx", "markfailed"},
         pc \in {"committx", "markfailed"} => prod[p].job \in Jobs,
         Go(p, pc)
  PROVE  prod' \in [Producers -> ProducerState] /\ ProducerJob'
<1> DEFINE r == IF pc = "idle" THEN Idle ELSE [prod[p] EXCEPT !.pc = pc]
<1>1. prod[p] \in ProducerState
  BY DEF TypeInv, TypeOK
<1>2. r \in ProducerState /\ r.pc = pc /\ (pc # "idle" => r.job = prod[p].job)
  BY <1>1 DEF ProducerState, Idle, JobTypes
<1>3. prod' = [prod EXCEPT ![p] = r]
  BY DEF Go
<1> HIDE DEF r
<1> QED
  BY <1>2, <1>3 DEF TypeInv, TypeOK, ProducerJob

\* The moves of a consumer: on with the message in hand, and back to the stream.
LEMMA StepType ==
  ASSUME TypeInv, NEW c \in Consumers, cons[c].pc \in Handling, NEW pc \in Handling,
         log' = log, Step(c, pc)
  PROVE  cons' \in [Consumers -> ConsumerState(Len(log))] /\ MessageInHand'
<1>1. Len(log) \in Nat
  BY DEF TypeInv, TypeOK
<1> QED
  BY <1>1 DEF TypeInv, TypeOK, MessageInHand, ConsumerState, Step

\* A consumer that lets go of its message stays well typed.
LEMMA LeaveType ==
  ASSUME TypeInv, NEW c \in Consumers, NEW pc \in {"poll", "down"}, log' = log, Leave(c, pc)
  PROVE  cons' \in [Consumers -> ConsumerState(Len(log))] /\ MessageInHand'
<1>1. Len(log) \in Nat
  BY DEF TypeInv, TypeOK
<1> QED
  BY <1>1 DEF TypeInv, TypeOK, MessageInHand, ConsumerState, Leave, Fresh, Handling, Tiers

\* The job of the message in hand, and the status update of a job.
LEMMA JobOfType ==
  ASSUME TypeInv, NEW c \in Consumers, cons[c].pc \in Handling
  PROVE  cons[c].cur \in 1..Len(log) /\ JobOf(c) \in Jobs
BY DEF TypeInv, TypeOK, MessageInHand, JobOf

\* An updated status is one of a row.
LEMMA StatusType ==
  ASSUME TypeInv, NEW j \in Jobs, NEW s \in Visible, update_job_status(j, s)
  PROVE  row' \in [Jobs -> RowStates]
BY DEF TypeInv, TypeOK, update_job_status, RowStates

\* A fresh row keeps the tables well typed.
LEMMA InsertType ==
  ASSUME TypeInv, NEW p \in Producers, NEW s \in RowStates, NEW pc \in {"publish", "idle"},
         InsertRow(p, s, pc)
  PROVE  /\ row' \in [Jobs -> RowStates] /\ jtype' \in [Jobs -> JobTypes]
         /\ creator' \in [Jobs -> Roles] /\ nextJob' \in 1..(MaxJobs + 1)
         /\ prod' \in [Producers -> ProducerState] /\ ProducerJob'
<1>1. nextJob \in Jobs /\ nextJob' \in 1..(MaxJobs + 1)
  BY BoundsAssumption DEF TypeInv, TypeOK, InsertRow, Jobs
<1>2. prod[p].type \in JobTypes /\ Role[p] \in Roles
  BY RoleAssumption DEF TypeInv, TypeOK, ProducerState
<1>3. row' \in [Jobs -> RowStates] /\ jtype' \in [Jobs -> JobTypes]
      /\ creator' \in [Jobs -> Roles]
  BY <1>1, <1>2 DEF TypeInv, TypeOK, InsertRow
<1>4. prod' \in [Producers -> ProducerState] /\ ProducerJob'
  <2> DEFINE r == IF pc = "idle" THEN Idle ELSE [pc |-> pc, type |-> prod[p].type, job |-> nextJob]
  <2>1. prod[p] \in ProducerState /\ nextJob \in Nat \ {0}
    BY <1>1 DEF TypeInv, TypeOK, Jobs
  <2>2. r \in ProducerState /\ r.pc = pc /\ (pc # "idle" => r.job = nextJob)
    BY <2>1 DEF ProducerState, Idle, JobTypes
  <2>3. prod' = [prod EXCEPT ![p] = r]
    BY DEF InsertRow
  <2> HIDE DEF r
  <2> QED
    BY <1>1, <2>2, <2>3 DEF TypeInv, TypeOK, ProducerJob
<1> QED
  BY <1>1, <1>3, <1>4

\* Every step keeps the state well typed.
LEMMA NextType == TypeInv /\ [Next]_vars => TypeInv'
<1> SUFFICES ASSUME TypeInv, [Next]_vars PROVE TypeInv'
  OBVIOUS
<1> USE BoundsAssumption DEF TypeInv, TypeOK, rowVars, kafkaVars, histVars
<1>1. ASSUME NEW p \in Producers, SelectDue(p) PROVE TypeInv'
  BY <1>1, DecideType DEF SelectDue, JobTypes, MessageInHand
<1>2. ASSUME NEW p \in Producers, EvaluateTier(p) PROVE TypeInv'
  BY <1>2, DecideType DEF EvaluateTier, determine_job_type, JobTypes, MessageInHand
<1>3. ASSUME NEW p \in Producers, RequestTransition(p) PROVE TypeInv'
  BY <1>3, DecideType DEF RequestTransition, AcceptedIn, JobTypes, MessageInHand
<1>4. ASSUME NEW p \in Producers, RequestSync(p) PROVE TypeInv'
  BY <1>4, DecideType DEF RequestSync, JobTypes, MessageInHand
<1>5. ASSUME NEW p \in Producers, FindActiveJob(p) PROVE TypeInv'
  BY <1>5, GoType DEF FindActiveJob, MessageInHand
<1>6. ASSUME NEW p \in Producers, InsertInTx(p) PROVE TypeInv'
  BY <1>6, InsertType, GoType DEF InsertInTx, RowStates, MessageInHand
<1>7. ASSUME NEW p \in Producers, InsertNow(p) PROVE TypeInv'
  BY <1>7, InsertType DEF InsertNow, RowStates, Visible, MessageInHand
<1>8. ASSUME NEW p \in Producers, Publish(p) PROVE TypeInv'
  <2>1. prod[p].job \in Jobs
    BY <1>8 DEF Publish, ProducerJob
  <2>2. PICK n \in 0..2, ok \in BOOLEAN :
          /\ IF ok /\ n = 1 THEN UNCHANGED faults ELSE Spend
          /\ log' = log \o [i \in 1..n |-> prod[p].job]
          /\ IF Role[p] = "api"
             THEN Go(p, IF ok THEN "idle" ELSE "markfailed") /\ UNCHANGED row
             ELSE /\ Go(p, IF ok THEN "committx" ELSE "idle")
                  /\ row' = IF ok THEN row ELSE [row EXCEPT ![prod[p].job] = "absent"]
    BY <1>8 DEF Publish
  <2>3. log' \in Seq(Jobs) /\ Len(log') \in Nat /\ Len(log) \in Nat /\ Len(log) <= Len(log')
    BY <2>1, <2>2, AppendCopies
  <2>4. prod' \in [Producers -> ProducerState] /\ ProducerJob'
    <3>1. CASE Role[p] = "api"
      BY <2>1, <2>2, <3>1, GoType
    <3>2. CASE Role[p] # "api"
      BY <2>1, <2>2, <3>2, GoType
    <3> QED
      BY <3>1, <3>2
  <2>5. row' \in [Jobs -> RowStates] /\ faults' \in 0..MaxFaults
    <3>1. row' \in [Jobs -> RowStates]
      BY <2>1, <2>2 DEF RowStates
    <3>2. UNCHANGED faults \/ Spend
      BY <2>2
    <3> QED
      BY <3>1, <3>2 DEF Spend
  <2>6. cons' \in [Consumers -> ConsumerState(Len(log'))] /\ MessageInHand'
    BY <1>8, <2>3 DEF Publish, ConsumerState, MessageInHand
  <2> QED
    BY <1>8, <2>3, <2>4, <2>5, <2>6 DEF Publish
<1>9. ASSUME NEW p \in Producers, CommitTx(p) PROVE TypeInv'
  BY <1>9, GoType DEF CommitTx, Spend, RowStates, Visible, ProducerJob, MessageInHand
<1>10. ASSUME NEW p \in Producers, MarkFailed(p) PROVE TypeInv'
  BY <1>10, GoType, StatusType DEF MarkFailed, Spend, Visible, ProducerJob, MessageInHand
<1>11. ASSUME NEW p \in Producers, ProducerCrash(p) PROVE TypeInv'
  BY <1>11, GoType DEF ProducerCrash, Spend, RowStates, ProducerJob, MessageInHand
<1>12. ASSUME NEW c \in Consumers, Deliver(c) PROVE TypeInv'
  <2>1. Len(log) \in Nat /\ cons[c].pos + 1 \in 1..Len(log)
    BY <1>12 DEF Deliver, ConsumerState
  <2>2. cons' \in [Consumers -> ConsumerState(Len(log))] /\ MessageInHand'
    <3> DEFINE r == Fresh("start", cons[c].pos + 1, cons[c].pos + 1)
    <3>1. r \in ConsumerState(Len(log)) /\ r.cur \in 1..Len(log)
      BY <2>1 DEF ConsumerState, Handling, Fresh, Tiers
    <3>2. cons' = [cons EXCEPT ![c] = r] /\ log' = log
      BY <1>12 DEF Deliver, Take
    <3> HIDE DEF r
    <3> QED
      BY <3>1, <3>2 DEF MessageInHand
  <2> QED
    BY <1>12, <2>2 DEF Deliver, ProducerJob
<1>13. ASSUME NEW c \in Consumers, BeginJob(c) PROVE TypeInv'
  BY <1>13, StepType, JobOfType, StatusType DEF BeginJob, Visible, Handling, ProducerJob
<1>14. ASSUME NEW c \in Consumers, LoadSource(c) PROVE TypeInv'
  <2>1. cons' \in [Consumers -> ConsumerState(Len(log))] /\ MessageInHand'
    BY <1>14 DEF LoadSource, ConsumerState, Handling, MessageInHand
  <2> QED
    BY <1>14, <2>1 DEF LoadSource, ProducerJob
<1>15. ASSUME NEW c \in Consumers, RunOk(c) PROVE TypeInv'
  <2>1. cons' \in [Consumers -> ConsumerState(Len(log))] /\ MessageInHand'
    BY <1>15 DEF RunOk, ConsumerState, Handling, MessageInHand
  <2>2. tier' \in Tiers
    BY <1>15 DEF RunOk, TierAfter, Tiers
  <2>3. ranOk' \subseteq Jobs
    BY <1>15, JobOfType DEF RunOk, Handling
  <2> QED
    BY <1>15, <2>1, <2>2, <2>3 DEF RunOk, ProducerJob
<1>16. ASSUME NEW c \in Consumers, RunErr(c) PROVE TypeInv'
  <2>1. cons' \in [Consumers -> ConsumerState(Len(log))] /\ MessageInHand'
    BY <1>16 DEF RunErr, ConsumerState, Handling, MessageInHand
  <2> QED
    BY <1>16, <2>1 DEF RunErr, ProducerJob
<1>17. ASSUME NEW c \in Consumers, FinishJob(c) PROVE TypeInv'
  BY <1>17, StepType, JobOfType, StatusType DEF FinishJob, Visible, Handling, ProducerJob
<1>18. ASSUME NEW c \in Consumers, StatusUpdateError(c) PROVE TypeInv'
  <2>1. cons[c].pc \in Handling /\ cons[c].cur \in 1..Len(log) /\ JobOf(c) \in Jobs
    BY <1>18, JobOfType DEF StatusUpdateError, Handling
  <2>2. PICK s \in Visible : row' = row \/ update_job_status(JobOf(c), s)
    BY <1>18 DEF StatusUpdateError, Visible
  <2>3. row' \in [Jobs -> RowStates]
    BY <2>1, <2>2, StatusType
  <2>4. cons' \in [Consumers -> ConsumerState(Len(log))] /\ MessageInHand'
    BY <1>18, LeaveType DEF StatusUpdateError
  <2>5. dropped' \subseteq 1..Len(log) /\ faults' \in 0..MaxFaults
    <3>1. dropped' = dropped \cup {cons[c].cur} /\ Spend
      BY <1>18 DEF StatusUpdateError
    <3>2. dropped \subseteq 1..Len(log) /\ faults \in 0..MaxFaults
      OBVIOUS
    <3>3. dropped' \subseteq 1..Len(log)
      BY ONLY <2>1, <3>1, <3>2
    <3>4. faults' \in 0..MaxFaults
      BY ONLY <3>1, <3>2, BoundsAssumption DEF Spend
    <3> QED
      BY <3>3, <3>4
  <2>6. UNCHANGED <<jtype, creator, nextJob, tier, prod, kafkaVars, acked, ranOk>>
    BY <1>18 DEF StatusUpdateError
  <2> QED
    BY <2>3, <2>4, <2>5, <2>6 DEF ProducerJob
<1>19. ASSUME NEW c \in Consumers, CommitOffset(c) PROVE TypeInv'
  BY <1>19, LeaveType, JobOfType DEF CommitOffset, Handling, Spend, ProducerJob
<1>20. ASSUME NEW c \in Consumers, Assign(c) PROVE TypeInv'
  <2>1. cons' \in [Consumers -> ConsumerState(Len(log))] /\ MessageInHand'
    BY <1>20 DEF Assign, AssignedPosition, ConsumerState, MessageInHand
  <2> QED
    BY <1>20, <2>1 DEF Assign, ProducerJob
<1>21. ASSUME NEW c \in Consumers, ConsumerCrash(c) PROVE TypeInv'
  BY <1>21, LeaveType DEF ConsumerCrash, Spend, ProducerJob
<1>22. ASSUME NEW c \in Consumers, Restart(c) PROVE TypeInv'
  BY <1>22, LeaveType DEF Restart, ProducerJob
<1>23. CASE Revoke
  BY <1>23 DEF Revoke, Spend, ProducerJob, MessageInHand
<1>24. CASE UNCHANGED vars
  BY <1>24 DEF vars, ProducerJob, MessageInHand
<1> QED
  BY <1>1, <1>2, <1>3, <1>4, <1>5, <1>6, <1>7, <1>8, <1>9, <1>10, <1>11, <1>12, <1>13, <1>14,
     <1>15, <1>16, <1>17, <1>18, <1>19, <1>20, <1>21, <1>22, <1>23, <1>24
  DEF Next, ProducerNext, ConsumerNext

\* The job queue keeps its state well typed, whatever the producers, the
\* consumers and the faults do.
THEOREM TypeCorrect == Spec => []TypeOK
<1>1. TypeInv => TypeOK
  BY DEF TypeInv
<1> QED
  BY <1>1, InitType, NextType, PTL DEF Spec

-----------------------------------------------------------------------------
(* Offsets.  The committed offset may go back (a stale owner is assigned the *)
(* partition again and commits an old message) and a position may be stale  *)
(* (the consumer lost the partition), so neither is monotone.  What holds   *)
(* at every moment is that the messages before the message in hand are      *)
(* handled, and those below the position of the current owner.              *)

\* Below the position of the owner only the message in hand is not handled.
OwnerPosition ==
  \A c \in Consumers : owner = c =>
    \A i \in 1..cons[c].pos : i \in Handled \/ (cons[c].pc \in Handling /\ i = cons[c].cur)

\* No message before a message in hand is unhandled.
NoGap ==
  \A c \in Consumers : cons[c].pc \in Handling =>
    \A i \in 1..(cons[c].cur - 1) : i \in Handled

\* An offset is committed after process_message returned Ok.
CommitAfterHandling ==
  \A c \in Consumers : cons[c].pc = "commit" => cons[c].cur \in Handled

OffsetInv == CommittedMeansHandled /\ OwnerPosition /\ NoGap /\ CommitAfterHandling

\* The producers do not touch what the consumers and the broker keep.
LEMMA ProducersLeaveConsumersAlone ==
  ASSUME NEW p \in Producers, ProducerNext(p)
  PROVE  UNCHANGED <<cons, committed, owner, tier, histVars>>
BY DEF ProducerNext, SelectDue, EvaluateTier, RequestTransition, RequestSync, FindActiveJob,
       InsertInTx, InsertNow, Publish, CommitTx, MarkFailed, ProducerCrash, kafkaVars, histVars

\* Initially nothing is committed and nobody owns the partition.
LEMMA InitOffset == Init => OffsetInv
BY OwnerAssumption DEF Init, OffsetInv, CommittedMeansHandled, OwnerPosition, NoGap,
   CommitAfterHandling, Fresh, Handling

\* Every step keeps the offset invariant.
LEMMA NextOffset == TypeInv /\ OffsetInv /\ [Next]_vars => OffsetInv'
<1> SUFFICES ASSUME TypeInv, OffsetInv, [Next]_vars PROVE OffsetInv'
  OBVIOUS
<1> USE DEF OffsetInv, CommittedMeansHandled, OwnerPosition, NoGap, CommitAfterHandling, Handled,
            kafkaVars, histVars
<1>0. /\ Len(log) \in Nat /\ committed \in Nat
      /\ cons \in [Consumers -> ConsumerState(Len(log))]
      /\ \A c \in Consumers : cons[c].pos \in Nat /\ cons[c].cur \in Nat
  BY DEF TypeInv, TypeOK, ConsumerState
<1>1. ASSUME NEW p \in Producers, ProducerNext(p) PROVE OffsetInv'
  BY <1>1, ProducersLeaveConsumersAlone
<1>2. ASSUME NEW c \in Consumers, Deliver(c) PROVE OffsetInv'
  BY <1>0, <1>2 DEF Deliver, Take, Fresh, Handling
<1>3. ASSUME NEW c \in Consumers, BeginJob(c) PROVE OffsetInv'
  BY <1>0, <1>3 DEF BeginJob, Step, Handling
<1>4. ASSUME NEW c \in Consumers, LoadSource(c) PROVE OffsetInv'
  BY <1>0, <1>4 DEF LoadSource, Handling
<1>5. ASSUME NEW c \in Consumers, RunOk(c) PROVE OffsetInv'
  BY <1>0, <1>5 DEF RunOk, Handling
<1>6. ASSUME NEW c \in Consumers, RunErr(c) PROVE OffsetInv'
  BY <1>0, <1>6 DEF RunErr, Handling
<1>7. ASSUME NEW c \in Consumers, FinishJob(c) PROVE OffsetInv'
  BY <1>0, <1>7 DEF FinishJob, Step, Handling
<1>8. ASSUME NEW c \in Consumers, StatusUpdateError(c) PROVE OffsetInv'
  BY <1>0, <1>8 DEF StatusUpdateError, Leave, Fresh, Handling
<1>9. ASSUME NEW c \in Consumers, CommitOffset(c) PROVE OffsetInv'
  BY <1>0, <1>9 DEF CommitOffset, Leave, Fresh, Handling
<1>10. ASSUME NEW c \in Consumers, Assign(c) PROVE OffsetInv'
  BY <1>0, <1>10 DEF Assign, AssignedPosition
<1>11. ASSUME NEW c \in Consumers, ConsumerCrash(c) PROVE OffsetInv'
  BY <1>0, <1>11, OwnerAssumption DEF ConsumerCrash, Leave, Fresh, Handling
<1>12. ASSUME NEW c \in Consumers, Restart(c) PROVE OffsetInv'
  BY <1>0, <1>12 DEF Restart, Leave, Fresh, Handling
<1>13. CASE Revoke
  BY <1>0, <1>13, OwnerAssumption DEF Revoke
<1>14. CASE UNCHANGED vars
  BY <1>14 DEF vars
<1> QED
  BY <1>1, <1>2, <1>3, <1>4, <1>5, <1>6, <1>7, <1>8, <1>9, <1>10, <1>11, <1>12, <1>13, <1>14
  DEF Next, ConsumerNext

\* The committed offset never covers a message that nobody has taken through
\* process_message, for any number of consumers, crashes, revocations, stale
\* owners and lost acknowledgements.
THEOREM NoMessageSkipped == Spec => []CommittedMeansHandled
<1>1. OffsetInv => CommittedMeansHandled
  BY DEF OffsetInv
<1> QED
  BY <1>1, InitOffset, InitType, NextType, NextOffset, PTL DEF Spec

-----------------------------------------------------------------------------
(* Outcomes and publication. *)

\* The log only grows: a message keeps its offset.
LEMMA LogGrows ==
  ASSUME TypeInv, [Next]_vars
  PROVE  Len(log) <= Len(log') /\ \A i \in 1..Len(log) : log'[i] = log[i]
<1>1. log \in Seq(Jobs) /\ Len(log) \in Nat
  BY DEF TypeInv, TypeOK
<1>2. ASSUME NEW p \in Producers, Publish(p)
      PROVE  Len(log) <= Len(log') /\ \A i \in 1..Len(log) : log'[i] = log[i]
  <2>1. prod[p].job \in Jobs
    BY <1>2 DEF Publish, TypeInv, ProducerJob
  <2>2. PICK n \in 0..2 : log' = log \o [i \in 1..n |-> prod[p].job]
    BY <1>2 DEF Publish
  <2> QED
    BY <1>1, <2>1, <2>2, AppendCopies
<1>3. ASSUME NEW p \in Producers, ProducerNext(p), ~Publish(p) PROVE log' = log
  BY <1>3 DEF ProducerNext, SelectDue, EvaluateTier, RequestTransition, RequestSync,
     FindActiveJob, InsertInTx, InsertNow, CommitTx, MarkFailed, ProducerCrash, kafkaVars
<1>4. ASSUME NEW c \in Consumers, ConsumerNext(c) PROVE log' = log
  BY <1>4 DEF ConsumerNext, Deliver, BeginJob, LoadSource, RunOk, RunErr, FinishJob,
     StatusUpdateError, CommitOffset, Assign, ConsumerCrash, Restart, kafkaVars
<1>5. CASE Revoke \/ UNCHANGED vars
  BY <1>1, <1>5 DEF Revoke, vars, kafkaVars
<1> QED
  BY <1>1, <1>2, <1>3, <1>4, <1>5 DEF Next

\* A consumer about to write "completed" has seen the job succeed.
ResultIsKnown ==
  \A c \in Consumers : cons[c].pc = "finish" /\ cons[c].res = "ok" => JobOf(c) \in ranOk

OutcomeInv == CompletedMeansDone /\ ResultIsKnown

\* Only the last status update of a job that succeeded writes "completed".
LEMMA NextOutcome == TypeInv /\ OutcomeInv /\ [Next]_vars => OutcomeInv'
<1> SUFFICES ASSUME TypeInv, OutcomeInv, [Next]_vars PROVE OutcomeInv'
  OBVIOUS
<1> USE DEF OutcomeInv, CompletedMeansDone, ResultIsKnown, rowVars, histVars
<1>0. /\ row \in [Jobs -> RowStates] /\ Len(log) \in Nat
      /\ cons \in [Consumers -> ConsumerState(Len(log))]
  BY DEF TypeInv, TypeOK
<1>1. ASSUME NEW p \in Producers, ProducerNext(p) PROVE OutcomeInv'
  <2>1. UNCHANGED <<cons, ranOk>>
    BY <1>1, ProducersLeaveConsumersAlone
  <2>2. ResultIsKnown'
    BY <2>1, JobOfType, LogGrows DEF JobOf, Handling, TypeInv, MessageInHand
  <2>3. \A j \in Jobs : row'[j] = "completed" => row[j] = "completed"
    <3>1. ASSUME InsertInTx(p) \/ InsertNow(p)
          PROVE  \A j \in Jobs : row'[j] = "completed" => row[j] = "completed"
      BY <1>0, <3>1 DEF InsertInTx, InsertNow, InsertRow
    <3>2. ASSUME Publish(p) PROVE \A j \in Jobs : row'[j] = "completed" => row[j] = "completed"
      BY <1>0, <3>2 DEF Publish
    <3>3. ASSUME CommitTx(p) \/ MarkFailed(p) \/ ProducerCrash(p)
          PROVE  \A j \in Jobs : row'[j] = "completed" => row[j] = "completed"
      BY <1>0, <3>3 DEF CommitTx, MarkFailed, ProducerCrash, update_job_status
    <3> QED
      BY <1>1, <3>1, <3>2, <3>3
      DEF ProducerNext, SelectDue, EvaluateTier, RequestTransition, RequestSync, FindActiveJob
  <2> QED
    BY <2>1, <2>2, <2>3
<1>2. ASSUME NEW c \in Consumers, Deliver(c) PROVE OutcomeInv'
  BY <1>0, <1>2 DEF Deliver, Take, Fresh, kafkaVars, JobOf
<1>3. ASSUME NEW c \in Consumers, BeginJob(c) PROVE OutcomeInv'
  BY <1>0, <1>3 DEF BeginJob, Step, update_job_status, kafkaVars, JobOf
<1>4. ASSUME NEW c \in Consumers, LoadSource(c) PROVE OutcomeInv'
  BY <1>0, <1>4 DEF LoadSource, kafkaVars, JobOf
<1>5. ASSUME NEW c \in Consumers, RunOk(c) PROVE OutcomeInv'
  BY <1>0, <1>5 DEF RunOk, kafkaVars, JobOf
<1>6. ASSUME NEW c \in Consumers, RunErr(c) PROVE OutcomeInv'
  BY <1>0, <1>6 DEF RunErr, kafkaVars, JobOf
<1>7. ASSUME NEW c \in Consumers, FinishJob(c) PROVE OutcomeInv'
  BY <1>0, <1>7 DEF FinishJob, Step, update_job_status, kafkaVars, JobOf
<1>8. ASSUME NEW c \in Consumers, StatusUpdateError(c) PROVE OutcomeInv'
  <2>1. ResultIsKnown'
    BY <1>0, <1>8 DEF StatusUpdateError, Leave, Fresh, kafkaVars, JobOf
  <2>2. JobOf(c) \in Jobs
    BY <1>8, JobOfType DEF StatusUpdateError, Handling
  <2>3. CASE cons[c].pc = "start"
    <3>1. row' = row \/ update_job_status(JobOf(c), "running")
      BY <1>8, <2>3 DEF StatusUpdateError
    <3>2. ranOk' = ranOk
      BY <1>8 DEF StatusUpdateError
    <3> QED
      BY <1>0, <2>1, <2>2, <3>1, <3>2 DEF update_job_status
  <2>4. CASE cons[c].pc = "finish" /\ cons[c].res = "ok"
    BY <1>0, <1>8, <2>1, <2>2, <2>4 DEF StatusUpdateError, update_job_status
  <2>5. CASE cons[c].pc = "finish" /\ cons[c].res # "ok"
    BY <1>0, <1>8, <2>1, <2>5 DEF StatusUpdateError, update_job_status
  <2> QED
    BY <1>8, <2>3, <2>4, <2>5 DEF StatusUpdateError
<1>9. ASSUME NEW c \in Consumers, CommitOffset(c) PROVE OutcomeInv'
  BY <1>0, <1>9 DEF CommitOffset, Leave, Fresh, JobOf
<1>10. ASSUME NEW c \in Consumers, Assign(c) PROVE OutcomeInv'
  BY <1>0, <1>10 DEF Assign, JobOf
<1>11. ASSUME NEW c \in Consumers, ConsumerCrash(c) PROVE OutcomeInv'
  BY <1>0, <1>11 DEF ConsumerCrash, Leave, Fresh, JobOf
<1>12. ASSUME NEW c \in Consumers, Restart(c) PROVE OutcomeInv'
  BY <1>0, <1>12 DEF Restart, Leave, Fresh, kafkaVars, JobOf
<1>13. CASE Revoke
  BY <1>13 DEF Revoke, JobOf
<1>14. CASE UNCHANGED vars
  BY <1>14 DEF vars, kafkaVars, JobOf
<1> QED
  BY <1>1, <1>2, <1>3, <1>4, <1>5, <1>6, <1>7, <1>8, <1>9, <1>10, <1>11, <1>12, <1>13, <1>14
  DEF Next, ConsumerNext

\* A job shown as completed was run to an Ok result, however often it was
\* delivered and by however many consumers.
THEOREM CompletedJobsRan == Spec => []CompletedMeansDone
<1>1. Init => OutcomeInv
  BY DEF Init, OutcomeInv, CompletedMeansDone, ResultIsKnown, Fresh
<1>2. OutcomeInv => CompletedMeansDone
  BY DEF OutcomeInv
<1> QED
  BY <1>1, <1>2, InitType, NextType, NextOutcome, PTL DEF Spec

\* A worker commits its transaction after the message is in the partition.
SentBeforeCommit ==
  \A p \in Producers : prod[p].pc = "committx" =>
    \E i \in 1..Len(log) : log[i] = prod[p].job

PublicationInv == VisibleMeansPublished /\ SentBeforeCommit

\* A message in the partition stays there.
LEMMA StaysPublished ==
  ASSUME TypeInv, [Next]_vars, NEW j, \E i \in 1..Len(log) : log[i] = j
  PROVE  \E i \in 1..Len(log') : log'[i] = j
<1>1. PICK i \in 1..Len(log) : log[i] = j
  OBVIOUS
<1>2. Len(log) \in Nat /\ Len(log') \in Nat
  BY NextType DEF TypeInv, TypeOK
<1>3. i \in 1..Len(log') /\ log'[i] = j
  BY <1>1, <1>2, LogGrows
<1> QED
  BY <1>3

\* Rows change state only; a visible row was visible, or its transaction has
\* just been committed, or an endpoint has just inserted it.
LEMMA NextPublication == TypeInv /\ PublicationInv /\ [Next]_vars => PublicationInv'
<1> SUFFICES ASSUME TypeInv, PublicationInv, [Next]_vars PROVE PublicationInv'
  OBVIOUS
<1> DEFINE Sent(j) == \E i \in 1..Len(log) : log[i] = j
<1> DEFINE SentNow(j) == \E i \in 1..Len(log') : log'[i] = j
<1> DEFINE Worker == {"interval", "lifecycle"}
<1>0. /\ row \in [Jobs -> RowStates] /\ creator \in [Jobs -> Roles]
      /\ prod \in [Producers -> ProducerState] /\ log \in Seq(Jobs) /\ Len(log) \in Nat
  BY DEF TypeInv, TypeOK
<1>1. /\ \A j \in Jobs : row[j] \in Visible /\ creator[j] \in Worker => Sent(j)
      /\ \A p \in Producers : prod[p].pc = "committx" => Sent(prod[p].job)
  BY DEF PublicationInv, VisibleMeansPublished, SentBeforeCommit
<1>2. \A j : Sent(j) => SentNow(j)
  BY StaysPublished
<1>3. SUFFICES /\ \A j \in Jobs : row'[j] \in Visible /\ creator'[j] \in Worker => SentNow(j)
               /\ \A p \in Producers : prod'[p].pc = "committx" => SentNow(prod'[p].job)
  BY DEF PublicationInv, VisibleMeansPublished, SentBeforeCommit
<1> DEFINE Goal == /\ \A j \in Jobs : row'[j] \in Visible /\ creator'[j] \in Worker => SentNow(j)
                   /\ \A p \in Producers : prod'[p].pc = "committx" => SentNow(prod'[p].job)
<1> USE DEF rowVars
<1>4. ASSUME NEW p \in Producers, Publish(p) PROVE Goal
  <2>1. prod[p].job \in Jobs
    BY <1>4 DEF Publish, TypeInv, ProducerJob
  <2>2. PICK n \in 0..2, ok \in BOOLEAN :
          /\ IF ok THEN n >= 1 ELSE n <= 1
          /\ log' = log \o [i \in 1..n |-> prod[p].job]
          /\ IF Role[p] = "api"
             THEN Go(p, IF ok THEN "idle" ELSE "markfailed") /\ UNCHANGED row
             ELSE /\ Go(p, IF ok THEN "committx" ELSE "idle")
                  /\ row' = IF ok THEN row ELSE [row EXCEPT ![prod[p].job] = "absent"]
    BY <1>4 DEF Publish
  <2>3. n >= 1 => SentNow(prod[p].job)
    <3>1. Len(log') = Len(log) + n /\ (n >= 1 => log'[Len(log) + 1] = prod[p].job)
      BY <1>0, <2>1, <2>2, AppendCopies
    <3> QED
      BY <1>0, <3>1
  <2>4. \A j \in Jobs : row'[j] \in Visible => row[j] \in Visible
    BY <1>0, <2>1, <2>2 DEF Visible
  <2>5. /\ \A q \in Producers \ {p} : prod'[q] = prod[q]
        /\ prod'[p].pc = "committx" => n >= 1 /\ prod'[p].job = prod[p].job
    BY <1>0, <2>2 DEF Go, Idle, ProducerState
  <2> HIDE DEF Sent, SentNow
  <2>6. \A j \in Jobs : row'[j] \in Visible /\ creator'[j] \in Worker => SentNow(j)
    BY <1>1, <1>2, <1>4, <2>4 DEF Publish
  <2>7. \A q \in Producers : prod'[q].pc = "committx" => SentNow(prod'[q].job)
    BY <1>1, <1>2, <2>3, <2>5
  <2> QED
    BY <2>6, <2>7
<1> HIDE DEF Sent, SentNow
<1>5. ASSUME NEW p \in Producers, SelectDue(p) \/ EvaluateTier(p) \/ RequestTransition(p)
                                   \/ RequestSync(p) \/ FindActiveJob(p)
      PROVE  Goal
  BY <1>0, <1>1, <1>2, <1>5 DEF SelectDue, EvaluateTier, RequestTransition, RequestSync,
     FindActiveJob, Decide, Go, Idle, ProducerState
<1>6. ASSUME NEW p \in Producers, InsertInTx(p) PROVE Goal
  <2>1. CASE InsertRow(p, "uncommitted", "publish")
    BY <1>0, <1>1, <1>2, <2>1 DEF InsertRow, Visible, ProducerState
  <2>2. CASE Go(p, "idle") /\ UNCHANGED rowVars
    BY <1>0, <1>1, <1>2, <2>2 DEF Go, Idle, ProducerState
  <2> QED
    BY <1>6, <2>1, <2>2 DEF InsertInTx
<1>7. ASSUME NEW p \in Producers, InsertNow(p) PROVE Goal
  BY <1>0, <1>1, <1>2, <1>7 DEF InsertNow, InsertRow, Idle, Visible, ProducerState
<1>8. ASSUME NEW p \in Producers, CommitTx(p) PROVE Goal
  BY <1>0, <1>1, <1>2, <1>8 DEF CommitTx, Go, Idle, Visible, ProducerState
<1>9. ASSUME NEW p \in Producers, MarkFailed(p) \/ ProducerCrash(p) PROVE Goal
  <2>1. Go(p, "idle") /\ UNCHANGED creator
    BY <1>9 DEF MarkFailed, ProducerCrash
  <2>2. \A q \in Producers : prod'[q].pc = "committx" => prod'[q] = prod[q]
    BY <1>0, <2>1 DEF Go, Idle
  <2>3. \A j \in Jobs : row'[j] \in Visible => row[j] \in Visible
    <3>1. CASE MarkFailed(p)
      BY <1>0, <3>1 DEF MarkFailed, update_job_status
    <3>2. CASE ProducerCrash(p)
      BY <1>0, <3>2 DEF ProducerCrash, Visible
    <3> QED
      BY <1>9, <3>1, <3>2
  <2> QED
    BY <1>1, <1>2, <2>1, <2>2, <2>3
<1>10. ASSUME NEW c \in Consumers, ConsumerNext(c) PROVE Goal
  <2>1. UNCHANGED <<prod, creator>>
    BY <1>10 DEF ConsumerNext, Deliver, BeginJob, LoadSource, RunOk, RunErr, FinishJob,
       StatusUpdateError, CommitOffset, Assign, ConsumerCrash, Restart
  <2>2. \A j \in Jobs : row'[j] \in Visible => row[j] \in Visible
    BY <1>0, <1>10 DEF ConsumerNext, Deliver, BeginJob, LoadSource, RunOk, RunErr, FinishJob,
       StatusUpdateError, CommitOffset, Assign, ConsumerCrash, Restart, update_job_status
  <2> QED
    BY <1>1, <1>2, <2>1, <2>2
<1>11. CASE Revoke \/ UNCHANGED vars
  BY <1>1, <1>2, <1>11 DEF Revoke, vars
<1> QED
  BY <1>4, <1>5, <1>6, <1>7, <1>8, <1>9, <1>10, <1>11 DEF Next, ProducerNext

\* The job of a background worker becomes visible only when its message is in
\* the partition, for any number of workers, failed sends and crashes.
THEOREM VisibleJobsArePublished == Spec => []VisibleMeansPublished
<1>1. Init => PublicationInv
  BY DEF Init, PublicationInv, VisibleMeansPublished, SentBeforeCommit, Idle, Visible
<1>2. PublicationInv => VisibleMeansPublished
  BY DEF PublicationInv
<1> QED
  BY <1>1, <1>2, InitType, NextType, NextPublication, PTL DEF Spec

-----------------------------------------------------------------------------
(* Refinement.  Only Publish changes the log, only the two ends of           *)
(* process_message handle an offset, and only CommitOffset commits one, of a *)
(* message that is handled (CommitAfterHandling) and has no unhandled        *)
(* message before it (NoGap).                                                *)

\* Every step of the queue is a step of the abstract log, or a stutter.
LEMMA StepRefines ==
  ASSUME TypeInv, TypeInv', OffsetInv, [Next]_vars
  PROVE  [AtLeastOnce!Next]_(AtLeastOnce!vars)
<1> USE DEF Handled, kafkaVars, histVars, AtLeastOnce!vars
<1>0. Len(log) \in Nat /\ log' \in Seq(Jobs) /\ Len(log') \in Nat
  BY DEF TypeInv, TypeOK
<1>1. ASSUME NEW p \in Producers, ProducerNext(p) PROVE AtLeastOnce!Next
  <2>1. UNCHANGED <<committed, acked, dropped>>
    BY <1>1, ProducersLeaveConsumersAlone
  <2> QED
    BY <1>0, <2>1, LogGrows DEF AtLeastOnce!Next, AtLeastOnce!Produce
<1>2. ASSUME NEW c \in Consumers, FinishJob(c) \/ StatusUpdateError(c) PROVE AtLeastOnce!Next
  <2>1. cons[c].cur \in 1..Len(log)
    BY <1>2, JobOfType DEF FinishJob, StatusUpdateError, Handling
  <2>2. Handled' = Handled \cup {cons[c].cur} /\ UNCHANGED <<log, committed>>
    BY <1>2 DEF FinishJob, StatusUpdateError
  <2> QED
    BY <2>1, <2>2 DEF AtLeastOnce!Next, AtLeastOnce!Handle
<1>3. ASSUME NEW c \in Consumers, CommitOffset(c)
      PROVE  AtLeastOnce!Next \/ UNCHANGED AtLeastOnce!vars
  <2>1. cons[c].cur \in 1..Len(log)
    BY <1>3, JobOfType DEF CommitOffset, Handling
  <2>2. \A i \in 1..cons[c].cur : i \in Handled
    BY <1>0, <1>3, <2>1 DEF CommitOffset, OffsetInv, NoGap, CommitAfterHandling, Handling
  <2>3. UNCHANGED <<log, acked, dropped>> /\ committed' \in {committed, cons[c].cur}
    BY <1>3 DEF CommitOffset
  <2>4. CASE committed' = cons[c].cur
    <3>1. (1..cons[c].cur) \subseteq Handled /\ cons[c].cur \in 0..Len(log)
      BY <1>0, <2>1, <2>2
    <3> QED
      BY <2>3, <2>4, <3>1 DEF AtLeastOnce!Next, AtLeastOnce!Commit
  <2> QED
    BY <2>3, <2>4
<1>4. ASSUME NEW c \in Consumers, ConsumerNext(c), ~FinishJob(c), ~StatusUpdateError(c),
             ~CommitOffset(c)
      PROVE  UNCHANGED AtLeastOnce!vars
  BY <1>4 DEF ConsumerNext, Deliver, BeginJob, LoadSource, RunOk, RunErr, Assign,
     ConsumerCrash, Restart
<1>5. CASE Revoke \/ UNCHANGED vars
  BY <1>5 DEF Revoke, vars
<1> QED
  BY <1>1, <1>2, <1>3, <1>4, <1>5 DEF Next

\* The job queue implements the abstract at-least-once log.
THEOREM QueueRefinesLog == Spec => QueueIsAtLeastOnce
<1>1. Init => TypeInv /\ OffsetInv /\ AtLeastOnce!Init
  BY InitType, InitOffset DEF Init, AtLeastOnce!Init, Handled
<1>2. TypeInv /\ OffsetInv /\ [Next]_vars => TypeInv' /\ OffsetInv'
  BY NextType, NextOffset
<1>3. TypeInv /\ TypeInv' /\ OffsetInv /\ [Next]_vars => [AtLeastOnce!Next]_(AtLeastOnce!vars)
  BY StepRefines
<1> QED
  BY <1>1, <1>2, <1>3, PTL DEF Spec, QueueIsAtLeastOnce, AtLeastOnce!Spec

=============================================================================
