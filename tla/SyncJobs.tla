------------------------------ MODULE SyncJobs ------------------------------
(***************************************************************************)
(* The warehouse job queue of Pond, seen from ONE source.                  *)
(*                                                                         *)
(* Four kinds of producer put jobs for the source in the table             *)
(* warehouse_jobs and on the Kafka topic of sync jobs: the interval        *)
(* scheduler, the storage lifecycle worker, the upgrade/downgrade          *)
(* endpoints and the manual-sync endpoint.  The consumers of one Kafka     *)
(* group take the messages, run the jobs, and record the outcome in the    *)
(* table and the new tier in warehouse_sources.                            *)
(*                                                                         *)
(* Messages are keyed by project, so all jobs of a source are in one Kafka *)
(* partition: "log" is that partition.  A row is "uncommitted" while the   *)
(* transaction that inserted it is open: other sessions neither see nor    *)
(* update it.  What a job does to the data is the subject of               *)
(* WarehouseSync; here a job only succeeds or fails and moves the tier.    *)
(***************************************************************************)
EXTENDS Naturals, Sequences, FiniteSets

CONSTANTS
  Producers,      \* tasks and requests that create jobs
  Role,           \* the kind of each producer
  Consumers,      \* the SyncJobConsumer instances of the group
  MaxJobs,        \* bound: job rows ever created
  NoOwner,        \* the partition is assigned to nobody
  MaxFaults       \* bound: broker, database and process faults together

Roles == {"interval", "lifecycle", "api", "manual"}

ASSUME BoundsAssumption == MaxJobs \in Nat /\ MaxFaults \in Nat
ASSUME RoleAssumption == Role \in [Producers -> Roles]
ASSUME OwnerAssumption == NoOwner \notin Consumers

VARIABLES
  row,        \* warehouse_jobs.status of each job, or "absent"/"uncommitted"
  jtype,      \* warehouse_jobs.job_type, also carried by the message
  creator,    \* history: the role of the producer that inserted the row
  nextJob,    \* the next fresh job id (Uuid::new_v4)
  tier,       \* warehouse_sources.tier
  prod,       \* producers: next statement, job type decided on, job id generated
  log,        \* Kafka: the job ids in the partition, in order
  committed,  \* Kafka: the group's committed offset (messages consumed)
  owner,      \* Kafka: the member the partition is assigned to
  cons,       \* consumers: next step, position in the partition, offset of the
              \* message in hand, tier load_source returned, the result of the job
  acked,      \* history: offsets whose process_message returned Ok
  dropped,    \* history: offsets whose process_message returned Err
  ranOk,      \* history: jobs whose executor returned Ok
  faults      \* faults spent

rowVars  == <<row, jtype, creator, nextJob>>
kafkaVars == <<log, committed, owner>>
histVars == <<acked, dropped, ranOk>>
vars == <<rowVars, tier, prod, kafkaVars, cons, histVars, faults>>

Jobs == 1..MaxJobs
Tiers == {"cold", "warm", "hot"}
JobTypes == {"sync", "upgrade_to_warm", "upgrade_to_hot",
             "downgrade_to_warm", "downgrade_to_cold"}
Visible == {"pending", "running", "completed", "failed"}
RowStates == Visible \cup {"absent", "uncommitted"}

-----------------------------------------------------------------------------
(* Rows of warehouse_jobs as another session sees them. *)

Active(j) == row[j] \in {"pending", "running"}

\* NOT EXISTS (SELECT 1 FROM warehouse_jobs WHERE source_id AND status IN ...)
NoActiveJob == \A j \in Jobs : ~Active(j)

\* The same restricted to one job_type; also what find_active_job looks for.
NoActiveJobOf(ty) == \A j \in Jobs : ~(Active(j) /\ jtype[j] = ty)

\* UPDATE warehouse_jobs SET status = s WHERE id = j: no row, no effect.
update_job_status(j, s) ==
  row' = IF row[j] \in Visible THEN [row EXCEPT ![j] = s] ELSE row

Spend == faults < MaxFaults /\ faults' = faults + 1

-----------------------------------------------------------------------------
(* Producers. *)

\* A producer between two jobs, and its moves: decide on a type, go on, give up.
Idle == [pc |-> "idle", type |-> "sync", job |-> 1]
Decide(p, ty, pc) == prod' = [prod EXCEPT ![p] = [pc |-> pc, type |-> ty, job |-> 1]]
Go(p, pc) == prod' = [prod EXCEPT ![p] = IF pc = "idle" THEN Idle ELSE [@ EXCEPT !.pc = pc]]

\* Bound: a producer starts only what there is a job id left for.
IdsLeft == nextJob + Cardinality({q \in Producers : prod[q].pc \in {"dedup", "insert"}}) <= MaxJobs

\* The next tier on the way from one tier to another, as a job type.
determine_job_type(current, target) ==
  CASE current = "hot"                      -> "downgrade_to_warm"
    [] current = "cold"                     -> "upgrade_to_warm"
    [] current = "warm" /\ target = "cold"  -> "downgrade_to_cold"
    [] OTHER                                -> "upgrade_to_hot"

\* Access-based policies move a source one tier up or down.
Adjacent(t) == IF t = "warm" THEN {"cold", "hot"} ELSE {"warm"}

\* Interval scheduler: the source is selected as due with no active job.
SelectDue(p) ==
  /\ Role[p] = "interval" /\ prod[p].pc = "idle" /\ IdsLeft
  /\ tier \in {"warm", "hot"}
  /\ NoActiveJob
  /\ Decide(p, "sync", "insert")
  /\ UNCHANGED <<rowVars, tier, kafkaVars, cons, histVars, faults>>

\* Lifecycle worker: the tier read by find_access_based_sources and the
\* query count decide on a transition.
EvaluateTier(p) ==
  /\ Role[p] = "lifecycle" /\ prod[p].pc = "idle" /\ IdsLeft
  /\ \E target \in Adjacent(tier) :
       Decide(p, determine_job_type(tier, target), "insert")
  /\ UNCHANGED <<rowVars, tier, kafkaVars, cons, histVars, faults>>

\* The job types the upgrade and downgrade endpoints accept in a tier.
AcceptedIn(t) ==
  CASE t = "cold" -> {"upgrade_to_warm", "upgrade_to_hot"}
    [] t = "warm" -> {"upgrade_to_hot", "downgrade_to_cold"}
    [] OTHER      -> {"downgrade_to_warm", "downgrade_to_cold"}

\* Upgrade and downgrade endpoints: validate against the current tier.
RequestTransition(p) ==
  /\ Role[p] = "api" /\ prod[p].pc = "idle" /\ IdsLeft
  /\ \E ty \in AcceptedIn(tier) :
       Decide(p, ty, IF ty \in {"upgrade_to_warm", "upgrade_to_hot"}
                     THEN "dedup" ELSE "insert")
  /\ UNCHANGED <<rowVars, tier, kafkaVars, cons, histVars, faults>>

\* Manual sync endpoint: any tier will do.
RequestSync(p) ==
  /\ Role[p] = "manual" /\ prod[p].pc = "idle" /\ IdsLeft
  /\ Decide(p, "sync", "dedup")
  /\ UNCHANGED <<rowVars, tier, kafkaVars, cons, histVars, faults>>

\* The endpoints' find_active_job: an existing job is the whole answer.
FindActiveJob(p) ==
  /\ prod[p].pc = "dedup"
  /\ Go(p, IF NoActiveJobOf(prod[p].type) THEN "insert" ELSE "idle")
  /\ UNCHANGED <<rowVars, tier, kafkaVars, cons, histVars, faults>>

\* A fresh job row in state s; the producer goes on at pc with its id.
InsertRow(p, s, pc) ==
  /\ nextJob <= MaxJobs
  /\ row' = [row EXCEPT ![nextJob] = s]
  /\ jtype' = [jtype EXCEPT ![nextJob] = prod[p].type]
  /\ creator' = [creator EXCEPT ![nextJob] = Role[p]]
  /\ prod' = [prod EXCEPT ![p] = IF pc = "idle" THEN Idle
                                 ELSE [pc |-> pc, type |-> @.type, job |-> nextJob]]
  /\ nextJob' = nextJob + 1

\* Mutant: the row is autocommitted, visible before the message is sent.
InsertInTxVisible(p) ==
  /\ Role[p] \in {"interval", "lifecycle"} /\ prod[p].pc = "insert"
  /\ NoActiveJobOf(prod[p].type)
  /\ InsertRow(p, "pending", "publish")
  /\ UNCHANGED <<tier, kafkaVars, cons, histVars, faults>>

\* Workers: INSERT ... WHERE NOT EXISTS in a transaction left open until the
\* message is sent; the scheduler excludes any active job, the lifecycle
\* worker one of the same type; zero rows inserted end the attempt.
InsertInTx(p) ==
  /\ Role[p] \in {"interval", "lifecycle"} /\ prod[p].pc = "insert"
  /\ LET free == IF Role[p] = "interval" THEN NoActiveJob
                                         ELSE NoActiveJobOf(prod[p].type)
     IN  \/ free /\ InsertRow(p, "uncommitted", "publish")
         \/ ~free /\ Go(p, "idle") /\ UNCHANGED rowVars
  /\ UNCHANGED <<tier, kafkaVars, cons, histVars, faults>>

\* Endpoints: a plain autocommitted INSERT.  The manual endpoint answers the
\* caller at once; it publishes nothing.
InsertNow(p) ==
  /\ Role[p] \in {"api", "manual"} /\ prod[p].pc = "insert"
  /\ InsertRow(p, "pending", IF Role[p] = "api" THEN "publish" ELSE "idle")
  /\ UNCHANGED <<tier, kafkaVars, cons, histVars, faults>>

\* send_sync_job: n copies reach the partition and the call returns Ok or Err.
\* A timed-out send may have been appended, a retried one appended twice (the
\* producer is not idempotent).
Publish(p) ==
  /\ prod[p].pc = "publish"
  /\ \E n \in 0..2, ok \in BOOLEAN :
       /\ IF ok THEN n >= 1 ELSE n <= 1
       /\ IF ok /\ n = 1 THEN UNCHANGED faults ELSE Spend
       /\ log' = log \o [i \in 1..n |-> prod[p].job]
       /\ IF Role[p] = "api"
          THEN Go(p, IF ok THEN "idle" ELSE "markfailed") /\ UNCHANGED row
          ELSE /\ Go(p, IF ok THEN "committx" ELSE "idle")
               /\ row' = IF ok THEN row ELSE [row EXCEPT ![prod[p].job] = "absent"]
  /\ UNCHANGED <<jtype, creator, nextJob, tier, committed, owner, cons, histVars>>

\* Workers: COMMIT; after an error the row may or may not be there.
CommitTx(p) ==
  /\ prod[p].pc = "committx"
  /\ \E applied \in BOOLEAN :
       /\ row' = [row EXCEPT ![prod[p].job] = IF applied THEN "pending" ELSE "absent"]
       /\ \/ applied /\ UNCHANGED faults
          \/ Spend
  /\ Go(p, "idle")
  /\ UNCHANGED <<jtype, creator, nextJob, tier, kafkaVars, cons, histVars>>

\* Endpoints after a failed send: mark the row failed, ignoring an error.
MarkFailed(p) ==
  /\ prod[p].pc = "markfailed"
  /\ \/ update_job_status(prod[p].job, "failed") /\ UNCHANGED faults
     \/ Spend /\ UNCHANGED row
  /\ Go(p, "idle")
  /\ UNCHANGED <<jtype, creator, nextJob, tier, kafkaVars, cons, histVars>>

\* The process dies, or a statement before the message fails: the attempt ends
\* and an open transaction is rolled back.
ProducerCrash(p) ==
  /\ prod[p].pc # "idle"
  /\ Spend
  /\ Go(p, "idle")
  /\ row' = IF prod[p].pc \in {"publish", "committx"} /\ row[prod[p].job] = "uncommitted"
            THEN [row EXCEPT ![prod[p].job] = "absent"] ELSE row
  /\ UNCHANGED <<jtype, creator, nextJob, tier, kafkaVars, cons, histVars>>

-----------------------------------------------------------------------------
(* Consumers: SyncJobConsumer::run and process_message. *)

Step(c, pc) == cons' = [cons EXCEPT ![c].pc = pc]

Fresh(pc, pos, cur) == [pc |-> pc, pos |-> pos, cur |-> cur, seen |-> "cold", res |-> "err"]

\* Take the next message; back to the stream (or dead), the message forgotten.
Take(c) == cons' = [cons EXCEPT ![c] = Fresh("start", @.pos + 1, @.pos + 1)]
Leave(c, pc) == cons' = [cons EXCEPT ![c] = Fresh(pc, @.pos, 0)]
Handling == {"start", "load", "exec", "finish", "commit"}
JobOf(c) == log[cons[c].cur]

\* Mutant: enable.auto.commit, the offset is committed when the message is
\* handed over.
DeliverAutoCommit(c) ==
  /\ cons[c].pc = "poll" /\ owner = c /\ cons[c].pos < Len(log)
  /\ Take(c)
  /\ committed' = cons[c].pos + 1
  /\ UNCHANGED <<rowVars, tier, prod, log, owner, histVars, faults>>

\* The stream yields the next message to the member that owns the partition.
Deliver(c) ==
  /\ cons[c].pc = "poll" /\ owner = c /\ cons[c].pos < Len(log)
  /\ Take(c)
  /\ UNCHANGED <<rowVars, tier, prod, kafkaVars, histVars, faults>>

\* status = running.
BeginJob(c) ==
  /\ cons[c].pc = "start"
  /\ update_job_status(JobOf(c), "running")
  /\ Step(c, "load")
  /\ UNCHANGED <<jtype, creator, nextJob, tier, prod, kafkaVars, histVars, faults>>

\* load_source: the tier the executor decides by.
LoadSource(c) ==
  /\ cons[c].pc = "load"
  /\ cons' = [cons EXCEPT ![c].pc = "exec", ![c].seen = tier]
  /\ UNCHANGED <<rowVars, tier, prod, kafkaVars, histVars, faults>>

\* The tier a successful job of type ty writes, having read tier t.
TierAfter(ty, t) ==
  CASE ty = "upgrade_to_warm"                  -> "warm"
    [] ty = "upgrade_to_hot"                   -> "hot"
    [] ty = "downgrade_to_warm" /\ t = "hot"   -> "warm"
    [] ty = "downgrade_to_cold"                -> "cold"
    [] OTHER                                   -> tier

\* A sync of a cold source is refused; anything else may succeed.
RunOk(c) ==
  /\ cons[c].pc = "exec"
  /\ ~(jtype[JobOf(c)] = "sync" /\ cons[c].seen = "cold")
  /\ tier' = TierAfter(jtype[JobOf(c)], cons[c].seen)
  /\ ranOk' = ranOk \cup {JobOf(c)}
  /\ cons' = [cons EXCEPT ![c].pc = "finish", ![c].res = "ok"]
  /\ UNCHANGED <<rowVars, prod, kafkaVars, acked, dropped, faults>>

\* The executor returns an error; the tier is written last, so it is kept.
RunErr(c) ==
  /\ cons[c].pc = "exec"
  /\ cons' = [cons EXCEPT ![c].pc = "finish", ![c].res = "err"]
  /\ UNCHANGED <<rowVars, tier, prod, kafkaVars, histVars, faults>>

\* Mutants: the result is not looked at; an error leaves the status alone.
FinishJobAlwaysCompleted(c) ==
  /\ cons[c].pc = "finish"
  /\ update_job_status(JobOf(c), "completed")
  /\ acked' = acked \cup {cons[c].cur}
  /\ Step(c, "commit")
  /\ UNCHANGED <<jtype, creator, nextJob, tier, prod, kafkaVars, dropped, ranOk, faults>>

FinishJobSilentError(c) ==
  /\ cons[c].pc = "finish"
  /\ IF cons[c].res = "ok" THEN update_job_status(JobOf(c), "completed") ELSE UNCHANGED row
  /\ acked' = acked \cup {cons[c].cur}
  /\ Step(c, "commit")
  /\ UNCHANGED <<jtype, creator, nextJob, tier, prod, kafkaVars, dropped, ranOk, faults>>

\* status = completed or failed; process_message returns Ok.
FinishJob(c) ==
  /\ cons[c].pc = "finish"
  /\ update_job_status(JobOf(c), IF cons[c].res = "ok" THEN "completed" ELSE "failed")
  /\ acked' = acked \cup {cons[c].cur}
  /\ Step(c, "commit")
  /\ UNCHANGED <<jtype, creator, nextJob, tier, prod, kafkaVars, dropped, ranOk, faults>>

\* A status update fails, perhaps after it took effect: process_message
\* returns Err; run() logs it, commits nothing, and takes the next message.
StatusUpdateError(c) ==
  /\ cons[c].pc \in {"start", "finish"}
  /\ Spend
  /\ \/ UNCHANGED row
     \/ update_job_status(JobOf(c), IF cons[c].pc = "start" THEN "running"
                                    ELSE IF cons[c].res = "ok" THEN "completed" ELSE "failed")
  /\ dropped' = dropped \cup {cons[c].cur}
  /\ Leave(c, "poll")
  /\ UNCHANGED <<jtype, creator, nextJob, tier, prod, kafkaVars, acked, ranOk>>

\* commit_message(Async): the broker accepts it from the current owner only,
\* and it may be lost; either way run() goes on.
CommitOffset(c) ==
  /\ cons[c].pc = "commit"
  /\ \/ owner = c /\ committed' = cons[c].cur /\ UNCHANGED faults
     \/ owner # c /\ UNCHANGED <<committed, faults>>
     \/ owner = c /\ UNCHANGED committed /\ Spend
  /\ Leave(c, "poll")
  /\ UNCHANGED <<rowVars, tier, prod, log, owner, histVars>>

\* Mutants: one past the committed message; auto.offset.reset = latest.
AssignedPositionPlusOne == committed + 1
AssignedPositionLatest == Len(log)

\* The member's position when the partition is assigned to it
\* (auto.offset.reset = earliest: 0 when nothing was committed).
AssignedPosition == committed

\* The group gives the partition to a live member, because the owner is gone ...
Assign(d) ==
  /\ owner = NoOwner /\ cons[d].pc # "down"
  /\ owner' = d
  /\ cons' = [cons EXCEPT ![d].pos = AssignedPosition]
  /\ UNCHANGED <<rowVars, tier, prod, log, committed, histVars, faults>>

\* ... or because it was thought gone (session or poll timeout): it carries on
\* with the message in hand.
Revoke ==
  /\ owner # NoOwner
  /\ Spend
  /\ owner' = NoOwner
  /\ UNCHANGED <<rowVars, tier, prod, log, committed, cons, histVars>>

ConsumerCrash(c) ==
  /\ cons[c].pc # "down"
  /\ Spend
  /\ Leave(c, "down")
  /\ owner' = IF owner = c THEN NoOwner ELSE owner
  /\ UNCHANGED <<rowVars, tier, prod, log, committed, histVars>>

Restart(c) ==
  /\ cons[c].pc = "down"
  /\ Leave(c, "poll")
  /\ UNCHANGED <<rowVars, tier, prod, kafkaVars, histVars, faults>>

-----------------------------------------------------------------------------
Init ==
  /\ row = [j \in Jobs |-> "absent"]
  /\ jtype = [j \in Jobs |-> "sync"]
  /\ creator = [j \in Jobs |-> "api"]
  /\ nextJob = 1
  /\ tier \in Tiers
  /\ prod = [p \in Producers |-> Idle]
  /\ log = << >> /\ committed = 0 /\ owner = NoOwner
  /\ cons = [c \in Consumers |-> Fresh("poll", 0, 0)]
  /\ acked = {} /\ dropped = {} /\ ranOk = {}
  /\ faults = 0

ProducerNext(p) ==
  \/ SelectDue(p) \/ EvaluateTier(p) \/ RequestTransition(p) \/ RequestSync(p)
  \/ FindActiveJob(p) \/ InsertInTx(p) \/ InsertNow(p)
  \/ Publish(p) \/ CommitTx(p) \/ MarkFailed(p) \/ ProducerCrash(p)

ConsumerNext(c) ==
  \/ Deliver(c) \/ BeginJob(c) \/ LoadSource(c) \/ RunOk(c) \/ RunErr(c)
  \/ FinishJob(c) \/ StatusUpdateError(c) \/ CommitOffset(c)
  \/ Assign(c) \/ ConsumerCrash(c) \/ Restart(c)

Next ==
  \/ \E p \in Producers : ProducerNext(p)
  \/ \E c \in Consumers : ConsumerNext(c)
  \/ Revoke

Spec == Init /\ [][Next]_vars

-----------------------------------------------------------------------------
(* Fairness.  A task that is running executes its next statement, a dead    *)
(* process is restarted by the orchestrator, and the group coordinator      *)
(* assigns a partition nobody owns.  Nothing obliges a producer to start,   *)
(* a job to succeed, or a fault to occur.                                   *)

ConsumerStep(c) ==
  \/ Deliver(c) \/ BeginJob(c) \/ LoadSource(c) \/ RunOk(c) \/ RunErr(c)
  \/ FinishJob(c) \/ CommitOffset(c) \/ Restart(c)

ProducerStep(p) ==
  FindActiveJob(p) \/ InsertInTx(p) \/ InsertNow(p) \/ Publish(p) \/ CommitTx(p) \/ MarkFailed(p)

Fairness ==
  /\ \A p \in Producers : WF_vars(ProducerStep(p))
  /\ \A c \in Consumers : WF_vars(ConsumerStep(c))
  /\ WF_vars(\E c \in Consumers : Assign(c))

FairSpec == Spec /\ Fairness

-----------------------------------------------------------------------------
(* Properties. *)

Handled == acked \cup dropped

ProducerState ==
  [pc : {"idle", "dedup", "insert", "publish", "committx", "markfailed"},
   type : JobTypes, job : Nat \ {0}]

\* The local state of a consumer when the partition has n messages.
ConsumerState(n) ==
  [pc : Handling \cup {"down", "poll"}, pos : 0..n, cur : 0..n, seen : Tiers, res : {"ok", "err"}]

\* Every variable keeps to its domain.
TypeOK ==
  /\ row \in [Jobs -> RowStates]
  /\ jtype \in [Jobs -> JobTypes]
  /\ creator \in [Jobs -> Roles]
  /\ nextJob \in 1..(MaxJobs + 1)
  /\ tier \in Tiers
  /\ prod \in [Producers -> ProducerState]
  /\ log \in Seq(Jobs)
  /\ committed \in 0..Len(log)
  /\ owner \in Consumers \cup {NoOwner}
  /\ cons \in [Consumers -> ConsumerState(Len(log))]
  /\ acked \subseteq 1..Len(log)
  /\ dropped \subseteq 1..Len(log)
  /\ ranOk \subseteq Jobs
  /\ faults \in 0..MaxFaults

\* Committing the offset of the message in hand is cumulative, yet it never
\* skips a message nobody has processed: whatever crashes, revocations and
\* stale owners occur, every message below the committed offset was taken
\* through process_message to its end (run, sync_job_consumer.rs).
CommittedMeansHandled == \A i \in 1..committed : i \in Handled

\* A job the table shows as completed really was run to an Ok result, under
\* redelivery, duplicated messages and two consumers on the same job
\* (process_message, sync_job_consumer.rs).
CompletedMeansDone == \A j \in Jobs : row[j] = "completed" => j \in ranOk

\* The job of a background worker is visible to other sessions only if its
\* message is in the partition, so no row waits for a message that was never
\* sent (publish before COMMIT in scheduler.rs and lifecycle_worker.rs).
VisibleMeansPublished ==
  \A j \in Jobs :
    row[j] \in Visible /\ creator[j] \in {"interval", "lifecycle"}
      => \E i \in 1..Len(log) : log[i] = j

\* The queue implements the abstract log of AtLeastOnceLog, "handled" being
\* the offsets taken through process_message to its end: offsets are committed
\* only over handled messages, through crashes, rebalances, lost commits and
\* commits of a former owner (run, sync_job_consumer.rs).
AtLeastOnce == INSTANCE AtLeastOnceLog WITH Message <- Jobs, handled <- Handled
QueueIsAtLeastOnce == AtLeastOnce!Spec

\* Every message in the partition is eventually taken through
\* process_message (earliest offset reset, manual commit after processing).
EveryMessageHandled ==
  \A i \in 1..(2 * MaxJobs) : (i <= Len(log)) ~> (i \in Handled)

\* A job whose row is visible and active while one of its messages has yet to
\* be processed ends as completed or failed, unless a status update was lost
\* to a database error (process_message).  The exception it leaves is the
\* worker's job that was overtaken: published before COMMIT, every message of
\* it processed before the row became visible.  Its updates matched no row,
\* and the row then stays pending with nothing left to run it.
PublishedJobSettles ==
  \A j \in Jobs :
    (Active(j) /\ \E i \in 1..Len(log) \ Handled : log[i] = j)
      ~> \/ row[j] \in {"completed", "failed"}
         \/ \E i \in dropped : log[i] = j

\* pond/README.md: all triggers create a job record and publish to Kafka, and
\* the manual trigger is an immediate sync: a pending sync gets to run.
ManualSyncRuns ==
  \A j \in Jobs : (row[j] = "pending" /\ jtype[j] = "sync") ~> (row[j] # "pending")

\* sync_job_consumer.rs: the offset is not committed on failure so that the
\* message can be delivered again: no committed offset covers a failure.
FailedOffsetNotCommitted == \A i \in 1..committed : i \in acked

=============================================================================
