------------------------ MODULE WarehouseSync_proofs ------------------------
(***************************************************************************)
(* What the jobs of one source keep true of its metadata and its objects,  *)
(* for any number of tables, versions, consumers, jobs and faults.         *)
(*                                                                         *)
(* The first part proves the type invariant of all job types.  The second  *)
(* proves, for a single consumer, that a downgrade to warm drops only what *)
(* R2 has: an object replaced by an export is of the table exported, so an *)
(* export never takes away the rows of another table.                      *)
(***************************************************************************)
EXTENDS WarehouseSync, FiniteSetTheorems, WellFoundedInduction, TLAPS

-----------------------------------------------------------------------------
(* Least and greatest elements. *)

\* A non-empty set of natural numbers has its least element as Min.
LEMMA MinOfNat ==
  ASSUME NEW S \in SUBSET Nat, S # {}
  PROVE  Min(S) \in S /\ \A y \in S : Min(S) <= y
<1> DEFINE R == {ss \in Nat \X Nat : ss[1] < ss[2]}
<1>1. IsWellFoundedOn(R, Nat)
  BY NatLessThanWellFounded DEF OpToRel
<1> HIDE DEF R
<1>2. PICK x \in S : \A y \in S : ~(<<y, x>> \in R)
  BY <1>1, WFMin
<1>3. \A y \in S : ~(y < x)
  BY <1>2 DEF R
<1>4. \A y \in S : x <= y
  BY <1>3
<1> QED
  BY <1>4 DEF Min

\* A non-empty set of versions has its greatest element as Max.
LEMMA MaxOfVersions ==
  ASSUME NEW S \in SUBSET Versions, S # {}
  PROVE  Max(S) \in S /\ \A y \in S : y <= Max(S)
<1> DEFINE D == {n \in Nat : \E x \in S : n = MaxRow - x}
<1>0. MaxRow \in Nat /\ \A x \in S : x \in Int /\ 1 <= x /\ x <= MaxRow
  BY ConstantsAssumption DEF Versions
<1>1. D # {}
  <2>1. PICK x \in S : TRUE
    OBVIOUS
  <2>2. MaxRow - x \in Nat
    BY <1>0
  <2> QED
    BY <2>2
<1>2. Min(D) \in D /\ \A y \in D : Min(D) <= y
  <2>1. D \in SUBSET Nat
    OBVIOUS
  <2> HIDE DEF D
  <2> QED
    BY <1>1, <2>1, MinOfNat
<1>3. PICK x \in S : Min(D) = MaxRow - x
  BY <1>2
<1>4. ASSUME NEW y \in S PROVE y <= x
  <2>1. MaxRow - y \in D
    BY <1>0
  <2>2. MaxRow - x <= MaxRow - y
    BY <1>2, <1>3, <2>1
  <2> QED
    BY <1>0, <2>2
<1>5. \A y \in S : x >= y
  BY <1>4, <1>0
<1>6. Max(S) \in S /\ \A y \in S : Max(S) >= y
  <2> HIDE DEF D
  <2> QED
    BY <1>5 DEF Max
<1> QED
  BY <1>6, <1>0

-----------------------------------------------------------------------------
(* The type invariant. *)

\* The steps of a sync that hold rows of a table.
Writing == {"getpart", "upload", "addrec", "updpart", "listfiles", "merge", "swap", "delold",
            "stage", "insert"}

\* What a consumer's local state x keeps to, when the jobs below n are issued
\* and the identifiers below f are used.
WorkerInv(x, n, f) ==
  /\ x \in Workers
  /\ x.job < n /\ x.pid < f /\ x.fid < f
  /\ x.pc # "idle" => x.job # 0
  /\ x.pc \in Writing =>
       /\ x.ti \in Tables
       /\ x.new # {} /\ x.new \subseteq Versions
       /\ x.days # {} /\ x.days \subseteq {DateOf[k] : k \in x.new}
  /\ x.pc \in Writing \cup {"cleanup", "fetch"} => x.todo = {}
  /\ x.pc = "commitstg" => x.done \ x.todo # {}
  /\ x.pc \in {"export", "exprec"} => x.todo # {} /\ x.todo \subseteq Tables

\* Partition rows.
PartInv(ps, f) ==
  /\ ps \subseteq PartitionRows
  /\ \A p \in ps : p.id < f /\ (p.state = "pending" => p.job # 0)
  /\ \A p \in ps : \A q \in ps : p.t = q.t /\ p.d = q.d => p = q

\* File records, each with its partition.
RecInv(rs, ps, f) ==
  /\ rs \subseteq FileRows
  /\ \A r \in rs : r.file < f /\ \E p \in ps : p.id = r.part

ObjectInv(os, f) == os \subseteq Objects /\ \A o \in os : o.key < f

DataInv ==
  /\ src \in [Tables -> 0..MaxRow] /\ cp \in [Tables -> 0..MaxRow] /\ tier \in Tiers
  /\ ch \in [Tables -> ClickHouseTables] /\ stg \in [Tables -> ClickHouseTables]
  /\ job \in [Jobs -> {"none", "running", "completed", "failed"}] /\ kind \in [Jobs -> Kinds]
  /\ nextJob \in 1..(MaxJobs + 1) /\ fresh \in Nat /\ faults \in 0..MaxFaults

WorkersInv ==
  /\ w \in [Consumers -> Workers]
  /\ \A c \in Consumers : WorkerInv(w[c], nextJob, fresh)

TypeInv ==
  /\ DataInv /\ WorkersInv
  /\ PartInv(part, fresh) /\ RecInv(recs, part, fresh) /\ ObjectInv(r2, fresh)

\* The type invariant in the terms of the specification.
LEMMA TypeInvImpliesTypeOK ==
  ASSUME TypeInv
  PROVE  TypeOK
<1>1. \A p \in part : PartAt(p.t, p.d) = {p}
  BY DEF TypeInv, PartInv, PartAt
<1>2. \A r \in recs : PartId(r.part) # {}
  BY DEF TypeInv, RecInv, PartId
<1>3. w \in [Consumers -> Workers]
      /\ \A c \in Consumers : w[c].job < nextJob /\ w[c].pid < fresh /\ w[c].fid < fresh
  BY DEF TypeInv, WorkersInv, WorkerInv
<1> QED
  BY <1>1, <1>2, <1>3 DEF TypeInv, DataInv, PartInv, RecInv, ObjectInv, TypeOK

\* Facts about the constants.
LEMMA Constants ==
  /\ NTables \in Nat /\ 1 \in Tables /\ MaxRow \in Nat /\ MaxJobs \in Nat /\ Today \in Nat
  /\ \A k \in Versions : DateOf[k] \in Nat
BY ConstantsAssumption DEF Tables, Versions

\* A consumer's state stays good when jobs are issued and identifiers used.
LEMMA WorkerMonotone ==
  ASSUME NEW x, NEW n \in Nat, NEW m \in Nat, NEW f \in Nat, NEW g \in Nat,
         n <= m, f <= g, WorkerInv(x, n, f)
  PROVE  WorkerInv(x, m, g)
BY Constants DEF WorkerInv, Workers

\* A step of c gives c a good state and leaves the other consumers alone.
LEMMA MoveWorker ==
  ASSUME TypeInv, NEW c \in Consumers, NEW x, Set(c, x), WorkerInv(x, nextJob', fresh'),
         nextJob' \in Nat, fresh' \in Nat, nextJob <= nextJob', fresh <= fresh'
  PROVE  WorkersInv'
<1>1. x \in Workers
  BY DEF WorkerInv
<1>2. w' \in [Consumers -> Workers]
  BY <1>1 DEF TypeInv, WorkersInv, Set
<1>3. ASSUME NEW d \in Consumers PROVE WorkerInv(w'[d], nextJob', fresh')
  <2>1. CASE d = c
    BY <2>1 DEF TypeInv, WorkersInv, Set
  <2>2. CASE d # c
    <3>1. w'[d] = w[d]
      BY <2>2 DEF TypeInv, WorkersInv, Set
    <3>2. WorkerInv(w[d], nextJob, fresh) /\ nextJob \in Nat /\ fresh \in Nat
      BY Constants DEF TypeInv, WorkersInv, DataInv
    <3> QED
      BY <3>1, <3>2, WorkerMonotone
  <2> QED
    BY <2>1, <2>2
<1> QED
  BY <1>2, <1>3 DEF WorkersInv

\* The same when no job is issued and no identifier used.
LEMMA MoveWorkerOnly ==
  ASSUME TypeInv, NEW c \in Consumers, NEW x, Set(c, x), WorkerInv(x, nextJob, fresh),
         UNCHANGED <<nextJob, fresh>>
  PROVE  WorkersInv'
<1>1. nextJob \in Nat /\ fresh \in Nat /\ nextJob' = nextJob /\ fresh' = fresh
  BY Constants DEF TypeInv, DataInv
<1> QED
  BY <1>1, MoveWorker

\* A consumer between two jobs.
LEMMA IdleIsGood ==
  ASSUME NEW n \in Nat, NEW f \in Nat, 0 < n, 0 < f
  PROVE  WorkerInv(IdleWorker, n, f)
BY Constants DEF WorkerInv, IdleWorker, Workers, Pcs, Tiers, Tables, Writing

\* A consumer in the loop over the tables, whatever rows it holds.
InLoop(x, n, f) == x \in Workers /\ x.job < n /\ x.job # 0 /\ x.pid < f /\ x.fid < f /\ x.todo = {}

\* The step after the loop over the tables.
LEMMA AfterTablesGood ==
  ASSUME NEW x, NEW n \in Nat, NEW f \in Nat, InLoop(x, n, f)
  PROVE  WorkerInv(AfterTables(x), n, f)
<1>1. AfterTables(x) \in {[x EXCEPT !.pc = "commitstg"], [x EXCEPT !.pc = "rollback"],
                          [x EXCEPT !.pc = "savecp"]}
      /\ (AfterTables(x) = [x EXCEPT !.pc = "commitstg"] => x.done # {} \/ x.pc = "commitstg")
  BY DEF AfterTables, InLoop, Workers
<1>2. CASE AfterTables(x) = [x EXCEPT !.pc = "rollback"] \/ AfterTables(x) = [x EXCEPT !.pc = "savecp"]
  BY <1>2 DEF WorkerInv, InLoop, Workers, Pcs, Writing
<1>3. CASE x.done # {} /\ AfterTables(x) = [x EXCEPT !.pc = "commitstg"]
  BY <1>3 DEF WorkerInv, InLoop, Workers, Pcs, Writing
<1>4. AfterTables(x) = [x EXCEPT !.pc = "commitstg"] => x.done # {}
  BY DEF AfterTables, InLoop, Workers
<1> QED
  BY <1>1, <1>2, <1>3, <1>4

\* An error in the loop.
LEMMA SyncFailedGood ==
  ASSUME NEW x, NEW n \in Nat, NEW f \in Nat, InLoop(x, n, f), 0 < f
  PROVE  WorkerInv(SyncFailed(x), n, f)
<1> DEFINE y == [x EXCEPT !.err = TRUE, !.new = {}, !.days = {}, !.olds = {}, !.pid = 0, !.fid = 0]
<1>1. InLoop(y, n, f)
  BY DEF InLoop, Workers
<1>2. SyncFailed(x) = AfterTables(y)
  BY DEF SyncFailed
<1> HIDE DEF y
<1> QED
  BY <1>1, <1>2, AfterTablesGood

\* The end of a table.
LEMMA TableDoneGood ==
  ASSUME NEW x, NEW n \in Nat, NEW f \in Nat, InLoop(x, n, f), 0 < f,
         x.new # {}, x.new \subseteq Versions, x.ti \in Tables
  PROVE  WorkerInv(TableDone(x), n, f)
<1>1. Max(x.new) \in Versions
  BY MaxOfVersions
<1>2. Max(x.new) \in 0..MaxRow
  BY <1>1, Constants DEF Versions
<1>3. x.ti + 1 \in 1..(NTables + 1)
  BY Constants DEF Tables
<1>4. [x.mcp EXCEPT ![x.ti] = Max(x.new)] \in [Tables -> 0..MaxRow]
  BY <1>2 DEF InLoop, Workers
<1> DEFINE m == [x.mcp EXCEPT ![x.ti] = Max(x.new)]
           i == x.ti + 1
           y == [x EXCEPT !.pc = "fetch", !.mcp = m, !.ti = i,
                          !.new = {}, !.days = {}, !.olds = {}, !.pid = 0, !.fid = 0]
<1>5. TableDone(x) = y
  BY DEF TableDone, InLoop, Workers
<1> HIDE DEF m, i
<1>6. WorkerInv(y, n, f)
  BY <1>3, <1>4 DEF WorkerInv, InLoop, Workers, Pcs, Writing, m, i
<1> QED
  BY <1>5, <1>6

\* A consumer that writes, or is about to fetch, is in the loop.
LEMMA WritingIsInLoop ==
  ASSUME TypeInv, NEW c \in Consumers, w[c].pc \in Writing \cup {"fetch"}
  PROVE  InLoop(w[c], nextJob, fresh)
BY DEF TypeInv, WorkersInv, WorkerInv, InLoop, Writing

\* Faults spent.
LEMMA FaultsBounded ==
  ASSUME TypeInv, Spend \/ UNCHANGED faults
  PROVE  faults' \in 0..MaxFaults
BY ConstantsAssumption DEF TypeInv, DataInv, Spend

\* Jobs and identifiers are numbers.
LEMMA Counters ==
  ASSUME TypeInv
  PROVE  nextJob \in Nat /\ fresh \in Nat /\ 0 < nextJob /\ \A c \in Consumers : 0 < fresh
BY Constants DEF TypeInv, DataInv, WorkersInv, WorkerInv, Workers

\* A step that changes no table of the databases and no object.
LEMMA QuietStep ==
  ASSUME TypeInv, WorkersInv', Spend \/ UNCHANGED faults,
         UNCHANGED <<src, tier, meta, r2, clickhouse, job, kind, nextJob, fresh>>
  PROVE  TypeInv'
<1>1. faults' \in 0..MaxFaults
  BY FaultsBounded
<1> QED
  BY <1>1 DEF TypeInv, DataInv, meta, clickhouse, PartInv, RecInv, ObjectInv

-----------------------------------------------------------------------------
(* Jobs. *)

\* The source changes.
LEMMA SourceChangeType ==
  ASSUME TypeInv, NEW t \in Tables, SourceChange(t)
  PROVE  TypeInv'
<1>1. src' \in [Tables -> 0..MaxRow]
  BY Constants DEF SourceChange, TypeInv, DataInv
<1>2. WorkersInv'
  BY DEF SourceChange, TypeInv, WorkersInv, queue
<1> QED
  BY <1>1, <1>2 DEF SourceChange, TypeInv, DataInv, meta, clickhouse, queue, PartInv, RecInv, ObjectInv

\* The state process_message starts a job in.
LEMMA FirstStepGood ==
  ASSUME TypeInv, NEW j \in Jobs, NEW k \in Kinds, NEW n \in Nat, NEW f \in Nat, j < n, 0 < f
  PROVE  WorkerInv(FirstStep(j, k), n, f)
<1>0. j \in Nat /\ j # 0 /\ tier \in Tiers
  BY Constants DEF Jobs, TypeInv, DataInv
<1>a. IdleWorker \in Workers /\ IdleWorker.todo = {} /\ IdleWorker.pid = 0 /\ IdleWorker.fid = 0
  BY IdleIsGood DEF WorkerInv, IdleWorker
<1>1. ASSUME NEW p \in {"cleanup", "finish", "list", "listch", "purgech", "purger2"},
             NEW t \in Tiers
      PROVE  WorkerInv(Begin(j, p, t), n, f) /\ WorkerInv([Begin(j, p, t) EXCEPT !.err = TRUE], n, f)
  <2>1. p \in Pcs /\ j \in 0..MaxJobs /\ p \notin Writing
        /\ p \notin {"idle", "commitstg", "export", "exprec"}
    BY <1>0 DEF Pcs, Writing, Jobs
  <2> DEFINE x == Begin(j, p, t)
  <2>2. x \in Workers /\ x.pc = p /\ x.job = j /\ x.todo = {} /\ x.pid = 0 /\ x.fid = 0
    BY <1>a, <2>1 DEF Begin, Workers
  <2> HIDE DEF x
  <2> DEFINE y == [x EXCEPT !.err = TRUE]
  <2>3. y \in Workers /\ y.pc = p /\ y.job = j /\ y.todo = {} /\ y.pid = 0 /\ y.fid = 0
    BY <2>2 DEF Workers
  <2> HIDE DEF y
  <2>4. WorkerInv(x, n, f) /\ WorkerInv(y, n, f)
    BY <1>0, <2>1, <2>2, <2>3 DEF WorkerInv
  <2> QED
    BY <2>4 DEF x, y
<1> QED
  BY <1>0, <1>1 DEF FirstStep, Tiers, Kinds

\* A job starts.
LEMMA StartJobType ==
  ASSUME TypeInv, NEW c \in Consumers, NEW j \in Jobs, NEW k \in Kinds, StartJob(c, j, k),
         nextJob' \in 1..(MaxJobs + 1), nextJob <= nextJob', j < nextJob',
         kind' \in [Jobs -> Kinds], Spend \/ UNCHANGED faults
  PROVE  TypeInv'
<1>0. nextJob \in Nat /\ fresh \in Nat /\ nextJob' \in Nat /\ 0 < fresh /\ fresh' = fresh
  BY Counters, Constants DEF StartJob
<1>1. WorkerInv(FirstStep(j, k), nextJob', fresh')
  BY <1>0, FirstStepGood
<1>2. fresh <= fresh'
  BY <1>0
<1>4. WorkersInv'
  BY <1>0, <1>1, <1>2, MoveWorker DEF StartJob
<1>5. job' \in [Jobs -> {"none", "running", "completed", "failed"}]
  BY DEF StartJob, TypeInv, DataInv
<1>6. faults' \in 0..MaxFaults
  BY FaultsBounded
<1> QED
  BY <1>4, <1>5, <1>6 DEF StartJob, TypeInv, DataInv, meta, clickhouse, PartInv, RecInv, ObjectInv

\* A new job is delivered.
LEMMA NewJobType ==
  ASSUME TypeInv, NEW c \in Consumers, NewJob(c)
  PROVE  TypeInv'
<1>1. PICK k \in JobKinds : kind' = [kind EXCEPT ![nextJob] = k] /\ StartJob(c, nextJob, k)
  BY DEF NewJob
<1>2. k \in Kinds
  BY ConstantsAssumption
<1>3. nextJob \in Jobs /\ nextJob' \in 1..(MaxJobs + 1) /\ nextJob <= nextJob' /\ nextJob < nextJob'
  BY Constants DEF NewJob, TypeInv, DataInv, Jobs
<1>4. kind' \in [Jobs -> Kinds]
  BY <1>1, <1>2 DEF TypeInv, DataInv
<1> QED
  BY <1>1, <1>2, <1>3, <1>4, StartJobType DEF NewJob

\* An earlier job is delivered again.
LEMMA RedeliverType ==
  ASSUME TypeInv, NEW c \in Consumers, Redeliver(c)
  PROVE  TypeInv'
<1>1. PICK j \in 1..(nextJob - 1) : StartJob(c, j, kind[j]) /\ (Spend \/ UNCHANGED faults)
  BY DEF Redeliver
<1>2. j \in Jobs /\ nextJob' \in 1..(MaxJobs + 1) /\ nextJob <= nextJob' /\ j < nextJob'
  BY Constants DEF Redeliver, TypeInv, DataInv, Jobs
<1>3. kind' \in [Jobs -> Kinds] /\ kind[j] \in Kinds
  BY <1>2 DEF Redeliver, TypeInv, DataInv
<1> QED
  BY <1>1, <1>2, <1>3, StartJobType

\* The outcome is recorded.
LEMMA FinishJobType ==
  ASSUME TypeInv, NEW c \in Consumers, FinishJob(c)
  PROVE  TypeInv'
<1>1. WorkersInv'
  BY Counters, IdleIsGood, MoveWorkerOnly DEF FinishJob
<1>2. job' \in [Jobs -> {"none", "running", "completed", "failed"}]
  BY DEF FinishJob, TypeInv, DataInv
<1> QED
  BY <1>1, <1>2 DEF FinishJob, TypeInv, DataInv, meta, clickhouse, PartInv, RecInv, ObjectInv

\* A consumer dies.
LEMMA CrashType ==
  ASSUME TypeInv, NEW c \in Consumers, Crash(c)
  PROVE  TypeInv'
<1>1. WorkersInv'
  BY Counters, IdleIsGood, MoveWorkerOnly DEF Crash, queue
<1> QED
  BY <1>1, QuietStep DEF Crash, queue

-----------------------------------------------------------------------------
(* The statements the steps are made of. *)

\* get_or_create_partition keeps one row for a table and date.
LEMMA PartitionForGood ==
  ASSUME TypeInv, NEW t \in Tables, NEW d \in Nat
  PROVE  LET p == PartitionFor(t, d)
         IN  /\ PartInv(p.rows, p.fresh) /\ RecInv(recs, p.rows, p.fresh) /\ ObjectInv(r2, p.fresh)
             /\ p.fresh \in Nat /\ fresh <= p.fresh
             /\ p.id \in Nat /\ p.id < p.fresh
<1>0. fresh \in Nat /\ PartInv(part, fresh) /\ RecInv(recs, part, fresh) /\ ObjectInv(r2, fresh)
  BY DEF TypeInv, DataInv
<1>1. CASE PartAt(t, d) # {}
  <2> DEFINE q == CHOOSE p \in PartAt(t, d) : TRUE
  <2>1. q \in part
    BY <1>1 DEF PartAt
  <2>2. PartitionFor(t, d).rows = part /\ PartitionFor(t, d).id = q.id /\ PartitionFor(t, d).fresh = fresh
    BY <1>1 DEF PartitionFor
  <2> HIDE DEF q
  <2>3. q.id \in Nat /\ q.id < fresh
    BY <1>0, <2>1 DEF PartInv, PartitionRows
  <2> QED
    BY <1>0, <2>2, <2>3
<1>2. CASE PartAt(t, d) = {}
  <2> DEFINE q == [id |-> fresh, t |-> t, d |-> d, state |-> "committed", job |-> 0, path |-> "none"]
  <2>1. /\ PartitionFor(t, d).rows = part \cup {q} /\ PartitionFor(t, d).id = fresh
        /\ PartitionFor(t, d).fresh = fresh + 1
    BY <1>2 DEF PartitionFor
  <2>2. q \in PartitionRows /\ q.id = fresh /\ q.state = "committed" /\ q.t = t /\ q.d = d
    BY <1>0, Constants DEF PartitionRows, RowStates
  <2> HIDE DEF q
  <2>3. \A p \in part : ~(p.t = t /\ p.d = d)
    BY <1>2 DEF PartAt
  <2>4. PartInv(part \cup {q}, fresh + 1)
    <3>1. part \cup {q} \subseteq PartitionRows
      BY <1>0, <2>2 DEF PartInv
    <3>2. \A p \in part : p.id \in Nat /\ p.id < fresh
      BY <1>0 DEF PartInv, PartitionRows
    <3>3. \A p \in part \cup {q} : p.id < fresh + 1 /\ (p.state = "pending" => p.job # 0)
      BY <1>0, <2>2, <3>2 DEF PartInv
    <3>4. \A p \in part \cup {q} : \A r \in part \cup {q} : p.t = r.t /\ p.d = r.d => p = r
      BY <1>0, <2>2, <2>3 DEF PartInv
    <3> QED
      BY <3>1, <3>3, <3>4 DEF PartInv
  <2>5. RecInv(recs, part \cup {q}, fresh + 1)
    BY <1>0 DEF RecInv, FileRows
  <2>6. ObjectInv(r2, fresh + 1)
    BY <1>0 DEF ObjectInv, Objects
  <2> QED
    BY <1>0, <2>1, <2>4, <2>5, <2>6
<1> QED
  BY <1>1, <1>2

\* update_partition_data keeps the identifiers of the rows.
LEMMA UpdateGood ==
  ASSUME NEW f \in Nat, PartInv(part, f), RecInv(recs, part, f),
         NEW id, NEW path \in {"none", "dir", "key"}, NEW j \in 1..MaxJobs,
         update_partition_data(id, path, j)
  PROVE  PartInv(part', f) /\ RecInv(recs, part', f)
<1> DEFINE U(p) == IF p.id = id THEN [p EXCEPT !.state = "pending", !.job = j, !.path = path] ELSE p
<1>0. j \in 0..MaxJobs /\ j # 0
  BY Constants
<1>1. part' = {U(p) : p \in part}
  BY DEF update_partition_data
<1>2. ASSUME NEW p \in part
      PROVE  /\ U(p) \in PartitionRows /\ U(p).id = p.id /\ U(p).t = p.t /\ U(p).d = p.d
             /\ U(p).state = "pending" => U(p).job # 0
  BY <1>0 DEF PartInv, PartitionRows, RowStates
<1> HIDE DEF U
<1>3. PartInv(part', f)
  <2>1. part' \subseteq PartitionRows
    BY <1>1, <1>2
  <2>2. \A p \in part' : p.id < f /\ (p.state = "pending" => p.job # 0)
    BY <1>1, <1>2 DEF PartInv
  <2>3. ASSUME NEW p \in part', NEW q \in part', p.t = q.t, p.d = q.d PROVE p = q
    BY <1>1, <1>2, <2>3 DEF PartInv
  <2> QED
    BY <2>1, <2>2, <2>3 DEF PartInv
<1>4. RecInv(recs, part', f)
  <2>1. ASSUME NEW r \in recs PROVE \E p \in part' : p.id = r.part
    <3>1. PICK p \in part : p.id = r.part
      BY DEF RecInv
    <3> QED
      BY <1>1, <1>2, <3>1
  <2> QED
    BY <2>1 DEF RecInv
<1> QED
  BY <1>3, <1>4

\* DELETE FROM warehouse_partitions takes the file records with it.
LEMMA DeletePartitionsGood ==
  ASSUME NEW f, PartInv(part, f), RecInv(recs, part, f), NEW ids, DeletePartitions(ids)
  PROVE  PartInv(part', f) /\ RecInv(recs', part', f)
<1>1. PartInv(part', f)
  BY DEF PartInv, DeletePartitions
<1>2. ASSUME NEW r \in recs' PROVE r \in recs /\ \E p \in part' : p.id = r.part
  BY DEF RecInv, DeletePartitions
<1>3. RecInv(recs', part', f)
  BY <1>2 DEF RecInv
<1> QED
  BY <1>1, <1>3

\* Deleting objects leaves objects.
LEMMA DeleteObjectsGood ==
  ASSUME NEW keys, delete_objects(keys)
  PROVE  r2' \subseteq r2 /\ (Spend \/ UNCHANGED faults)
BY DEF delete_objects

\* Fewer objects.
LEMMA FewerObjects ==
  ASSUME NEW f, NEW os, NEW qs, ObjectInv(os, f), qs \subseteq os
  PROVE  ObjectInv(qs, f)
BY DEF ObjectInv

-----------------------------------------------------------------------------
(* The steps of a sync. *)

\* Steps that hold no rows and no table to do: only the job must be there.
Plain == {"cleanup", "fetch", "rollback", "partialcp", "savecp", "commitsync", "settier", "list",
          "import", "cleanr2", "delparts", "listch", "dropch", "dropstg", "purgech", "purger2",
          "finish"}

\* A consumer that goes on to such a step.
LEMMA GotoPlain ==
  ASSUME TypeInv, NEW c \in Consumers, w[c].pc # "idle",
         NEW p \in Plain \ {"cleanup", "fetch"}
  PROVE  WorkerInv([w[c] EXCEPT !.pc = p], nextJob, fresh)
<1> DEFINE x == w[c]
<1>1. WorkerInv(x, nextJob, fresh) /\ x.pc # "idle"
  BY DEF TypeInv, WorkersInv
<1>2. p \in Pcs /\ p \notin Writing \cup {"cleanup", "fetch", "commitstg", "export", "exprec", "idle"}
  BY DEF Plain, Pcs, Writing
<1> HIDE DEF x
<1> DEFINE y == [x EXCEPT !.pc = p]
<1>3. y \in Workers /\ y.job = x.job /\ y.pid = x.pid /\ y.fid = x.fid /\ y.pc = p
  BY <1>1, <1>2 DEF WorkerInv, Workers
<1> HIDE DEF y
<1>4. WorkerInv(y, nextJob, fresh)
  BY <1>1, <1>2, <1>3 DEF WorkerInv
<1> QED
  BY <1>4 DEF x, y

\* The same, with an error.
LEMMA FailPlain ==
  ASSUME TypeInv, NEW c \in Consumers, w[c].pc # "idle", NEW p \in {"finish", "rollback"}
  PROVE  WorkerInv([w[c] EXCEPT !.pc = p, !.err = TRUE], nextJob, fresh)
<1> DEFINE x == w[c]
<1>1. WorkerInv(x, nextJob, fresh) /\ x.pc # "idle"
  BY DEF TypeInv, WorkersInv
<1>2. p \in Pcs /\ p \notin Writing \cup {"cleanup", "fetch", "commitstg", "export", "exprec", "idle"}
  BY DEF Pcs, Writing
<1> HIDE DEF x
<1> DEFINE y == [x EXCEPT !.pc = p, !.err = TRUE]
<1>3. y \in Workers /\ y.job = x.job /\ y.pid = x.pid /\ y.fid = x.fid /\ y.pc = p
  BY <1>1, <1>2 DEF WorkerInv, Workers
<1> HIDE DEF y
<1>4. WorkerInv(y, nextJob, fresh)
  BY <1>1, <1>2, <1>3 DEF WorkerInv
<1> QED
  BY <1>4 DEF x, y

\* cleanup_orphans.
LEMMA CleanupOrphansType ==
  ASSUME TypeInv, NEW c \in Consumers, CleanupOrphans(c)
  PROVE  TypeInv'
<1>1. /\ PartInv(part', fresh) /\ RecInv(recs', part', fresh)
      /\ r2' \subseteq r2 /\ (Spend \/ UNCHANGED faults)
  <2>1. PICK ids, keys : \/ delete_objects(keys) /\ DeletePartitions(ids)
                         \/ /\ Spend
                            /\ r2' \in {r2, {o \in r2 : o.key \notin keys}}
                            /\ UNCHANGED <<part, recs>>
    BY DEF CleanupOrphans
  <2>2. CASE delete_objects(keys) /\ DeletePartitions(ids)
    BY <2>2, DeleteObjectsGood, DeletePartitionsGood DEF TypeInv
  <2>3. CASE Spend /\ r2' \in {r2, {o \in r2 : o.key \notin keys}} /\ UNCHANGED <<part, recs>>
    BY <2>3 DEF TypeInv
  <2> QED
    BY <2>1, <2>2, <2>3
<1> DEFINE x == w[c]
<1>2. WorkerInv(x, nextJob, fresh) /\ x.pc = "cleanup" /\ cp \in [Tables -> 0..MaxRow]
  BY DEF CleanupOrphans, TypeInv, WorkersInv, DataInv
<1>3. Set(c, [x EXCEPT !.pc = "fetch", !.mcp = cp])
  BY DEF CleanupOrphans
<1> HIDE DEF x
<1>4. WorkerInv([x EXCEPT !.pc = "fetch", !.mcp = cp], nextJob, fresh)
  BY <1>2 DEF WorkerInv, Workers, Pcs, Writing
<1>5. WorkersInv'
  BY <1>3, <1>4, MoveWorkerOnly DEF CleanupOrphans, queue
<1>6. faults' \in 0..MaxFaults
  BY <1>1, FaultsBounded
<1>7. ObjectInv(r2', fresh)
  BY <1>1, FewerObjects DEF TypeInv
<1> QED
  BY <1>1, <1>5, <1>6, <1>7 DEF CleanupOrphans, TypeInv, DataInv, clickhouse, queue

\* fetch_table returns versions of the table.
LEMMA FetchIsVersions ==
  ASSUME TypeInv, NEW t \in Tables, NEW last \in Nat
  PROVE  Fetch(t, last) \subseteq Versions
BY Constants DEF TypeInv, DataInv, Fetch, Newest, Versions

\* The next table is fetched.
LEMMA FetchTableType ==
  ASSUME TypeInv, NEW c \in Consumers, FetchTable(c)
  PROVE  TypeInv'
<1> DEFINE x == w[c]
           new == Fetch(x.ti, x.mcp[x.ti])
           y == [x EXCEPT !.new = new, !.days = {DateOf[k] : k \in new},
                          !.pc = IF x.target = "hot" THEN "stage" ELSE "getpart"]
<1>1. WorkerInv(x, nextJob, fresh) /\ x.pc = "fetch" /\ InLoop(x, nextJob, fresh)
  BY WritingIsInLoop DEF FetchTable, TypeInv, WorkersInv
<1>2. x.ti \in Nat /\ x.ti \in 1..(NTables + 1)
  BY <1>1, Constants DEF WorkerInv, Workers
<1>3. \/ x.ti > NTables /\ Set(c, AfterTables(x))
      \/ x.ti <= NTables /\ new = {} /\ Set(c, [x EXCEPT !.ti = @ + 1])
      \/ x.ti <= NTables /\ new # {} /\ Set(c, y)
  BY <1>2, Constants DEF FetchTable
<1>4. \E z : Set(c, z) /\ WorkerInv(z, nextJob, fresh)
  <2>1. ASSUME x.ti > NTables, Set(c, AfterTables(x)) PROVE \E z : Set(c, z) /\ WorkerInv(z, nextJob, fresh)
    <3> HIDE DEF x
    <3> QED
      BY <1>1, <2>1, Counters, AfterTablesGood
  <2>2. ASSUME x.ti <= NTables, Set(c, [x EXCEPT !.ti = @ + 1]) PROVE \E z : Set(c, z) /\ WorkerInv(z, nextJob, fresh)
    <3> HIDE DEF x
    <3>1. x.ti + 1 \in 1..(NTables + 1)
      BY <1>2, <2>2, Constants
    <3>2. WorkerInv([x EXCEPT !.ti = @ + 1], nextJob, fresh)
      BY <1>1, <3>1 DEF WorkerInv, Workers, Writing
    <3> QED
      BY <2>2, <3>2
  <2>3. ASSUME x.ti <= NTables, new # {}, Set(c, y) PROVE \E z : Set(c, z) /\ WorkerInv(z, nextJob, fresh)
    <3>1. x.ti \in Tables /\ x.mcp[x.ti] \in Nat
      BY <1>1, <1>2, <2>3, Constants DEF Tables, WorkerInv, Workers
    <3>2. new \subseteq Versions
      <4> HIDE DEF x
      <4> QED
        BY <3>1, FetchIsVersions
    <3>3. \A k \in new : DateOf[k] \in Nat
      BY <3>2, Constants
    <3>4. new \in SUBSET Nat
      BY <3>2 DEF Versions
    <3> HIDE DEF x, new
    <3> DEFINE ds == {DateOf[k] : k \in new}
    <3>5. ds \in SUBSET Nat /\ ds # {}
      BY <2>3, <3>3
    <3> HIDE DEF ds
    <3> DEFINE p == IF x.target = "hot" THEN "stage" ELSE "getpart"
    <3>6. p \in Writing /\ p \in Pcs /\ p \notin {"idle", "commitstg", "export", "exprec"}
      BY DEF Writing, Pcs
    <3> HIDE DEF p
    <3> DEFINE z == [x EXCEPT !.new = new, !.days = ds, !.pc = p]
    <3>7. /\ z \in Workers /\ z.job = x.job /\ z.pid = x.pid /\ z.fid = x.fid /\ z.pc = p
          /\ z.ti = x.ti /\ z.new = new /\ z.days = ds /\ z.todo = x.todo
      BY <1>1, <3>4, <3>5, <3>6 DEF WorkerInv, Workers
    <3> HIDE DEF z
    <3>8. WorkerInv(z, nextJob, fresh)
      <4>1. z.days \subseteq {DateOf[k] : k \in z.new}
        BY <3>7 DEF ds
      <4> QED
        BY <1>1, <2>3, <3>1, <3>2, <3>5, <3>6, <3>7, <4>1 DEF WorkerInv
    <3>9. z = y
      BY DEF z, ds, p
    <3> QED
      BY <2>3, <3>8, <3>9
  <2> QED
    BY <1>3, <2>1, <2>2, <2>3
<1>5. WorkersInv'
  BY <1>4, MoveWorkerOnly DEF FetchTable, queue
<1> QED
  BY <1>5, QuietStep DEF FetchTable, queue

\* The date in hand is one of the fetched rows' dates.
LEMMA DayIsDate ==
  ASSUME TypeInv, NEW c \in Consumers, w[c].pc \in Writing
  PROVE  Day(c) \in w[c].days /\ Day(c) \in Nat /\ NewToday(c) \subseteq Versions
         /\ \A d \in w[c].days : Day(c) <= d
<1> DEFINE x == w[c]
<1>1. WorkerInv(x, nextJob, fresh) /\ x.pc \in Writing
  BY DEF TypeInv, WorkersInv
<1> HIDE DEF x
<1>2. x.days \in SUBSET Nat /\ x.days # {} /\ x.new \subseteq Versions
  BY <1>1 DEF WorkerInv, Workers
<1>3. Min(x.days) \in x.days /\ \A d \in x.days : Min(x.days) <= d
  BY <1>2, MinOfNat
<1> QED
  BY <1>2, <1>3 DEF Day, NewToday, x

\* A step that stays with the rows in hand.
LEMMA StayWriting ==
  ASSUME NEW x, NEW n \in Nat, NEW f \in Nat, WorkerInv(x, n, f), x.pc \in Writing,
         NEW p \in Writing, NEW pid \in Nat, NEW fid \in Nat, NEW olds \in SUBSET Nat,
         pid < f, fid < f
  PROVE  WorkerInv([x EXCEPT !.pc = p, !.pid = pid, !.fid = fid, !.olds = olds], n, f)
<1> DEFINE y == [x EXCEPT !.pc = p, !.pid = pid, !.fid = fid, !.olds = olds]
<1>1. p \in Pcs /\ p \notin {"idle", "commitstg", "export", "exprec"}
  BY DEF Writing, Pcs
<1>2. /\ y \in Workers /\ y.job = x.job /\ y.pid = pid /\ y.fid = fid /\ y.pc = p
      /\ y.ti = x.ti /\ y.new = x.new /\ y.days = x.days /\ y.todo = x.todo
  BY <1>1 DEF WorkerInv, Workers
<1> HIDE DEF y
<1>3. WorkerInv(y, n, f)
  BY <1>1, <1>2 DEF WorkerInv, Writing
<1> QED
  BY <1>3 DEF y

\* Fields an update leaves alone.
LEMMA SameRecord ==
  ASSUME NEW x \in Workers, NEW p, NEW i, NEW f, NEW o
  PROVE  /\ [x EXCEPT !.pc = p] = [x EXCEPT !.pc = p, !.pid = x.pid, !.fid = x.fid, !.olds = x.olds]
         /\ [x EXCEPT !.pid = i, !.pc = p]
              = [x EXCEPT !.pc = p, !.pid = i, !.fid = x.fid, !.olds = x.olds]
         /\ [x EXCEPT !.pc = p, !.fid = f]
              = [x EXCEPT !.pc = p, !.pid = x.pid, !.fid = f, !.olds = x.olds]
         /\ [x EXCEPT !.pc = p, !.olds = o]
              = [x EXCEPT !.pc = p, !.pid = x.pid, !.fid = x.fid, !.olds = o]
BY DEF Workers

\* A writing consumer goes on to another writing step.
LEMMA MoveWriting ==
  ASSUME TypeInv, NEW c \in Consumers, w[c].pc \in Writing, UNCHANGED nextJob,
         fresh' \in Nat, fresh <= fresh', NEW p \in Writing,
         NEW i \in Nat, NEW f \in Nat, NEW o \in SUBSET Nat, i < fresh', f < fresh',
         Set(c, [w[c] EXCEPT !.pc = p, !.pid = i, !.fid = f, !.olds = o])
  PROVE  WorkersInv'
<1> DEFINE x == w[c]
           y == [x EXCEPT !.pc = p, !.pid = i, !.fid = f, !.olds = o]
<1>0. nextJob \in Nat /\ nextJob' = nextJob /\ fresh \in Nat /\ nextJob <= nextJob'
  BY Counters
<1>1. WorkerInv(x, nextJob, fresh) /\ x.pc \in Writing
  BY DEF TypeInv, WorkersInv
<1>2. Set(c, y)
  OBVIOUS
<1> HIDE DEF x
<1>3. WorkerInv(x, nextJob, fresh')
  BY <1>0, <1>1, WorkerMonotone
<1>4. WorkerInv(y, nextJob, fresh')
  BY <1>0, <1>1, <1>3, StayWriting
<1> HIDE DEF y
<1> QED
  BY <1>0, <1>2, <1>4, MoveWorker

\* ... without touching what it holds ...
LEMMA MoveWritingPc ==
  ASSUME TypeInv, NEW c \in Consumers, w[c].pc \in Writing, UNCHANGED nextJob,
         fresh' \in Nat, fresh <= fresh', NEW p \in Writing,
         Set(c, [w[c] EXCEPT !.pc = p])
  PROVE  WorkersInv'
<1> DEFINE x == w[c]
<1>1. WorkerInv(x, nextJob, fresh) /\ fresh \in Nat
  BY Counters DEF TypeInv, WorkersInv
<1> HIDE DEF x
<1>2. x \in Workers /\ x.pid \in Nat /\ x.fid \in Nat /\ x.olds \in SUBSET Nat
      /\ x.pid < fresh' /\ x.fid < fresh'
  BY <1>1 DEF WorkerInv, Workers
<1>3. [x EXCEPT !.pc = p]
        = [x EXCEPT !.pc = p, !.pid = x.pid, !.fid = x.fid, !.olds = x.olds]
  BY <1>2, SameRecord
<1> QED
  BY <1>2, <1>3, MoveWriting DEF x

\* ... with a partition ...
LEMMA MoveWritingPid ==
  ASSUME TypeInv, NEW c \in Consumers, w[c].pc \in Writing, UNCHANGED nextJob,
         fresh' \in Nat, fresh <= fresh', NEW p \in Writing, NEW i \in Nat, i < fresh',
         Set(c, [w[c] EXCEPT !.pid = i, !.pc = p])
  PROVE  WorkersInv'
<1> DEFINE x == w[c]
<1>1. WorkerInv(x, nextJob, fresh) /\ fresh \in Nat
  BY Counters DEF TypeInv, WorkersInv
<1> HIDE DEF x
<1>2. x \in Workers /\ x.pid \in Nat /\ x.fid \in Nat /\ x.olds \in SUBSET Nat
      /\ x.pid < fresh' /\ x.fid < fresh'
  BY <1>1 DEF WorkerInv, Workers
<1>3. [x EXCEPT !.pid = i, !.pc = p]
        = [x EXCEPT !.pc = p, !.pid = i, !.fid = x.fid, !.olds = x.olds]
  BY <1>2, SameRecord
<1> QED
  BY <1>2, <1>3, MoveWriting DEF x

\* ... with a file ...
LEMMA MoveWritingFid ==
  ASSUME TypeInv, NEW c \in Consumers, w[c].pc \in Writing, UNCHANGED nextJob,
         fresh' \in Nat, fresh <= fresh', NEW p \in Writing, NEW i \in Nat, i < fresh',
         Set(c, [w[c] EXCEPT !.pc = p, !.fid = i])
  PROVE  WorkersInv'
<1> DEFINE x == w[c]
<1>1. WorkerInv(x, nextJob, fresh) /\ fresh \in Nat
  BY Counters DEF TypeInv, WorkersInv
<1> HIDE DEF x
<1>2. x \in Workers /\ x.pid \in Nat /\ x.fid \in Nat /\ x.olds \in SUBSET Nat
      /\ x.pid < fresh' /\ x.fid < fresh'
  BY <1>1 DEF WorkerInv, Workers
<1>3. [x EXCEPT !.pc = p, !.fid = i]
        = [x EXCEPT !.pc = p, !.pid = x.pid, !.fid = i, !.olds = x.olds]
  BY <1>2, SameRecord
<1> QED
  BY <1>2, <1>3, MoveWriting DEF x

\* ... or with a list of files.
LEMMA MoveWritingOlds ==
  ASSUME TypeInv, NEW c \in Consumers, w[c].pc \in Writing, UNCHANGED nextJob,
         fresh' \in Nat, fresh <= fresh', NEW p \in Writing, NEW o \in SUBSET Nat,
         Set(c, [w[c] EXCEPT !.pc = p, !.olds = o])
  PROVE  WorkersInv'
<1> DEFINE x == w[c]
<1>1. WorkerInv(x, nextJob, fresh) /\ fresh \in Nat
  BY Counters DEF TypeInv, WorkersInv
<1> HIDE DEF x
<1>2. x \in Workers /\ x.pid \in Nat /\ x.fid \in Nat /\ x.olds \in SUBSET Nat
      /\ x.pid < fresh' /\ x.fid < fresh'
  BY <1>1 DEF WorkerInv, Workers
<1>3. [x EXCEPT !.pc = p, !.olds = o]
        = [x EXCEPT !.pc = p, !.pid = x.pid, !.fid = x.fid, !.olds = o]
  BY <1>2, SameRecord
<1> QED
  BY <1>2, <1>3, MoveWriting DEF x

\* The partition row of the next date.
LEMMA GetPartitionType ==
  ASSUME TypeInv, NEW c \in Consumers, GetPartition(c)
  PROVE  TypeInv'
<1> DEFINE p == PartitionFor(T(c), Day(c))
           q == IF w[c].mcp[T(c)] = 0 THEN "upload" ELSE "listfiles"
<1>0. w[c].pc \in Writing /\ q \in Writing
  BY DEF GetPartition, Writing
<1>1. T(c) \in Tables /\ Day(c) \in Nat
  BY <1>0, DayIsDate DEF TypeInv, WorkersInv, WorkerInv, T
<1>2. /\ PartInv(p.rows, p.fresh) /\ RecInv(recs, p.rows, p.fresh) /\ ObjectInv(r2, p.fresh)
      /\ p.fresh \in Nat /\ fresh <= p.fresh
      /\ p.id \in Nat /\ p.id < p.fresh
  BY <1>1, PartitionForGood
<1>3. part' = p.rows /\ fresh' = p.fresh /\ Set(c, [w[c] EXCEPT !.pid = p.id, !.pc = q])
  BY DEF GetPartition
<1> HIDE DEF p, q
<1>4. UNCHANGED <<src, tier, cp, recs, r2, clickhouse, queue, faults>>
  BY DEF GetPartition
<1>5. WorkersInv'
  <2>1. p.id \in Nat /\ p.id < fresh' /\ Set(c, [w[c] EXCEPT !.pid = p.id, !.pc = q])
    BY <1>2, <1>3
  <2>2. fresh' \in Nat /\ fresh <= fresh' /\ UNCHANGED nextJob
    BY <1>2, <1>3, <1>4 DEF queue
  <2> QED
    BY <1>0, <2>1, <2>2, MoveWritingPid
<1> QED
  BY <1>2, <1>3, <1>4, <1>5 DEF TypeInv, DataInv, clickhouse, queue

\* A new object gets a fresh key.
LEMMA NewObject ==
  ASSUME TypeInv, NEW t \in Tables, NEW d \in Nat, NEW rows \in SUBSET Versions
  PROVE  /\ ObjectInv(r2 \cup {[key |-> fresh, t |-> t, d |-> d, rows |-> rows]}, fresh + 1)
         /\ PartInv(part, fresh + 1) /\ RecInv(recs, part, fresh + 1)
         /\ fresh + 1 \in Nat /\ fresh <= fresh + 1 /\ fresh < fresh + 1 /\ fresh \in Nat
<1> DEFINE o == [key |-> fresh, t |-> t, d |-> d, rows |-> rows]
<1>0. fresh \in Nat /\ ObjectInv(r2, fresh) /\ PartInv(part, fresh) /\ RecInv(recs, part, fresh)
  BY DEF TypeInv, DataInv
<1>1. o \in Objects /\ o.key = fresh
  BY <1>0 DEF Objects
<1> HIDE DEF o
<1>2. ObjectInv(r2 \cup {o}, fresh + 1)
  BY <1>0, <1>1 DEF ObjectInv, Objects
<1>3. PartInv(part, fresh + 1) /\ RecInv(recs, part, fresh + 1)
  BY <1>0 DEF PartInv, RecInv, PartitionRows, FileRows
<1> QED
  BY <1>0, <1>2, <1>3 DEF o

\* The upload of a first sync.
LEMMA UploadNewType ==
  ASSUME TypeInv, NEW c \in Consumers, UploadNew(c)
  PROVE  TypeInv'
<1>0. w[c].pc \in Writing /\ "addrec" \in Writing
  BY DEF UploadNew, Writing
<1>1. T(c) \in Tables /\ Day(c) \in Nat /\ NewToday(c) \in SUBSET Versions
  BY <1>0, DayIsDate DEF TypeInv, WorkersInv, WorkerInv, T
<1>2. r2' = r2 \cup {[key |-> fresh, t |-> T(c), d |-> Day(c), rows |-> NewToday(c)]}
      /\ fresh' = fresh + 1 /\ Set(c, [w[c] EXCEPT !.pc = "addrec", !.fid = fresh])
      /\ UNCHANGED <<src, tier, meta, clickhouse, queue, faults>>
  BY DEF UploadNew
<1>3. /\ ObjectInv(r2', fresh') /\ PartInv(part, fresh') /\ RecInv(recs, part, fresh')
      /\ fresh' \in Nat /\ fresh <= fresh' /\ fresh < fresh' /\ fresh \in Nat
  BY <1>1, <1>2, NewObject
<1>4. WorkersInv'
  BY <1>0, <1>2, <1>3, MoveWritingFid DEF queue
<1> QED
  BY <1>2, <1>3, <1>4 DEF TypeInv, DataInv, meta, clickhouse, queue

\* A record of a file for a partition that is there.
LEMMA NewRecord ==
  ASSUME NEW f, NEW ps, NEW rs, RecInv(rs, ps, f),
         NEW file \in Nat, file < f, NEW pid \in Nat, \E p \in ps : p.id = pid,
         NEW s \in RowStates, NEW j \in 0..MaxJobs
  PROVE  RecInv(rs \cup {[file |-> file, part |-> pid, state |-> s, job |-> j]}, ps, f)
<1> DEFINE r == [file |-> file, part |-> pid, state |-> s, job |-> j]
<1>1. r \in FileRows /\ r.file = file /\ r.part = pid
  BY DEF FileRows
<1> HIDE DEF r
<1>2. RecInv(rs \cup {r}, ps, f)
  BY <1>1 DEF RecInv
<1> QED
  BY <1>2 DEF r

\* add_partition_file.
LEMMA AddPartitionFileType ==
  ASSUME TypeInv, NEW c \in Consumers, AddPartitionFile(c)
  PROVE  TypeInv'
<1>0. w[c].pc \in Writing /\ "updpart" \in Writing
  BY DEF AddPartitionFile, Writing
<1>1. UNCHANGED <<src, tier, cp, part, r2, clickhouse, queue, fresh, faults>>
  BY DEF AddPartitionFile
<1>2. nextJob \in Nat /\ fresh \in Nat /\ 0 < fresh /\ fresh <= fresh
  BY Counters
<1>3. RecInv(recs', part, fresh) /\ WorkersInv'
  <2>1. CASE PartId(w[c].pid) # {}
    <3>1. \E p \in part : p.id = w[c].pid
      BY <2>1 DEF PartId
    <3>2. w[c].fid \in Nat /\ w[c].fid < fresh /\ w[c].pid \in Nat /\ w[c].job \in 0..MaxJobs
      BY DEF TypeInv, WorkersInv, WorkerInv, Workers
    <3>3. recs' = recs \cup {[file |-> w[c].fid, part |-> w[c].pid, state |-> "pending", job |-> w[c].job]}
          /\ Set(c, [w[c] EXCEPT !.pc = "updpart"])
      BY <2>1 DEF AddPartitionFile, Goto
    <3>4. RecInv(recs', part, fresh)
      BY <3>1, <3>2, <3>3, NewRecord DEF TypeInv, RowStates
    <3>5. WorkersInv'
      BY <1>0, <1>1, <1>2, <3>3, MoveWritingPc DEF queue
    <3> QED
      BY <3>4, <3>5
  <2>2. CASE PartId(w[c].pid) = {}
    <3>1. Set(c, SyncFailed(w[c])) /\ UNCHANGED recs
      BY <2>2 DEF AddPartitionFile
    <3>2. WorkerInv(SyncFailed(w[c]), nextJob, fresh)
      BY <1>0, <1>2, WritingIsInLoop, SyncFailedGood
    <3> QED
      BY <1>1, <3>1, <3>2, MoveWorkerOnly DEF queue, TypeInv
  <2> QED
    BY <2>1, <2>2
<1> QED
  BY <1>1, <1>3 DEF TypeInv, DataInv, clickhouse, queue

\* update_partition_metadata, and the next date or the next table.
LEMMA UpdatePartitionType ==
  ASSUME TypeInv, NEW c \in Consumers, UpdatePartition(c)
  PROVE  TypeInv'
<1> DEFINE x == w[c]
           rest == x.days \ {Day(c)}
           rec == [x EXCEPT !.pc = "getpart", !.days = rest, !.pid = 0, !.fid = 0, !.olds = {}]
<1>0. WorkerInv(x, nextJob, fresh) /\ x.pc = "updpart" /\ InLoop(x, nextJob, fresh)
  BY WritingIsInLoop DEF UpdatePartition, TypeInv, WorkersInv, Writing
<1>1. UNCHANGED <<src, tier, cp, recs, r2, clickhouse, queue, fresh>>
      /\ update_partition_data(x.pid, "dir", x.job)
  BY DEF UpdatePartition
<1>2. \/ rest # {} /\ Set(c, rec) /\ UNCHANGED faults
      \/ rest = {} /\ Set(c, TableDone(rec)) /\ UNCHANGED faults
      \/ rest = {} /\ Set(c, SyncFailed(rec)) /\ Spend
  BY DEF UpdatePartition
<1>3. nextJob \in Nat /\ fresh \in Nat /\ 0 < fresh
  BY Counters
<1> HIDE DEF x
<1>4. rest \in SUBSET Nat /\ rest \subseteq x.days
  BY <1>0 DEF WorkerInv, Workers
<1> HIDE DEF rest
<1>5. /\ rec \in Workers /\ rec.job = x.job /\ rec.pid = 0 /\ rec.fid = 0 /\ rec.pc = "getpart"
      /\ rec.ti = x.ti /\ rec.new = x.new /\ rec.days = rest /\ rec.todo = x.todo
  BY <1>0, <1>4 DEF WorkerInv, Workers, Pcs
<1>6. InLoop(rec, nextJob, fresh)
  BY <1>0, <1>3, <1>5 DEF InLoop
<1>7. rec.ti \in Tables /\ rec.new # {} /\ rec.new \subseteq Versions
  BY <1>0, <1>5 DEF WorkerInv, Writing
<1> HIDE DEF rec
<1>8. WorkerInv(rec, nextJob, fresh) \/ rest = {}
  BY <1>0, <1>3, <1>4, <1>5 DEF WorkerInv, Writing
<1>9. WorkerInv(TableDone(rec), nextJob, fresh) /\ WorkerInv(SyncFailed(rec), nextJob, fresh)
  BY <1>3, <1>6, <1>7, TableDoneGood, SyncFailedGood
<1>10. WorkersInv' /\ (Spend \/ UNCHANGED faults)
  BY <1>1, <1>2, <1>8, <1>9, MoveWorkerOnly DEF queue
<1>11. PartInv(part', fresh) /\ RecInv(recs, part', fresh)
  <2>1. x.job \in 1..MaxJobs
    BY <1>0, Constants DEF InLoop, Workers
  <2> QED
    BY <1>1, <1>3, <2>1, UpdateGood DEF TypeInv
<1>12. faults' \in 0..MaxFaults
  BY <1>10, FaultsBounded
<1> QED
  BY <1>1, <1>10, <1>11, <1>12 DEF TypeInv, DataInv, clickhouse, queue

\* The committed files of a partition.
LEMMA ListPartitionFilesType ==
  ASSUME TypeInv, NEW c \in Consumers, ListPartitionFiles(c)
  PROVE  TypeInv'
<1> DEFINE fs == {r.file : r \in CommittedRecs(w[c].pid)}
<1>1. fs \in SUBSET Nat
  BY DEF TypeInv, RecInv, FileRows, CommittedRecs
<1>2. w[c].pc \in Writing /\ "merge" \in Writing /\ Set(c, [w[c] EXCEPT !.pc = "merge", !.olds = fs])
  BY DEF ListPartitionFiles, Writing
<1> HIDE DEF fs
<1>3. UNCHANGED <<src, tier, meta, r2, clickhouse, queue, fresh, faults>>
  BY DEF ListPartitionFiles
<1>4. fresh' \in Nat /\ fresh <= fresh' /\ UNCHANGED nextJob
  BY <1>3, Counters DEF queue
<1>5. WorkersInv'
  BY <1>1, <1>2, <1>4, MoveWritingOlds
<1> QED
  BY <1>3, <1>5, QuietStep DEF queue

\* The merge.
LEMMA MergeUploadType ==
  ASSUME TypeInv, NEW c \in Consumers, MergeUpload(c)
  PROVE  TypeInv'
<1>0. w[c].pc \in Writing /\ "swap" \in Writing
  BY DEF MergeUpload, Writing
<1>1. UNCHANGED <<src, tier, meta, clickhouse, queue, faults>>
  BY DEF MergeUpload
<1>2. CASE w[c].olds \subseteq R2Keys
  <2> DEFINE old == UNION {o.rows : o \in {x \in r2 : x.key \in w[c].olds}}
             rows == merge_batches_by_pk(old, NewToday(c))
  <2>1. T(c) \in Tables /\ Day(c) \in Nat /\ NewToday(c) \in SUBSET Versions
    BY <1>0, DayIsDate DEF TypeInv, WorkersInv, WorkerInv, T
  <2>2. old \subseteq Versions
    BY DEF TypeInv, ObjectInv, Objects
  <2>3. rows \in SUBSET Versions
    BY <2>1, <2>2 DEF merge_batches_by_pk
  <2>4. r2' = r2 \cup {[key |-> fresh, t |-> T(c), d |-> Day(c), rows |-> rows]}
        /\ fresh' = fresh + 1 /\ Set(c, [w[c] EXCEPT !.pc = "swap", !.fid = fresh])
    BY <1>2 DEF MergeUpload
  <2> HIDE DEF old, rows
  <2>5. /\ ObjectInv(r2', fresh') /\ PartInv(part, fresh') /\ RecInv(recs, part, fresh')
        /\ fresh' \in Nat /\ fresh <= fresh' /\ fresh < fresh' /\ fresh \in Nat
    BY <2>1, <2>3, <2>4, NewObject
  <2>6. WorkersInv'
    BY <1>0, <1>1, <2>4, <2>5, MoveWritingFid DEF queue
  <2> QED
    BY <1>1, <2>4, <2>5, <2>6 DEF TypeInv, DataInv, meta, clickhouse, queue
<1>3. CASE ~(w[c].olds \subseteq R2Keys)
  <2>1. Set(c, SyncFailed(w[c])) /\ UNCHANGED <<r2, fresh>>
    BY <1>3 DEF MergeUpload
  <2>2. WorkerInv(SyncFailed(w[c]), nextJob, fresh)
    BY <1>0, Counters, WritingIsInLoop, SyncFailedGood
  <2>3. WorkersInv'
    BY <1>1, <2>1, <2>2, MoveWorkerOnly DEF queue
  <2> QED
    BY <1>1, <2>1, <2>3, QuietStep DEF queue
<1> QED
  BY <1>2, <1>3

\* swap_partition_files.
LEMMA SwapPartitionFilesType ==
  ASSUME TypeInv, NEW c \in Consumers, SwapPartitionFiles(c)
  PROVE  TypeInv'
<1>0. w[c].pc \in Writing /\ "delold" \in Writing
  BY DEF SwapPartitionFiles, Writing
<1>1. UNCHANGED <<src, tier, cp, part, clickhouse, queue, fresh, faults>>
  BY DEF SwapPartitionFiles
<1>2. fresh' \in Nat /\ fresh <= fresh' /\ UNCHANGED nextJob /\ 0 < fresh
  BY <1>1, Counters DEF queue
<1>3. CASE PartId(w[c].pid) # {}
  <2> DEFINE rs == {r \in recs : r.file \notin w[c].olds}
             fs == {r.file : r \in {x \in recs : x.file \in w[c].olds}}
  <2>1. \E p \in part : p.id = w[c].pid
    BY <1>3 DEF PartId
  <2>2. w[c].fid \in Nat /\ w[c].fid < fresh /\ w[c].pid \in Nat /\ 0 \in 0..MaxJobs
    BY Constants DEF TypeInv, WorkersInv, WorkerInv, Workers
  <2>3. recs' = rs \cup {[file |-> w[c].fid, part |-> w[c].pid, state |-> "committed", job |-> 0]}
        /\ Set(c, [w[c] EXCEPT !.pc = "delold", !.olds = fs]) /\ UNCHANGED r2
    BY <1>3 DEF SwapPartitionFiles
  <2>4. RecInv(rs, part, fresh) /\ fs \in SUBSET Nat
    BY DEF TypeInv, RecInv, FileRows
  <2> HIDE DEF rs, fs
  <2>5. RecInv(recs', part, fresh)
    BY <2>1, <2>2, <2>3, <2>4, NewRecord DEF RowStates
  <2>6. WorkersInv'
    BY <1>0, <1>2, <2>3, <2>4, MoveWritingOlds
  <2> QED
    BY <1>1, <2>3, <2>5, <2>6 DEF TypeInv, DataInv, clickhouse, queue
<1>4. CASE PartId(w[c].pid) = {}
  <2>1. Set(c, SyncFailed(w[c])) /\ UNCHANGED recs /\ r2' \subseteq r2
    BY <1>4 DEF SwapPartitionFiles
  <2>2. WorkerInv(SyncFailed(w[c]), nextJob, fresh)
    BY <1>0, Counters, WritingIsInLoop, SyncFailedGood
  <2>3. WorkersInv'
    BY <1>1, <2>1, <2>2, MoveWorkerOnly DEF queue
  <2>4. ObjectInv(r2', fresh)
    BY <2>1, FewerObjects DEF TypeInv
  <2> QED
    BY <1>1, <2>1, <2>3, <2>4 DEF TypeInv, DataInv, clickhouse, queue
<1> QED
  BY <1>3, <1>4

\* The objects of the records swapped out.
LEMMA DeleteOldFilesType ==
  ASSUME TypeInv, NEW c \in Consumers, DeleteOldFiles(c)
  PROVE  TypeInv'
<1>0. w[c].pc \in Writing /\ "updpart" \in Writing /\ Set(c, [w[c] EXCEPT !.pc = "updpart"])
  BY DEF DeleteOldFiles, Writing, Goto
<1>1. UNCHANGED <<src, tier, meta, clickhouse, queue, fresh>>
  BY DEF DeleteOldFiles
<1>2. fresh' \in Nat /\ fresh <= fresh' /\ UNCHANGED nextJob
  BY <1>1, Counters DEF queue
<1>3. WorkersInv'
  BY <1>0, <1>2, MoveWritingPc
<1>4. r2' \subseteq r2 /\ (Spend \/ UNCHANGED faults)
  BY DeleteObjectsGood DEF DeleteOldFiles
<1>5. ObjectInv(r2', fresh) /\ faults' \in 0..MaxFaults
  BY <1>4, FewerObjects, FaultsBounded DEF TypeInv
<1> QED
  BY <1>1, <1>3, <1>5 DEF TypeInv, DataInv, meta, clickhouse, queue, PartInv, RecInv

\* The staging table is created.
LEMMA CreateStagingType ==
  ASSUME TypeInv, NEW c \in Consumers, CreateStaging(c)
  PROVE  TypeInv'
<1> DEFINE x == w[c]
           y == [x EXCEPT !.pc = "insert", !.done = @ \cup {x.ti}]
<1>0. WorkerInv(x, nextJob, fresh) /\ x.pc = "stage" /\ x.ti \in Tables
  BY DEF CreateStaging, TypeInv, WorkersInv, WorkerInv, Writing
<1>1. Set(c, y) /\ UNCHANGED <<src, tier, meta, r2, ch, queue, fresh, faults>>
  BY DEF CreateStaging, T
<1>2. stg' \in [Tables -> ClickHouseTables]
  BY DEF CreateStaging, TypeInv, DataInv, TableOf, ClickHouseTables
<1> HIDE DEF x
<1>3. x.done \cup {x.ti} \in SUBSET Tables
  BY <1>0 DEF WorkerInv, Workers
<1>4. WorkerInv(y, nextJob, fresh)
  BY <1>0, <1>3 DEF WorkerInv, Workers, Pcs, Writing
<1> HIDE DEF y
<1>5. WorkersInv'
  BY <1>1, <1>4, MoveWorkerOnly DEF queue
<1> QED
  BY <1>1, <1>2, <1>5 DEF TypeInv, DataInv, meta, queue, PartInv, RecInv, ObjectInv

\* The rows are staged.
LEMMA InsertStagingType ==
  ASSUME TypeInv, NEW c \in Consumers, InsertStaging(c)
  PROVE  TypeInv'
<1>0. w[c].pc \in Writing /\ 0 < fresh /\ nextJob \in Nat /\ fresh \in Nat
  BY Counters DEF InsertStaging, Writing
<1>1. InLoop(w[c], nextJob, fresh) /\ w[c].ti \in Tables /\ w[c].new # {} /\ w[c].new \subseteq Versions
  BY <1>0, WritingIsInLoop DEF TypeInv, WorkersInv, WorkerInv
<1>2. WorkerInv(TableDone(w[c]), nextJob, fresh) /\ WorkerInv(SyncFailed(w[c]), nextJob, fresh)
  BY <1>0, <1>1, TableDoneGood, SyncFailedGood
<1>3. (Set(c, TableDone(w[c])) \/ Set(c, SyncFailed(w[c])))
      /\ UNCHANGED <<src, tier, meta, r2, ch, queue, fresh, faults>>
  BY DEF InsertStaging
<1>4. WorkersInv'
  BY <1>2, <1>3, MoveWorkerOnly DEF queue
<1>5. stg' \in [Tables -> ClickHouseTables]
  BY <1>1 DEF InsertStaging, TypeInv, DataInv, ClickHouseTables, T
<1> QED
  BY <1>3, <1>4, <1>5 DEF TypeInv, DataInv, meta, queue, PartInv, RecInv, ObjectInv

\* A step of the loop fails.
LEMMA SyncStepFailsType ==
  ASSUME TypeInv, NEW c \in Consumers, SyncStepFails(c)
  PROVE  TypeInv'
<1> DEFINE x == w[c]
           y == [x EXCEPT !.done = IF x.pc = "stage" THEN @ \cup {x.ti} ELSE @]
<1>0. x.pc \in Writing \cup {"fetch"} /\ 0 < fresh /\ nextJob \in Nat /\ fresh \in Nat
  BY Counters DEF SyncStepFails, Writing
<1>1. InLoop(x, nextJob, fresh) /\ WorkerInv(x, nextJob, fresh)
  BY <1>0, WritingIsInLoop DEF TypeInv, WorkersInv
<1>2. Set(c, SyncFailed(y)) /\ UNCHANGED <<src, tier, meta, ch, queue, fresh>> /\ Spend /\ r2' \subseteq r2
  BY DEF SyncStepFails, T
<1>3. stg' \in [Tables -> ClickHouseTables]
  <2>1. stg' = stg \/ (x.pc = "insert" /\ stg' = [stg EXCEPT ![x.ti].rows = @ \cup {Max(x.new)}])
    BY DEF SyncStepFails, T
  <2>2. ASSUME x.pc = "insert" PROVE x.ti \in Tables /\ Max(x.new) \in Versions
    <3> HIDE DEF x
    <3>1. x.new # {} /\ x.new \subseteq Versions /\ x.ti \in Tables
      BY <1>1, <2>2 DEF WorkerInv, Writing
    <3> QED
      BY <3>1, MaxOfVersions
  <2> HIDE DEF x
  <2> QED
    BY <2>1, <2>2 DEF TypeInv, DataInv, ClickHouseTables
<1> HIDE DEF x
<1>4. InLoop(y, nextJob, fresh)
  <2>1. x.pc = "stage" => x.ti \in Tables
    BY <1>1 DEF WorkerInv, Writing
  <2> DEFINE dn == IF x.pc = "stage" THEN x.done \cup {x.ti} ELSE x.done
  <2>2. dn \in SUBSET Tables
    BY <1>1, <2>1 DEF WorkerInv, Workers
  <2> HIDE DEF dn
  <2> DEFINE z == [x EXCEPT !.done = dn]
  <2>3. InLoop(z, nextJob, fresh)
    BY <1>1, <2>2 DEF InLoop, Workers
  <2>4. z = y
    BY <1>1 DEF dn, InLoop, Workers
  <2> QED
    BY <2>3, <2>4
<1> HIDE DEF y
<1>5. WorkerInv(SyncFailed(y), nextJob, fresh)
  BY <1>0, <1>4, SyncFailedGood
<1>6. WorkersInv'
  BY <1>2, <1>5, MoveWorkerOnly DEF queue
<1>7. ObjectInv(r2', fresh) /\ faults' \in 0..MaxFaults
  BY <1>2, FewerObjects, FaultsBounded DEF TypeInv
<1> QED
  BY <1>2, <1>3, <1>6, <1>7 DEF TypeInv, DataInv, meta, queue, PartInv, RecInv

\* A new set of tables to do, and the step that goes with it.
LEMMA TodoGood ==
  ASSUME NEW x, NEW n \in Nat, NEW f \in Nat, WorkerInv(x, n, f), x.pc # "idle",
         NEW p \in Pcs \ (Writing \cup {"idle", "cleanup", "fetch"}),
         NEW s \in SUBSET Nat,
         p = "commitstg" => x.done \ s # {},
         p \in {"export", "exprec"} => s # {} /\ s \subseteq Tables
  PROVE  WorkerInv([x EXCEPT !.todo = s, !.pc = p], n, f)
<1> DEFINE y == [x EXCEPT !.todo = s, !.pc = p]
<1>1. /\ y \in Workers /\ y.job = x.job /\ y.pid = x.pid /\ y.fid = x.fid /\ y.pc = p
      /\ y.todo = s /\ y.done = x.done
  BY DEF WorkerInv, Workers
<1> HIDE DEF y
<1>2. WorkerInv(y, n, f)
  BY <1>1 DEF WorkerInv
<1> QED
  BY <1>2 DEF y

\* commit_staging_table.
LEMMA CommitStagingType ==
  ASSUME TypeInv, NEW c \in Consumers, CommitStaging(c)
  PROVE  TypeInv'
<1> DEFINE x == w[c]
           left == x.done \ x.todo
           t == Min(left)
           s == x.todo \cup {t}
           p == IF left = {t} THEN "savecp" ELSE "commitstg"
<1>0. WorkerInv(x, nextJob, fresh) /\ x.pc = "commitstg" /\ nextJob \in Nat /\ fresh \in Nat
  BY Counters DEF CommitStaging, TypeInv, WorkersInv
<1>1. /\ UNCHANGED <<src, tier, meta, r2, queue, fresh>>
      /\ \/ /\ stg[t].exists
            /\ ch' = [ch EXCEPT ![t] = stg[t]] /\ stg' = [stg EXCEPT ![t] = NoTable]
            /\ Set(c, [x EXCEPT !.todo = s, !.pc = p]) /\ UNCHANGED faults
         \/ /\ Spend \/ UNCHANGED faults
            /\ \/ UNCHANGED clickhouse
               \/ ch' = [ch EXCEPT ![t] = stg[t]] /\ stg' = [stg EXCEPT ![t] = ch[t]]
            /\ Set(c, [x EXCEPT !.pc = "rollback", !.err = TRUE])
  BY DEF CommitStaging
<1>2. WorkerInv([x EXCEPT !.pc = "rollback", !.err = TRUE], nextJob, fresh)
  BY <1>0, FailPlain
<1> HIDE DEF x
<1>3. left # {} /\ left \subseteq Tables /\ left \in SUBSET Nat
  BY <1>0 DEF WorkerInv, Workers, Tables
<1>4. t \in left
  <2> HIDE DEF left
  <2> QED
    BY <1>3, MinOfNat
<1>5. t \in Tables /\ t \in Nat /\ s \in SUBSET Nat /\ (left # {t} => x.done \ s # {})
  <2>1. t \in Tables /\ t \in Nat
    BY <1>3, <1>4
  <2>2. s \in SUBSET Nat
    BY <1>0, <2>1 DEF WorkerInv, Workers
  <2>3. x.done \ s = left \ {t}
    OBVIOUS
  <2> HIDE DEF left, t, s
  <2> QED
    BY <1>4, <2>1, <2>2, <2>3
<1>6. /\ p \in Pcs \ (Writing \cup {"idle", "cleanup", "fetch"})
      /\ p = "commitstg" => x.done \ s # {}
      /\ p \notin {"export", "exprec"}
  BY <1>5 DEF Pcs, Writing
<1> HIDE DEF left, t, s, p
<1>7. WorkerInv([x EXCEPT !.todo = s, !.pc = p], nextJob, fresh)
  BY <1>0, <1>5, <1>6, TodoGood
<1>8. WorkersInv' /\ (Spend \/ UNCHANGED faults)
  BY <1>1, <1>2, <1>7, MoveWorkerOnly DEF queue
<1>9. ch' \in [Tables -> ClickHouseTables] /\ stg' \in [Tables -> ClickHouseTables]
  <2>1. NoTable \in ClickHouseTables
    BY DEF NoTable, ClickHouseTables
  <2>2. ch \in [Tables -> ClickHouseTables] /\ stg \in [Tables -> ClickHouseTables]
    BY DEF TypeInv, DataInv
  <2> QED
    BY <1>1, <1>5, <2>1, <2>2 DEF clickhouse
<1>10. faults' \in 0..MaxFaults
  BY <1>8, FaultsBounded
<1> QED
  BY <1>1, <1>8, <1>9, <1>10 DEF TypeInv, DataInv, meta, queue, PartInv, RecInv, ObjectInv

\* rollback_staging_tables.
LEMMA RollbackStagingType ==
  ASSUME TypeInv, NEW c \in Consumers, RollbackStaging(c)
  PROVE  TypeInv'
<1> DEFINE p == IF w[c].todo = {} THEN "finish" ELSE "partialcp"
<1>1. p \in Plain \ {"cleanup", "fetch"} /\ w[c].pc # "idle" /\ Set(c, [w[c] EXCEPT !.pc = p])
  BY DEF RollbackStaging, Goto, Plain
<1> HIDE DEF p
<1>2. UNCHANGED <<src, tier, meta, r2, ch, queue, fresh>> /\ (Spend \/ UNCHANGED faults)
  BY DEF RollbackStaging
<1>3. WorkersInv'
  BY <1>1, <1>2, GotoPlain, MoveWorkerOnly DEF queue
<1>4. stg' \in [Tables -> ClickHouseTables]
  BY DEF RollbackStaging, TypeInv, DataInv, NoTable, ClickHouseTables
<1>5. faults' \in 0..MaxFaults
  BY <1>2, FaultsBounded
<1> QED
  BY <1>2, <1>3, <1>4, <1>5 DEF TypeInv, DataInv, meta, queue, PartInv, RecInv, ObjectInv

\* The checkpoint of the committed tables.
LEMMA SavePartialCheckpointType ==
  ASSUME TypeInv, NEW c \in Consumers, SavePartialCheckpoint(c)
  PROVE  TypeInv'
<1>1. w[c].pc # "idle" /\ "finish" \in Plain \ {"cleanup", "fetch"} /\ Set(c, [w[c] EXCEPT !.pc = "finish"])
  BY DEF SavePartialCheckpoint, Goto, Plain
<1>2. UNCHANGED <<src, tier, part, recs, r2, clickhouse, queue, fresh>> /\ (Spend \/ UNCHANGED faults)
  BY DEF SavePartialCheckpoint
<1>3. WorkersInv'
  BY <1>1, <1>2, GotoPlain, MoveWorkerOnly DEF queue
<1>4. cp' \in [Tables -> 0..MaxRow]
  <2>1. w[c].mcp \in [Tables -> 0..MaxRow] /\ cp \in [Tables -> 0..MaxRow] /\ 0 \in 0..MaxRow
    BY Constants DEF TypeInv, DataInv, WorkersInv, WorkerInv, Workers
  <2> QED
    BY <2>1 DEF SavePartialCheckpoint
<1>5. faults' \in 0..MaxFaults
  BY <1>2, FaultsBounded
<1> QED
  BY <1>2, <1>3, <1>4, <1>5 DEF TypeInv, DataInv, clickhouse, queue, PartInv, RecInv, ObjectInv

\* The checkpoint.
LEMMA SaveCheckpointType ==
  ASSUME TypeInv, NEW c \in Consumers, SaveCheckpoint(c)
  PROVE  TypeInv'
<1>1. w[c].pc # "idle" /\ AfterSync(c) \in Plain \ {"cleanup", "fetch"}
      /\ Set(c, [w[c] EXCEPT !.pc = AfterSync(c)])
  BY DEF SaveCheckpoint, Goto, Plain, AfterSync
<1>2. UNCHANGED <<src, tier, part, recs, r2, clickhouse, queue, fresh, faults>>
  BY DEF SaveCheckpoint
<1>3. WorkersInv'
  BY <1>1, <1>2, GotoPlain, MoveWorkerOnly DEF queue
<1>4. cp' \in [Tables -> 0..MaxRow]
  BY DEF SaveCheckpoint, TypeInv, WorkersInv, WorkerInv, Workers
<1> QED
  BY <1>2, <1>3, <1>4 DEF TypeInv, DataInv, clickhouse, queue, PartInv, RecInv, ObjectInv

\* Any other statement fails.
LEMMA JobStepFailsType ==
  ASSUME TypeInv, NEW c \in Consumers, JobStepFails(c)
  PROVE  TypeInv'
<1>1. w[c].pc # "idle" /\ Set(c, [w[c] EXCEPT !.pc = "finish", !.err = TRUE])
      /\ UNCHANGED <<src, tier, meta, r2, clickhouse, queue, fresh>> /\ Spend
  BY DEF JobStepFails
<1>2. WorkersInv'
  BY <1>1, FailPlain, MoveWorkerOnly DEF queue
<1> QED
  BY <1>1, <1>2, QuietStep DEF queue

-----------------------------------------------------------------------------
(* The commit and the tier transitions. *)

\* commit_sync changes the state of rows and records only.
LEMMA CommitSyncType ==
  ASSUME TypeInv, NEW c \in Consumers, CommitSync(c)
  PROVE  TypeInv'
<1> DEFINE q == IF kind[w[c].job] = "sync" THEN "finish" ELSE "settier"
           U(p) == IF p.job = w[c].job THEN [p EXCEPT !.state = "committed"] ELSE p
<1>1. w[c].pc # "idle" /\ q \in Plain \ {"cleanup", "fetch"} /\ Set(c, [w[c] EXCEPT !.pc = q])
  BY DEF CommitSync, Goto, Plain
<1> HIDE DEF q
<1>2. UNCHANGED <<src, tier, cp, r2, clickhouse, queue, fresh, faults>>
      /\ part' = {U(p) : p \in part} /\ recs' = {U(r) : r \in recs}
  BY DEF CommitSync
<1>3. WorkersInv'
  BY <1>1, <1>2, GotoPlain, MoveWorkerOnly DEF queue
<1>4. ASSUME NEW p \in part
      PROVE  /\ U(p) \in PartitionRows /\ U(p).id = p.id /\ U(p).t = p.t /\ U(p).d = p.d
             /\ U(p).state = "pending" => U(p).job # 0
  BY DEF TypeInv, PartInv, PartitionRows, RowStates
<1>5. ASSUME NEW r \in recs
      PROVE  U(r) \in FileRows /\ U(r).file = r.file /\ U(r).part = r.part
  BY DEF TypeInv, RecInv, FileRows, RowStates
<1> HIDE DEF U
<1>6. PartInv(part', fresh)
  <2>1. part' \subseteq PartitionRows
    BY <1>2, <1>4
  <2>2. \A p \in part' : p.id < fresh /\ (p.state = "pending" => p.job # 0)
    BY <1>2, <1>4 DEF TypeInv, PartInv
  <2>3. ASSUME NEW p \in part', NEW r \in part', p.t = r.t, p.d = r.d PROVE p = r
    BY <1>2, <1>4, <2>3 DEF TypeInv, PartInv
  <2> QED
    BY <2>1, <2>2, <2>3 DEF PartInv
<1>7. RecInv(recs', part', fresh)
  <2>1. ASSUME NEW r \in recs'
        PROVE  r \in FileRows /\ r.file < fresh /\ \E p \in part' : p.id = r.part
    <3>1. PICK s \in recs : r = U(s)
      BY <1>2
    <3>2. PICK p \in part : p.id = s.part
      BY DEF TypeInv, RecInv
    <3>3. U(p) \in part' /\ U(p).id = s.part
      BY <1>2, <1>4, <3>2
    <3> QED
      BY <1>5, <3>1, <3>3 DEF TypeInv, RecInv
  <2> QED
    BY <2>1 DEF RecInv
<1> QED
  BY <1>2, <1>3, <1>6, <1>7 DEF TypeInv, DataInv, clickhouse, queue

\* update_source_tier.
LEMMA SetTierType ==
  ASSUME TypeInv, NEW c \in Consumers, SetTier(c)
  PROVE  TypeInv'
<1>1. PICK p \in {"dropch", "cleanr2", "finish"} : Set(c, [w[c] EXCEPT !.pc = p])
  BY DEF SetTier, Goto
<1>2. w[c].pc # "idle" /\ p \in Plain \ {"cleanup", "fetch"}
  BY DEF SetTier, Plain
<1>3. UNCHANGED <<src, meta, r2, clickhouse, queue, fresh, faults>> /\ tier' = w[c].target
  BY DEF SetTier
<1>4. WorkersInv'
  BY <1>1, <1>2, <1>3, GotoPlain, MoveWorkerOnly DEF queue
<1>5. tier' \in Tiers
  BY <1>3 DEF TypeInv, WorkersInv, WorkerInv, Workers
<1> QED
  BY <1>3, <1>4, <1>5 DEF TypeInv, DataInv, meta, clickhouse, queue, PartInv, RecInv, ObjectInv

\* The committed partitions are listed.
LEMMA ListPartitionsType ==
  ASSUME TypeInv, NEW c \in Consumers, ListPartitions(c)
  PROVE  TypeInv'
<1> DEFINE x == w[c]
           ids == {p.id : p \in {q \in part : q.state = "committed"}}
           p == IF ids = {} THEN "settier" ELSE "import"
           y == [x EXCEPT !.pc = p, !.olds = ids, !.todo = ids]
<1>0. WorkerInv(x, nextJob, fresh) /\ x.pc = "list"
  BY DEF ListPartitions, TypeInv, WorkersInv
<1>1. Set(c, y) /\ UNCHANGED <<src, tier, meta, r2, clickhouse, queue, fresh, faults>>
  BY DEF ListPartitions
<1>2. ids \in SUBSET Nat
  BY DEF TypeInv, PartInv, PartitionRows
<1>3. p \in Pcs /\ p \notin Writing \cup {"idle", "cleanup", "fetch", "commitstg", "export", "exprec"}
  BY DEF Pcs, Writing
<1> HIDE DEF x, ids, p
<1>4. y \in Workers /\ y.job = x.job /\ y.pid = x.pid /\ y.fid = x.fid /\ y.pc = p
  BY <1>0, <1>2, <1>3 DEF WorkerInv, Workers
<1> HIDE DEF y
<1>5. WorkerInv(y, nextJob, fresh)
  BY <1>0, <1>3, <1>4 DEF WorkerInv
<1>6. WorkersInv'
  BY <1>1, <1>5, MoveWorkerOnly DEF queue
<1> QED
  BY <1>1, <1>6, QuietStep DEF queue

\* A partition is imported or skipped.
LEMMA ImportPartitionType ==
  ASSUME TypeInv, NEW c \in Consumers, ImportPartition(c)
  PROVE  TypeInv'
<1> DEFINE x == w[c]
<1>0. WorkerInv(x, nextJob, fresh) /\ x.pc = "import" /\ x.todo \in SUBSET Nat /\ x.new \in SUBSET Nat
  BY DEF ImportPartition, TypeInv, WorkersInv, WorkerInv, Workers
<1>1. UNCHANGED <<src, tier, meta, r2, stg, queue, fresh>>
  BY DEF ImportPartition
<1>2. PICK id \in x.todo :
        LET rest == x.todo \ {id}
            obj  == {o \in r2 : o.key = id /\ \E p \in PartId(id) : p.path = "key"}
            Next1(got) ==
              [x EXCEPT !.todo = rest, !.new = got,
                 !.pc = IF rest # {} THEN "import"
                        ELSE IF got = {} THEN "finish" ELSE "settier",
                 !.err = rest = {} /\ got = {}]
        IN  \/ /\ obj # {}
               /\ ch' = [t \in Tables |->
                           IF \E o \in obj : o.t = t
                           THEN TableOf(ch[t].rows \cup UNION {o.rows : o \in obj})
                           ELSE ch[t]]
               /\ Set(c, Next1(x.new \cup {id}))
               /\ UNCHANGED faults
            \/ /\ IF obj = {} THEN UNCHANGED faults ELSE Spend
               /\ Set(c, Next1(x.new))
               /\ UNCHANGED ch
  BY DEF ImportPartition
<1> DEFINE rest == x.todo \ {id}
           obj == {o \in r2 : o.key = id /\ \E p \in PartId(id) : p.path = "key"}
           P(got) == IF rest # {} THEN "import" ELSE IF got = {} THEN "finish" ELSE "settier"
           N(got) == [x EXCEPT !.todo = rest, !.new = got, !.pc = P(got), !.err = rest = {} /\ got = {}]
<1>3. Spend \/ UNCHANGED faults
  BY <1>2
<1>4. \E got \in SUBSET Nat : Set(c, N(got))
  <2>1. x.new \cup {id} \in SUBSET Nat
    BY <1>0
  <2>2. Set(c, N(x.new \cup {id})) \/ Set(c, N(x.new))
    BY <1>2
  <2> QED
    BY <1>0, <2>1, <2>2
<1>5. ch' \in [Tables -> ClickHouseTables]
  <2>1. ch' = ch \/ ch' = [t \in Tables |->
                             IF \E o \in obj : o.t = t
                             THEN TableOf(ch[t].rows \cup UNION {o.rows : o \in obj})
                             ELSE ch[t]]
    BY <1>2
  <2>2. \A o \in obj : o.rows \subseteq Versions
    BY DEF TypeInv, ObjectInv, Objects
  <2> DEFINE more == UNION {o.rows : o \in obj}
  <2>3. more \subseteq Versions
    BY <2>2
  <2> HIDE DEF obj, more
  <2>4. \A t \in Tables : TableOf(ch[t].rows \cup more) \in ClickHouseTables /\ ch[t] \in ClickHouseTables
    BY <2>3 DEF TypeInv, DataInv, ClickHouseTables, TableOf
  <2>5. ch \in [Tables -> ClickHouseTables]
    BY DEF TypeInv, DataInv
  <2> QED
    BY <2>1, <2>4, <2>5 DEF more
<1>6. rest \in SUBSET Nat
  BY <1>0
<1> HIDE DEF x, rest, obj
<1>7. ASSUME NEW got \in SUBSET Nat PROVE WorkerInv(N(got), nextJob, fresh)
  <2> DEFINE b == rest = {} /\ got = {}
             p == P(got)
             y == [x EXCEPT !.todo = rest, !.new = got, !.pc = p, !.err = b]
  <2>0. b \in BOOLEAN
    OBVIOUS
  <2>1. p \in Pcs /\ p \notin Writing \cup {"idle", "cleanup", "fetch", "commitstg", "export", "exprec"}
    BY DEF Pcs, Writing
  <2>2. N(got) = y
    OBVIOUS
  <2> HIDE DEF b, p
  <2>3. y \in Workers /\ y.job = x.job /\ y.pid = x.pid /\ y.fid = x.fid /\ y.pc = p
    BY <1>0, <1>6, <2>0, <2>1 DEF WorkerInv, Workers
  <2> HIDE DEF y, N
  <2>4. WorkerInv(y, nextJob, fresh)
    BY <1>0, <2>1, <2>3 DEF WorkerInv
  <2> QED
    BY <2>2, <2>4
<1> HIDE DEF N
<1>8. WorkersInv'
  BY <1>1, <1>4, <1>7, MoveWorkerOnly DEF queue
<1>9. faults' \in 0..MaxFaults
  BY <1>3, FaultsBounded
<1> QED
  BY <1>1, <1>5, <1>8, <1>9 DEF TypeInv, DataInv, meta, queue, PartInv, RecInv, ObjectInv

\* The objects imported and the files of the partitions listed.
LEMMA CleanR2Type ==
  ASSUME TypeInv, NEW c \in Consumers, CleanR2(c)
  PROVE  TypeInv'
<1>1. w[c].pc # "idle" /\ "delparts" \in Plain \ {"cleanup", "fetch"}
      /\ Set(c, [w[c] EXCEPT !.pc = "delparts"]) /\ UNCHANGED <<src, tier, meta, clickhouse, queue, fresh>>
  BY DEF CleanR2, Goto, Plain
<1>2. r2' \subseteq r2 /\ (Spend \/ UNCHANGED faults)
  BY DeleteObjectsGood DEF CleanR2
<1>3. WorkersInv'
  BY <1>1, GotoPlain, MoveWorkerOnly DEF queue
<1>4. ObjectInv(r2', fresh) /\ faults' \in 0..MaxFaults
  BY <1>2, FewerObjects, FaultsBounded DEF TypeInv
<1> QED
  BY <1>1, <1>3, <1>4 DEF TypeInv, DataInv, meta, clickhouse, queue, PartInv, RecInv

\* cleanup_partitions.
LEMMA DeletePartsType ==
  ASSUME TypeInv, NEW c \in Consumers, DeleteParts(c)
  PROVE  TypeInv'
<1>1. w[c].pc # "idle" /\ "finish" \in Plain \ {"cleanup", "fetch"}
      /\ Set(c, [w[c] EXCEPT !.pc = "finish"]) /\ UNCHANGED <<src, tier, cp, r2, clickhouse, queue, fresh>>
  BY DEF DeleteParts, Goto, Plain
<1>2. PICK gone : DeletePartitions(gone) /\ (Spend \/ UNCHANGED faults)
  BY DEF DeleteParts
<1>3. WorkersInv'
  BY <1>1, GotoPlain, MoveWorkerOnly DEF queue
<1>4. PartInv(part', fresh) /\ RecInv(recs', part', fresh) /\ faults' \in 0..MaxFaults
  BY <1>2, DeletePartitionsGood, FaultsBounded DEF TypeInv
<1> QED
  BY <1>1, <1>3, <1>4 DEF TypeInv, DataInv, clickhouse, queue

\* The ClickHouse tables there are.
LEMMA ListClickHouseType ==
  ASSUME TypeInv, NEW c \in Consumers, ListClickHouse(c)
  PROVE  TypeInv'
<1> DEFINE ts == {t \in Tables : ch[t].exists}
           p == IF ts = {} THEN "settier" ELSE "export"
<1>1. ts \in SUBSET Nat /\ ts \subseteq Tables
  BY DEF Tables
<1>2. /\ p \in Pcs \ (Writing \cup {"idle", "cleanup", "fetch"}) /\ p # "commitstg"
      /\ p \in {"export", "exprec"} => ts # {}
  BY DEF Pcs, Writing
<1>3. w[c].pc = "listch" /\ Set(c, [w[c] EXCEPT !.todo = ts, !.pc = p])
      /\ UNCHANGED <<src, tier, meta, r2, clickhouse, queue, fresh, faults>>
  BY DEF ListClickHouse
<1> HIDE DEF ts, p
<1>4. WorkerInv(w[c], nextJob, fresh) /\ w[c].pc # "idle" /\ nextJob \in Nat /\ fresh \in Nat
  BY <1>3, Counters DEF TypeInv, WorkersInv
<1>5. WorkerInv([w[c] EXCEPT !.todo = ts, !.pc = p], nextJob, fresh)
  BY <1>1, <1>2, <1>4, TodoGood
<1>6. WorkersInv'
  BY <1>3, <1>5, MoveWorkerOnly DEF queue
<1> QED
  BY <1>3, <1>6, QuietStep DEF queue

\* The table an export is about.
LEMMA ExportedTable ==
  ASSUME TypeInv, NEW c \in Consumers, w[c].pc \in {"export", "exprec"}
  PROVE  Min(w[c].todo) \in Tables /\ w[c].todo \in SUBSET Tables
<1> DEFINE s == w[c].todo
<1>1. s # {} /\ s \subseteq Tables /\ s \in SUBSET Nat
  BY DEF TypeInv, WorkersInv, WorkerInv, Tables
<1> HIDE DEF s
<1>2. Min(s) \in s
  BY <1>1, MinOfNat
<1> QED
  BY <1>1, <1>2 DEF s

\* The next table of an export, or its end.
LEMMA NextExportGood ==
  ASSUME NEW x \in Workers, NEW n \in Nat, NEW f \in Nat, x.job < n, x.job # 0, x.pid < f, x.fid < f,
         x.todo \subseteq Tables
  PROVE  WorkerInv(NextExport(x), n, f)
<1> DEFINE p == CASE x.todo # {}                  -> "export"
                  [] x.todo = {} /\ x.done = {} -> "finish"
                  [] OTHER                      -> "commitsync"
           b == x.todo = {} /\ x.done = {}
           y == [x EXCEPT !.pc = p, !.err = b]
<1>0. b \in BOOLEAN
  OBVIOUS
<1>1. p \in {"export", "finish", "commitsync"} /\ (p = "export" => x.todo # {})
  OBVIOUS
<1>2. NextExport(x) = y
  BY DEF NextExport
<1> HIDE DEF p, b
<1>3. p \in Pcs /\ p \notin Writing \cup {"idle", "cleanup", "fetch", "commitstg", "exprec"}
  BY <1>1 DEF Pcs, Writing
<1>4. y \in Workers /\ y.job = x.job /\ y.pid = x.pid /\ y.fid = x.fid /\ y.pc = p /\ y.todo = x.todo
  BY <1>0, <1>3 DEF Workers
<1> HIDE DEF y
<1>5. WorkerInv(y, n, f)
  BY <1>1, <1>3, <1>4 DEF WorkerInv
<1> QED
  BY <1>2, <1>5

\* A table is exported or skipped.
LEMMA ExportTableType ==
  ASSUME TypeInv, NEW c \in Consumers, ExportTable(c)
  PROVE  TypeInv'
<1> DEFINE x == w[c]
           t == Min(x.todo)
           p == PartitionFor(t, Today)
           s == x.todo \ {t}
           skipped == [x EXCEPT !.todo = s]
           exported == [x EXCEPT !.pc = "exprec", !.pid = p.id]
           obj == [key |-> p.id, t |-> t, d |-> Today, rows |-> ch[t].rows]
<1>0. WorkerInv(x, nextJob, fresh) /\ x.pc = "export"
  BY DEF ExportTable, TypeInv, WorkersInv
<1>1. /\ part' = p.rows /\ fresh' = p.fresh /\ UNCHANGED <<src, tier, cp, recs, clickhouse, queue>>
      /\ \/ /\ r2' = {o \in r2 : o.key # p.id} \cup {obj}
            /\ Set(c, exported) /\ UNCHANGED faults
         \/ (Spend \/ UNCHANGED faults) /\ Set(c, NextExport(skipped)) /\ UNCHANGED r2
  BY DEF ExportTable
<1>2. t \in Tables /\ x.todo \in SUBSET Tables
  BY <1>0, ExportedTable
<1>3. Today \in Nat /\ ch[t] \in ClickHouseTables /\ nextJob \in Nat /\ fresh \in Nat
  BY <1>2, Constants, Counters DEF TypeInv, DataInv
<1> HIDE DEF x, t
<1>4. /\ PartInv(p.rows, p.fresh) /\ RecInv(recs, p.rows, p.fresh) /\ ObjectInv(r2, p.fresh)
      /\ p.fresh \in Nat /\ fresh <= p.fresh
      /\ p.id \in Nat /\ p.id < p.fresh
  BY <1>2, <1>3, PartitionForGood
<1> HIDE DEF p
<1>5. obj \in Objects /\ obj.key = p.id
  BY <1>2, <1>3, <1>4 DEF Objects, ClickHouseTables
<1> HIDE DEF obj
<1>6. ObjectInv(r2', p.fresh)
  BY <1>1, <1>4, <1>5 DEF ObjectInv
<1>7. WorkerInv(x, nextJob, p.fresh)
  BY <1>0, <1>3, <1>4, WorkerMonotone
<1>8. WorkerInv(exported, nextJob, p.fresh)
  <2>1. /\ exported \in Workers /\ exported.job = x.job /\ exported.pid = p.id /\ exported.fid = x.fid
        /\ exported.pc = "exprec" /\ exported.todo = x.todo
    BY <1>4, <1>7 DEF WorkerInv, Workers, Pcs
  <2> HIDE DEF exported
  <2>2. x.todo # {} /\ x.todo \subseteq Tables /\ x.job # 0
    BY <1>0 DEF WorkerInv
  <2> QED
    BY <1>4, <1>7, <2>1, <2>2 DEF WorkerInv, Writing
<1>9. WorkerInv(NextExport(skipped), nextJob, p.fresh)
  <2>0. s \in SUBSET Nat /\ s \subseteq Tables
    BY <1>2 DEF Tables
  <2> HIDE DEF s
  <2>1. /\ skipped \in Workers /\ skipped.job = x.job /\ skipped.pid = x.pid /\ skipped.fid = x.fid
        /\ skipped.todo = s
    BY <1>7, <2>0 DEF WorkerInv, Workers
  <2> HIDE DEF skipped
  <2>2. x.job < nextJob /\ x.job # 0 /\ x.pid < p.fresh /\ x.fid < p.fresh
    BY <1>0, <1>7 DEF WorkerInv
  <2> QED
    BY <1>3, <1>4, <2>0, <2>1, <2>2, NextExportGood
<1> HIDE DEF exported, skipped
<1>10. WorkersInv' /\ (Spend \/ UNCHANGED faults)
  <2>1. nextJob' \in Nat /\ nextJob' = nextJob /\ nextJob <= nextJob' /\ fresh' \in Nat /\ fresh <= fresh'
    BY <1>1, <1>3, <1>4 DEF queue
  <2> QED
    BY <1>1, <1>8, <1>9, <2>1, MoveWorker
<1>11. faults' \in 0..MaxFaults
  BY <1>10, FaultsBounded
<1> QED
  BY <1>1, <1>4, <1>6, <1>10, <1>11 DEF TypeInv, DataInv, clickhouse, queue

\* The object becomes the path of the partition.
LEMMA RecordExportType ==
  ASSUME TypeInv, NEW c \in Consumers, RecordExport(c)
  PROVE  TypeInv'
<1> DEFINE x == w[c]
           t == Min(x.todo)
           s == x.todo \ {t}
           dn == x.done \cup {t}
           y == [x EXCEPT !.todo = s, !.done = dn, !.pid = 0]
<1>0. WorkerInv(x, nextJob, fresh) /\ x.pc = "exprec" /\ nextJob \in Nat /\ fresh \in Nat /\ 0 < fresh
  BY Counters DEF RecordExport, TypeInv, WorkersInv
<1>1. /\ update_partition_data(x.pid, "key", x.job)
      /\ UNCHANGED <<src, tier, cp, recs, r2, clickhouse, queue, fresh>>
      /\ \/ Set(c, NextExport(y)) /\ UNCHANGED faults
         \/ Spend /\ Set(c, [x EXCEPT !.pc = "finish", !.err = TRUE])
  BY DEF RecordExport
<1>2. t \in Tables /\ x.todo \in SUBSET Tables
  BY <1>0, ExportedTable
<1>3. WorkerInv([x EXCEPT !.pc = "finish", !.err = TRUE], nextJob, fresh)
  BY <1>0, FailPlain
<1> HIDE DEF x, t
<1>4. s \in SUBSET Nat /\ s \subseteq Tables /\ dn \in SUBSET Tables
  BY <1>0, <1>2 DEF Tables, WorkerInv, Workers
<1> HIDE DEF s, dn
<1>5. y \in Workers /\ y.job = x.job /\ y.pid = 0 /\ y.fid = x.fid /\ y.todo = s
  BY <1>0, <1>4 DEF WorkerInv, Workers
<1> HIDE DEF y
<1>6. WorkerInv(NextExport(y), nextJob, fresh)
  <2>1. x.job < nextJob /\ x.job # 0 /\ x.fid < fresh
    BY <1>0 DEF WorkerInv
  <2> QED
    BY <1>0, <1>4, <1>5, <2>1, NextExportGood
<1>7. WorkersInv' /\ (Spend \/ UNCHANGED faults)
  BY <1>1, <1>3, <1>6, MoveWorkerOnly DEF queue
<1>8. PartInv(part', fresh) /\ RecInv(recs, part', fresh)
  <2>1. x.job \in 1..MaxJobs
    BY <1>0, Constants DEF WorkerInv, Workers
  <2> QED
    BY <1>0, <1>1, <2>1, UpdateGood DEF TypeInv
<1>9. faults' \in 0..MaxFaults
  BY <1>7, FaultsBounded
<1> QED
  BY <1>1, <1>7, <1>8, <1>9 DEF TypeInv, DataInv, clickhouse, queue

\* Dropped tables are no tables.
LEMMA DroppedTables ==
  ASSUME TypeInv, drop_source_tables
  PROVE  ch' \in [Tables -> ClickHouseTables] /\ faults' \in 0..MaxFaults
<1>1. ch' \in [Tables -> ClickHouseTables] /\ (Spend \/ UNCHANGED faults)
  BY DEF drop_source_tables, TypeInv, DataInv, NoTable, ClickHouseTables
<1> QED
  BY <1>1, FaultsBounded

\* The tables are dropped after a downgrade to warm ...
LEMMA DropClickHouseType ==
  ASSUME TypeInv, NEW c \in Consumers, DropClickHouse(c)
  PROVE  TypeInv'
<1>1. w[c].pc # "idle" /\ "dropstg" \in Plain \ {"cleanup", "fetch"}
      /\ Set(c, [w[c] EXCEPT !.pc = "dropstg"]) /\ UNCHANGED <<src, tier, meta, r2, stg, queue, fresh>>
  BY DEF DropClickHouse, Goto, Plain
<1>2. ch' \in [Tables -> ClickHouseTables] /\ faults' \in 0..MaxFaults
  BY DroppedTables DEF DropClickHouse
<1>3. WorkersInv'
  BY <1>1, GotoPlain, MoveWorkerOnly DEF queue
<1> QED
  BY <1>1, <1>2, <1>3 DEF TypeInv, DataInv, meta, queue, PartInv, RecInv, ObjectInv

\* ... with the staging tables ...
LEMMA DropStagingType ==
  ASSUME TypeInv, NEW c \in Consumers, DropStaging(c)
  PROVE  TypeInv'
<1>1. w[c].pc # "idle" /\ "finish" \in Plain \ {"cleanup", "fetch"}
      /\ Set(c, [w[c] EXCEPT !.pc = "finish"]) /\ UNCHANGED <<src, tier, meta, r2, ch, queue, fresh>>
      /\ (Spend \/ UNCHANGED faults)
  BY DEF DropStaging, Goto, Plain
<1>2. stg' \in [Tables -> ClickHouseTables] /\ faults' \in 0..MaxFaults
  <2>1. NoTable \in ClickHouseTables
    BY DEF NoTable, ClickHouseTables
  <2>2. stg' \in [Tables -> ClickHouseTables]
    BY <2>1 DEF DropStaging, TypeInv, DataInv
  <2> QED
    BY <1>1, <2>2, FaultsBounded
<1>3. WorkersInv'
  BY <1>1, GotoPlain, MoveWorkerOnly DEF queue
<1> QED
  BY <1>1, <1>2, <1>3 DEF TypeInv, DataInv, meta, queue, PartInv, RecInv, ObjectInv

\* ... and on the way to cold, with every object.
LEMMA PurgeType ==
  ASSUME TypeInv, NEW c \in Consumers, PurgeClickHouse(c) \/ PurgeR2(c)
  PROVE  TypeInv'
<1>1. CASE PurgeClickHouse(c)
  <2>1. w[c].pc # "idle" /\ "purger2" \in Plain \ {"cleanup", "fetch"}
        /\ Set(c, [w[c] EXCEPT !.pc = "purger2"]) /\ UNCHANGED <<src, tier, meta, r2, stg, queue, fresh>>
    BY <1>1 DEF PurgeClickHouse, Goto, Plain
  <2>2. ch' \in [Tables -> ClickHouseTables] /\ faults' \in 0..MaxFaults
    BY <1>1, DroppedTables DEF PurgeClickHouse
  <2>3. WorkersInv'
    BY <2>1, GotoPlain, MoveWorkerOnly DEF queue
  <2> QED
    BY <2>1, <2>2, <2>3 DEF TypeInv, DataInv, meta, queue, PartInv, RecInv, ObjectInv
<1>2. CASE PurgeR2(c)
  <2>1. w[c].pc # "idle" /\ "settier" \in Plain \ {"cleanup", "fetch"}
        /\ Set(c, [w[c] EXCEPT !.pc = "settier"]) /\ UNCHANGED <<src, tier, meta, clickhouse, queue, fresh>>
    BY <1>2 DEF PurgeR2, Goto, Plain
  <2>2. r2' \subseteq r2 /\ (Spend \/ UNCHANGED faults)
    BY <1>2, DeleteObjectsGood DEF PurgeR2
  <2>3. WorkersInv'
    BY <2>1, GotoPlain, MoveWorkerOnly DEF queue
  <2>4. ObjectInv(r2', fresh) /\ faults' \in 0..MaxFaults
    BY <2>2, FewerObjects, FaultsBounded DEF TypeInv
  <2> QED
    BY <2>1, <2>3, <2>4 DEF TypeInv, DataInv, meta, clickhouse, queue, PartInv, RecInv
<1> QED
  BY <1>1, <1>2

-----------------------------------------------------------------------------
(* The theorem. *)

\* The invariant holds initially ...
LEMMA TypeInit == Init => TypeInv
<1> SUFFICES ASSUME Init PROVE TypeInv
  OBVIOUS
<1>1. \A c \in Consumers : w[c] = IdleWorker /\ WorkerInv(IdleWorker, nextJob, fresh)
  BY IdleIsGood DEF Init
<1>2. WorkersInv
  BY <1>1 DEF WorkersInv, WorkerInv, Init
<1>3. NoTable \in ClickHouseTables
  BY DEF NoTable, ClickHouseTables
<1>4. DataInv
  BY <1>3, ConstantsAssumption DEF Init, DataInv, Tiers, Kinds, Jobs
<1> QED
  BY <1>2, <1>4 DEF Init, TypeInv, PartInv, RecInv, ObjectInv

\* ... and every step keeps it.
LEMMA TypeStep == TypeInv /\ [Next]_vars => TypeInv'
<1> SUFFICES ASSUME TypeInv, [Next]_vars PROVE TypeInv'
  OBVIOUS
<1>1. CASE UNCHANGED vars
  BY <1>1 DEF vars, meta, clickhouse, queue, TypeInv, DataInv, WorkersInv, PartInv, RecInv, ObjectInv
<1>2. ASSUME NEW t \in Tables, SourceChange(t) PROVE TypeInv'
  BY <1>2, SourceChangeType
<1>3. ASSUME NEW c \in Consumers, NewJob(c) \/ Redeliver(c) \/ FinishJob(c) \/ Crash(c) PROVE TypeInv'
  BY <1>3, NewJobType, RedeliverType, FinishJobType, CrashType
<1>4. ASSUME NEW c \in Consumers, SyncNext(c) PROVE TypeInv'
  BY <1>4, CleanupOrphansType, FetchTableType, GetPartitionType, UploadNewType,
     AddPartitionFileType, UpdatePartitionType, ListPartitionFilesType, MergeUploadType,
     SwapPartitionFilesType, DeleteOldFilesType, CreateStagingType, InsertStagingType,
     SyncStepFailsType, RollbackStagingType, CommitStagingType, SavePartialCheckpointType,
     SaveCheckpointType, CommitSyncType, JobStepFailsType
     DEF SyncNext
<1>5. ASSUME NEW c \in Consumers, TransitionNext(c) PROVE TypeInv'
  BY <1>5, SetTierType, ListPartitionsType, ImportPartitionType, CleanR2Type, DeletePartsType,
     ListClickHouseType, ExportTableType, RecordExportType, DropClickHouseType, DropStagingType,
     PurgeType
     DEF TransitionNext
<1> QED
  BY <1>1, <1>2, <1>3, <1>4, <1>5 DEF Next

\* The type invariant holds in every reachable state, for all job types, any
\* number of consumers, tables, versions, jobs and faults: in particular a
\* table and date never get two partition rows, and no file record outlives its
\* partition row, however the statements of two consumers interleave.
THEOREM WarehouseTypeCorrect == Spec => []TypeOK
<1>1. TypeInv => TypeOK
  BY TypeInvImpliesTypeOK
<1> QED
  BY <1>1, TypeInit, TypeStep, PTL DEF Spec

-----------------------------------------------------------------------------
(* The hot-to-warm downgrade, run by a single consumer among jobs of every  *)
(* type.                                                                    *)

OneConsumer == \A c \in Consumers : \A d \in Consumers : c = d

\* The steps only this downgrade takes, and all of its steps.
ExportSteps == {"listch", "export", "exprec", "dropch", "dropstg"}
DowngradeSteps == ExportSteps \cup {"commitsync", "settier", "finish"}

\* The objects os of a table have every row of its ClickHouse table.
Copied(os, h, t) == \A k \in h[t].rows : \E o \in os : o.t = t /\ k \in o.rows

\* An identifier names partitions and objects of one table only.
Named(os, ps) ==
  /\ \A o \in os : \A p \in ps : o.key = p.id => o.t = p.t
  /\ \A p \in ps : \A q \in ps : p.id = q.id => p.t = q.t

\* What consumer state x, at a job of type k, says about the tier and the data.
Exported(os, h, tr, k, x) ==
  /\ x.pc \in ExportSteps => k = "downgrade_to_warm"
  /\ x.pc # "idle" /\ k = "downgrade_to_warm" =>
       /\ x.pc \in DowngradeSteps
       /\ x.pc \notin {"finish", "dropstg"} =>
            x.target = "warm" /\ \A t \in x.done : Copied(os, h, t)
  /\ x.pc = "exprec" => Copied(os, h, Min(x.todo))
  /\ x.pc = "dropch" => tr = "warm"

ExportInv ==
  /\ TypeInv /\ Named(r2, part)
  /\ \A c \in Consumers : Exported(r2, ch, tier, kind[w[c].job], w[c])

\* Objects go, and rows go or keep their identifier and table.
LEMMA NamedKept ==
  ASSUME Named(r2, part), r2' \subseteq r2,
         \A p \in part' : \E q \in part : q.id = p.id /\ q.t = p.t
  PROVE  Named(r2', part')
<1>1. ASSUME NEW o \in r2', NEW p \in part', o.key = p.id PROVE o.t = p.t
  <2>1. PICK q \in part : q.id = p.id /\ q.t = p.t
    OBVIOUS
  <2> QED
    BY <1>1, <2>1 DEF Named
<1>2. ASSUME NEW p \in part', NEW q \in part', p.id = q.id PROVE p.t = q.t
  <2>1. PICK a \in part : a.id = p.id /\ a.t = p.t
    OBVIOUS
  <2>2. PICK b \in part : b.id = q.id /\ b.t = q.t
    OBVIOUS
  <2> QED
    BY <1>2, <2>1, <2>2 DEF Named
<1> QED
  BY <1>1, <1>2 DEF Named

\* An object with a fresh key.
LEMMA NamedUpload ==
  ASSUME TypeInv, Named(r2, part), NEW n, n.key = fresh, r2' = r2 \cup {n}, part' = part
  PROVE  Named(r2', part')
<1>1. fresh \in Nat /\ \A p \in part : p.id \in Nat /\ p.id < fresh
  BY DEF TypeInv, DataInv, PartInv, PartitionRows
<1> QED
  BY <1>1 DEF Named

\* get_or_create_partition returns a row of the table.
LEMMA NamedPartition ==
  ASSUME TypeInv, Named(r2, part), NEW t, NEW d
  PROVE  LET p == PartitionFor(t, d)
         IN  Named(r2, p.rows) /\ \A q \in p.rows : q.id = p.id => q.t = t
<1>0. /\ fresh \in Nat /\ \A p \in part : p.id \in Nat /\ p.id < fresh
      /\ \A o \in r2 : o.key \in Nat /\ o.key < fresh
  BY DEF TypeInv, DataInv, PartInv, PartitionRows, ObjectInv, Objects
<1>1. CASE PartAt(t, d) # {}
  <2> DEFINE q == CHOOSE p \in PartAt(t, d) : TRUE
  <2>1. q \in part /\ q.t = t
    BY <1>1 DEF PartAt
  <2>2. PartitionFor(t, d).rows = part /\ PartitionFor(t, d).id = q.id
    BY <1>1 DEF PartitionFor
  <2> HIDE DEF q
  <2> QED
    BY <2>1, <2>2 DEF Named
<1>2. CASE PartAt(t, d) = {}
  <2> DEFINE q == [id |-> fresh, t |-> t, d |-> d, state |-> "committed", job |-> 0, path |-> "none"]
  <2>1. PartitionFor(t, d).rows = part \cup {q} /\ PartitionFor(t, d).id = fresh
    BY <1>2 DEF PartitionFor
  <2>2. q.id = fresh /\ q.t = t
    OBVIOUS
  <2> HIDE DEF q
  <2> QED
    BY <1>0, <2>1, <2>2 DEF Named
<1> QED
  BY <1>1, <1>2

\* update_partition_data keeps identifiers and tables.
LEMMA UpdateKeepsNames ==
  ASSUME TypeInv, NEW id, NEW path, NEW j, update_partition_data(id, path, j)
  PROVE  \A p \in part' : \E q \in part : q.id = p.id /\ q.t = p.t
<1> DEFINE U(p) == IF p.id = id THEN [p EXCEPT !.state = "pending", !.job = j, !.path = path] ELSE p
<1>1. part' = {U(p) : p \in part}
  BY DEF update_partition_data
<1>2. ASSUME NEW p \in part PROVE U(p).id = p.id /\ U(p).t = p.t
  BY DEF TypeInv, PartInv, PartitionRows
<1> HIDE DEF U
<1> QED
  BY <1>1, <1>2

\* Consumer state y is at the same job as x, and not at an export.
Away(x, y) == y.job = x.job /\ y.pc \notin ExportSteps

\* A step to another place ...
LEMMA GotoAway ==
  ASSUME NEW x \in Workers, NEW p, p \notin ExportSteps
  PROVE  Away(x, [x EXCEPT !.pc = p])
BY DEF Away, Workers

\* ... out of the loop over the tables ...
LEMMA AfterTablesAway ==
  ASSUME NEW x \in Workers
  PROVE  Away(x, AfterTables(x))
<1>1. PICK p \in {"commitstg", "rollback", "savecp"} : AfterTables(x) = [x EXCEPT !.pc = p]
  BY DEF AfterTables
<1>2. p \notin ExportSteps
  BY DEF ExportSteps
<1> QED
  BY <1>1, <1>2, GotoAway

\* ... by an error ...
LEMMA SyncFailedAway ==
  ASSUME NEW x \in Workers
  PROVE  Away(x, SyncFailed(x))
<1> DEFINE y == [x EXCEPT !.err = TRUE, !.new = {}, !.days = {}, !.olds = {}, !.pid = 0, !.fid = 0]
<1>1. y \in Workers /\ y.job = x.job
  BY DEF Workers
<1>2. SyncFailed(x) = AfterTables(y)
  BY DEF SyncFailed
<1> HIDE DEF y
<1> QED
  BY <1>1, <1>2, AfterTablesAway DEF Away

\* ... or at the end of a table.
LEMMA TableDoneAway ==
  ASSUME NEW x \in Workers
  PROVE  Away(x, TableDone(x))
BY DEF Away, TableDone, Workers, ExportSteps

\* A step of the one consumer that is not of the downgrade.
LEMMA ElsewhereStep ==
  ASSUME OneConsumer, ExportInv, TypeInv', Named(r2', part'), NEW c \in Consumers, NEW y, Set(c, y),
         w[c].pc \notin DowngradeSteps \cup {"idle"}, Away(w[c], y), kind' = kind
  PROVE  ExportInv'
<1>1. w' = [d \in Consumers |-> y] /\ w'[c] = y /\ \A d \in Consumers : w'[d] = y
  BY DEF ExportInv, TypeInv, WorkersInv, Set, OneConsumer
<1>2. kind[w[c].job] # "downgrade_to_warm"
  BY DEF ExportInv, Exported
<1>3. Exported(r2', ch', tier', kind'[y.job], y)
  BY <1>2 DEF Exported, Away, ExportSteps
<1> QED
  BY <1>1, <1>3 DEF ExportInv

\* The state of a consumer is a record.
LEMMA WorkerIsRecord ==
  ASSUME TypeInv, NEW c \in Consumers
  PROVE  w[c] \in Workers
BY DEF TypeInv, WorkersInv, WorkerInv

\* The steps before the loop and between the tables, as the consumer sees them.
LEMMA LoopAway ==
  ASSUME TypeInv, NEW c \in Consumers,
         CleanupOrphans(c) \/ FetchTable(c) \/ GetPartition(c) \/ UploadNew(c)
  PROVE  w[c].pc \notin DowngradeSteps \cup {"idle"} /\ \E y : Set(c, y) /\ Away(w[c], y)
<1> DEFINE x == w[c]
<1>0. x \in Workers
  BY WorkerIsRecord
<1>1. x.pc \notin DowngradeSteps \cup {"idle"}
  BY DEF CleanupOrphans, FetchTable, GetPartition, UploadNew, DowngradeSteps, ExportSteps
<1>2. CASE CleanupOrphans(c)
  <2> DEFINE y == [x EXCEPT !.pc = "fetch", !.mcp = cp]
  <2>1. Set(c, y) /\ y.job = x.job /\ y.pc = "fetch"
    BY <1>0, <1>2 DEF CleanupOrphans, Workers
  <2> QED
    BY <1>1, <2>1 DEF Away, ExportSteps
<1>3. CASE FetchTable(c)
  <2> DEFINE new == Fetch(x.ti, x.mcp[x.ti])
             days == {DateOf[k] : k \in new}
             p == IF x.target = "hot" THEN "stage" ELSE "getpart"
  <2>1. /\ \/ Set(c, AfterTables(x)) \/ Set(c, [x EXCEPT !.ti = @ + 1])
           \/ Set(c, [x EXCEPT !.new = new, !.days = days, !.pc = p])
        /\ p \in {"stage", "getpart"}
    BY <1>3 DEF FetchTable
  <2> HIDE DEF new, days, p
  <2>2. CASE Set(c, AfterTables(x))
    BY <1>0, <1>1, <2>2, AfterTablesAway
  <2>3. CASE Set(c, [x EXCEPT !.ti = @ + 1])
    <3> DEFINE y == [x EXCEPT !.ti = @ + 1]
    <3>1. y.job = x.job /\ y.pc = x.pc /\ x.pc = "fetch"
      BY <1>0, <1>3 DEF Workers, FetchTable
    <3> QED
      BY <1>1, <2>3, <3>1 DEF Away, ExportSteps
  <2>4. CASE Set(c, [x EXCEPT !.new = new, !.days = days, !.pc = p])
    <3> DEFINE y == [x EXCEPT !.new = new, !.days = days, !.pc = p]
    <3>1. y.job = x.job /\ y.pc = p
      BY <1>0 DEF Workers
    <3> QED
      BY <1>1, <2>1, <2>4, <3>1 DEF Away, ExportSteps
  <2> QED
    BY <2>1, <2>2, <2>3, <2>4
<1>4. CASE GetPartition(c)
  <2> DEFINE id == PartitionFor(T(c), Day(c)).id
             p == IF x.mcp[T(c)] = 0 THEN "upload" ELSE "listfiles"
  <2>1. Set(c, [x EXCEPT !.pid = id, !.pc = p]) /\ p \in {"upload", "listfiles"}
    BY <1>4 DEF GetPartition
  <2> HIDE DEF id, p
  <2> DEFINE y == [x EXCEPT !.pid = id, !.pc = p]
  <2>2. y.job = x.job /\ y.pc = p
    BY <1>0 DEF Workers
  <2> QED
    BY <1>1, <2>1, <2>2 DEF Away, ExportSteps
<1>5. CASE UploadNew(c)
  <2> DEFINE y == [x EXCEPT !.pc = "addrec", !.fid = fresh]
  <2>1. Set(c, y) /\ y.job = x.job /\ y.pc = "addrec"
    BY <1>0, <1>5 DEF UploadNew, Workers
  <2> QED
    BY <1>1, <2>1 DEF Away, ExportSteps
<1> QED
  BY <1>2, <1>3, <1>4, <1>5

\* The steps of a date ...
LEMMA DateAway ==
  ASSUME TypeInv, NEW c \in Consumers,
         AddPartitionFile(c) \/ UpdatePartition(c) \/ ListPartitionFiles(c) \/ MergeUpload(c)
         \/ SwapPartitionFiles(c) \/ DeleteOldFiles(c)
  PROVE  w[c].pc \notin DowngradeSteps \cup {"idle"} /\ \E y : Set(c, y) /\ Away(w[c], y)
<1> DEFINE x == w[c]
<1>0. x \in Workers
  BY WorkerIsRecord
<1>1. x.pc \notin DowngradeSteps \cup {"idle"}
  BY DEF AddPartitionFile, UpdatePartition, ListPartitionFiles, MergeUpload, SwapPartitionFiles,
         DeleteOldFiles, DowngradeSteps, ExportSteps
<1>2. CASE Set(c, SyncFailed(x))
  BY <1>0, <1>1, <1>2, SyncFailedAway
<1>3. CASE Set(c, [x EXCEPT !.pc = "updpart"])
  BY <1>0, <1>1, <1>3, GotoAway DEF ExportSteps
<1>4. CASE UpdatePartition(c)
  <2> DEFINE rest == x.days \ {Day(c)}
             rec == [x EXCEPT !.pc = "getpart", !.days = rest, !.pid = 0, !.fid = 0, !.olds = {}]
  <2>1. Set(c, rec) \/ Set(c, TableDone(rec)) \/ Set(c, SyncFailed(rec))
    BY <1>4 DEF UpdatePartition
  <2>2. rest \in SUBSET Nat
    BY <1>0 DEF Workers
  <2> HIDE DEF rest
  <2>3. rec \in Workers /\ rec.job = x.job /\ rec.pc = "getpart"
    BY <1>0, <2>2 DEF Workers, Pcs
  <2> HIDE DEF rec
  <2>4. Away(x, rec) /\ Away(x, TableDone(rec)) /\ Away(x, SyncFailed(rec))
    BY <2>3, TableDoneAway, SyncFailedAway DEF Away, ExportSteps
  <2> QED
    BY <1>1, <2>1, <2>4
<1>5. CASE ListPartitionFiles(c)
  <2>1. PICK fs : Set(c, [x EXCEPT !.pc = "merge", !.olds = fs])
    BY <1>5 DEF ListPartitionFiles
  <2> DEFINE y == [x EXCEPT !.pc = "merge", !.olds = fs]
  <2>2. y.job = x.job /\ y.pc = "merge"
    BY <1>0 DEF Workers
  <2> QED
    BY <1>1, <2>1, <2>2 DEF Away, ExportSteps
<1>6. CASE Set(c, [x EXCEPT !.pc = "swap", !.fid = fresh])
  <2> DEFINE y == [x EXCEPT !.pc = "swap", !.fid = fresh]
  <2>2. y.job = x.job /\ y.pc = "swap"
    BY <1>0 DEF Workers
  <2> QED
    BY <1>1, <1>6, <2>2 DEF Away, ExportSteps
<1>7. ASSUME NEW fs, Set(c, [x EXCEPT !.pc = "delold", !.olds = fs])
      PROVE  \E y : Set(c, y) /\ Away(w[c], y)
  <2> DEFINE y == [x EXCEPT !.pc = "delold", !.olds = fs]
  <2>2. y.job = x.job /\ y.pc = "delold"
    BY <1>0 DEF Workers
  <2> QED
    BY <1>1, <1>7, <2>2 DEF Away, ExportSteps
<1>8. CASE AddPartitionFile(c) \/ DeleteOldFiles(c)
  BY <1>2, <1>3, <1>8 DEF AddPartitionFile, DeleteOldFiles, Goto
<1>9. CASE MergeUpload(c)
  BY <1>2, <1>6, <1>9 DEF MergeUpload
<1>10. CASE SwapPartitionFiles(c)
  BY <1>1, <1>2, <1>7, <1>10 DEF SwapPartitionFiles
<1> QED
  BY <1>4, <1>5, <1>8, <1>9, <1>10

\* ... of the hot tier ...
LEMMA HotAway ==
  ASSUME TypeInv, NEW c \in Consumers,
         CreateStaging(c) \/ InsertStaging(c) \/ SyncStepFails(c) \/ RollbackStaging(c)
         \/ CommitStaging(c) \/ SavePartialCheckpoint(c) \/ SaveCheckpoint(c)
  PROVE  w[c].pc \notin DowngradeSteps \cup {"idle"} /\ \E y : Set(c, y) /\ Away(w[c], y)
<1> DEFINE x == w[c]
<1>0. x \in Workers
  BY WorkerIsRecord
<1>1. x.pc \notin DowngradeSteps \cup {"idle"}
  BY DEF CreateStaging, InsertStaging, SyncStepFails, RollbackStaging, CommitStaging,
         SavePartialCheckpoint, SaveCheckpoint, DowngradeSteps, ExportSteps
<1>2. CASE CreateStaging(c)
  <2> DEFINE y == [x EXCEPT !.pc = "insert", !.done = @ \cup {T(c)}]
  <2>1. Set(c, y) /\ y.job = x.job /\ y.pc = "insert"
    BY <1>0, <1>2 DEF CreateStaging, Workers
  <2> QED
    BY <1>1, <2>1 DEF Away, ExportSteps
<1>3. CASE InsertStaging(c)
  BY <1>0, <1>1, <1>3, TableDoneAway, SyncFailedAway DEF InsertStaging
<1>4. CASE SyncStepFails(c)
  <2> DEFINE dn == IF x.pc = "stage" THEN x.done \cup {T(c)} ELSE x.done
             z == [x EXCEPT !.done = dn]
  <2>1. Set(c, SyncFailed(z))
    BY <1>4 DEF SyncStepFails
  <2>2. dn \in SUBSET Tables
    <3>1. x.pc = "stage" => T(c) \in Tables
      BY DEF TypeInv, WorkersInv, WorkerInv, Writing, T
    <3> QED
      BY <1>0, <3>1 DEF Workers
  <2> HIDE DEF dn
  <2>3. z \in Workers /\ z.job = x.job
    BY <1>0, <2>2 DEF Workers
  <2> HIDE DEF z
  <2>4. Away(x, SyncFailed(z))
    BY <2>3, SyncFailedAway DEF Away
  <2> QED
    BY <1>1, <2>1, <2>4
<1>5. CASE CommitStaging(c)
  <2> DEFINE left == x.done \ x.todo
             td == x.todo \cup {Min(left)}
             p == IF left = {Min(left)} THEN "savecp" ELSE "commitstg"
  <2>1. /\ Set(c, [x EXCEPT !.todo = td, !.pc = p]) \/ Set(c, [x EXCEPT !.pc = "rollback", !.err = TRUE])
        /\ p \in {"savecp", "commitstg"}
    BY <1>5 DEF CommitStaging
  <2> HIDE DEF td, p
  <2> DEFINE y == [x EXCEPT !.todo = td, !.pc = p]
             z == [x EXCEPT !.pc = "rollback", !.err = TRUE]
  <2>2. y.job = x.job /\ y.pc = p /\ z.job = x.job /\ z.pc = "rollback"
    BY <1>0 DEF Workers
  <2> QED
    BY <1>1, <2>1, <2>2 DEF Away, ExportSteps
<1>6. CASE RollbackStaging(c) \/ SavePartialCheckpoint(c) \/ SaveCheckpoint(c)
  <2>1. PICK p \in {"finish", "partialcp", "commitsync", "settier"} : Set(c, [x EXCEPT !.pc = p])
    BY <1>6 DEF RollbackStaging, SavePartialCheckpoint, SaveCheckpoint, AfterSync, Goto
  <2>2. p \notin ExportSteps
    BY DEF ExportSteps
  <2> QED
    BY <1>0, <1>1, <2>1, <2>2, GotoAway
<1> QED
  BY <1>2, <1>3, <1>4, <1>5, <1>6

\* ... and of the other transitions.
LEMMA TransitionAway ==
  ASSUME TypeInv, NEW c \in Consumers,
         ListPartitions(c) \/ ImportPartition(c) \/ CleanR2(c) \/ DeleteParts(c)
         \/ PurgeClickHouse(c) \/ PurgeR2(c)
  PROVE  w[c].pc \notin DowngradeSteps \cup {"idle"} /\ \E y : Set(c, y) /\ Away(w[c], y)
<1> DEFINE x == w[c]
<1>0. x \in Workers
  BY WorkerIsRecord
<1>1. x.pc \notin DowngradeSteps \cup {"idle"}
  BY DEF ListPartitions, ImportPartition, CleanR2, DeleteParts, PurgeClickHouse, PurgeR2,
         DowngradeSteps, ExportSteps
<1>2. CASE ListPartitions(c)
  <2> DEFINE ids == {q.id : q \in {r \in part : r.state = "committed"}}
             p == IF ids = {} THEN "settier" ELSE "import"
  <2>1. Set(c, [x EXCEPT !.pc = p, !.olds = ids, !.todo = ids]) /\ p \in {"settier", "import"}
    BY <1>2 DEF ListPartitions
  <2> HIDE DEF ids, p
  <2> DEFINE y == [x EXCEPT !.pc = p, !.olds = ids, !.todo = ids]
  <2>2. y.job = x.job /\ y.pc = p
    BY <1>0 DEF Workers
  <2> QED
    BY <1>1, <2>1, <2>2 DEF Away, ExportSteps
<1>3. CASE ImportPartition(c)
  <2> DEFINE Q(rest, got) == IF rest # {} THEN "import" ELSE IF got = {} THEN "finish" ELSE "settier"
             Y(rest, got) == [x EXCEPT !.todo = rest, !.new = got, !.pc = Q(rest, got),
                                       !.err = rest = {} /\ got = {}]
  <2>1. PICK id \in x.todo : Set(c, Y(x.todo \ {id}, x.new \cup {id})) \/ Set(c, Y(x.todo \ {id}, x.new))
    BY <1>3 DEF ImportPartition
  <2>2. ASSUME NEW rest, NEW got PROVE Away(x, Y(rest, got))
    <3>1. Q(rest, got) \notin ExportSteps
      BY DEF ExportSteps
    <3> HIDE DEF Q
    <3>2. Y(rest, got).job = x.job /\ Y(rest, got).pc = Q(rest, got)
      BY <1>0 DEF Workers
    <3> QED
      BY <3>1, <3>2 DEF Away
  <2> HIDE DEF Y
  <2> QED
    BY <1>1, <2>1, <2>2
<1>4. CASE CleanR2(c) \/ DeleteParts(c) \/ PurgeClickHouse(c) \/ PurgeR2(c)
  <2>1. PICK p \in {"delparts", "finish", "purger2", "settier"} : Set(c, [x EXCEPT !.pc = p])
    BY <1>4 DEF CleanR2, DeleteParts, PurgeClickHouse, PurgeR2, Goto
  <2>2. p \notin ExportSteps
    BY DEF ExportSteps
  <2> QED
    BY <1>0, <1>1, <2>1, <2>2, GotoAway
<1> QED
  BY <1>2, <1>3, <1>4

\* Objects and partitions of those steps.
LEMMA ElsewhereNamed ==
  ASSUME ExportInv, NEW c \in Consumers, SyncNext(c) \/ (TransitionNext(c) /\ w[c].pc # "export")
  PROVE  Named(r2', part')
<1>0. TypeInv /\ Named(r2, part)
  BY DEF ExportInv
<1>1. ASSUME r2' \subseteq r2, part' \subseteq part PROVE Named(r2', part')
  BY <1>0, <1>1, NamedKept
<1>2. CASE CleanupOrphans(c)
  <2>1. r2' \subseteq r2 /\ part' \subseteq part
    BY <1>2, DeleteObjectsGood DEF CleanupOrphans, DeletePartitions
  <2> QED
    BY <1>1, <2>1
<1>3. CASE FetchTable(c) \/ AddPartitionFile(c) \/ ListPartitionFiles(c) \/ CreateStaging(c)
           \/ InsertStaging(c) \/ RollbackStaging(c)
  BY <1>1, <1>3 DEF FetchTable, AddPartitionFile, ListPartitionFiles, CreateStaging,
                    InsertStaging, RollbackStaging, meta
<1>4. CASE CommitStaging(c) \/ SavePartialCheckpoint(c) \/ SaveCheckpoint(c) \/ JobStepFails(c)
           \/ SetTier(c) \/ ListPartitions(c)
  BY <1>1, <1>4 DEF CommitStaging, SavePartialCheckpoint, SaveCheckpoint, JobStepFails, SetTier,
                    ListPartitions, meta
<1>5. CASE ImportPartition(c) \/ ListClickHouse(c) \/ DropClickHouse(c) \/ DropStaging(c)
           \/ PurgeClickHouse(c)
  BY <1>1, <1>5 DEF ImportPartition, ListClickHouse, DropClickHouse, DropStaging, PurgeClickHouse, meta
<1>6. CASE CleanR2(c) \/ PurgeR2(c) \/ DeleteOldFiles(c)
  <2>1. r2' \subseteq r2 /\ part' = part
    BY <1>6, DeleteObjectsGood DEF CleanR2, PurgeR2, DeleteOldFiles, meta
  <2> QED
    BY <1>1, <2>1
<1>7. CASE SwapPartitionFiles(c) \/ SyncStepFails(c) \/ DeleteParts(c)
  <2>1. r2' \subseteq r2 /\ part' \subseteq part
    BY <1>7 DEF SwapPartitionFiles, SyncStepFails, DeleteParts, DeletePartitions, meta
  <2> QED
    BY <1>1, <2>1
<1>8. CASE GetPartition(c)
  <2>1. r2' = r2 /\ part' = PartitionFor(T(c), Day(c)).rows
    BY <1>8 DEF GetPartition
  <2> QED
    BY <1>0, <2>1, NamedPartition
<1>9. ASSUME NEW rows, r2' = r2 \cup {[key |-> fresh, t |-> T(c), d |-> Day(c), rows |-> rows]},
             part' = part
      PROVE  Named(r2', part')
  <2> DEFINE n == [key |-> fresh, t |-> T(c), d |-> Day(c), rows |-> rows]
  <2>1. n.key = fresh /\ r2' = r2 \cup {n}
    BY <1>9
  <2> HIDE DEF n
  <2> QED
    BY <1>0, <1>9, <2>1, NamedUpload
<1>10. CASE UploadNew(c)
  BY <1>9, <1>10 DEF UploadNew, meta
<1>11. CASE MergeUpload(c)
  <2>1. part' = part
    BY <1>11 DEF MergeUpload, meta
  <2>2. CASE r2' = r2
    BY <1>1, <2>1, <2>2
  <2>3. CASE w[c].olds \subseteq R2Keys
    BY <1>9, <1>11, <2>1, <2>3 DEF MergeUpload
  <2> QED
    BY <1>11, <2>2, <2>3 DEF MergeUpload
<1>12. CASE UpdatePartition(c) \/ RecordExport(c)
  <2>1. r2' = r2 /\ \E path : update_partition_data(w[c].pid, path, w[c].job)
    BY <1>12 DEF UpdatePartition, RecordExport
  <2> QED
    BY <1>0, <2>1, UpdateKeepsNames, NamedKept
<1>13. CASE CommitSync(c)
  <2> DEFINE U(p) == IF p.job = w[c].job THEN [p EXCEPT !.state = "committed"] ELSE p
  <2>1. part' = {U(p) : p \in part} /\ r2' = r2
    BY <1>13 DEF CommitSync
  <2>2. ASSUME NEW p \in part PROVE U(p).id = p.id /\ U(p).t = p.t
    BY <1>0 DEF TypeInv, PartInv, PartitionRows
  <2> HIDE DEF U
  <2>3. \A p \in part' : \E q \in part : q.id = p.id /\ q.t = p.t
    BY <2>1, <2>2
  <2> QED
    BY <1>0, <2>1, <2>3, NamedKept
<1> QED
  BY <1>2, <1>3, <1>4, <1>5, <1>6, <1>7, <1>8, <1>10, <1>11, <1>12, <1>13
  DEF SyncNext, TransitionNext, ExportTable

\* The steps that no downgrade to warm takes.
LEMMA ElsewhereExport ==
  ASSUME OneConsumer, ExportInv, TypeInv', NEW c \in Consumers,
         \/ CleanupOrphans(c) \/ FetchTable(c) \/ GetPartition(c) \/ UploadNew(c)
         \/ AddPartitionFile(c) \/ UpdatePartition(c) \/ ListPartitionFiles(c) \/ MergeUpload(c)
         \/ SwapPartitionFiles(c) \/ DeleteOldFiles(c) \/ CreateStaging(c) \/ InsertStaging(c)
         \/ SyncStepFails(c) \/ RollbackStaging(c) \/ CommitStaging(c) \/ SavePartialCheckpoint(c)
         \/ SaveCheckpoint(c) \/ ListPartitions(c) \/ ImportPartition(c) \/ CleanR2(c)
         \/ DeleteParts(c) \/ PurgeClickHouse(c) \/ PurgeR2(c)
  PROVE  ExportInv'
<1>0. TypeInv
  BY DEF ExportInv
<1>1. w[c].pc \notin DowngradeSteps \cup {"idle"} /\ \E y : Set(c, y) /\ Away(w[c], y)
  BY <1>0, LoopAway, DateAway, HotAway, TransitionAway
<1>2. w[c].pc # "export"
  BY <1>1 DEF DowngradeSteps, ExportSteps
<1>3. SyncNext(c) \/ TransitionNext(c)
  BY DEF SyncNext, TransitionNext
<1>4. Named(r2', part')
  BY <1>2, <1>3, ElsewhereNamed
<1>5. kind' = kind
  <2>1. CASE CleanupOrphans(c) \/ FetchTable(c) \/ GetPartition(c) \/ UploadNew(c)
             \/ AddPartitionFile(c) \/ UpdatePartition(c) \/ ListPartitionFiles(c) \/ MergeUpload(c)
    BY <2>1 DEF CleanupOrphans, FetchTable, GetPartition, UploadNew, AddPartitionFile,
                UpdatePartition, ListPartitionFiles, MergeUpload, queue
  <2>2. CASE SwapPartitionFiles(c) \/ DeleteOldFiles(c) \/ CreateStaging(c) \/ InsertStaging(c)
             \/ SyncStepFails(c) \/ RollbackStaging(c) \/ CommitStaging(c) \/ SavePartialCheckpoint(c)
    BY <2>2 DEF SwapPartitionFiles, DeleteOldFiles, CreateStaging, InsertStaging, SyncStepFails,
                RollbackStaging, CommitStaging, SavePartialCheckpoint, queue
  <2>3. CASE SaveCheckpoint(c) \/ ListPartitions(c) \/ ImportPartition(c) \/ CleanR2(c)
             \/ DeleteParts(c) \/ PurgeClickHouse(c) \/ PurgeR2(c)
    BY <2>3 DEF SaveCheckpoint, ListPartitions, ImportPartition, CleanR2, DeleteParts,
                PurgeClickHouse, PurgeR2, queue
  <2> QED
    BY <2>1, <2>2, <2>3
<1>6. PICK y : Set(c, y) /\ Away(w[c], y)
  BY <1>1
<1> QED
  BY <1>1, <1>4, <1>5, <1>6, ElsewhereStep

\* A step of the one consumer, to state y.
LEMMA ExportStep ==
  ASSUME OneConsumer, TypeInv, TypeInv', Named(r2', part'), NEW c \in Consumers, NEW y, Set(c, y),
         Exported(r2', ch', tier', kind'[y.job], y)
  PROVE  ExportInv'
<1>1. \A d \in Consumers : w'[d] = y
  BY DEF TypeInv, WorkersInv, Set, OneConsumer
<1> QED
  BY <1>1 DEF ExportInv

\* The source changes, a job starts, ends or its consumer dies.
LEMMA JobExport ==
  ASSUME OneConsumer, ExportInv, TypeInv', NEW c \in Consumers,
         NewJob(c) \/ Redeliver(c) \/ FinishJob(c) \/ Crash(c)
  PROVE  ExportInv'
<1>0. TypeInv /\ Named(r2, part)
  BY DEF ExportInv
<1>1. Named(r2', part')
  BY <1>0 DEF NewJob, Redeliver, StartJob, FinishJob, Crash, meta
<1>2. ASSUME NEW j, NEW k PROVE LET x == FirstStep(j, k)
                               IN  x.job = j /\ Exported(r2', ch', tier', k, x)
  <2>1. ASSUME NEW p, NEW t
        PROVE  LET x == Begin(j, p, t)
                   y == [x EXCEPT !.err = TRUE]
               IN  /\ x.job = j /\ x.pc = p /\ x.target = t /\ x.done = {}
                   /\ y.job = j /\ y.pc = p /\ y.target = t /\ y.done = {}
    BY DEF Begin, IdleWorker
  <2> DEFINE x == FirstStep(j, k)
  <2>2. /\ x.job = j /\ x.done = {}
        /\ x.pc \in {"cleanup", "finish", "list", "listch", "purgech", "purger2"}
        /\ x.pc = "listch" => k = "downgrade_to_warm" /\ x.target = "warm"
        /\ k = "downgrade_to_warm" => x.pc \in {"listch", "finish"}
    BY <2>1 DEF FirstStep
  <2> HIDE DEF x
  <2>3. Exported(r2', ch', tier', k, x)
    BY <2>2 DEF Exported, ExportSteps, DowngradeSteps
  <2> QED
    BY <2>2, <2>3 DEF x
<1>3. CASE NewJob(c)
  <2>1. PICK k \in JobKinds : kind' = [kind EXCEPT ![nextJob] = k] /\ StartJob(c, nextJob, k)
    BY <1>3 DEF NewJob
  <2>2. nextJob \in Jobs /\ kind \in [Jobs -> Kinds]
    BY <1>0, <1>3, Constants DEF NewJob, TypeInv, DataInv, Jobs
  <2>3. kind'[nextJob] = k
    BY <2>1, <2>2
  <2> QED
    BY <1>0, <1>1, <1>2, <2>1, <2>3, ExportStep DEF StartJob
<1>4. CASE Redeliver(c)
  <2>1. PICK j \in 1..(nextJob - 1) : StartJob(c, j, kind[j]) /\ kind' = kind
    BY <1>4 DEF Redeliver
  <2> QED
    BY <1>0, <1>1, <1>2, <2>1, ExportStep DEF StartJob
<1>5. CASE FinishJob(c) \/ Crash(c)
  <2>1. Set(c, IdleWorker) /\ IdleWorker.pc = "idle"
    BY <1>5 DEF FinishJob, Crash, IdleWorker
  <2>2. Exported(r2', ch', tier', kind'[IdleWorker.job], IdleWorker)
    BY <2>1 DEF Exported, ExportSteps
  <2> QED
    BY <1>0, <1>1, <2>1, <2>2, ExportStep
<1> QED
  BY <1>3, <1>4, <1>5

\* The steps of the downgrade that leave the data alone.
LEMMA PlainExport ==
  ASSUME OneConsumer, ExportInv, TypeInv', NEW c \in Consumers,
         JobStepFails(c) \/ CommitSync(c) \/ SetTier(c) \/ ListClickHouse(c)
  PROVE  ExportInv'
<1> DEFINE x == w[c]
           k == kind[x.job]
<1>0. TypeInv /\ x \in Workers /\ Exported(r2, ch, tier, k, x)
  BY WorkerIsRecord DEF ExportInv
<1>1. r2' = r2 /\ ch' = ch /\ kind' = kind
  BY DEF JobStepFails, CommitSync, SetTier, ListClickHouse, clickhouse, queue
<1>2. Named(r2', part')
  <2>1. CASE JobStepFails(c) \/ CommitSync(c)
    BY <2>1, ElsewhereNamed DEF SyncNext
  <2>2. CASE SetTier(c) \/ ListClickHouse(c)
    BY <2>2, ElsewhereNamed DEF TransitionNext, SetTier, ListClickHouse
  <2> QED
    BY <2>1, <2>2
<1>3. ASSUME NEW y, Set(c, y), y.job = x.job, Exported(r2, ch, tier', k, y) PROVE ExportInv'
  BY <1>0, <1>1, <1>2, <1>3, ExportStep
<1>4. CASE JobStepFails(c)
  <2> DEFINE y == [x EXCEPT !.pc = "finish", !.err = TRUE]
  <2>1. Set(c, y) /\ y.job = x.job /\ y.pc = "finish"
    BY <1>0, <1>4 DEF JobStepFails, Workers
  <2> HIDE DEF y
  <2>2. Exported(r2, ch, tier', k, y)
    BY <2>1 DEF Exported, ExportSteps, DowngradeSteps
  <2> QED
    BY <1>3, <2>1, <2>2
<1>5. CASE CommitSync(c)
  <2> DEFINE p == IF k = "sync" THEN "finish" ELSE "settier"
             y == [x EXCEPT !.pc = p]
  <2>1. Set(c, y) /\ x.pc = "commitsync" /\ p \in {"finish", "settier"} /\ tier' = tier
    BY <1>5 DEF CommitSync, Goto
  <2> HIDE DEF p
  <2>2. y.job = x.job /\ y.pc = p /\ y.target = x.target /\ y.done = x.done
    BY <1>0 DEF Workers
  <2> HIDE DEF y
  <2>3. Exported(r2, ch, tier', k, y)
    <3> HIDE DEF x, k
    <3> QED
      BY <1>0, <2>1, <2>2 DEF Exported, ExportSteps, DowngradeSteps
  <2> QED
    BY <1>3, <2>1, <2>2, <2>3
<1>6. CASE SetTier(c)
  <2> DEFINE p == CASE k = "downgrade_to_warm" /\ x.done # {} -> "dropch"
                    [] k = "upgrade_to_hot" /\ x.olds # {}    -> "cleanr2"
                    [] OTHER                                  -> "finish"
             y == [x EXCEPT !.pc = p]
  <2>1. Set(c, y) /\ x.pc = "settier" /\ tier' = x.target
    BY <1>6 DEF SetTier, Goto
  <2>2. /\ p \in {"dropch", "cleanr2", "finish"}
        /\ p = "dropch" => k = "downgrade_to_warm"
        /\ p = "cleanr2" => k # "downgrade_to_warm"
    OBVIOUS
  <2> HIDE DEF p
  <2>3. y.job = x.job /\ y.pc = p /\ y.target = x.target /\ y.done = x.done
    BY <1>0 DEF Workers
  <2> HIDE DEF y
  <2>4. Exported(r2, ch, tier', k, y)
    <3> HIDE DEF x, k
    <3> QED
      BY <1>0, <2>1, <2>2, <2>3 DEF Exported, ExportSteps, DowngradeSteps
  <2> QED
    BY <1>3, <2>1, <2>3, <2>4
<1>7. CASE ListClickHouse(c)
  <2> DEFINE ts == {t \in Tables : ch[t].exists}
             p == IF ts = {} THEN "settier" ELSE "export"
             y == [x EXCEPT !.todo = ts, !.pc = p]
  <2>1. Set(c, y) /\ x.pc = "listch" /\ p \in {"settier", "export"} /\ tier' = tier
    BY <1>7 DEF ListClickHouse
  <2> HIDE DEF p, ts
  <2>2. y.job = x.job /\ y.pc = p /\ y.target = x.target /\ y.done = x.done
    BY <1>0 DEF Workers
  <2> HIDE DEF y
  <2>3. Exported(r2, ch, tier', k, y)
    <3> HIDE DEF x, k
    <3> QED
      BY <1>0, <2>1, <2>2 DEF Exported, ExportSteps, DowngradeSteps
  <2> QED
    BY <1>3, <2>1, <2>2, <2>3
<1> QED
  BY <1>4, <1>5, <1>6, <1>7

\* The tables go, then the staging tables: nothing is claimed any more.
LEMMA DropExport ==
  ASSUME OneConsumer, ExportInv, TypeInv', NEW c \in Consumers, DropClickHouse(c) \/ DropStaging(c)
  PROVE  ExportInv'
<1> DEFINE x == w[c]
           k == kind[x.job]
<1>0. TypeInv /\ Named(r2, part) /\ x \in Workers /\ Exported(r2, ch, tier, k, x)
  BY WorkerIsRecord DEF ExportInv
<1>1. r2' = r2 /\ part' = part /\ kind' = kind /\ tier' = tier
  BY DEF DropClickHouse, DropStaging, meta, queue
<1>2. PICK p \in {"dropstg", "finish"} : /\ Set(c, [x EXCEPT !.pc = p])
                                         /\ x.pc \in {"dropch", "dropstg"}
  BY DEF DropClickHouse, DropStaging, Goto
<1> DEFINE y == [x EXCEPT !.pc = p]
<1>3. y.job = x.job /\ y.pc = p
  BY <1>0 DEF Workers
<1>4. Exported(r2', ch', tier', k, y)
  <2> HIDE DEF x, k, y
  <2> QED
    BY <1>0, <1>2, <1>3 DEF Exported, ExportSteps, DowngradeSteps
<1> QED
  BY <1>0, <1>1, <1>2, <1>3, <1>4, ExportStep

\* The export loop keeps the job, the target and the tables exported.
LEMMA NextExportKeeps ==
  ASSUME NEW x \in Workers
  PROVE  LET y == NextExport(x)
         IN  /\ y.job = x.job /\ y.target = x.target /\ y.done = x.done
             /\ y.pc \in {"export", "finish", "commitsync"}
<1> DEFINE p == CASE x.todo # {}                -> "export"
                  [] x.todo = {} /\ x.done = {} -> "finish"
                  [] OTHER                      -> "commitsync"
           e == x.todo = {} /\ x.done = {}
<1>1. p \in {"export", "finish", "commitsync"} /\ NextExport(x) = [x EXCEPT !.pc = p, !.err = e]
  BY DEF NextExport
<1> HIDE DEF p, e
<1> QED
  BY <1>1 DEF Workers

\* An export replaces the object of the partition by all rows of the table.
LEMMA ExportTableExport ==
  ASSUME OneConsumer, ExportInv, TypeInv', NEW c \in Consumers, ExportTable(c)
  PROVE  ExportInv'
<1> DEFINE x == w[c]
           k == kind[x.job]
           t == Min(x.todo)
           p == PartitionFor(t, Today)
<1>0. TypeInv /\ Named(r2, part) /\ x \in Workers /\ Exported(r2, ch, tier, k, x)
  BY WorkerIsRecord DEF ExportInv
<1>1. x.pc = "export" /\ part' = p.rows /\ ch' = ch /\ tier' = tier /\ kind' = kind
  BY DEF ExportTable, clickhouse, queue
<1>2. Named(r2, p.rows) /\ \A q \in p.rows : q.id = p.id => q.t = t
  BY <1>0, NamedPartition
<1>3. /\ k = "downgrade_to_warm" /\ x.target = "warm"
      /\ \A u \in x.done : Copied(r2, ch, u)
  <2> HIDE DEF x, k
  <2> QED
    BY <1>0, <1>1 DEF Exported, ExportSteps, DowngradeSteps
<1>4. CASE r2' = {o \in r2 : o.key # p.id}
                   \cup {[key |-> p.id, t |-> t, d |-> Today, rows |-> ch[t].rows]}
           /\ Set(c, [x EXCEPT !.pc = "exprec", !.pid = p.id])
  <2> DEFINE n == [key |-> p.id, t |-> t, d |-> Today, rows |-> ch[t].rows]
             y == [x EXCEPT !.pc = "exprec", !.pid = p.id]
  <2>1. n.key = p.id /\ n.t = t /\ n.rows = ch[t].rows
    OBVIOUS
  <2>2. /\ y.job = x.job /\ y.pc = "exprec" /\ y.target = x.target /\ y.done = x.done
        /\ y.todo = x.todo
    BY <1>0 DEF Workers
  <2>3. r2' = {o \in r2 : o.key # p.id} \cup {n} /\ Set(c, y)
    BY <1>4
  <2>4. \E q \in p.rows : q.id = p.id
    <3>1. CASE PartAt(t, Today) # {}
      <4>1. p.rows = part /\ p.id = (CHOOSE q \in PartAt(t, Today) : TRUE).id
        BY <3>1 DEF PartitionFor
      <4> HIDE DEF p
      <4> QED
        BY <3>1, <4>1 DEF PartAt
    <3>2. CASE PartAt(t, Today) = {}
      <4> DEFINE q == [id |-> fresh, t |-> t, d |-> Today, state |-> "committed", job |-> 0,
                       path |-> "none"]
      <4>1. p.rows = part \cup {q} /\ p.id = fresh /\ q.id = fresh
        BY <3>2 DEF PartitionFor
      <4> HIDE DEF p, q
      <4> QED
        BY <4>1
    <3> QED
      BY <3>1, <3>2
  <2> HIDE DEF n, y, p, t
  <2>5. Named(r2', part')
    BY <1>1, <1>2, <2>1, <2>3 DEF Named
  <2>6. \A o \in r2 : o.key = p.id => o.t = t
    BY <1>2, <2>4 DEF Named
  <2>7. Copied(r2', ch, t)
    BY <2>1, <2>3 DEF Copied
  <2>8. ASSUME NEW u \in x.done PROVE Copied(r2', ch, u)
    <3>1. CASE u = t
      BY <2>7, <3>1
    <3>2. CASE u # t
      <4>1. Copied(r2, ch, u)
        BY <1>3
      <4> QED
        BY <2>3, <2>6, <3>2, <4>1 DEF Copied
    <3> QED
      BY <3>1, <3>2
  <2>9. Exported(r2', ch', tier', k, y)
    <3>1. Copied(r2', ch', Min(y.todo))
      BY <1>1, <2>2, <2>7 DEF t
    <3> HIDE DEF x, k
    <3> QED
      BY <1>1, <1>3, <2>2, <2>8, <3>1 DEF Exported, ExportSteps, DowngradeSteps
  <2> QED
    BY <1>0, <1>1, <2>2, <2>3, <2>5, <2>9, ExportStep
<1>5. CASE r2' = r2 /\ Set(c, NextExport([x EXCEPT !.todo = @ \ {t}]))
  <2> DEFINE z == [x EXCEPT !.todo = @ \ {t}]
             y == NextExport(z)
  <2>1. z \in Workers /\ z.job = x.job /\ z.target = x.target /\ z.done = x.done
    BY <1>0 DEF Workers
  <2>2. Set(c, y)
    BY <1>5
  <2> HIDE DEF z
  <2>3. /\ y.job = x.job /\ y.target = x.target /\ y.done = x.done
        /\ y.pc \in {"export", "finish", "commitsync"}
    BY <2>1, NextExportKeeps
  <2> HIDE DEF y, p, t
  <2>4. Exported(r2', ch', tier', k, y)
    <3> HIDE DEF x, k
    <3> QED
      BY <1>1, <1>3, <1>5, <2>3 DEF Exported, ExportSteps, DowngradeSteps
  <2> QED
    BY <1>0, <1>1, <1>2, <1>5, <2>2, <2>3, <2>4, ExportStep
<1> QED
  BY <1>4, <1>5 DEF ExportTable

\* The table exported is counted.
LEMMA RecordExportExport ==
  ASSUME OneConsumer, ExportInv, TypeInv', NEW c \in Consumers, RecordExport(c)
  PROVE  ExportInv'
<1> DEFINE x == w[c]
           k == kind[x.job]
           t == Min(x.todo)
<1>0. TypeInv /\ x \in Workers /\ Exported(r2, ch, tier, k, x)
  BY WorkerIsRecord DEF ExportInv
<1>1. x.pc = "exprec" /\ r2' = r2 /\ ch' = ch /\ tier' = tier /\ kind' = kind
  BY DEF RecordExport, clickhouse, queue
<1>2. Named(r2', part')
  BY <1>1, ElsewhereNamed DEF TransitionNext
<1>3. /\ k = "downgrade_to_warm" /\ x.target = "warm" /\ Copied(r2, ch, t)
      /\ \A u \in x.done : Copied(r2, ch, u)
  <2> HIDE DEF x, k
  <2> QED
    BY <1>0, <1>1 DEF Exported, ExportSteps, DowngradeSteps
<1>4. CASE Set(c, NextExport([x EXCEPT !.todo = @ \ {t}, !.done = @ \cup {t}, !.pid = 0]))
  <2> DEFINE z == [x EXCEPT !.todo = @ \ {t}, !.done = @ \cup {t}, !.pid = 0]
             y == NextExport(z)
  <2>0. t \in Tables
    BY <1>0, <1>1, ExportedTable
  <2> HIDE DEF t
  <2>1. z \in Workers /\ z.job = x.job /\ z.target = x.target /\ z.done = x.done \cup {t}
    BY <1>0, <2>0 DEF Workers
  <2>2. Set(c, y)
    BY <1>4
  <2> HIDE DEF z
  <2>3. /\ y.job = x.job /\ y.target = x.target /\ y.done = x.done \cup {t}
        /\ y.pc \in {"export", "finish", "commitsync"}
    BY <2>1, NextExportKeeps
  <2> HIDE DEF y
  <2>4. Exported(r2', ch', tier', k, y)
    <3> HIDE DEF x, k
    <3> QED
      BY <1>1, <1>3, <2>3 DEF Exported, ExportSteps, DowngradeSteps
  <2> QED
    BY <1>0, <1>1, <1>2, <2>2, <2>3, <2>4, ExportStep
<1>5. CASE Set(c, [x EXCEPT !.pc = "finish", !.err = TRUE])
  <2> DEFINE y == [x EXCEPT !.pc = "finish", !.err = TRUE]
  <2>1. y.job = x.job /\ y.pc = "finish"
    BY <1>0 DEF Workers
  <2>2. Set(c, y)
    BY <1>5
  <2> HIDE DEF y
  <2>3. Exported(r2', ch', tier', k, y)
    BY <2>1 DEF Exported, ExportSteps, DowngradeSteps
  <2> QED
    BY <1>0, <1>1, <1>2, <2>1, <2>2, <2>3, ExportStep
<1> QED
  BY <1>4, <1>5 DEF RecordExport

\* At the start nothing is claimed ...
LEMMA ExportInit == Init => ExportInv
<1> SUFFICES ASSUME Init PROVE ExportInv
  OBVIOUS
<1>1. TypeInv
  BY TypeInit
<1>2. Named(r2, part)
  BY DEF Init, Named
<1>3. ASSUME NEW c \in Consumers PROVE w[c].pc = "idle"
  BY DEF Init, IdleWorker
<1>4. ASSUME NEW c \in Consumers PROVE Exported(r2, ch, tier, kind[w[c].job], w[c])
  BY <1>3 DEF Exported, ExportSteps
<1> QED
  BY <1>1, <1>2, <1>4 DEF ExportInv

\* ... and with one consumer every step keeps what is claimed.
LEMMA ExportNext ==
  ASSUME OneConsumer, ExportInv, [Next]_vars
  PROVE  ExportInv'
<1>0. TypeInv'
  BY TypeStep DEF ExportInv
<1>1. CASE r2' = r2 /\ part' = part /\ ch' = ch /\ tier' = tier /\ kind' = kind /\ w' = w
  BY <1>0, <1>1 DEF ExportInv
<1>2. CASE UNCHANGED vars
  BY <1>1, <1>2 DEF vars, meta, clickhouse, queue
<1>3. ASSUME NEW t \in Tables, SourceChange(t) PROVE ExportInv'
  BY <1>1, <1>3 DEF SourceChange, meta, clickhouse, queue
<1>4. ASSUME NEW c \in Consumers, NewJob(c) \/ Redeliver(c) \/ FinishJob(c) \/ Crash(c)
      PROVE  ExportInv'
  BY <1>0, <1>4, JobExport
<1>5. ASSUME NEW c \in Consumers, SyncNext(c) PROVE ExportInv'
  BY <1>0, <1>5, ElsewhereExport, PlainExport DEF SyncNext
<1>6. ASSUME NEW c \in Consumers, TransitionNext(c) PROVE ExportInv'
  BY <1>0, <1>6, ElsewhereExport, PlainExport, ExportTableExport, RecordExportExport, DropExport
  DEF TransitionNext
<1> QED
  BY <1>2, <1>3, <1>4, <1>5, <1>6 DEF Next

\* When a single consumer runs the jobs of a source, of whatever types and with
\* whatever failures and redeliveries, a downgrade to warm drops the ClickHouse
\* tables only after the tier is warm, and R2 then holds every row of each
\* table it exported (execute_downgrade_to_warm).
THEOREM ExportIsComplete ==
  ASSUME OneConsumer
  PROVE  Spec => ExportedBeforeDrop
<1>1. ExportInv /\ [Next]_vars => ExportInv'
  BY ExportNext
<1>2. ASSUME ExportInv, NEW c \in Consumers, w[c].pc = "dropch"
      PROVE  tier = "warm" /\ \A t \in w[c].done : ch[t].rows \subseteq R2Rows(t)
  <2> DEFINE x == w[c]
             k == kind[x.job]
  <2>1. Exported(r2, ch, tier, k, x) /\ x.pc = "dropch"
    BY <1>2 DEF ExportInv
  <2> HIDE DEF x, k
  <2>2. tier = "warm" /\ \A t \in x.done : Copied(r2, ch, t)
    BY <2>1 DEF Exported, ExportSteps
  <2> QED
    BY <2>2 DEF Copied, R2Rows, x
<1>3. ExportInv /\ [Next]_vars =>
        [\A c \in Consumers : w[c].pc = "dropch" /\ w'[c].pc = "dropstg" =>
           /\ tier = "warm"
           /\ \A t \in w[c].done : ch[t].rows \subseteq R2Rows(t)]_vars
  BY <1>2
<1> QED
  BY <1>1, <1>3, ExportInit, PTL DEF Spec, ExportedBeforeDrop

=============================================================================
