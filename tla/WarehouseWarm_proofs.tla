------------------------ MODULE WarehouseWarm_proofs ------------------------
(***************************************************************************)
(* The jobs that keep a source warm, "sync" and "upgrade_to_warm", run by  *)
(* any number of consumers, some of them stale, that fail and die between  *)
(* any two statements: a file record never points at an object that is     *)
(* gone.                                                                   *)
(*                                                                         *)
(* It follows from who may delete an object: the consumer that uploaded    *)
(* it, before it has a record, or the one that removed its record.         *)
(***************************************************************************)
EXTENDS WarehouseSync_proofs

WarmKinds == {"sync", "upgrade_to_warm"}

\* Only jobs of the warm tier are produced.
WarmJobs == JobKinds \subseteq WarmKinds

-----------------------------------------------------------------------------
(* The invariant of the files. *)

\* The steps at which a consumer works on the partition of a date ...
Holding == {"upload", "addrec", "listfiles", "merge", "swap", "delold", "updpart"}
\* ... and those at which the object it uploaded has no record yet.
Owning == {"addrec", "swap"}
WarmWriting == Holding \cup {"getpart"}
WarmPcs == WarmWriting \cup {"idle", "cleanup", "fetch", "savecp", "commitsync", "settier", "finish"}

WarmWorker(x) == x.pc \in WarmPcs /\ x.target # "hot"

\* Consumer state x is about to delete the object with key f, or may.
Condemned(x, f) == (x.pc = "swap" /\ x.fid = f) \/ (x.pc = "delold" /\ f \in x.olds)

\* The fetched rows of the date in hand.
DayRows(x) == {k \in x.new : DateOf[k] = Min(x.days)}

\* What consumer state x says about objects os, partitions ps and records rs,
\* when the identifiers below f are used.
Files(os, ps, rs, f, x) ==
  /\ \A g \in x.olds : g < f
  /\ x.pc \in Holding => \A p \in ps : p.id = x.pid => p.t = x.ti /\ p.d = Min(x.days)
  /\ x.pc \in Owning =>
       /\ \A r \in rs : r.file # x.fid
       /\ \E o \in os : o.key = x.fid /\ o.t = x.ti /\ o.d = Min(x.days) /\ DayRows(x) \subseteq o.rows
  /\ x.pc \in {"merge", "swap"} =>
       \A o \in os : o.key \in x.olds => o.t = x.ti /\ o.d = Min(x.days)
  /\ x.pc = "delold" => \A r \in rs : r.file \notin x.olds

\* Keys and identifiers name one object or row each; a record has its object,
\* which is of the table and the date of the record's partition.
Store(os, ps, rs) ==
  /\ \A o \in os : \A q \in os : o.key = q.key => o = q
  /\ \A p \in ps : \A q \in ps : p.id = q.id => p = q
  /\ \A r \in rs : \E o \in os : /\ o.key = r.file
                                 /\ \A p \in ps : p.id = r.part => o.t = p.t /\ o.d = p.d

\* An object without a record is nobody else's.
Apart(ws) ==
  \A c \in Consumers : \A d \in Consumers :
    ws[c].pc \in Owning =>
      /\ ws[c].fid \notin ws[d].olds
      /\ c # d /\ ws[d].pc \in Owning => ws[c].fid # ws[d].fid

Modes ==
  /\ tier # "hot"
  /\ \A j \in Jobs : kind[j] \in WarmKinds
  /\ \A p \in part : p.path # "key"
  /\ \A c \in Consumers : WarmWorker(w[c])

FilesInv ==
  /\ TypeInv /\ Modes
  /\ Store(r2, part, recs) /\ Apart(w)
  /\ \A c \in Consumers : Files(r2, part, recs, fresh, w[c])

\* All records have their objects, the committed ones too.
LEMMA FilesInvImplies ==
  ASSUME FilesInv
  PROVE  CommittedFilesExist
BY DEF FilesInv, Store, CommittedFilesExist, R2Keys

\* What a step of consumer c does to the store, as seen by the others.
Change(c) ==
  /\ \A p \in part' : p.id >= fresh \/ \E q \in part : q.id = p.id /\ q.t = p.t /\ q.d = p.d
  /\ \A o \in r2' : o \in r2 \/ o.key >= fresh
  /\ \A o \in r2 : o \in r2' \/ Condemned(w[c], o.key)
  /\ \A r \in recs' : (\E s \in recs : s.file = r.file) \/ (w[c].pc \in Owning /\ r.file = w[c].fid)

\* What the new state x of c may hold: a fresh object, or files of records.
Holds(c, x) ==
  /\ x.pc \in Owning => x.fid >= fresh /\ x.fid \notin x.olds
  /\ \A g \in x.olds : g \in w[c].olds \/ \E r \in recs : r.file = g

\* The identifiers a consumer holds are used.
LEMMA HeldIds ==
  ASSUME FilesInv, NEW d \in Consumers
  PROVE  /\ fresh \in Nat /\ w[d] \in Workers
         /\ w[d].pid \in Nat /\ w[d].pid < fresh /\ w[d].fid \in Nat /\ w[d].fid < fresh
         /\ \A g \in w[d].olds : g \in Nat /\ g < fresh
<1>1. fresh \in Nat /\ WorkerInv(w[d], nextJob, fresh) /\ \A g \in w[d].olds : g < fresh
  BY DEF FilesInv, TypeInv, DataInv, WorkersInv, Files
<1> QED
  BY <1>1 DEF WorkerInv, Workers

\* A step of c keeps what the other consumers rely on.
LEMMA OthersFiles ==
  ASSUME FilesInv, TypeInv', NEW c \in Consumers, Change(c), fresh <= fresh',
         NEW d \in Consumers, d # c
  PROVE  Files(r2', part', recs', fresh', w[d])
<1> DEFINE x == w[d]
<1>0. /\ fresh \in Nat /\ fresh' \in Nat
      /\ x.pid \in Nat /\ x.pid < fresh /\ x.fid \in Nat /\ x.fid < fresh
      /\ \A g \in x.olds : g \in Nat /\ g < fresh
  BY HeldIds DEF TypeInv, DataInv
<1>1. Files(r2, part, recs, fresh, x)
  BY DEF FilesInv
<1>2. \A o \in r2' : o.key \in Nat
  BY DEF TypeInv, ObjectInv, Objects
<1>2a. \A p \in part' : p.id \in Nat
  BY DEF TypeInv, PartInv, PartitionRows
<1>3. x.pc \in Owning => ~Condemned(w[c], x.fid) /\ (w[c].pc \in Owning => w[c].fid # x.fid)
  BY DEF FilesInv, Apart, Condemned, Owning
<1>4. w[c].pc \in Owning => w[c].fid \notin x.olds
  BY DEF FilesInv, Apart
<1> HIDE DEF x
<1>5. \A g \in x.olds : g < fresh'
  BY <1>0
<1>6. x.pc \in Holding => \A p \in part' : p.id = x.pid => p.t = x.ti /\ p.d = Min(x.days)
  BY <1>0, <1>1, <1>2a DEF Files, Change
<1>7. ASSUME x.pc \in Owning
      PROVE  /\ \A r \in recs' : r.file # x.fid
             /\ \E o \in r2' : o.key = x.fid /\ o.t = x.ti /\ o.d = Min(x.days) /\ DayRows(x) \subseteq o.rows
  <2>1. \A r \in recs' : r.file # x.fid
    BY <1>1, <1>3, <1>7 DEF Files, Change
  <2>2. PICK o \in r2 : o.key = x.fid /\ o.t = x.ti /\ o.d = Min(x.days) /\ DayRows(x) \subseteq o.rows
    BY <1>1, <1>7 DEF Files
  <2>3. o \in r2'
    BY <1>3, <1>7, <2>2 DEF Change
  <2> QED
    BY <2>1, <2>2, <2>3
<1>8. x.pc \in {"merge", "swap"} =>
        \A o \in r2' : o.key \in x.olds => o.t = x.ti /\ o.d = Min(x.days)
  BY <1>0, <1>1, <1>2 DEF Files, Change
<1>9. x.pc = "delold" => \A r \in recs' : r.file \notin x.olds
  BY <1>1, <1>4 DEF Files, Change
<1>10. Files(r2', part', recs', fresh', x)
  BY <1>5, <1>6, <1>7, <1>8, <1>9 DEF Files
<1> QED
  BY <1>10 DEF x

\* A step of c to state x keeps the invariant.
LEMMA FilesStep ==
  ASSUME FilesInv, TypeInv', NEW c \in Consumers, NEW x, Set(c, x),
         Change(c), fresh <= fresh', Holds(c, x), WarmWorker(x),
         Files(r2', part', recs', fresh', x), Store(r2', part', recs'),
         tier' # "hot", \A j \in Jobs : kind'[j] \in WarmKinds, \A p \in part' : p.path # "key"
  PROVE  FilesInv'
<1>1. w'[c] = x /\ \A d \in Consumers : d # c => w'[d] = w[d]
  BY DEF FilesInv, TypeInv, WorkersInv, Set
<1>2. \A d \in Consumers : Files(r2', part', recs', fresh', w'[d])
  BY <1>1, OthersFiles
<1>3. Modes'
  BY <1>1 DEF FilesInv, Modes
<1>4. Apart(w')
  <2> SUFFICES ASSUME NEW a \in Consumers, NEW b \in Consumers, w'[a].pc \in Owning
               PROVE  /\ w'[a].fid \notin w'[b].olds
                      /\ a # b /\ w'[b].pc \in Owning => w'[a].fid # w'[b].fid
    BY DEF Apart
  <2>0. /\ fresh \in Nat
        /\ \A g \in w[b].olds : g \in Nat /\ g < fresh
        /\ w[b].fid \in Nat /\ w[b].fid < fresh /\ w[a].fid \in Nat /\ w[a].fid < fresh
    BY HeldIds
  <2>1. CASE a = c /\ b = c
    BY <1>1, <2>1 DEF Holds
  <2>2. CASE a = c /\ b # c
    <3>1. x.pc \in Owning /\ x.fid >= fresh /\ w'[b] = w[b]
      BY <1>1, <2>2 DEF Holds
    <3>2. x.fid \in Nat
      BY <1>1 DEF TypeInv, WorkersInv, Workers
    <3> QED
      BY <1>1, <2>0, <2>2, <3>1, <3>2
  <2>3. CASE a # c /\ b = c
    <3>1. w'[a] = w[a] /\ w[a].pc \in Owning /\ w'[b] = x
      BY <1>1, <2>3
    <3>2. w[a].fid \notin w[c].olds /\ \A r \in recs : r.file # w[a].fid
      BY <3>1 DEF FilesInv, Apart, Files
    <3>3. w[a].fid \notin x.olds
      BY <3>2 DEF Holds
    <3>4. x.pc \in Owning => x.fid >= fresh /\ x.fid \in Nat
      BY <1>1 DEF Holds, TypeInv, WorkersInv, Workers
    <3> QED
      BY <2>0, <3>1, <3>3, <3>4
  <2>4. CASE a # c /\ b # c
    BY <1>1, <2>4 DEF FilesInv, Apart
  <2> QED
    BY <2>1, <2>2, <2>3, <2>4
<1> QED
  BY <1>2, <1>3, <1>4 DEF FilesInv

-----------------------------------------------------------------------------
(* The steps and the files. *)

\* The states a warm consumer leaves the loop in.
LEMMA SyncFailedWarm ==
  ASSUME NEW x \in Workers, x.target # "hot"
  PROVE  LET y == SyncFailed(x)
         IN  y \in Workers /\ y.pc = "savecp" /\ y.olds = {} /\ y.target = x.target /\ y.mcp = x.mcp
<1> DEFINE z == [x EXCEPT !.err = TRUE, !.new = {}, !.days = {}, !.olds = {}, !.pid = 0, !.fid = 0]
<1>1. z \in Workers /\ z.target = x.target /\ z.olds = {} /\ z.mcp = x.mcp
  BY DEF Workers
<1>2. SyncFailed(x) = AfterTables(z)
  BY DEF SyncFailed
<1> HIDE DEF z
<1>3. AfterTables(z) = [z EXCEPT !.pc = "savecp"]
  BY <1>1 DEF AfterTables
<1> DEFINE y == [z EXCEPT !.pc = "savecp"]
<1>4. y \in Workers /\ y.pc = "savecp" /\ y.olds = {} /\ y.target = x.target /\ y.mcp = x.mcp
  BY <1>1 DEF Workers, Pcs
<1> QED
  BY <1>2, <1>3, <1>4

\* A step of c that leaves the store alone and no partition in hand.
LEMMA FilesQuiet ==
  ASSUME FilesInv, TypeInv', NEW c \in Consumers, NEW x, Set(c, x),
         WarmWorker(x), x.pc \notin Holding, x.olds \subseteq w[c].olds,
         UNCHANGED <<part, recs, r2, fresh>>,
         tier' # "hot", \A j \in Jobs : kind'[j] \in WarmKinds
  PROVE  FilesInv'
<1>0. fresh \in Nat /\ \A g \in w[c].olds : g < fresh
  BY HeldIds
<1>1. Change(c)
  BY DEF Change
<1>2. Holds(c, x)
  BY DEF Holds, Holding, Owning
<1>3. Files(r2', part', recs', fresh', x)
  BY <1>0 DEF Files, Holding, Owning
<1>4. Store(r2', part', recs') /\ fresh <= fresh' /\ \A p \in part' : p.path # "key"
  BY <1>0 DEF FilesInv, Modes
<1> QED
  BY <1>1, <1>2, <1>3, <1>4, FilesStep

\* The source changes.
LEMMA SourceChangeFiles ==
  ASSUME FilesInv, NEW t \in Tables, SourceChange(t)
  PROVE  FilesInv'
<1>1. TypeInv'
  BY SourceChangeType DEF FilesInv
<1>2. UNCHANGED <<tier, part, recs, r2, kind, fresh, w>>
  BY DEF SourceChange, meta, queue
<1> QED
  BY <1>1, <1>2 DEF FilesInv, Modes

\* A warm job starts with the cleanup, or ends at once.
LEMMA FirstStepWarm ==
  ASSUME FilesInv, NEW j, NEW k \in WarmKinds
  PROVE  LET x == FirstStep(j, k) IN WarmWorker(x) /\ x.pc \in {"cleanup", "finish"} /\ x.olds = {}
<1>1. tier # "hot"
  BY DEF FilesInv, Modes
<1> QED
  BY <1>1 DEF FirstStep, Begin, IdleWorker, WarmKinds, WarmWorker, WarmPcs

\* Jobs.
LEMMA JobFiles ==
  ASSUME FilesInv, WarmJobs, NEW c \in Consumers,
         NewJob(c) \/ Redeliver(c) \/ FinishJob(c) \/ Crash(c)
  PROVE  FilesInv'
<1>0. TypeInv'
  BY NewJobType, RedeliverType, FinishJobType, CrashType DEF FilesInv
<1>1. \E x : Set(c, x) /\ WarmWorker(x) /\ x.pc \notin Holding /\ x.olds = {}
  <2>1. CASE NewJob(c)
    <3>1. PICK k \in JobKinds : StartJob(c, nextJob, k)
      BY <2>1 DEF NewJob
    <3>2. k \in WarmKinds
      BY DEF WarmJobs
    <3> QED
      BY <3>1, <3>2, FirstStepWarm DEF StartJob, Holding
  <2>2. CASE Redeliver(c)
    <3>1. PICK j \in 1..(nextJob - 1) : StartJob(c, j, kind[j])
      BY <2>2 DEF Redeliver
    <3>2. j \in Jobs
      BY Constants DEF FilesInv, TypeInv, DataInv, Jobs
    <3>3. kind[j] \in WarmKinds
      BY <3>2 DEF FilesInv, Modes
    <3> QED
      BY <3>1, <3>3, FirstStepWarm DEF StartJob, Holding
  <2>3. CASE FinishJob(c) \/ Crash(c)
    <3>1. Set(c, IdleWorker)
      BY <2>3 DEF FinishJob, Crash
    <3>2. WarmWorker(IdleWorker) /\ IdleWorker.pc \notin Holding /\ IdleWorker.olds = {}
      BY DEF IdleWorker, WarmWorker, WarmPcs, Holding
    <3> QED
      BY <3>1, <3>2
  <2> QED
    BY <2>1, <2>2, <2>3
<1>2. UNCHANGED <<part, recs, r2, fresh, tier>>
  BY DEF NewJob, Redeliver, StartJob, FinishJob, Crash, meta
<1>3. \A j \in Jobs : kind'[j] \in WarmKinds
  <2>1. \A j \in Jobs : kind[j] \in WarmKinds
    BY DEF FilesInv, Modes
  <2>2. UNCHANGED kind \/ \E k \in JobKinds : kind' = [kind EXCEPT ![nextJob] = k]
    BY DEF NewJob, Redeliver, StartJob, FinishJob, Crash, queue
  <2>3. kind \in [Jobs -> Kinds]
    BY DEF FilesInv, TypeInv, DataInv
  <2> QED
    BY <2>1, <2>2, <2>3 DEF WarmJobs
<1>4. tier' # "hot"
  BY <1>2 DEF FilesInv, Modes
<1> QED
  BY <1>0, <1>1, <1>2, <1>3, <1>4, FilesQuiet

\* Orphaned partitions go with their records; no object goes.
LEMMA CleanupOrphansFiles ==
  ASSUME FilesInv, NEW c \in Consumers, CleanupOrphans(c)
  PROVE  FilesInv' /\ r2' = r2
<1>0. TypeInv'
  BY CleanupOrphansType DEF FilesInv
<1>1. r2' = r2 /\ part' \subseteq part /\ recs' \subseteq recs
  <2>1. PICK orphans \in SUBSET part :
          LET keys == {p.id : p \in {x \in orphans : x.path = "key"}}
          IN  \/ delete_objects(keys) /\ DeletePartitions({p.id : p \in orphans})
              \/ /\ Spend
                 /\ r2' \in {r2, {o \in r2 : o.key \notin keys}}
                 /\ UNCHANGED <<part, recs>>
    BY DEF CleanupOrphans
  <2> DEFINE keys == {p.id : p \in {x \in orphans : x.path = "key"}}
  <2>2. keys = {}
    BY DEF FilesInv, Modes
  <2>3. \/ delete_objects(keys) /\ DeletePartitions({p.id : p \in orphans})
        \/ r2' \in {r2, {o \in r2 : o.key \notin keys}} /\ UNCHANGED <<part, recs>>
    BY <2>1
  <2> HIDE DEF keys
  <2>4. CASE delete_objects(keys) /\ DeletePartitions({p.id : p \in orphans})
    <3>1. PICK gone \in SUBSET (keys \cap R2Keys) : r2' = {o \in r2 : o.key \notin gone}
      BY <2>4 DEF delete_objects
    <3>2. gone = {}
      BY <2>2, <3>1
    <3>3. r2' = r2
      BY <3>1, <3>2
    <3> QED
      BY <2>4, <3>3 DEF DeletePartitions
  <2>5. CASE r2' \in {r2, {o \in r2 : o.key \notin keys}} /\ UNCHANGED <<part, recs>>
    BY <2>2, <2>5
  <2> QED
    BY <2>3, <2>4, <2>5
<1> DEFINE x == w[c]
           y == [x EXCEPT !.pc = "fetch", !.mcp = cp]
<1>2. /\ Set(c, y) /\ UNCHANGED <<tier, kind, fresh>> /\ x \in Workers /\ WarmWorker(x)
      /\ fresh \in Nat /\ \A g \in x.olds : g < fresh
  BY HeldIds DEF CleanupOrphans, queue, FilesInv, Modes
<1> HIDE DEF x
<1>3. y.pc = "fetch" /\ y.target # "hot" /\ y.olds = x.olds
  BY <1>2 DEF Workers, WarmWorker
<1> HIDE DEF y
<1>4. Change(c)
  BY <1>1 DEF Change
<1>5. Holds(c, y) /\ Files(r2', part', recs', fresh', y) /\ WarmWorker(y)
  BY <1>2, <1>3 DEF Holds, Files, WarmWorker, WarmPcs, Holding, Owning, x
<1>6. Store(r2', part', recs')
  BY <1>1 DEF FilesInv, Store
<1>7. tier' # "hot" /\ (\A j \in Jobs : kind'[j] \in WarmKinds) /\ (\A p \in part' : p.path # "key")
      /\ fresh <= fresh'
  BY <1>1, <1>2 DEF FilesInv, Modes
<1> QED
  BY <1>0, <1>1, <1>2, <1>4, <1>5, <1>6, <1>7, FilesStep

\* The next table.
LEMMA FetchTableFiles ==
  ASSUME FilesInv, NEW c \in Consumers, FetchTable(c)
  PROVE  FilesInv'
<1>0. TypeInv'
  BY FetchTableType DEF FilesInv
<1> DEFINE x == w[c]
           new == Fetch(x.ti, x.mcp[x.ti])
           days == {DateOf[k] : k \in new}
<1>1. x \in Workers /\ WarmWorker(x) /\ x.pc = "fetch" /\ x.ti \in Nat
  BY HeldIds DEF FetchTable, FilesInv, Modes, Workers
<1>2. UNCHANGED <<part, recs, r2, fresh, tier, kind>> /\ tier' # "hot" /\ \A j \in Jobs : kind'[j] \in WarmKinds
  BY DEF FetchTable, meta, queue, FilesInv, Modes
<1>3. \/ Set(c, AfterTables(x))
      \/ Set(c, [x EXCEPT !.ti = @ + 1])
      \/ Set(c, [x EXCEPT !.new = new, !.days = days, !.pc = "getpart"])
  <2>1. NTables \in Nat /\ x.target # "hot"
    BY <1>1, Constants DEF WarmWorker
  <2> QED
    BY <1>1, <2>1 DEF FetchTable
<1> HIDE DEF x, new, days
<1>4. AfterTables(x) = [x EXCEPT !.pc = "savecp"]
  BY <1>1 DEF AfterTables, WarmWorker
<1>5. \E y : Set(c, y) /\ WarmWorker(y) /\ y.pc \notin Holding /\ y.olds = x.olds
  <2>1. ASSUME NEW y, y \in {[x EXCEPT !.pc = "savecp"], [x EXCEPT !.ti = @ + 1],
                             [x EXCEPT !.new = new, !.days = days, !.pc = "getpart"]}
        PROVE  WarmWorker(y) /\ y.pc \notin Holding /\ y.olds = x.olds
    BY <1>1, <2>1 DEF WarmWorker, WarmPcs, WarmWriting, Holding, Workers
  <2> QED
    BY <1>3, <1>4, <2>1
<1> QED
  BY <1>0, <1>2, <1>5, FilesQuiet DEF x

\* What is known of a consumer that works on a partition.
LEMMA HolderFacts ==
  ASSUME FilesInv, NEW c \in Consumers, w[c].pc \in WarmWriting
  PROVE  /\ w[c] \in Workers /\ WarmWorker(w[c]) /\ T(c) = w[c].ti /\ Day(c) = Min(w[c].days)
         /\ T(c) \in Tables /\ Day(c) \in Nat /\ Day(c) \in w[c].days
         /\ NewToday(c) = DayRows(w[c]) /\ NewToday(c) \subseteq Versions
         /\ Files(r2, part, recs, fresh, w[c])
<1>1. w[c].pc \in Writing
  BY DEF WarmWriting, Holding, Writing
<1>2. WorkerInv(w[c], nextJob, fresh)
  BY DEF FilesInv, TypeInv, WorkersInv
<1>3. Day(c) \in w[c].days /\ Day(c) \in Nat /\ NewToday(c) \subseteq Versions
  BY <1>1, DayIsDate DEF FilesInv
<1> QED
  BY <1>1, <1>2, <1>3 DEF FilesInv, Modes, WorkerInv, T, Day, NewToday, DayRows

\* The partition of the next date.
LEMMA GetPartitionFiles ==
  ASSUME FilesInv, NEW c \in Consumers, GetPartition(c)
  PROVE  FilesInv'
<1>0. TypeInv'
  BY GetPartitionType DEF FilesInv
<1> DEFINE x == w[c]
           t == T(c)
           d == Day(c)
           pf == PartitionFor(t, d)
           q == IF x.mcp[t] = 0 THEN "upload" ELSE "listfiles"
           y == [x EXCEPT !.pid = pf.id, !.pc = q]
<1>1. w[c].pc \in WarmWriting
  BY DEF GetPartition, WarmWriting
<1>2. /\ x \in Workers /\ WarmWorker(x) /\ t = x.ti /\ d = Min(x.days) /\ t \in Tables /\ d \in Nat
      /\ Files(r2, part, recs, fresh, x) /\ fresh \in Nat
  BY <1>1, HolderFacts, HeldIds
<1>3. Set(c, y) /\ part' = pf.rows /\ fresh' = pf.fresh /\ UNCHANGED <<tier, recs, r2, kind>>
  BY DEF GetPartition, queue
<1>4. q \in {"upload", "listfiles"}
  OBVIOUS
<1> HIDE DEF x, t, d, q
<1>5. /\ \/ fresh' = fresh /\ part' = part
         \/ fresh' = fresh + 1 /\ \E n : /\ part' = part \cup {n}
                                         /\ n.id = fresh /\ n.t = t /\ n.d = d /\ n.path = "none"
      /\ \E p \in part' : p.id = pf.id /\ p.t = t /\ p.d = d
  <2>1. CASE PartAt(t, d) # {}
    <3> DEFINE n == CHOOSE p \in PartAt(t, d) : TRUE
    <3>1. n \in part /\ n.t = t /\ n.d = d
      BY <2>1 DEF PartAt
    <3>2. pf.rows = part /\ pf.id = n.id /\ pf.fresh = fresh
      BY <2>1 DEF PartitionFor
    <3> HIDE DEF n, pf
    <3> QED
      BY <1>3, <3>1, <3>2
  <2>2. CASE PartAt(t, d) = {}
    <3> DEFINE n == [id |-> fresh, t |-> t, d |-> d, state |-> "committed", job |-> 0, path |-> "none"]
    <3>1. pf.rows = part \cup {n} /\ pf.id = fresh /\ pf.fresh = fresh + 1
      BY <2>2 DEF PartitionFor
    <3>2. n.id = fresh /\ n.t = t /\ n.d = d /\ n.path = "none"
      OBVIOUS
    <3> HIDE DEF n, pf
    <3> QED
      BY <1>3, <3>1, <3>2
  <2> QED
    BY <2>1, <2>2
<1> DEFINE id == pf.id
<1> HIDE DEF pf, id
<1>6. y.pc = q /\ y.pid = id /\ y.olds = x.olds /\ y.ti = x.ti /\ y.days = x.days /\ y.target = x.target
  BY <1>2 DEF Workers, id
<1>7. Set(c, y)
  BY <1>3 DEF id
<1> HIDE DEF y
<1>8. \A p \in part : p.id \in Nat /\ p.id < fresh /\ p.path # "key"
  BY DEF FilesInv, TypeInv, PartInv, PartitionRows, Modes
<1>9. Store(r2', part', recs')
  <2>1. \A p \in part' : \A r \in part' : p.id = r.id => p = r
    BY <1>2, <1>5, <1>8 DEF FilesInv, Store
  <2>2. ASSUME NEW r \in recs
        PROVE  \E o \in r2 : o.key = r.file /\ \A p \in part' : p.id = r.part => o.t = p.t /\ o.d = p.d
    <3>1. PICK o \in r2 : o.key = r.file /\ \A p \in part : p.id = r.part => o.t = p.t /\ o.d = p.d
      BY DEF FilesInv, Store
    <3>2. PICK p \in part : p.id = r.part
      BY DEF FilesInv, TypeInv, RecInv
    <3>3. r.part # fresh
      BY <1>2, <1>8, <3>2
    <3> QED
      BY <1>5, <3>1, <3>3
  <2>3. \A o \in r2' : \A p \in r2' : o.key = p.key => o = p
    BY <1>3 DEF FilesInv, Store
  <2> QED
    BY <1>3, <2>1, <2>2, <2>3 DEF Store
<1>10. Files(r2', part', recs', fresh', y)
  <2>1. \A g \in y.olds : g < fresh'
    BY <1>2, <1>5, <1>6, HeldIds DEF x
  <2>2. \A p \in part' : p.id = y.pid => p.t = y.ti /\ p.d = Min(y.days)
    <3>1. PICK n \in part' : n.id = id /\ n.t = t /\ n.d = d
      BY <1>5 DEF id
    <3> QED
      BY <1>2, <1>6, <1>9, <3>1 DEF Store
  <2> QED
    BY <1>4, <1>6, <2>1, <2>2 DEF Files, Owning
<1>11. Change(c)
  BY <1>2, <1>3, <1>5, <1>8 DEF Change
<1>12. Holds(c, y) /\ WarmWorker(y)
  BY <1>2, <1>4, <1>6 DEF Holds, Owning, WarmWorker, WarmPcs, WarmWriting, Holding, x
<1>13. tier' # "hot" /\ (\A j \in Jobs : kind'[j] \in WarmKinds) /\ (\A p \in part' : p.path # "key")
       /\ fresh <= fresh'
  BY <1>2, <1>3, <1>5, <1>8 DEF FilesInv, Modes
<1> QED
  BY <1>0, <1>7, <1>9, <1>10, <1>11, <1>12, <1>13, FilesStep

\* A consumer uploads an object: a first file, or a merged one.
LEMMA UploadFiles ==
  ASSUME FilesInv, TypeInv', NEW c \in Consumers, w[c].pc \in {"upload", "merge"},
         NEW rows, NewToday(c) \subseteq rows, NEW q \in Owning,
         q = "swap" => w[c].pc = "merge",
         r2' = r2 \cup {[key |-> fresh, t |-> T(c), d |-> Day(c), rows |-> rows]},
         fresh' = fresh + 1, Set(c, [w[c] EXCEPT !.pc = q, !.fid = fresh]),
         UNCHANGED <<tier, part, recs, kind>>
  PROVE  FilesInv'
<1> DEFINE x == w[c]
           t == T(c)
           d == Day(c)
           n == [key |-> fresh, t |-> t, d |-> d, rows |-> rows]
           y == [x EXCEPT !.pc = q, !.fid = fresh]
<1>1. w[c].pc \in WarmWriting
  BY DEF WarmWriting, Holding
<1>2. /\ x \in Workers /\ WarmWorker(x) /\ t = x.ti /\ d = Min(x.days) /\ t \in Tables /\ d \in Nat
      /\ Files(r2, part, recs, fresh, x) /\ fresh \in Nat /\ \A g \in x.olds : g \in Nat /\ g < fresh
      /\ DayRows(x) \subseteq rows /\ x.pc \in {"upload", "merge"} /\ (q = "swap" => x.pc = "merge")
  BY <1>1, HolderFacts, HeldIds
<1>3. Set(c, y) /\ r2' = r2 \cup {n}
  OBVIOUS
<1>4. n.key = fresh /\ n.t = t /\ n.d = d /\ n.rows = rows
  OBVIOUS
<1> HIDE DEF x, t, d, n
<1>5. /\ y.pc = q /\ y.pid = x.pid /\ y.olds = x.olds /\ y.ti = x.ti /\ y.days = x.days
      /\ y.target = x.target /\ y.fid = fresh /\ y.new = x.new
  BY <1>2 DEF Workers
<1> HIDE DEF y
<1>6. \A o \in r2 : o.key \in Nat /\ o.key < fresh
  BY DEF FilesInv, TypeInv, ObjectInv, Objects
<1>7. \A r \in recs : r.file \in Nat /\ r.file < fresh
  BY DEF FilesInv, TypeInv, RecInv, FileRows
<1>8. Store(r2', part', recs')
  <2>1. \A o \in r2' : \A p \in r2' : o.key = p.key => o = p
    BY <1>2, <1>3, <1>4, <1>6 DEF FilesInv, Store
  <2> QED
    BY <1>3, <2>1 DEF FilesInv, Store
<1>9. Files(r2', part', recs', fresh', y)
  <2>1. \A g \in y.olds : g < fresh'
    BY <1>2, <1>5
  <2>2. \A p \in part' : p.id = y.pid => p.t = y.ti /\ p.d = Min(y.days)
    BY <1>2, <1>5 DEF Files, Holding
  <2>3. \A r \in recs' : r.file # y.fid
    BY <1>2, <1>5, <1>7
  <2>4. \E o \in r2' : o.key = y.fid /\ o.t = y.ti /\ o.d = Min(y.days) /\ DayRows(y) \subseteq o.rows
    BY <1>2, <1>3, <1>4, <1>5 DEF DayRows
  <2>5. y.pc \in {"merge", "swap"} => \A o \in r2' : o.key \in y.olds => o.t = y.ti /\ o.d = Min(y.days)
    BY <1>2, <1>3, <1>4, <1>5 DEF Files, Owning
  <2> QED
    BY <1>5, <2>1, <2>2, <2>3, <2>4, <2>5 DEF Files, Owning
<1>10. Change(c)
  BY <1>2, <1>3, <1>4 DEF Change
<1>11. Holds(c, y) /\ WarmWorker(y)
  BY <1>2, <1>5 DEF Holds, WarmWorker, WarmPcs, WarmWriting, Holding, Owning, x
<1>12. tier' # "hot" /\ (\A j \in Jobs : kind'[j] \in WarmKinds) /\ (\A p \in part' : p.path # "key")
       /\ fresh <= fresh'
  BY <1>2 DEF FilesInv, Modes
<1> QED
  BY <1>3, <1>8, <1>9, <1>10, <1>11, <1>12, FilesStep

\* The upload of a first sync.
LEMMA UploadNewFiles ==
  ASSUME FilesInv, NEW c \in Consumers, UploadNew(c)
  PROVE  FilesInv'
<1>0. TypeInv'
  BY UploadNewType DEF FilesInv
<1>1. /\ w[c].pc = "upload" /\ fresh' = fresh + 1
      /\ r2' = r2 \cup {[key |-> fresh, t |-> T(c), d |-> Day(c), rows |-> NewToday(c)]}
      /\ Set(c, [w[c] EXCEPT !.pc = "addrec", !.fid = fresh])
      /\ UNCHANGED <<tier, part, recs, kind>>
  BY DEF UploadNew, meta, queue
<1> QED
  BY <1>0, <1>1, UploadFiles DEF Owning

\* A step out of the loop leaves the store alone, or takes the object that has no
\* record yet.
LEMMA FailFiles ==
  ASSUME FilesInv, TypeInv', NEW c \in Consumers, NEW y, Set(c, y), WarmWorker(y),
         y.pc \notin Holding, y.olds = {},
         \/ r2' = r2
         \/ w[c].pc = "swap" /\ r2' = {o \in r2 : o.key # w[c].fid},
         UNCHANGED <<tier, part, recs, kind, fresh>>
  PROVE  FilesInv'
<1>1. CASE r2' = r2
  BY <1>1, FilesQuiet DEF FilesInv, Modes
<1>2. CASE w[c].pc = "swap" /\ r2' = {o \in r2 : o.key # w[c].fid}
  <2>1. \A r \in recs : r.file # w[c].fid
    BY <1>2 DEF FilesInv, Files, Owning
  <2>2. Store(r2', part', recs')
    BY <1>2, <2>1 DEF FilesInv, Store
  <2>3. Change(c)
    BY <1>2 DEF Change, Condemned
  <2>4. Holds(c, y) /\ Files(r2', part', recs', fresh', y)
    BY DEF Holds, Files, Holding, Owning
  <2>5. tier' # "hot" /\ (\A j \in Jobs : kind'[j] \in WarmKinds) /\ (\A p \in part' : p.path # "key")
        /\ fresh <= fresh'
    BY HeldIds DEF FilesInv, Modes
  <2> QED
    BY <2>2, <2>3, <2>4, <2>5, FilesStep
<1> QED
  BY <1>1, <1>2

\* The failure of a step, as the consumer sees it.
LEMMA FailedState ==
  ASSUME FilesInv, NEW c \in Consumers
  PROVE  LET y == SyncFailed(w[c])
         IN  WarmWorker(y) /\ y.pc \notin Holding /\ y.olds = {} /\ y.pc = "savecp" /\ y.mcp = w[c].mcp
<1>1. w[c] \in Workers /\ w[c].target # "hot"
  BY HeldIds DEF FilesInv, Modes, WarmWorker
<1>2. LET y == SyncFailed(w[c])
      IN  y.pc = "savecp" /\ y.olds = {} /\ y.target = w[c].target /\ y.mcp = w[c].mcp
  BY <1>1, SyncFailedWarm
<1> QED
  BY <1>1, <1>2 DEF WarmWorker, WarmPcs, WarmWriting, Holding

\* add_partition_file.
LEMMA AddPartitionFileFiles ==
  ASSUME FilesInv, NEW c \in Consumers, AddPartitionFile(c)
  PROVE  FilesInv'
<1>0. TypeInv'
  BY AddPartitionFileType DEF FilesInv
<1>1. UNCHANGED <<tier, part, r2, kind, fresh>> /\ w[c].pc = "addrec"
  BY DEF AddPartitionFile, queue
<1>2. CASE PartId(w[c].pid) = {}
  BY <1>0, <1>1, <1>2, FailedState, FailFiles DEF AddPartitionFile
<1>3. CASE PartId(w[c].pid) # {}
  <2> DEFINE x == w[c]
             n == [file |-> x.fid, part |-> x.pid, state |-> "pending", job |-> x.job]
             y == [x EXCEPT !.pc = "updpart"]
  <2>1. Set(c, y) /\ recs' = recs \cup {n}
    BY <1>3 DEF AddPartitionFile, Goto
  <2>2. /\ x \in Workers /\ WarmWorker(x) /\ Files(r2, part, recs, fresh, x) /\ fresh \in Nat
        /\ x.pc = "addrec" /\ \A g \in x.olds : g < fresh
    BY <1>1, HeldIds DEF FilesInv, Modes
  <2>3. n.file = x.fid /\ n.part = x.pid
    OBVIOUS
  <2> HIDE DEF x, n
  <2>4. /\ y.pc = "updpart" /\ y.pid = x.pid /\ y.olds = x.olds /\ y.ti = x.ti /\ y.days = x.days
        /\ y.target = x.target
    BY <2>2 DEF Workers
  <2> HIDE DEF y
  <2>5. Store(r2', part', recs')
    <3>1. \E o \in r2 : o.key = n.file /\ \A p \in part : p.id = n.part => o.t = p.t /\ o.d = p.d
      BY <2>2, <2>3 DEF Files, Holding, Owning
    <3> QED
      BY <1>1, <2>1, <3>1 DEF FilesInv, Store
  <2>6. Files(r2', part', recs', fresh', y)
    BY <1>1, <2>2, <2>4 DEF Files, Holding, Owning
  <2>7. Change(c)
    BY <1>1, <2>1, <2>3 DEF Change, Owning, x
  <2>8. Holds(c, y) /\ WarmWorker(y)
    BY <2>2, <2>4 DEF Holds, WarmWorker, WarmPcs, WarmWriting, Holding, Owning, x
  <2>9. tier' # "hot" /\ (\A j \in Jobs : kind'[j] \in WarmKinds) /\ (\A p \in part' : p.path # "key")
        /\ fresh <= fresh'
    BY <1>1, <2>2 DEF FilesInv, Modes
  <2> QED
    BY <1>0, <2>1, <2>5, <2>6, <2>7, <2>8, <2>9, FilesStep
<1> QED
  BY <1>2, <1>3

\* A statement that keeps the identity of rows and records.
LEMMA RowsUpdated ==
  ASSUME FilesInv, TypeInv', NEW c \in Consumers, NEW y, Set(c, y), WarmWorker(y),
         y.pc \notin Holding, y.olds \subseteq w[c].olds,
         \A p \in part' : \E q \in part : p.id = q.id /\ p.t = q.t /\ p.d = q.d /\ p.path # "key",
         \A r \in recs' : \E s \in recs : r.file = s.file /\ r.part = s.part,
         UNCHANGED <<r2, kind, fresh>>, tier' # "hot"
  PROVE  FilesInv'
<1>0. fresh \in Nat /\ \A g \in w[c].olds : g < fresh
  BY HeldIds
<1>1. Change(c)
  BY DEF Change
<1>2. Store(r2', part', recs')
  <2>1. ASSUME NEW p \in part', NEW q \in part', p.id = q.id PROVE p = q
    <3>1. p.t = q.t /\ p.d = q.d
      BY <2>1 DEF FilesInv, Store
    <3> QED
      BY <3>1 DEF TypeInv, PartInv
  <2>2. ASSUME NEW r \in recs'
        PROVE  \E o \in r2 : o.key = r.file /\ \A p \in part' : p.id = r.part => o.t = p.t /\ o.d = p.d
    <3>1. PICK s \in recs : r.file = s.file /\ r.part = s.part
      OBVIOUS
    <3>2. PICK o \in r2 : o.key = s.file /\ \A p \in part : p.id = s.part => o.t = p.t /\ o.d = p.d
      BY DEF FilesInv, Store
    <3>3. \A p \in part' : p.id = r.part => o.t = p.t /\ o.d = p.d
      BY <3>1, <3>2
    <3> QED
      BY <3>1, <3>2, <3>3
  <2> QED
    BY <2>1, <2>2 DEF FilesInv, Store
<1>3. Holds(c, y) /\ Files(r2', part', recs', fresh', y)
  BY <1>0 DEF Holds, Files, Holding, Owning
<1>4. (\A j \in Jobs : kind'[j] \in WarmKinds) /\ (\A p \in part' : p.path # "key") /\ fresh <= fresh'
  BY <1>0 DEF FilesInv, Modes
<1> QED
  BY <1>1, <1>2, <1>3, <1>4, FilesStep

\* update_partition_metadata changes no identity.
LEMMA UpdatedRows ==
  ASSUME FilesInv, NEW id, NEW j, update_partition_data(id, "dir", j)
  PROVE  \A p \in part' : \E q \in part : p.id = q.id /\ p.t = q.t /\ p.d = q.d /\ p.path # "key"
<1> DEFINE U(p) == IF p.id = id THEN [p EXCEPT !.state = "pending", !.job = j, !.path = "dir"] ELSE p
<1>1. part' = {U(p) : p \in part}
  BY DEF update_partition_data
<1>2. \A p \in part : p \in PartitionRows /\ p.path # "key"
  BY DEF FilesInv, TypeInv, PartInv, Modes
<1>3. ASSUME NEW p \in part
      PROVE  U(p).id = p.id /\ U(p).t = p.t /\ U(p).d = p.d /\ U(p).path # "key"
  BY <1>2 DEF PartitionRows
<1> HIDE DEF U
<1> QED
  BY <1>1, <1>3

\* The next states of UpdatePartition.
LEMMA NextDate ==
  ASSUME NEW c \in Consumers, w[c] \in Workers, w[c].target # "hot", UpdatePartition(c)
  PROVE  \E rec : /\ rec = [w[c] EXCEPT !.pc = "getpart", !.days = w[c].days \ {Day(c)},
                                        !.pid = 0, !.fid = 0, !.olds = {}]
                  /\ rec \in Workers /\ rec.pc = "getpart" /\ rec.olds = {} /\ rec.target # "hot"
                  /\ rec.mcp = w[c].mcp /\ rec.new = w[c].new /\ rec.ti = w[c].ti
                  /\ rec.days = w[c].days \ {Day(c)}
                  /\ \/ rec.days # {} /\ Set(c, rec)
                     \/ rec.days = {} /\ Set(c, TableDone(rec))
                     \/ rec.days = {} /\ Set(c, SyncFailed(rec))
<1> DEFINE x == w[c]
           rest == x.days \ {Day(c)}
           rec == [x EXCEPT !.pc = "getpart", !.days = rest, !.pid = 0, !.fid = 0, !.olds = {}]
<1>1. x \in Workers /\ x.target # "hot"
  OBVIOUS
<1>2. \/ rest # {} /\ Set(c, rec)
      \/ rest = {} /\ Set(c, TableDone(rec))
      \/ rest = {} /\ Set(c, SyncFailed(rec))
  BY DEF UpdatePartition
<1> HIDE DEF x
<1>3. rest \in SUBSET Nat
  BY <1>1 DEF Workers
<1> HIDE DEF rest
<1>4. /\ rec \in Workers /\ rec.pc = "getpart" /\ rec.olds = {} /\ rec.target # "hot"
      /\ rec.mcp = x.mcp /\ rec.new = x.new /\ rec.ti = x.ti /\ rec.days = rest
  BY <1>1, <1>3 DEF Workers, Pcs
<1> QED
  BY <1>2, <1>4 DEF x, rest

\* The end of a table.
LEMMA TableDoneWarm ==
  ASSUME NEW x \in Workers
  PROVE  LET y == TableDone(x)
         IN  /\ y.pc = "fetch" /\ y.olds = {} /\ y.target = x.target
             /\ y.mcp = [x.mcp EXCEPT ![x.ti] = Max(x.new)]
BY DEF TableDone, Workers

\* The partition row is updated.
LEMMA UpdatePartitionFiles ==
  ASSUME FilesInv, NEW c \in Consumers, UpdatePartition(c)
  PROVE  FilesInv'
<1>0. TypeInv'
  BY UpdatePartitionType DEF FilesInv
<1>1. UNCHANGED <<tier, recs, r2, kind, fresh>> /\ update_partition_data(w[c].pid, "dir", w[c].job)
  BY DEF UpdatePartition, queue
<1>2. \A p \in part' : \E q \in part : p.id = q.id /\ p.t = q.t /\ p.d = q.d /\ p.path # "key"
  BY <1>1, UpdatedRows
<1>3. PICK rec : /\ rec \in Workers /\ rec.pc = "getpart" /\ rec.olds = {} /\ rec.target # "hot"
                 /\ Set(c, rec) \/ Set(c, TableDone(rec)) \/ Set(c, SyncFailed(rec))
  BY HeldIds, NextDate DEF FilesInv, Modes, WarmWorker
<1>4. \E y : Set(c, y) /\ WarmWorker(y) /\ y.pc \notin Holding /\ y.olds = {}
  BY <1>3, TableDoneWarm, SyncFailedWarm DEF WarmWorker, WarmPcs, WarmWriting, Holding
<1>5. tier' # "hot" /\ \A r \in recs' : \E s \in recs : r.file = s.file /\ r.part = s.part
  BY <1>1 DEF FilesInv, Modes
<1> QED
  BY <1>0, <1>1, <1>2, <1>4, <1>5, RowsUpdated

\* The files of the partition are listed.
LEMMA ListPartitionFilesFiles ==
  ASSUME FilesInv, NEW c \in Consumers, ListPartitionFiles(c)
  PROVE  FilesInv'
<1>0. TypeInv'
  BY ListPartitionFilesType DEF FilesInv
<1> DEFINE x == w[c]
           fs == {r.file : r \in CommittedRecs(x.pid)}
           y == [x EXCEPT !.pc = "merge", !.olds = fs]
<1>1. Set(c, y) /\ UNCHANGED <<tier, part, recs, r2, kind, fresh>> /\ x.pc = "listfiles"
  BY DEF ListPartitionFiles, meta, queue
<1>2. x \in Workers /\ WarmWorker(x) /\ Files(r2, part, recs, fresh, x) /\ fresh \in Nat
  BY HeldIds DEF FilesInv, Modes
<1>3. \A g \in fs : \E r \in recs : r.file = g /\ r.part = x.pid
  BY DEF CommittedRecs
<1> HIDE DEF x, fs
<1>4. /\ y.pc = "merge" /\ y.pid = x.pid /\ y.olds = fs /\ y.ti = x.ti /\ y.days = x.days
      /\ y.target = x.target
  BY <1>2 DEF Workers
<1> HIDE DEF y
<1>5. Files(r2', part', recs', fresh', y)
  <2>1. \A g \in y.olds : g < fresh
    BY <1>3, <1>4 DEF FilesInv, TypeInv, RecInv
  <2>2. \A p \in part : p.id = y.pid => p.t = y.ti /\ p.d = Min(y.days)
    BY <1>1, <1>2, <1>4 DEF Files, Holding
  <2>3. ASSUME NEW o \in r2, o.key \in y.olds PROVE o.t = y.ti /\ o.d = Min(y.days)
    <3>1. PICK r \in recs : r.file = o.key /\ r.part = x.pid
      BY <1>3, <1>4, <2>3
    <3>2. PICK p \in part : p.id = r.part
      BY DEF FilesInv, TypeInv, RecInv
    <3>3. PICK q \in r2 : q.key = r.file /\ q.t = p.t /\ q.d = p.d
      BY <3>2 DEF FilesInv, Store
    <3>4. q = o
      BY <3>1, <3>3 DEF FilesInv, Store
    <3> QED
      BY <1>4, <2>2, <3>1, <3>2, <3>3, <3>4
  <2> QED
    BY <1>1, <1>4, <2>1, <2>2, <2>3 DEF Files, Owning
<1>6. Change(c)
  BY <1>1 DEF Change
<1>7. Holds(c, y) /\ WarmWorker(y)
  BY <1>2, <1>3, <1>4 DEF Holds, WarmWorker, WarmPcs, WarmWriting, Holding, Owning
<1>8. /\ tier' # "hot" /\ (\A j \in Jobs : kind'[j] \in WarmKinds) /\ (\A p \in part' : p.path # "key")
      /\ fresh <= fresh' /\ Store(r2', part', recs')
  BY <1>1, <1>2 DEF FilesInv, Modes
<1> QED
  BY <1>0, <1>1, <1>5, <1>6, <1>7, <1>8, FilesStep

\* The merged object.
MergedRows(c) == merge_batches_by_pk(UNION {o.rows : o \in {x \in r2 : x.key \in w[c].olds}}, NewToday(c))

\* The merge uploads a new object, or aborts.
LEMMA MergeUploadFiles ==
  ASSUME FilesInv, NEW c \in Consumers, MergeUpload(c)
  PROVE  FilesInv'
<1>0. TypeInv'
  BY MergeUploadType DEF FilesInv
<1>1. UNCHANGED <<tier, part, recs, kind>> /\ w[c].pc = "merge"
  BY DEF MergeUpload, meta, queue
<1>2. CASE w[c].olds \subseteq R2Keys
  <2>1. /\ r2' = r2 \cup {[key |-> fresh, t |-> T(c), d |-> Day(c), rows |-> MergedRows(c)]}
        /\ fresh' = fresh + 1 /\ Set(c, [w[c] EXCEPT !.pc = "swap", !.fid = fresh])
    BY <1>2 DEF MergeUpload, MergedRows
  <2>2. NewToday(c) \subseteq MergedRows(c)
    BY DEF MergedRows, merge_batches_by_pk
  <2>3. "swap" \in Owning
    BY DEF Owning
  <2> QED
    BY <1>0, <1>1, <2>1, <2>2, <2>3, UploadFiles
<1>3. CASE ~(w[c].olds \subseteq R2Keys)
  <2>1. Set(c, SyncFailed(w[c])) /\ UNCHANGED <<r2, fresh>>
    BY <1>3 DEF MergeUpload
  <2> QED
    BY <1>0, <1>1, <2>1, FailedState, FailFiles
<1> QED
  BY <1>2, <1>3

\* The swap of the records.
LEMMA SwapPartitionFilesFiles ==
  ASSUME FilesInv, NEW c \in Consumers, SwapPartitionFiles(c)
  PROVE  FilesInv'
<1>0. TypeInv'
  BY SwapPartitionFilesType DEF FilesInv
<1>1. UNCHANGED <<tier, part, kind, fresh>> /\ w[c].pc = "swap"
  BY DEF SwapPartitionFiles, queue
<1>2. CASE PartId(w[c].pid) = {}
  <2>1. Set(c, SyncFailed(w[c])) /\ UNCHANGED recs /\ r2' = {o \in r2 : o.key # w[c].fid}
    BY <1>2 DEF SwapPartitionFiles
  <2> QED
    BY <1>0, <1>1, <2>1, FailedState, FailFiles
<1>3. CASE PartId(w[c].pid) # {}
  <2> DEFINE x == w[c]
             n == [file |-> x.fid, part |-> x.pid, state |-> "committed", job |-> 0]
             fs == {r.file : r \in {s \in recs : s.file \in x.olds}}
             y == [x EXCEPT !.pc = "delold", !.olds = fs]
  <2>1. Set(c, y) /\ recs' = {r \in recs : r.file \notin x.olds} \cup {n} /\ r2' = r2
    BY <1>3 DEF SwapPartitionFiles
  <2>2. /\ x \in Workers /\ WarmWorker(x) /\ Files(r2, part, recs, fresh, x) /\ fresh \in Nat
        /\ x.pc = "swap" /\ (\A g \in x.olds : g < fresh) /\ x.fid \notin x.olds
    BY <1>1, HeldIds DEF FilesInv, Modes, Apart, Owning
  <2>3. n.file = x.fid /\ n.part = x.pid
    OBVIOUS
  <2>4. fs \subseteq x.olds
    OBVIOUS
  <2> HIDE DEF x, n, fs
  <2>5. /\ y.pc = "delold" /\ y.pid = x.pid /\ y.olds = fs /\ y.ti = x.ti /\ y.days = x.days
        /\ y.target = x.target
    BY <2>2 DEF Workers
  <2> HIDE DEF y
  <2>6. Store(r2', part', recs')
    <3>1. \E o \in r2 : o.key = n.file /\ \A p \in part : p.id = n.part => o.t = p.t /\ o.d = p.d
      BY <2>2, <2>3 DEF Files, Holding, Owning
    <3> QED
      BY <1>1, <2>1, <3>1 DEF FilesInv, Store
  <2>7. Files(r2', part', recs', fresh', y)
    <3>1. \A r \in recs' : r.file \notin y.olds
      BY <2>1, <2>2, <2>3, <2>4, <2>5
    <3>2. \A p \in part' : p.id = y.pid => p.t = y.ti /\ p.d = Min(y.days)
      BY <1>1, <2>2, <2>5 DEF Files, Holding
    <3>3. \A g \in y.olds : g < fresh'
      BY <1>1, <2>2, <2>4, <2>5
    <3> QED
      BY <2>5, <3>1, <3>2, <3>3 DEF Files, Owning
  <2>8. Change(c)
    BY <1>1, <2>1, <2>3 DEF Change, Owning, x
  <2>9. Holds(c, y) /\ WarmWorker(y)
    BY <2>2, <2>4, <2>5 DEF Holds, WarmWorker, WarmPcs, WarmWriting, Holding, Owning, x
  <2>10. tier' # "hot" /\ (\A j \in Jobs : kind'[j] \in WarmKinds) /\ (\A p \in part' : p.path # "key")
         /\ fresh <= fresh'
    BY <1>1, <2>2 DEF FilesInv, Modes
  <2> QED
    BY <1>0, <2>1, <2>6, <2>7, <2>8, <2>9, <2>10, FilesStep
<1> QED
  BY <1>2, <1>3

\* Old objects go when their records are gone.
LEMMA DeleteOldFilesFiles ==
  ASSUME FilesInv, NEW c \in Consumers, DeleteOldFiles(c)
  PROVE  FilesInv'
<1>0. TypeInv'
  BY DeleteOldFilesType DEF FilesInv
<1> DEFINE x == w[c]
           y == [x EXCEPT !.pc = "updpart"]
<1>1. Set(c, y) /\ UNCHANGED <<tier, part, recs, kind, fresh>> /\ x.pc = "delold" /\ delete_objects(x.olds)
  BY DEF DeleteOldFiles, Goto, meta, queue
<1>2. PICK gone \in SUBSET x.olds : r2' = {o \in r2 : o.key \notin gone}
  BY <1>1 DEF delete_objects
<1>3. x \in Workers /\ WarmWorker(x) /\ Files(r2, part, recs, fresh, x) /\ fresh \in Nat
  BY HeldIds DEF FilesInv, Modes
<1> HIDE DEF x
<1>4. /\ y.pc = "updpart" /\ y.pid = x.pid /\ y.olds = x.olds /\ y.ti = x.ti /\ y.days = x.days
      /\ y.target = x.target
  BY <1>3 DEF Workers
<1> HIDE DEF y
<1>5. \A r \in recs : r.file \notin x.olds
  BY <1>1, <1>3 DEF Files
<1>6. Store(r2', part', recs')
  BY <1>1, <1>2, <1>5 DEF FilesInv, Store
<1>7. Files(r2', part', recs', fresh', y)
  BY <1>1, <1>3, <1>4 DEF Files, Holding, Owning
<1>8. Change(c)
  BY <1>1, <1>2 DEF Change, Condemned, x
<1>9. Holds(c, y) /\ WarmWorker(y)
  BY <1>3, <1>4 DEF Holds, WarmWorker, WarmPcs, WarmWriting, Holding, Owning, x
<1>10. tier' # "hot" /\ (\A j \in Jobs : kind'[j] \in WarmKinds) /\ (\A p \in part' : p.path # "key")
       /\ fresh <= fresh'
  BY <1>1, <1>3 DEF FilesInv, Modes
<1> QED
  BY <1>0, <1>1, <1>6, <1>7, <1>8, <1>9, <1>10, FilesStep

\* A failed step of the loop, as the consumer sees it.
LEMMA FailedStep ==
  ASSUME FilesInv, NEW c \in Consumers, SyncStepFails(c)
  PROVE  \E y : /\ Set(c, y) /\ WarmWorker(y) /\ y.pc = "savecp" /\ y.pc \notin Holding /\ y.olds = {}
                /\ y.mcp = w[c].mcp
<1> DEFINE x == w[c]
           z == [x EXCEPT !.done = IF x.pc = "stage" THEN @ \cup {T(c)} ELSE @]
<1>1. x \in Workers /\ x.target # "hot" /\ x.pc # "stage" /\ Set(c, SyncFailed(z))
  BY HeldIds DEF SyncStepFails, FilesInv, Modes, WarmWorker, WarmPcs, WarmWriting, Holding
<1> HIDE DEF x
<1>2. z \in Workers /\ z.target = x.target /\ z.mcp = x.mcp
  BY <1>1 DEF Workers
<1> HIDE DEF z
<1>3. LET y == SyncFailed(z)
      IN  y.pc = "savecp" /\ y.olds = {} /\ y.target = z.target /\ y.mcp = z.mcp
  BY <1>1, <1>2, SyncFailedWarm
<1>4. WarmWorker(SyncFailed(z))
  BY <1>1, <1>2, <1>3 DEF WarmWorker, WarmPcs
<1> QED
  BY <1>1, <1>2, <1>3, <1>4 DEF x, Holding

\* A step of the loop fails.
LEMMA SyncStepFailsFiles ==
  ASSUME FilesInv, NEW c \in Consumers, SyncStepFails(c)
  PROVE  FilesInv'
<1>0. TypeInv'
  BY SyncStepFailsType DEF FilesInv
<1>1. UNCHANGED <<tier, part, recs, kind, fresh>>
      /\ (r2' = r2 \/ (w[c].pc = "swap" /\ r2' = {o \in r2 : o.key # w[c].fid}))
  BY DEF SyncStepFails, meta, queue
<1>2. PICK y : Set(c, y) /\ WarmWorker(y) /\ y.pc \notin Holding /\ y.olds = {}
  BY FailedStep
<1> QED
  BY <1>0, <1>1, <1>2, FailFiles

\* A consumer goes on to a step without a partition.
LEMMA GotoQuiet ==
  ASSUME FilesInv, NEW c \in Consumers, NEW p \in {"commitsync", "settier", "finish"},
         NEW y, y = [w[c] EXCEPT !.pc = p] \/ y = [w[c] EXCEPT !.pc = p, !.err = TRUE]
  PROVE  WarmWorker(y) /\ y.pc \notin Holding /\ y.olds = w[c].olds /\ y.pc = p
<1>1. w[c] \in Workers /\ w[c].target # "hot"
  BY HeldIds DEF FilesInv, Modes, WarmWorker
<1> QED
  BY <1>1 DEF Workers, WarmWorker, WarmPcs, WarmWriting, Holding

\* The checkpoint is saved, or a statement fails.
LEMMA SaveFiles ==
  ASSUME FilesInv, NEW c \in Consumers, SaveCheckpoint(c) \/ JobStepFails(c)
  PROVE  FilesInv'
<1>0. TypeInv'
  BY SaveCheckpointType, JobStepFailsType DEF FilesInv
<1>1. UNCHANGED <<tier, part, recs, r2, kind, fresh>>
  BY DEF SaveCheckpoint, JobStepFails, meta, queue
<1>2. \E p \in {"commitsync", "settier", "finish"} :
         Set(c, [w[c] EXCEPT !.pc = p]) \/ Set(c, [w[c] EXCEPT !.pc = p, !.err = TRUE])
  BY DEF SaveCheckpoint, JobStepFails, Goto, AfterSync
<1>3. PICK p \in {"commitsync", "settier", "finish"} :
         Set(c, [w[c] EXCEPT !.pc = p]) \/ Set(c, [w[c] EXCEPT !.pc = p, !.err = TRUE])
  BY <1>2
<1>4. PICK y : Set(c, y) /\ (y = [w[c] EXCEPT !.pc = p] \/ y = [w[c] EXCEPT !.pc = p, !.err = TRUE])
  BY <1>3
<1>5. WarmWorker(y) /\ y.pc \notin Holding /\ y.olds = w[c].olds
  <2>1. w[c] \in Workers /\ w[c].target # "hot"
    BY HeldIds DEF FilesInv, Modes, WarmWorker
  <2> QED
    BY <1>4, <2>1 DEF Workers, WarmWorker, WarmPcs, WarmWriting, Holding
<1> QED
  BY <1>0, <1>1, <1>4, <1>5, FilesQuiet DEF FilesInv, Modes

\* commit_sync.
LEMMA CommitSyncFiles ==
  ASSUME FilesInv, NEW c \in Consumers, CommitSync(c)
  PROVE  FilesInv'
<1>0. TypeInv'
  BY CommitSyncType DEF FilesInv
<1> DEFINE U(p) == IF p.job = w[c].job THEN [p EXCEPT !.state = "committed"] ELSE p
<1>1. UNCHANGED <<tier, r2, kind, fresh>> /\ part' = {U(p) : p \in part} /\ recs' = {U(r) : r \in recs}
  BY DEF CommitSync, queue
<1>2. \E y : Set(c, y) /\ WarmWorker(y) /\ y.pc \notin Holding /\ y.olds = w[c].olds
  BY GotoQuiet DEF CommitSync, Goto
<1>3. ASSUME NEW p \in part
      PROVE  U(p).id = p.id /\ U(p).t = p.t /\ U(p).d = p.d /\ U(p).path # "key"
  BY DEF FilesInv, TypeInv, PartInv, PartitionRows, Modes
<1>4. ASSUME NEW r \in recs PROVE U(r).file = r.file /\ U(r).part = r.part
  BY DEF FilesInv, TypeInv, RecInv, FileRows
<1> HIDE DEF U
<1>5. \A p \in part' : \E q \in part : p.id = q.id /\ p.t = q.t /\ p.d = q.d /\ p.path # "key"
  BY <1>1, <1>3
<1>6. \A r \in recs' : \E s \in recs : r.file = s.file /\ r.part = s.part
  BY <1>1, <1>4
<1>7. tier' # "hot"
  BY <1>1 DEF FilesInv, Modes
<1> QED
  BY <1>0, <1>1, <1>2, <1>5, <1>6, <1>7, RowsUpdated

\* update_source_tier.
LEMMA SetTierFiles ==
  ASSUME FilesInv, NEW c \in Consumers, SetTier(c)
  PROVE  FilesInv'
<1>0. TypeInv'
  BY SetTierType DEF FilesInv
<1>1. UNCHANGED <<part, recs, r2, kind, fresh>> /\ tier' = w[c].target
  BY DEF SetTier, meta, queue
<1>2. w[c].job \in Jobs
  <2>1. WorkerInv(w[c], nextJob, fresh) /\ w[c].pc = "settier"
    BY DEF SetTier, FilesInv, TypeInv, WorkersInv
  <2> QED
    BY <2>1, Constants DEF WorkerInv, Workers, Jobs
<1>3. kind[w[c].job] \in WarmKinds
  BY <1>2 DEF FilesInv, Modes
<1>4. Set(c, [w[c] EXCEPT !.pc = "finish"])
  BY <1>3 DEF SetTier, Goto, WarmKinds
<1>5. \E y : Set(c, y) /\ WarmWorker(y) /\ y.pc \notin Holding /\ y.olds = w[c].olds
  BY <1>4, GotoQuiet
<1>6. tier' # "hot" /\ \A j \in Jobs : kind'[j] \in WarmKinds
  BY <1>1 DEF FilesInv, Modes, WarmWorker
<1> QED
  BY <1>0, <1>1, <1>5, <1>6, FilesQuiet

\* No consumer reaches a step of the hot tier or of a transition.
LEMMA ColdSteps ==
  ASSUME FilesInv, NEW c \in Consumers, SyncNext(c) \/ TransitionNext(c)
  PROVE  \/ CleanupOrphans(c) \/ FetchTable(c) \/ GetPartition(c) \/ UploadNew(c)
         \/ AddPartitionFile(c) \/ UpdatePartition(c) \/ ListPartitionFiles(c) \/ MergeUpload(c)
         \/ SwapPartitionFiles(c) \/ DeleteOldFiles(c) \/ SyncStepFails(c)
         \/ SaveCheckpoint(c) \/ JobStepFails(c) \/ CommitSync(c) \/ SetTier(c)
<1>1. w[c].pc \in WarmPcs
  BY DEF FilesInv, Modes, WarmWorker
<1>2. ~(CreateStaging(c) \/ InsertStaging(c) \/ RollbackStaging(c) \/ CommitStaging(c)
        \/ SavePartialCheckpoint(c))
  BY <1>1 DEF CreateStaging, InsertStaging, RollbackStaging, CommitStaging, SavePartialCheckpoint,
              WarmPcs, WarmWriting, Holding
<1>3. ~(ListPartitions(c) \/ ImportPartition(c) \/ CleanR2(c) \/ DeleteParts(c))
  BY <1>1 DEF ListPartitions, ImportPartition, CleanR2, DeleteParts, WarmPcs, WarmWriting, Holding
<1>4. ~(ListClickHouse(c) \/ ExportTable(c) \/ RecordExport(c) \/ DropClickHouse(c) \/ DropStaging(c)
        \/ PurgeClickHouse(c) \/ PurgeR2(c))
  BY <1>1 DEF ListClickHouse, ExportTable, RecordExport, DropClickHouse, DropStaging,
              PurgeClickHouse, PurgeR2, WarmPcs, WarmWriting, Holding
<1> QED
  BY <1>2, <1>3, <1>4 DEF SyncNext, TransitionNext

\* The invariant holds initially ...
LEMMA FilesInit == Init => FilesInv
<1> SUFFICES ASSUME Init PROVE FilesInv
  OBVIOUS
<1>1. TypeInv
  BY TypeInit
<1>2. \A c \in Consumers : w[c] = IdleWorker /\ w[c].pc = "idle" /\ w[c].olds = {} /\ w[c].target = "cold"
  BY DEF Init, IdleWorker
<1>3. Modes
  BY <1>2 DEF Init, Modes, WarmWorker, WarmPcs, WarmKinds
<1>4. Apart(w) /\ \A c \in Consumers : Files(r2, part, recs, fresh, w[c])
  BY <1>2 DEF Apart, Files, Owning, Holding
<1> QED
  BY <1>1, <1>3, <1>4 DEF Init, FilesInv, Store

\* ... and every step keeps it.
LEMMA FilesNext ==
  ASSUME WarmJobs, FilesInv, [Next]_vars
  PROVE  FilesInv'
<1>1. CASE UNCHANGED vars
  <2>1. TypeInv'
    BY <1>1, TypeStep DEF FilesInv
  <2>2. UNCHANGED <<tier, part, recs, r2, kind, fresh, w>>
    BY <1>1 DEF vars, meta, queue
  <2> QED
    BY <2>1, <2>2 DEF FilesInv, Modes
<1>2. ASSUME NEW t \in Tables, SourceChange(t) PROVE FilesInv'
  BY <1>2, SourceChangeFiles
<1>3. ASSUME NEW c \in Consumers, NewJob(c) \/ Redeliver(c) \/ FinishJob(c) \/ Crash(c) PROVE FilesInv'
  BY <1>3, JobFiles
<1>4. ASSUME NEW c \in Consumers, SyncNext(c) \/ TransitionNext(c) PROVE FilesInv'
  BY <1>4, ColdSteps, CleanupOrphansFiles, FetchTableFiles, GetPartitionFiles, UploadNewFiles,
     AddPartitionFileFiles, UpdatePartitionFiles, ListPartitionFilesFiles, MergeUploadFiles,
     SwapPartitionFilesFiles, DeleteOldFilesFiles, SyncStepFailsFiles, SaveFiles,
     CommitSyncFiles, SetTierFiles
<1> QED
  BY <1>1, <1>2, <1>3, <1>4 DEF Next

\* While a source is kept warm, no file record dangles: however many consumers
\* merge the same dates, fail or die, an object is deleted only by its uploader
\* before it has a record or after its record is gone (merge_warm_incremental,
\* swap_partition_files).
THEOREM FilesExist ==
  ASSUME WarmJobs
  PROVE  Spec => []CommittedFilesExist
<1>1. FilesInv /\ [Next]_vars => FilesInv'
  BY FilesNext
<1>2. FilesInv => CommittedFilesExist
  BY FilesInvImplies
<1> QED
  BY <1>1, <1>2, FilesInit, PTL DEF Spec

=============================================================================
