--------------------- MODULE WarehouseCheckpoint_proofs ---------------------
(***************************************************************************)
(* The checkpoint of a source that is kept warm never passes a row that    *)
(* queries do not find, for any number of tables, versions, jobs and       *)
(* faults, provided the versions of a primary key within one date are      *)
(* merged in order: there is one consumer, or at most one version per key  *)
(* and date.  (With a stale second consumer the older version may be       *)
(* merged over the newer one; see the README.)                             *)
(*                                                                         *)
(* An object lasts unless a consumer is about to delete it.  The rows of   *)
(* the lasting objects never get fewer, but for rows the source has        *)
(* replaced; a consumer's cursor and the saved checkpoint only pass rows   *)
(* that are in lasting objects.                                            *)
(*                                                                         *)
(* The second part takes jobs of every type, run by one consumer: the      *)
(* saved checkpoint only moves past rows that R2 or a production table     *)
(* holds.                                                                  *)
(***************************************************************************)
EXTENDS WarehouseWarm_proofs

OneVersionPerDate ==
  \A k \in Versions : \A m \in Versions : PkOf[k] = PkOf[m] /\ DateOf[k] = DateOf[m] => k = m

\* The versions of a key within one date are merged in order.
InOrder == OneConsumer \/ OneVersionPerDate

-----------------------------------------------------------------------------
(* The invariant of the checkpoint, of source s, objects os, consumers ws. *)

\* Version k of table t is in an object that nobody is about to delete.
Lasting(os, ws, t, k) ==
  \E o \in os : o.t = t /\ k \in o.rows /\ \A c \in Consumers : ~Condemned(ws[c], o.key)

\* The versions in S that are current have landed.
Landed(s, os, ws, t, S) == \A k \in S : k \in Newest(s[t]) => Lasting(os, ws, t, k)

\* Cursor m has passed landed rows only.
Safe(s, os, ws, m) == \A t \in Tables : m[t] <= s[t] /\ Landed(s, os, ws, t, 1..m[t])

\* The fetched rows: no current row between the cursor and one of them is
\* missing, and they have different keys.
Batch(s, x) ==
  /\ \A k \in x.new : k <= s[x.ti]
  /\ \A k \in Newest(s[x.ti]) : \A j \in x.new : x.mcp[x.ti] < k /\ k <= j => k \in x.new
  /\ \A k \in x.new : \A j \in x.new : PkOf[k] = PkOf[j] => k = j

\* No object has a newer version, of the same date, of a fetched row.
Latest(os, x) ==
  \A o \in os : o.t = x.ti =>
    \A k \in o.rows : \A j \in x.new : PkOf[k] = PkOf[j] /\ DateOf[k] = DateOf[j] => k <= j

\* The fetched rows that are written: of the dates done, and of the date in hand
\* once its object is up.
Written(x) ==
  {k \in x.new : \/ DateOf[k] \notin x.days
                 \/ DateOf[k] = Min(x.days) /\ x.pc \in {"addrec", "delold", "updpart"}}

\* The merged object has the current rows of the objects it replaces.
Covers(s, os, x) ==
  \A o \in os : \A q \in os : o.key = x.fid /\ q.key \in x.olds =>
    \A k \in q.rows : k \in o.rows \/ k \notin Newest(s[x.ti])

Progress(s, os, ws, x) ==
  /\ x.pc \in WarmWriting \cup {"fetch", "savecp"} => Safe(s, os, ws, x.mcp)
  /\ x.pc \in WarmWriting => Batch(s, x) /\ Latest(os, x) /\ Landed(s, os, ws, x.ti, Written(x))
  /\ x.pc = "swap" => Covers(s, os, x)

Rows(s, os) == \A o \in os : \A k \in o.rows : k <= s[o.t] /\ DateOf[k] = o.d

CheckInv ==
  /\ FilesInv /\ Rows(src, r2) /\ Safe(src, r2, w, cp)
  /\ \A c \in Consumers : Progress(src, r2, w, w[c])

\* Landed rows are found by a query.
LEMMA CheckInvImplies ==
  ASSUME CheckInv
  PROVE  CheckpointedRowsAreQueryable
<1>1. tier # "hot"
  BY DEF CheckInv, FilesInv, Modes
<1>2. ASSUME NEW t \in Tables, NEW k \in Newest(src[t]), k <= cp[t]
      PROVE  k \in R2Rows(t)
  <2>1. src[t] \in Nat /\ cp[t] \in Nat
    BY Constants DEF CheckInv, FilesInv, TypeInv, DataInv
  <2>2. k \in 1..cp[t]
    BY <1>2, <2>1 DEF Newest
  <2>3. Lasting(r2, w, t, k)
    BY <2>2 DEF CheckInv, Safe, Landed
  <2> QED
    BY <2>3 DEF Lasting, R2Rows
<1> QED
  BY <1>1, <1>2 DEF CheckpointedRowsAreQueryable, Queryable

\* Current rows of a longer history that are in the shorter one were current.
LEMMA NewestShrinks ==
  ASSUME NEW n \in Nat, NEW m \in Nat, n <= m, NEW k \in Newest(m), k <= n
  PROVE  k \in Newest(n)
BY DEF Newest

\* No current row is lost by a step: rows of lasting objects stay in one.
Keeps == \A t \in Tables : \A k \in Newest(src[t]) : Lasting(r2, w, t, k) => Lasting(r2', w', t, k)

\* A step of c uploads under fresh keys and deletes what it had condemned.
Touches(c) ==
  /\ \A o \in r2' : o \in r2 \/ o.key >= fresh
  /\ \A o \in r2 : o \in r2' \/ Condemned(w[c], o.key)

\* A step that condemns no object keeps every row.
LEMMA NothingCondemned ==
  ASSUME CheckInv, NEW c \in Consumers, NEW x, Set(c, x), Touches(c),
         \A o \in r2 : Condemned(x, o.key) => Condemned(w[c], o.key)
  PROVE  Keeps
<1>1. w'[c] = x /\ \A d \in Consumers : d # c => w'[d] = w[d]
  BY DEF CheckInv, FilesInv, TypeInv, WorkersInv, Set
<1> SUFFICES ASSUME NEW t \in Tables, NEW k, Lasting(r2, w, t, k) PROVE Lasting(r2', w', t, k)
  BY DEF Keeps
<1>2. PICK o \in r2 : o.t = t /\ k \in o.rows /\ \A d \in Consumers : ~Condemned(w[d], o.key)
  BY DEF Lasting
<1>3. o \in r2' /\ \A d \in Consumers : ~Condemned(w'[d], o.key)
  BY <1>1, <1>2 DEF Touches
<1> QED
  BY <1>2, <1>3 DEF Lasting

\* A cursor stays safe.
LEMMA SafeStays ==
  ASSUME Keeps, NEW m, Safe(src, r2, w, m)
  PROVE  Safe(src, r2', w', m)
BY DEF Keeps, Safe, Landed

\* The numbers of a source and of a writing consumer.
LEMMA BatchTypes ==
  ASSUME CheckInv, NEW c \in Consumers, w[c].pc \in WarmWriting
  PROVE  /\ w[c].ti \in Tables /\ w[c].new \subseteq Versions /\ w[c].new # {}
         /\ w[c].mcp[w[c].ti] \in Nat /\ src[w[c].ti] \in Nat
<1>1. w[c].pc \in Writing /\ WorkerInv(w[c], nextJob, fresh) /\ src \in [Tables -> 0..MaxRow]
  BY DEF CheckInv, FilesInv, TypeInv, WorkersInv, DataInv, WarmWriting, Holding, Writing
<1> QED
  BY <1>1, Constants DEF WorkerInv, Workers

\* The rows of objects are versions.
LEMMA ObjectTypes ==
  ASSUME TypeInv, NEW o \in r2
  PROVE  o.key \in Nat /\ o.key < fresh /\ o.rows \subseteq Versions /\ o.t \in Tables
BY DEF TypeInv, ObjectInv, Objects

\* A step of c keeps what the other consumers rely on.
LEMMA OthersProgress ==
  ASSUME InOrder, CheckInv, FilesInv', NEW c \in Consumers, Touches(c), Keeps,
         NEW d \in Consumers, d # c
  PROVE  Progress(src, r2', w', w[d])
<1> DEFINE x == w[d]
<1>0. fresh \in Nat /\ x.fid \in Nat /\ x.fid < fresh /\ \A g \in x.olds : g \in Nat /\ g < fresh
  BY HeldIds DEF CheckInv
<1>1. Progress(src, r2, w, x)
  BY DEF CheckInv
<1>2. \A o \in r2' : o.key \in Nat /\ o.rows \subseteq Versions
  BY DEF FilesInv, TypeInv, ObjectInv, Objects
<1>3. x.pc \in WarmWriting => x.new \subseteq Versions /\ x.ti \in Tables
  BY BatchTypes
<1> HIDE DEF x
<1>4. x.pc \in WarmWriting \cup {"fetch", "savecp"} => Safe(src, r2', w', x.mcp)
  BY <1>1, SafeStays DEF Progress
<1>5. ASSUME x.pc \in WarmWriting PROVE Landed(src, r2', w', x.ti, Written(x))
  BY <1>1, <1>3, <1>5 DEF Progress, Landed, Keeps
<1>6. ASSUME x.pc \in WarmWriting PROVE Latest(r2', x)
  <2>1. OneVersionPerDate
    BY DEF InOrder, OneConsumer
  <2> SUFFICES ASSUME NEW o \in r2', NEW k \in o.rows, NEW j \in x.new,
                      PkOf[k] = PkOf[j], DateOf[k] = DateOf[j]
               PROVE  k <= j
    BY DEF Latest
  <2>2. k \in Versions /\ j \in Versions
    BY <1>2, <1>3, <1>6
  <2>3. k = j
    BY <2>1, <2>2 DEF OneVersionPerDate
  <2> QED
    BY <2>2, <2>3 DEF Versions
<1>7. ASSUME x.pc = "swap" PROVE Covers(src, r2', x)
  <2> SUFFICES ASSUME NEW o \in r2', NEW q \in r2', o.key = x.fid, q.key \in x.olds
               PROVE  \A k \in q.rows : k \in o.rows \/ k \notin Newest(src[x.ti])
    BY DEF Covers
  <2>1. o \in r2 /\ q \in r2
    BY <1>0, <1>2 DEF Touches
  <2> QED
    BY <1>1, <1>7, <2>1 DEF Progress, Covers
<1>8. Progress(src, r2', w', x)
  BY <1>1, <1>4, <1>5, <1>6, <1>7 DEF Progress
<1> QED
  BY <1>8 DEF x

\* A step of c to state x keeps the invariant.
LEMMA CheckStep ==
  ASSUME InOrder, CheckInv, FilesInv', NEW c \in Consumers, NEW x, Set(c, x), Touches(c), Keeps,
         Rows(src, r2'), cp' = cp \/ Safe(src, r2, w, cp'), Progress(src, r2', w', x),
         UNCHANGED src
  PROVE  CheckInv'
<1>1. w'[c] = x /\ \A d \in Consumers : d # c => w'[d] = w[d]
  BY DEF CheckInv, FilesInv, TypeInv, WorkersInv, Set
<1>2. \A d \in Consumers : Progress(src, r2', w', w'[d])
  BY <1>1, OthersProgress
<1>3. Safe(src, r2', w', cp')
  BY SafeStays DEF CheckInv
<1> QED
  BY <1>2, <1>3 DEF CheckInv

-----------------------------------------------------------------------------
(* The steps and the checkpoint. *)

\* A step of c that leaves the objects alone and writes nothing.
LEMMA CheckQuiet ==
  ASSUME InOrder, CheckInv, FilesInv', NEW c \in Consumers, NEW x, Set(c, x),
         x.pc \notin WarmWriting,
         x.pc \in {"fetch", "savecp"} => Safe(src, r2, w, x.mcp),
         \/ r2' = r2
         \/ w[c].pc = "swap" /\ r2' = {o \in r2 : o.key # w[c].fid},
         cp' = cp \/ Safe(src, r2, w, cp'), UNCHANGED src
  PROVE  CheckInv'
<1>1. Touches(c)
  BY DEF Touches, Condemned
<1>2. \A o \in r2 : ~Condemned(x, o.key)
  BY DEF Condemned, WarmWriting, Holding
<1>3. Keeps
  BY <1>1, <1>2, NothingCondemned
<1>4. Progress(src, r2', w', x)
  BY <1>3, SafeStays DEF Progress, WarmWriting, Holding
<1>5. Rows(src, r2')
  BY DEF CheckInv, Rows
<1> QED
  BY <1>1, <1>3, <1>4, <1>5, CheckStep

\* The source changes.
LEMMA SourceChangeCheck ==
  ASSUME CheckInv, NEW u \in Tables, SourceChange(u)
  PROVE  CheckInv'
<1>0. FilesInv' /\ UNCHANGED <<r2, w, cp>>
  BY SourceChangeFiles DEF CheckInv, SourceChange, meta
<1>1. \A t \in Tables : src[t] \in Nat /\ src'[t] \in Nat /\ src[t] <= src'[t]
  <2>1. src \in [Tables -> 0..MaxRow] /\ src' = [src EXCEPT ![u] = @ + 1]
    BY DEF CheckInv, FilesInv, TypeInv, DataInv, SourceChange
  <2> QED
    BY <2>1, Constants
<1>2. \A t \in Tables : \A k \in Newest(src'[t]) : k <= src[t] => k \in Newest(src[t])
  BY <1>1, NewestShrinks
<1>3. ASSUME NEW m \in [Tables -> 0..MaxRow], Safe(src, r2, w, m) PROVE Safe(src', r2, w, m)
  <2> SUFFICES ASSUME NEW t \in Tables
               PROVE  m[t] <= src'[t] /\ Landed(src', r2, w, t, 1..m[t])
    BY DEF Safe
  <2>1. m[t] \in Nat /\ m[t] <= src[t] /\ Landed(src, r2, w, t, 1..m[t])
    BY <1>3, Constants DEF Safe
  <2> QED
    BY <1>1, <1>2, <2>1 DEF Landed
<1>4. Rows(src', r2)
  <2> SUFFICES ASSUME NEW o \in r2, NEW k \in o.rows PROVE k <= src'[o.t] /\ DateOf[k] = o.d
    BY DEF Rows
  <2>1. o.t \in Tables /\ k \in Nat /\ k <= src[o.t] /\ DateOf[k] = o.d
    BY ObjectTypes, Constants DEF CheckInv, FilesInv, Rows, Versions
  <2> QED
    BY <1>1, <2>1
<1>5. Safe(src', r2, w, cp)
  BY <1>3 DEF CheckInv, FilesInv, TypeInv, DataInv
<1>6. ASSUME NEW c \in Consumers PROVE Progress(src', r2, w, w[c])
  <2> DEFINE x == w[c]
  <2>1. Progress(src, r2, w, x) /\ Files(r2, part, recs, fresh, x)
    BY DEF CheckInv, FilesInv
  <2>2. x.mcp \in [Tables -> 0..MaxRow]
    BY HeldIds DEF CheckInv, Workers
  <2>3. x.pc \in WarmWriting => x.new \subseteq Versions /\ x.ti \in Tables
    BY BatchTypes
  <2>4. \A o \in r2 : o.rows \subseteq Versions
    BY ObjectTypes DEF CheckInv, FilesInv
  <2>5. Rows(src, r2)
    BY DEF CheckInv
  <2> HIDE DEF x
  <2>6. x.pc \in WarmWriting \cup {"fetch", "savecp"} => Safe(src', r2, w, x.mcp)
    BY <1>3, <2>1, <2>2 DEF Progress
  <2>7. ASSUME x.pc \in WarmWriting PROVE Batch(src', x)
    <3> DEFINE t == x.ti
    <3>1. t \in Tables /\ Batch(src, x) /\ \A k \in x.new : k \in Nat
      BY <2>1, <2>3, <2>7, Constants DEF Progress, Versions
    <3>2. \A k \in x.new : k <= src'[t] /\ k <= src[t]
      BY <1>1, <3>1 DEF Batch
    <3>3. \A k \in Newest(src'[t]) : \A j \in x.new : x.mcp[t] < k /\ k <= j => k \in x.new
      <4> SUFFICES ASSUME NEW k \in Newest(src'[t]), NEW j \in x.new, x.mcp[t] < k, k <= j
                   PROVE  k \in x.new
        OBVIOUS
      <4>1. k \in Nat /\ j \in Nat /\ src[t] \in Nat /\ src'[t] \in Nat
        BY <1>1, <3>1 DEF Newest
      <4>2. k <= src[t]
        BY <3>2, <4>1
      <4>3. k \in Newest(src[t])
        BY <1>2, <3>1, <4>2
      <4> QED
        BY <3>1, <4>3 DEF Batch
    <3> QED
      BY <3>1, <3>2, <3>3 DEF Batch
  <2>8. ASSUME x.pc \in WarmWriting PROVE Landed(src', r2, w, x.ti, Written(x))
    <3>1. x.ti \in Tables /\ Batch(src, x) /\ Landed(src, r2, w, x.ti, Written(x))
      BY <2>1, <2>3, <2>8 DEF Progress
    <3>2. \A k \in Written(x) : k <= src[x.ti]
      BY <3>1 DEF Batch, Written
    <3> QED
      BY <1>2, <3>1, <3>2 DEF Landed
  <2>9. ASSUME x.pc = "swap" PROVE Covers(src', r2, x)
    <3> SUFFICES ASSUME NEW o \in r2, NEW q \in r2, o.key = x.fid, q.key \in x.olds,
                        NEW k \in q.rows, k \in Newest(src'[x.ti])
                 PROVE  k \in o.rows
      BY DEF Covers
    <3>1. x.ti \in Tables
      BY <2>3, <2>9 DEF WarmWriting, Holding
    <3>2. k <= src[x.ti]
      BY <2>1, <2>5, <2>9 DEF Files, Rows
    <3>3. k \in Newest(src[x.ti])
      BY <1>2, <3>1, <3>2
    <3> QED
      BY <2>1, <2>9, <3>3 DEF Progress, Covers
  <2>10. Progress(src', r2, w, x)
    BY <2>1, <2>6, <2>7, <2>8, <2>9 DEF Progress
  <2> QED
    BY <2>10 DEF x
<1> QED
  BY <1>0, <1>4, <1>5, <1>6 DEF CheckInv

\* Jobs start and end.
LEMMA JobCheck ==
  ASSUME InOrder, WarmJobs, CheckInv, NEW c \in Consumers,
         NewJob(c) \/ Redeliver(c) \/ FinishJob(c) \/ Crash(c)
  PROVE  CheckInv'
<1>0. FilesInv' /\ FilesInv
  BY JobFiles DEF CheckInv
<1>1. \E x : Set(c, x) /\ x.pc \in {"cleanup", "finish", "idle"}
  <2>1. CASE NewJob(c)
    <3>1. PICK k \in JobKinds : StartJob(c, nextJob, k)
      BY <2>1 DEF NewJob
    <3>2. k \in WarmKinds
      BY DEF WarmJobs
    <3> QED
      BY <1>0, <3>1, <3>2, FirstStepWarm DEF StartJob
  <2>2. CASE Redeliver(c)
    <3>1. PICK j \in 1..(nextJob - 1) : StartJob(c, j, kind[j])
      BY <2>2 DEF Redeliver
    <3>2. j \in Jobs
      BY <1>0, Constants DEF FilesInv, TypeInv, DataInv, Jobs
    <3>3. kind[j] \in WarmKinds
      BY <1>0, <3>2 DEF FilesInv, Modes
    <3> QED
      BY <1>0, <3>1, <3>3, FirstStepWarm DEF StartJob
  <2>3. CASE FinishJob(c) \/ Crash(c)
    BY <2>3 DEF FinishJob, Crash, IdleWorker
  <2> QED
    BY <2>1, <2>2, <2>3
<1>2. UNCHANGED <<src, r2, cp>>
  BY DEF NewJob, Redeliver, StartJob, FinishJob, Crash, meta
<1>3. PICK x : Set(c, x) /\ x.pc \in {"cleanup", "finish", "idle"}
  BY <1>1
<1>4. x.pc \notin WarmWriting /\ x.pc \notin {"fetch", "savecp"}
  BY <1>3 DEF WarmWriting, Holding
<1> QED
  BY <1>0, <1>2, <1>3, <1>4, CheckQuiet

\* A sync starts from the saved checkpoint.
LEMMA CleanupOrphansCheck ==
  ASSUME InOrder, CheckInv, NEW c \in Consumers, CleanupOrphans(c)
  PROVE  CheckInv'
<1>0. FilesInv' /\ r2' = r2 /\ w[c] \in Workers
  BY CleanupOrphansFiles, HeldIds DEF CheckInv
<1> DEFINE x == w[c]
           y == [x EXCEPT !.pc = "fetch", !.mcp = cp]
<1>1. UNCHANGED <<src, cp>> /\ Set(c, y)
  BY DEF CleanupOrphans
<1>2. y.pc = "fetch" /\ y.mcp = cp
  BY <1>0 DEF Workers
<1> HIDE DEF y
<1>3. y.pc \notin WarmWriting /\ Safe(src, r2, w, y.mcp)
  BY <1>2 DEF CheckInv, WarmWriting, Holding
<1> QED
  BY <1>0, <1>1, <1>3, CheckQuiet

\* A step of the loop fails: the cursor stays where it was.
LEMMA SyncStepFailsCheck ==
  ASSUME InOrder, CheckInv, NEW c \in Consumers, SyncStepFails(c)
  PROVE  CheckInv'
<1>0. FilesInv' /\ FilesInv
  BY SyncStepFailsFiles DEF CheckInv
<1>1. UNCHANGED <<src, cp>> /\ (r2' = r2 \/ (w[c].pc = "swap" /\ r2' = {o \in r2 : o.key # w[c].fid}))
  BY DEF SyncStepFails, meta
<1>2. PICK y : Set(c, y) /\ y.pc = "savecp" /\ y.mcp = w[c].mcp
  BY <1>0, FailedStep
<1>3. w[c].pc \in WarmWriting \cup {"fetch", "savecp"}
  <2>1. w[c].pc \in WarmPcs
    BY DEF CheckInv, FilesInv, Modes, WarmWorker
  <2> QED
    BY <2>1 DEF SyncStepFails, WarmWriting, Holding, WarmPcs
<1>4. Safe(src, r2, w, y.mcp) /\ y.pc \notin WarmWriting
  BY <1>2, <1>3 DEF CheckInv, Progress, WarmWriting, Holding
<1> QED
  BY <1>0, <1>1, <1>2, <1>4, CheckQuiet

\* The cursor is saved as the checkpoint.
LEMMA SaveCheckpointCheck ==
  ASSUME InOrder, CheckInv, NEW c \in Consumers, SaveCheckpoint(c)
  PROVE  CheckInv'
<1>0. FilesInv' /\ FilesInv /\ w[c] \in Workers
  BY SaveFiles, HeldIds DEF CheckInv
<1>1. UNCHANGED <<src, r2>> /\ w[c].pc = "savecp" /\ cp' = w[c].mcp
  BY DEF SaveCheckpoint
<1>2. Safe(src, r2, w, cp')
  BY <1>1 DEF CheckInv, Progress
<1>3. PICK p \in {"commitsync", "settier", "finish"} : Set(c, [w[c] EXCEPT !.pc = p])
  BY DEF SaveCheckpoint, Goto, AfterSync
<1> DEFINE y == [w[c] EXCEPT !.pc = p]
<1>4. y.pc = p
  BY <1>0 DEF Workers
<1>5. Set(c, y)
  BY <1>3
<1> HIDE DEF y
<1>6. y.pc \notin WarmWriting /\ y.pc \notin {"fetch", "savecp"}
  BY <1>4 DEF WarmWriting, Holding
<1> QED
  BY <1>0, <1>1, <1>2, <1>5, <1>6, CheckQuiet

\* A statement fails, commit_sync, or update_source_tier.
LEMMA JobEndCheck ==
  ASSUME InOrder, CheckInv, NEW c \in Consumers, JobStepFails(c) \/ CommitSync(c) \/ SetTier(c)
  PROVE  CheckInv'
<1>0. FilesInv' /\ FilesInv /\ w[c] \in Workers
  BY SaveFiles, CommitSyncFiles, SetTierFiles, HeldIds DEF CheckInv
<1>1. UNCHANGED <<src, r2, cp>>
  BY DEF JobStepFails, CommitSync, SetTier, meta
<1>2. \E y : Set(c, y) /\ y.pc \in {"settier", "finish", "dropch", "cleanr2"}
  <2>1. CASE JobStepFails(c)
    <3> DEFINE y == [w[c] EXCEPT !.pc = "finish", !.err = TRUE]
    <3>1. Set(c, y)
      BY <2>1 DEF JobStepFails
    <3>2. y.pc = "finish"
      BY <1>0 DEF Workers
    <3> QED
      BY <3>1, <3>2
  <2>2. CASE CommitSync(c) \/ SetTier(c)
    <3>1. PICK p \in {"settier", "finish", "dropch", "cleanr2"} : Goto(c, p)
      BY <2>2 DEF CommitSync, SetTier
    <3> DEFINE y == [w[c] EXCEPT !.pc = p]
    <3>2. Set(c, y)
      BY <3>1 DEF Goto
    <3>3. y.pc = p
      BY <1>0 DEF Workers
    <3> QED
      BY <3>2, <3>3
  <2> QED
    BY <2>1, <2>2
<1>3. PICK y : Set(c, y) /\ y.pc \in {"settier", "finish", "dropch", "cleanr2"}
  BY <1>2
<1>4. y.pc \notin WarmWriting /\ y.pc \notin {"fetch", "savecp"}
  BY <1>3 DEF WarmWriting, Holding
<1> QED
  BY <1>0, <1>1, <1>3, <1>4, CheckQuiet

\* The rows fetched are the current ones beyond the cursor.
LEMMA FetchedBatch ==
  ASSUME CheckInv, NEW x, x.ti \in Tables, x.mcp[x.ti] \in Nat,
         x.new = Fetch(x.ti, x.mcp[x.ti])
  PROVE  Batch(src, x) /\ Latest(r2, x)
<1> DEFINE t == x.ti
           n == src[t]
<1>0. n \in Nat /\ Rows(src, r2)
  BY Constants DEF CheckInv, FilesInv, TypeInv, DataInv
<1>1. \A k \in x.new : k \in Newest(n) /\ k \in Nat /\ k <= n /\ 1 <= k
  BY <1>0 DEF Fetch, Newest
<1>2. \A k \in Newest(n) : x.mcp[t] < k => k \in x.new
  <2> SUFFICES ASSUME NEW k \in Newest(n), x.mcp[t] < k PROVE k \in x.new
    OBVIOUS
  <2>1. k \in Nat
    BY <1>0 DEF Newest
  <2> QED
    BY <2>1 DEF Fetch
<1>3. ASSUME NEW k \in Nat, NEW j \in Newest(n), k <= n, j \in Nat, PkOf[k] = PkOf[j] PROVE k <= j
  <2>1. CASE j < k
    <3>1. k \in (j + 1)..n
      BY <1>0, <1>3, <2>1
    <3> QED
      BY <1>3, <3>1 DEF Newest
  <2> QED
    BY <1>3, <2>1
<1>4. Latest(r2, x)
  <2> SUFFICES ASSUME NEW o \in r2, o.t = t, NEW k \in o.rows, NEW j \in x.new, PkOf[k] = PkOf[j]
               PROVE  k <= j
    BY DEF Latest
  <2>1. k \in Nat /\ k <= n
    BY <1>0, ObjectTypes, Constants DEF CheckInv, FilesInv, Rows, Versions
  <2> QED
    BY <1>1, <1>3, <2>1
<1>5. \A k \in x.new : \A j \in x.new : PkOf[k] = PkOf[j] => k = j
  <2> SUFFICES ASSUME NEW k \in x.new, NEW j \in x.new, PkOf[k] = PkOf[j] PROVE k = j
    OBVIOUS
  <2>1. k <= j /\ j <= k
    BY <1>1, <1>3
  <2> QED
    BY <1>1, <2>1
<1>6. Batch(src, x)
  BY <1>1, <1>2, <1>5 DEF Batch
<1> QED
  BY <1>4, <1>6

\* The next table is fetched, skipped, or there is none.
LEMMA FetchTableCheck ==
  ASSUME InOrder, CheckInv, NEW c \in Consumers, FetchTable(c)
  PROVE  CheckInv'
<1>0. FilesInv' /\ FilesInv
  BY FetchTableFiles DEF CheckInv
<1> DEFINE x == w[c]
           new == Fetch(x.ti, x.mcp[x.ti])
           days == {DateOf[k] : k \in new}
           y == [x EXCEPT !.new = new, !.days = days, !.pc = "getpart"]
<1>1. x \in Workers /\ x.pc = "fetch" /\ x.target # "hot" /\ Safe(src, r2, w, x.mcp)
  BY <1>0, HeldIds DEF FetchTable, CheckInv, FilesInv, Modes, WarmWorker, Progress
<1>2. UNCHANGED <<r2, src, cp>>
  BY DEF FetchTable, meta
<1>3. NTables \in Nat
  BY Constants
<1>4. \/ Set(c, AfterTables(x))
      \/ Set(c, [x EXCEPT !.ti = @ + 1])
      \/ x.ti <= NTables /\ Set(c, y)
  BY <1>1, <1>3 DEF FetchTable, Workers
<1> HIDE DEF x
<1>5. AfterTables(x) = [x EXCEPT !.pc = "savecp"]
  BY <1>1 DEF AfterTables
<1>6. ASSUME Set(c, [x EXCEPT !.pc = "savecp"]) \/ Set(c, [x EXCEPT !.ti = @ + 1]) PROVE CheckInv'
  <2>1. PICK z : Set(c, z) /\ z \in {[x EXCEPT !.pc = "savecp"], [x EXCEPT !.ti = @ + 1]}
    BY <1>6
  <2>2. z.mcp = x.mcp /\ z.pc \in {"fetch", "savecp"}
    BY <1>1, <2>1 DEF Workers
  <2>3. z.pc \notin WarmWriting /\ Safe(src, r2, w, z.mcp)
    BY <1>1, <2>2 DEF WarmWriting, Holding
  <2> QED
    BY <1>0, <1>2, <2>1, <2>3, CheckQuiet
<1>7. ASSUME x.ti <= NTables, Set(c, y) PROVE CheckInv'
  <2>1. x.ti \in Tables /\ x.mcp[x.ti] \in Nat
    BY <1>1, <1>3, <1>7, Constants DEF Workers, Tables
  <2> HIDE DEF new, days
  <2>2. y.pc = "getpart" /\ y.new = new /\ y.days = days /\ y.ti = x.ti /\ y.mcp = x.mcp
    BY <1>1 DEF Workers
  <2>3. Set(c, y)
    BY <1>7
  <2> HIDE DEF y
  <2>4. Batch(src, y) /\ Latest(r2, y)
    BY <2>1, <2>2, FetchedBatch DEF new
  <2>5. Written(y) = {}
    BY <2>2 DEF Written, days
  <2>6. Touches(c)
    BY <1>2 DEF Touches
  <2>7. Keeps
    BY <2>2, <2>3, <2>6, NothingCondemned DEF Condemned
  <2>8. Safe(src, r2', w', y.mcp)
    BY <1>1, <2>2, <2>7, SafeStays
  <2>9. Progress(src, r2', w', y) /\ Rows(src, r2')
    BY <1>2, <2>2, <2>4, <2>5, <2>8 DEF Progress, Landed, CheckInv
  <2> QED
    BY <1>0, <1>2, <2>3, <2>6, <2>7, <2>9, CheckStep
<1> QED
  BY <1>4, <1>5, <1>6, <1>7

\* What a writing consumer has done and fetched.
LEMMA WriterFacts ==
  ASSUME CheckInv, NEW c \in Consumers, w[c].pc \in WarmWriting
  PROVE  /\ Safe(src, r2, w, w[c].mcp) /\ Batch(src, w[c]) /\ Latest(r2, w[c])
         /\ Landed(src, r2, w, w[c].ti, Written(w[c])) /\ w[c].ti \in Tables
BY BatchTypes DEF CheckInv, Progress

\* A writing step that keeps the rows in hand: what it counts as written has
\* landed before, or now.
LEMMA SameBatch ==
  ASSUME InOrder, CheckInv, FilesInv', NEW c \in Consumers, w[c].pc \in WarmWriting,
         NEW y, Set(c, y), y.pc \in WarmWriting, y.pc # "swap" \/ Covers(src, r2', y),
         y.new = w[c].new, y.ti = w[c].ti, y.mcp = w[c].mcp,
         Touches(c), Keeps, Rows(src, r2'), Latest(r2', y), UNCHANGED <<src, cp>>,
         \A k \in Written(y) : k \in Written(w[c]) \/ Lasting(r2', w', y.ti, k)
  PROVE  CheckInv'
<1> DEFINE x == w[c]
<1>1. /\ Safe(src, r2, w, x.mcp) /\ Batch(src, x) /\ Landed(src, r2, w, x.ti, Written(x))
      /\ x.ti \in Tables
  BY WriterFacts
<1>2. Safe(src, r2', w', y.mcp)
  BY <1>1, SafeStays
<1>3. Batch(src, y)
  BY <1>1 DEF Batch
<1>4. Landed(src, r2', w', y.ti, Written(y))
  BY <1>1 DEF Landed, Keeps
<1>5. Progress(src, r2', w', y)
  BY <1>2, <1>3, <1>4 DEF Progress
<1> QED
  BY <1>5, CheckStep

\* A writing step that leaves the objects alone and condemns none.
LEMMA SameBatchQuiet ==
  ASSUME InOrder, CheckInv, FilesInv', NEW c \in Consumers, w[c].pc \in WarmWriting,
         NEW y, Set(c, y), y.pc \in WarmWriting, y.pc \notin {"swap", "delold"},
         y.new = w[c].new, y.ti = w[c].ti, y.mcp = w[c].mcp, UNCHANGED <<src, r2, cp>>,
         Written(y) \subseteq Written(w[c])
  PROVE  CheckInv'
<1>1. Touches(c) /\ Rows(src, r2')
  BY DEF Touches, CheckInv
<1>2. Keeps
  BY <1>1, NothingCondemned DEF Condemned
<1>3. Latest(r2', y)
  BY WriterFacts DEF Latest
<1> QED
  BY <1>1, <1>2, <1>3, SameBatch

\* get_or_create_partition.
LEMMA GetPartitionCheck ==
  ASSUME InOrder, CheckInv, NEW c \in Consumers, GetPartition(c)
  PROVE  CheckInv'
<1>0. FilesInv' /\ w[c] \in Workers
  BY GetPartitionFiles, HeldIds DEF CheckInv
<1> DEFINE x == w[c]
           id == PartitionFor(T(c), Day(c)).id
           q == IF x.mcp[T(c)] = 0 THEN "upload" ELSE "listfiles"
           y == [x EXCEPT !.pid = id, !.pc = q]
<1>1. Set(c, y) /\ UNCHANGED <<src, r2, cp>> /\ x.pc = "getpart"
  BY DEF GetPartition
<1>2. q \in {"upload", "listfiles"} /\ x \in Workers
  BY <1>0
<1> HIDE DEF x, q, id
<1>3. y.pc = q /\ y.new = x.new /\ y.ti = x.ti /\ y.mcp = x.mcp /\ y.days = x.days
  BY <1>2 DEF Workers
<1> HIDE DEF y
<1>4. Written(y) \subseteq Written(x)
  BY <1>1, <1>2, <1>3 DEF Written
<1>5. x.pc \in WarmWriting /\ y.pc \in WarmWriting /\ y.pc \notin {"swap", "delold"}
  BY <1>1, <1>2, <1>3 DEF WarmWriting, Holding
<1> QED
  BY <1>0, <1>1, <1>3, <1>4, <1>5, SameBatchQuiet DEF x

\* get_partition_files.
LEMMA ListPartitionFilesCheck ==
  ASSUME InOrder, CheckInv, NEW c \in Consumers, ListPartitionFiles(c)
  PROVE  CheckInv'
<1>0. FilesInv' /\ w[c] \in Workers
  BY ListPartitionFilesFiles, HeldIds DEF CheckInv
<1> DEFINE x == w[c]
           fs == {r.file : r \in CommittedRecs(x.pid)}
           y == [x EXCEPT !.pc = "merge", !.olds = fs]
<1>1. Set(c, y) /\ UNCHANGED <<src, r2, cp>> /\ x.pc = "listfiles" /\ x \in Workers
  BY <1>0 DEF ListPartitionFiles, meta
<1> HIDE DEF x, fs
<1>3. y.pc = "merge" /\ y.new = x.new /\ y.ti = x.ti /\ y.mcp = x.mcp /\ y.days = x.days
  BY <1>1 DEF Workers
<1> HIDE DEF y
<1>4. Written(y) \subseteq Written(x)
  BY <1>1, <1>3 DEF Written
<1>5. x.pc \in WarmWriting /\ y.pc \in WarmWriting /\ y.pc \notin {"swap", "delold"}
  BY <1>1, <1>3 DEF WarmWriting, Holding
<1> QED
  BY <1>0, <1>1, <1>3, <1>4, <1>5, SameBatchQuiet DEF x

\* A writing consumer gives up: the cursor stays.
LEMMA GiveUpCheck ==
  ASSUME InOrder, CheckInv, FilesInv', NEW c \in Consumers, w[c].pc \in WarmWriting,
         Set(c, SyncFailed(w[c])), UNCHANGED <<src, cp>>,
         r2' = r2 \/ (w[c].pc = "swap" /\ r2' = {o \in r2 : o.key # w[c].fid})
  PROVE  CheckInv'
<1> DEFINE y == SyncFailed(w[c])
<1>1. y.pc = "savecp" /\ y.mcp = w[c].mcp
  BY FailedState DEF CheckInv
<1>2. Set(c, y)
  OBVIOUS
<1> HIDE DEF y
<1>3. y.pc \notin WarmWriting /\ Safe(src, r2, w, y.mcp)
  BY <1>1, WriterFacts DEF WarmWriting, Holding
<1> QED
  BY <1>2, <1>3, CheckQuiet

\* add_partition_file.
LEMMA AddPartitionFileCheck ==
  ASSUME InOrder, CheckInv, NEW c \in Consumers, AddPartitionFile(c)
  PROVE  CheckInv'
<1>0. FilesInv' /\ w[c] \in Workers /\ w[c].pc = "addrec" /\ UNCHANGED <<src, r2, cp>>
  BY AddPartitionFileFiles, HeldIds DEF CheckInv, AddPartitionFile
<1>1. w[c].pc \in WarmWriting
  BY <1>0 DEF WarmWriting, Holding
<1>2. CASE PartId(w[c].pid) = {}
  <2>1. Set(c, SyncFailed(w[c]))
    BY <1>2 DEF AddPartitionFile
  <2> QED
    BY <1>0, <1>1, <2>1, GiveUpCheck
<1>3. CASE PartId(w[c].pid) # {}
  <2> DEFINE x == w[c]
             y == [x EXCEPT !.pc = "updpart"]
  <2>1. Set(c, y) /\ x.pc = "addrec" /\ x \in Workers
    BY <1>0, <1>3 DEF AddPartitionFile, Goto
  <2> HIDE DEF x
  <2>3. y.pc = "updpart" /\ y.new = x.new /\ y.ti = x.ti /\ y.mcp = x.mcp /\ y.days = x.days
    BY <2>1 DEF Workers
  <2> HIDE DEF y
  <2>4. Written(y) \subseteq Written(x)
    BY <2>1, <2>3 DEF Written
  <2>5. y.pc \in WarmWriting /\ y.pc \notin {"swap", "delold"}
    BY <2>3 DEF WarmWriting, Holding
  <2> QED
    BY <1>0, <1>1, <2>1, <2>3, <2>4, <2>5, SameBatchQuiet DEF x
<1> QED
  BY <1>2, <1>3

\* A new object n: what the uploader c, now in state y, relies on.
LEMMA UploadCheck ==
  ASSUME InOrder, CheckInv, FilesInv', NEW c \in Consumers, w[c].pc \in {"upload", "merge"},
         NEW n, r2' = r2 \cup {n}, n.key = fresh,
         \A k \in n.rows : k <= src[n.t] /\ DateOf[k] = n.d,
         \A k \in n.rows : \A j \in w[c].new : PkOf[k] = PkOf[j] /\ DateOf[k] = DateOf[j] => k <= j,
         n.t = w[c].ti, DayRows(w[c]) \subseteq n.rows,
         NEW y, Set(c, y), y.pc \in {"addrec", "swap"}, y.fid = fresh, y.olds = w[c].olds,
         y.new = w[c].new, y.ti = w[c].ti, y.mcp = w[c].mcp, y.days = w[c].days,
         y.pc = "swap" => Covers(src, r2', y), UNCHANGED <<src, cp>>
  PROVE  CheckInv'
<1>0. /\ fresh \in Nat /\ \A o \in r2 : o.key \in Nat /\ o.key < fresh
      /\ \A d \in Consumers : w[d].fid \in Nat /\ w[d].fid < fresh /\ \A g \in w[d].olds : g \in Nat /\ g < fresh
  BY HeldIds, ObjectTypes DEF CheckInv, FilesInv, TypeInv, DataInv
<1>1. Touches(c)
  BY <1>0 DEF Touches
<1>2. Keeps
  BY <1>0, <1>1, NothingCondemned DEF Condemned
<1>3. Rows(src, r2')
  BY DEF CheckInv, Rows
<1>4. w[c].pc \in WarmWriting /\ y.pc \in WarmWriting
  BY DEF WarmWriting, Holding
<1>5. Latest(r2', y)
  BY <1>4, WriterFacts DEF Latest
<1>6. ASSUME NEW k \in Written(y) PROVE k \in Written(w[c]) \/ Lasting(r2', w', y.ti, k)
  <2>1. CASE DateOf[k] \notin y.days
    BY <2>1 DEF Written
  <2>2. CASE DateOf[k] = Min(y.days) /\ y.pc \in {"addrec", "delold", "updpart"}
    <3>1. k \in n.rows
      BY <2>2 DEF Written, DayRows
    <3>2. w'[c] = y /\ \A d \in Consumers : d # c => w'[d] = w[d]
      BY DEF CheckInv, FilesInv, TypeInv, WorkersInv, Set
    <3>3. \A d \in Consumers : ~Condemned(w'[d], n.key)
      BY <1>0, <2>2, <3>2 DEF Condemned
    <3> QED
      BY <3>1, <3>3 DEF Lasting
  <2> QED
    BY <2>1, <2>2 DEF Written
<1> QED
  BY <1>1, <1>2, <1>3, <1>4, <1>5, <1>6, SameBatch

\* The rows of the date in hand.
LEMMA DayFacts ==
  ASSUME CheckInv, NEW c \in Consumers, w[c].pc \in WarmWriting
  PROVE  /\ \A k \in DayRows(w[c]) : k \in w[c].new /\ k \in Nat /\ k <= src[w[c].ti]
                                     /\ DateOf[k] = Min(w[c].days)
         /\ \A k \in DayRows(w[c]) : \A j \in w[c].new : PkOf[k] = PkOf[j] => k <= j
<1>1. Batch(src, w[c]) /\ w[c].new \subseteq Versions
  BY WriterFacts, BatchTypes
<1>2. \A k \in w[c].new : k \in Nat
  BY <1>1, Constants DEF Versions
<1> QED
  BY <1>1, <1>2 DEF DayRows, Batch

\* write_warm_incremental: the upload.
LEMMA UploadNewCheck ==
  ASSUME InOrder, CheckInv, NEW c \in Consumers, UploadNew(c)
  PROVE  CheckInv'
<1>0. FilesInv' /\ w[c] \in Workers /\ w[c].pc = "upload" /\ UNCHANGED <<src, cp>>
  BY UploadNewFiles, HeldIds DEF CheckInv, UploadNew, meta
<1>1. w[c].pc \in WarmWriting
  BY <1>0 DEF WarmWriting, Holding
<1> DEFINE x == w[c]
           n == [key |-> fresh, t |-> T(c), d |-> Day(c), rows |-> NewToday(c)]
           y == [x EXCEPT !.pc = "addrec", !.fid = fresh]
<1>2. Set(c, y) /\ r2' = r2 \cup {n}
  BY DEF UploadNew
<1>3. T(c) = x.ti /\ Day(c) = Min(x.days) /\ NewToday(c) = DayRows(x)
  BY <1>1, HolderFacts DEF CheckInv
<1>4. n.key = fresh /\ n.t = x.ti /\ n.d = Min(x.days) /\ n.rows = DayRows(x)
  BY <1>3
<1>5. x \in Workers
  BY <1>0
<1>6. /\ \A k \in DayRows(x) : k \in x.new /\ k \in Nat /\ k <= src[x.ti] /\ DateOf[k] = Min(x.days)
      /\ \A k \in DayRows(x) : \A j \in x.new : PkOf[k] = PkOf[j] => k <= j
  BY <1>1, DayFacts
<1> HIDE DEF x, n
<1>7. /\ y.pc = "addrec" /\ y.fid = fresh /\ y.olds = x.olds /\ y.new = x.new /\ y.ti = x.ti
      /\ y.mcp = x.mcp /\ y.days = x.days
  BY <1>5 DEF Workers
<1> HIDE DEF y
<1>8. /\ \A k \in n.rows : k <= src[n.t] /\ DateOf[k] = n.d
      /\ \A k \in n.rows : \A j \in x.new : PkOf[k] = PkOf[j] /\ DateOf[k] = DateOf[j] => k <= j
      /\ n.t = x.ti /\ DayRows(x) \subseteq n.rows /\ y.pc \in {"addrec", "swap"} /\ y.pc # "swap"
  BY <1>4, <1>6, <1>7
<1> QED
  BY <1>0, <1>2, <1>4, <1>7, <1>8, UploadCheck DEF x

\* merge_warm_incremental: the merged rows are those of the old objects, but for
\* versions the new rows replace.
LEMMA MergeUploadCheck ==
  ASSUME InOrder, CheckInv, NEW c \in Consumers, MergeUpload(c)
  PROVE  CheckInv'
<1>0. FilesInv' /\ w[c] \in Workers /\ w[c].pc = "merge" /\ UNCHANGED <<src, cp>>
  BY MergeUploadFiles, HeldIds DEF CheckInv, MergeUpload, meta
<1>1. w[c].pc \in WarmWriting
  BY <1>0 DEF WarmWriting, Holding
<1>2. CASE ~(w[c].olds \subseteq R2Keys)
  <2>1. Set(c, SyncFailed(w[c])) /\ UNCHANGED <<r2, fresh>>
    BY <1>2 DEF MergeUpload
  <2> QED
    BY <1>0, <1>1, <2>1, GiveUpCheck
<1>3. CASE w[c].olds \subseteq R2Keys
  <2> DEFINE x == w[c]
             n == [key |-> fresh, t |-> T(c), d |-> Day(c), rows |-> MergedRows(c)]
             y == [x EXCEPT !.pc = "swap", !.fid = fresh]
  <2>1. Set(c, y) /\ r2' = r2 \cup {n}
    BY <1>3 DEF MergeUpload, MergedRows
  <2>2. T(c) = x.ti /\ Day(c) = Min(x.days) /\ NewToday(c) = DayRows(x)
    BY <1>1, HolderFacts DEF CheckInv
  <2>3. n.key = fresh /\ n.t = x.ti /\ n.d = Min(x.days) /\ n.rows = MergedRows(c)
    BY <2>2
  <2>4. x \in Workers
    BY <1>0
  <2>5. /\ \A k \in DayRows(x) : k \in x.new /\ k \in Nat /\ k <= src[x.ti] /\ DateOf[k] = Min(x.days)
        /\ \A k \in DayRows(x) : \A j \in x.new : PkOf[k] = PkOf[j] => k <= j
    BY <1>1, DayFacts
  <2>6. \A o \in r2 : o.key \in x.olds => o.t = x.ti /\ o.d = Min(x.days)
    BY <1>0 DEF CheckInv, FilesInv, Files
  <2>7. Latest(r2, x) /\ Rows(src, r2) /\ src[x.ti] \in Nat
    BY <1>1, WriterFacts, BatchTypes DEF CheckInv
  <2>8. /\ \A k \in n.rows : k \in DayRows(x) \/ \E o \in r2 : o.key \in x.olds /\ k \in o.rows
        /\ DayRows(x) \subseteq n.rows
        /\ \A o \in r2 : o.key \in x.olds =>
             \A k \in o.rows : k \in n.rows \/ \E m \in DayRows(x) : PkOf[m] = PkOf[k]
    BY <2>2, <2>3 DEF MergedRows, merge_batches_by_pk
  <2>9. /\ fresh \in Nat /\ \A g \in x.olds : g \in Nat /\ g < fresh
        /\ \A o \in r2 : o.key \in Nat /\ o.key < fresh /\ o.rows \subseteq Versions
    BY HeldIds, ObjectTypes DEF CheckInv, FilesInv
  <2> HIDE DEF x, n
  <2>10. /\ y.pc = "swap" /\ y.fid = fresh /\ y.olds = x.olds /\ y.new = x.new /\ y.ti = x.ti
         /\ y.mcp = x.mcp /\ y.days = x.days
    BY <2>4 DEF Workers
  <2> HIDE DEF y
  <2>11. \A k \in n.rows : k <= src[n.t] /\ DateOf[k] = n.d
    BY <2>3, <2>5, <2>6, <2>7, <2>8 DEF Rows
  <2>12. \A k \in n.rows : \A j \in x.new : PkOf[k] = PkOf[j] /\ DateOf[k] = DateOf[j] => k <= j
    BY <2>5, <2>6, <2>7, <2>8 DEF Latest
  <2>13. Covers(src, r2', y)
    <3> SUFFICES ASSUME NEW o \in r2', NEW q \in r2', o.key = y.fid, q.key \in y.olds,
                        NEW k \in q.rows, k \in Newest(src[y.ti])
                 PROVE  k \in o.rows
      BY DEF Covers
    <3>1. o = n /\ q \in r2 /\ q.key \in x.olds
      BY <2>1, <2>3, <2>9, <2>10
    <3>2. CASE k \in n.rows
      BY <3>1, <3>2
    <3>3. ASSUME NEW m \in DayRows(x), PkOf[m] = PkOf[k] PROVE k \in o.rows
      <4>1. k \in Nat /\ m \in Nat /\ m <= src[x.ti] /\ m \in x.new
        BY <2>5, <2>9, <3>1, Constants DEF Versions
      <4>2. DateOf[m] = DateOf[k] /\ q.t = x.ti
        BY <2>5, <2>6, <2>7, <3>1 DEF Rows
      <4>3. k <= m
        BY <2>7, <3>1, <3>3, <4>1, <4>2 DEF Latest
      <4>4. ~(k < m)
        <5>1. ASSUME k < m PROVE FALSE
          <6>1. m \in (k + 1)..src[x.ti]
            BY <2>7, <4>1, <5>1
          <6>2. k \in Newest(src[x.ti])
            BY <2>10
          <6> QED
            BY <3>3, <6>1, <6>2 DEF Newest
        <5> QED
          BY <5>1
      <4>5. k = m
        BY <4>1, <4>3, <4>4
      <4> QED
        BY <2>8, <3>1, <4>5
    <3> QED
      BY <2>8, <3>1, <3>2, <3>3
  <2>14. y.pc \in {"addrec", "swap"} /\ w[c].pc \in {"upload", "merge"}
    BY <1>0, <2>10
  <2> QED
    BY <1>0, <2>1, <2>3, <2>8, <2>10, <2>11, <2>12, <2>13, <2>14, UploadCheck DEF x
<1> QED
  BY <1>2, <1>3

\* The object a consumer has uploaded, and not yet filed, is condemned by no other.
LEMMA OwnObject ==
  ASSUME FilesInv, NEW c \in Consumers, w[c].pc \in Owning, NEW d \in Consumers, d # c
  PROVE  ~Condemned(w[d], w[c].fid)
BY DEF FilesInv, Apart, Condemned, Owning

\* swap_partition_files: the new object takes the place of the old ones.
LEMMA SwapPartitionFilesCheck ==
  ASSUME InOrder, CheckInv, NEW c \in Consumers, SwapPartitionFiles(c)
  PROVE  CheckInv'
<1>0. FilesInv' /\ FilesInv /\ w[c] \in Workers /\ w[c].pc = "swap" /\ UNCHANGED <<src, cp>>
  BY SwapPartitionFilesFiles, HeldIds DEF CheckInv, SwapPartitionFiles
<1>1. w[c].pc \in WarmWriting /\ w[c].pc \in Owning
  BY <1>0 DEF WarmWriting, Holding, Owning
<1>2. CASE PartId(w[c].pid) = {}
  <2>1. Set(c, SyncFailed(w[c])) /\ r2' = {o \in r2 : o.key # w[c].fid}
    BY <1>2 DEF SwapPartitionFiles
  <2> QED
    BY <1>0, <1>1, <2>1, GiveUpCheck
<1>3. CASE PartId(w[c].pid) # {}
  <2> DEFINE x == w[c]
             fs == {r.file : r \in {s \in recs : s.file \in x.olds}}
             y == [x EXCEPT !.pc = "delold", !.olds = fs]
  <2>1. Set(c, y) /\ r2' = r2
    BY <1>3 DEF SwapPartitionFiles
  <2>2. x \in Workers /\ fs \subseteq x.olds /\ x.pc = "swap"
    BY <1>0
  <2>3. PICK n \in r2 : n.key = x.fid /\ n.t = x.ti /\ DayRows(x) \subseteq n.rows
    BY <1>0, <1>1 DEF FilesInv, Files
  <2>4. x.fid \notin x.olds /\ \A d \in Consumers : d # c => ~Condemned(w[d], x.fid)
    BY <1>0, <1>1, OwnObject DEF FilesInv, Apart
  <2>5. \A o \in r2 : o.key \in x.olds =>
          o.t = x.ti /\ \A k \in o.rows : k \in n.rows \/ k \notin Newest(src[x.ti])
    BY <1>0, <2>2, <2>3 DEF CheckInv, FilesInv, Files, Progress, Covers
  <2>6. w'[c] = y /\ \A d \in Consumers : d # c => w'[d] = w[d]
    BY <2>1 DEF CheckInv, FilesInv, TypeInv, WorkersInv, Set
  <2>7. Latest(r2, x)
    BY <1>1, WriterFacts
  <2> HIDE DEF x, fs
  <2>8. /\ y.pc = "delold" /\ y.olds = fs /\ y.new = x.new /\ y.ti = x.ti /\ y.mcp = x.mcp
        /\ y.days = x.days
    BY <2>2 DEF Workers
  <2> HIDE DEF y
  <2>9. \A d \in Consumers : ~Condemned(w'[d], n.key)
    BY <2>2, <2>3, <2>4, <2>6, <2>8 DEF Condemned
  <2>10. Keeps
    <3> SUFFICES ASSUME NEW t \in Tables, NEW k \in Newest(src[t]), Lasting(r2, w, t, k)
                 PROVE  Lasting(r2', w', t, k)
      BY DEF Keeps
    <3>1. PICK o \in r2 : o.t = t /\ k \in o.rows /\ \A d \in Consumers : ~Condemned(w[d], o.key)
      BY DEF Lasting
    <3>2. CASE o.key \in x.olds
      <4>1. n.t = t /\ k \in n.rows
        BY <2>3, <2>5, <3>1, <3>2
      <4> QED
        BY <2>1, <2>9, <4>1 DEF Lasting
    <3>3. CASE o.key \notin x.olds
      <4>1. \A d \in Consumers : ~Condemned(w'[d], o.key)
        BY <2>2, <2>6, <2>8, <3>1, <3>3 DEF Condemned
      <4> QED
        BY <2>1, <3>1, <4>1 DEF Lasting
    <3> QED
      BY <3>2, <3>3
  <2>11. Touches(c) /\ Rows(src, r2')
    BY <2>1 DEF Touches, CheckInv
  <2>12. Latest(r2', y)
    BY <2>1, <2>7, <2>8 DEF Latest
  <2>13. ASSUME NEW k \in Written(y) PROVE k \in Written(x) \/ Lasting(r2', w', y.ti, k)
    <3>1. CASE DateOf[k] \notin y.days
      BY <2>8, <3>1 DEF Written
    <3>2. CASE DateOf[k] = Min(y.days)
      <4>1. k \in n.rows /\ n.t = y.ti
        BY <2>3, <2>8, <3>2 DEF Written, DayRows
      <4> QED
        BY <2>1, <2>9, <4>1 DEF Lasting
    <3> QED
      BY <3>1, <3>2 DEF Written
  <2>14. y.pc \in WarmWriting /\ y.pc # "swap"
    BY <2>8 DEF WarmWriting, Holding
  <2> QED
    BY <1>0, <1>1, <2>1, <2>8, <2>10, <2>11, <2>12, <2>13, <2>14, SameBatch DEF x
<1> QED
  BY <1>2, <1>3

\* The replaced objects are deleted.
LEMMA DeleteOldFilesCheck ==
  ASSUME InOrder, CheckInv, NEW c \in Consumers, DeleteOldFiles(c)
  PROVE  CheckInv'
<1>0. FilesInv' /\ w[c] \in Workers /\ w[c].pc = "delold" /\ UNCHANGED <<src, cp>>
  BY DeleteOldFilesFiles, HeldIds DEF CheckInv, DeleteOldFiles, meta
<1>1. w[c].pc \in WarmWriting
  BY <1>0 DEF WarmWriting, Holding
<1> DEFINE x == w[c]
           y == [x EXCEPT !.pc = "updpart"]
<1>2. Set(c, y) /\ delete_objects(x.olds)
  BY DEF DeleteOldFiles, Goto
<1>3. PICK gone \in SUBSET x.olds : r2' = {o \in r2 : o.key \notin gone}
  BY <1>2 DEF delete_objects
<1>4. Touches(c)
  BY <1>0, <1>3 DEF Touches, Condemned
<1>5. Latest(r2', x) /\ Rows(src, r2')
  BY <1>1, <1>3, WriterFacts DEF CheckInv, Rows, Latest
<1>6. x \in Workers /\ x.pc = "delold"
  BY <1>0
<1> HIDE DEF x
<1>7. y.pc = "updpart" /\ y.new = x.new /\ y.ti = x.ti /\ y.mcp = x.mcp /\ y.days = x.days
  BY <1>6 DEF Workers
<1> HIDE DEF y
<1>8. Keeps
  BY <1>2, <1>4, <1>7, NothingCondemned DEF Condemned
<1>9. Latest(r2', y) /\ Written(y) \subseteq Written(x)
  BY <1>5, <1>6, <1>7 DEF Latest, Written
<1>10. y.pc \in WarmWriting /\ y.pc # "swap"
  BY <1>7 DEF WarmWriting, Holding
<1> QED
  BY <1>0, <1>1, <1>2, <1>4, <1>5, <1>7, <1>8, <1>9, <1>10, SameBatch DEF x

\* The cursor passes the rows of a table that are all written.
LEMMA CursorPasses ==
  ASSUME CheckInv, NEW c \in Consumers, w[c].pc \in WarmWriting,
         \A k \in w[c].new : k \in Written(w[c])
  PROVE  Safe(src, r2, w, [w[c].mcp EXCEPT ![w[c].ti] = Max(w[c].new)])
<1> DEFINE x == w[c]
           m == [x.mcp EXCEPT ![x.ti] = Max(x.new)]
<1>1. /\ Safe(src, r2, w, x.mcp) /\ Batch(src, x) /\ Landed(src, r2, w, x.ti, Written(x))
      /\ x.ti \in Tables /\ x.new \subseteq Versions /\ x.new # {} /\ x.mcp[x.ti] \in Nat
      /\ src[x.ti] \in Nat /\ \A k \in x.new : k \in Written(x)
  BY WriterFacts, BatchTypes
<1>2. x.mcp \in [Tables -> 0..MaxRow]
  BY HeldIds DEF CheckInv, Workers
<1> HIDE DEF x
<1>3. Max(x.new) \in x.new /\ Max(x.new) \in Nat
  BY <1>1, MaxOfVersions, Constants DEF Versions
<1> SUFFICES ASSUME NEW t \in Tables PROVE m[t] <= src[t] /\ Landed(src, r2, w, t, 1..m[t])
  BY DEF Safe, x
<1>4. CASE t # x.ti
  BY <1>1, <1>2, <1>4 DEF Safe
<1>5. CASE t = x.ti
  <2>1. m[t] = Max(x.new) /\ m[t] <= src[t]
    BY <1>1, <1>2, <1>3, <1>5 DEF Batch
  <2>2. ASSUME NEW k \in 1..Max(x.new), k \in Newest(src[t]) PROVE Lasting(r2, w, t, k)
    <3>1. CASE k <= x.mcp[t]
      <4>1. k \in 1..x.mcp[t]
        BY <1>1, <1>3, <1>5, <3>1
      <4> QED
        BY <1>1, <2>2, <4>1 DEF Safe, Landed
    <3>2. CASE x.mcp[t] < k
      <4>1. k \in x.new
        BY <1>1, <1>3, <1>5, <2>2, <3>2 DEF Batch
      <4> QED
        BY <1>1, <1>5, <2>2, <4>1 DEF Landed
    <3> QED
      BY <1>1, <1>3, <1>5, <3>1, <3>2
  <2> QED
    BY <2>1, <2>2 DEF Landed
<1> QED
  BY <1>4, <1>5

\* The next date, the end of the table, or an error.
LEMMA UpdatePartitionCheck ==
  ASSUME InOrder, CheckInv, NEW c \in Consumers, UpdatePartition(c)
  PROVE  CheckInv'
<1>0. FilesInv' /\ FilesInv /\ w[c].pc = "updpart" /\ UNCHANGED <<src, cp, r2>>
  BY UpdatePartitionFiles DEF CheckInv, UpdatePartition
<1>a. w[c] \in Workers /\ w[c].target # "hot"
  BY <1>0, HeldIds DEF FilesInv, Modes, WarmWorker
<1>1. w[c].pc \in WarmWriting /\ Day(c) = Min(w[c].days)
  BY <1>0 DEF WarmWriting, Holding, Day
<1>2. PICK rec : /\ rec \in Workers /\ rec.pc = "getpart" /\ rec.target # "hot"
                 /\ rec.mcp = w[c].mcp /\ rec.new = w[c].new /\ rec.ti = w[c].ti
                 /\ rec.days = w[c].days \ {Day(c)}
                 /\ \/ rec.days # {} /\ Set(c, rec)
                    \/ rec.days = {} /\ Set(c, TableDone(rec))
                    \/ rec.days = {} /\ Set(c, SyncFailed(rec))
  BY <1>a, NextDate
<1>3. Written(rec) \subseteq Written(w[c])
  BY <1>0, <1>1, <1>2 DEF Written
<1>4. CASE Set(c, rec)
  <2>1. rec.pc \in WarmWriting /\ rec.pc \notin {"swap", "delold"}
    BY <1>2 DEF WarmWriting
  <2> QED
    BY <1>0, <1>1, <1>2, <1>3, <1>4, <2>1, SameBatchQuiet
<1>5. CASE rec.days = {} /\ Set(c, TableDone(rec))
  <2> DEFINE y == TableDone(rec)
  <2>1. y.pc = "fetch" /\ y.mcp = [rec.mcp EXCEPT ![rec.ti] = Max(rec.new)]
    BY <1>2, TableDoneWarm
  <2>2. Set(c, y)
    BY <1>5
  <2> HIDE DEF y
  <2>3. \A k \in w[c].new : k \in Written(w[c])
    BY <1>2, <1>3, <1>5 DEF Written
  <2>4. Safe(src, r2, w, y.mcp)
    BY <1>1, <1>2, <2>1, <2>3, CursorPasses
  <2>5. y.pc \notin WarmWriting
    BY <2>1 DEF WarmWriting, Holding
  <2> QED
    BY <1>0, <2>2, <2>4, <2>5, CheckQuiet
<1>6. CASE Set(c, SyncFailed(rec))
  <2> DEFINE y == SyncFailed(rec)
  <2>1. y.pc = "savecp" /\ y.mcp = rec.mcp
    BY <1>2, SyncFailedWarm
  <2>2. Set(c, y)
    BY <1>6
  <2> HIDE DEF y
  <2>3. Safe(src, r2, w, y.mcp)
    BY <1>1, <1>2, <2>1, WriterFacts
  <2>5. y.pc \notin WarmWriting
    BY <2>1 DEF WarmWriting, Holding
  <2> QED
    BY <1>0, <2>2, <2>3, <2>5, CheckQuiet
<1> QED
  BY <1>2, <1>4, <1>5, <1>6

-----------------------------------------------------------------------------
(* The theorems. *)

\* The invariant holds initially ...
LEMMA CheckInit == Init => CheckInv
<1> SUFFICES ASSUME Init PROVE CheckInv
  OBVIOUS
<1>1. FilesInv
  BY FilesInit
<1>2. \A c \in Consumers : w[c].pc = "idle"
  BY DEF Init, IdleWorker
<1>3. \A c \in Consumers : Progress(src, r2, w, w[c])
  BY <1>2 DEF Progress, WarmWriting, Holding
<1>4. Safe(src, r2, w, cp)
  BY DEF Init, Safe, Landed
<1> QED
  BY <1>1, <1>3, <1>4 DEF Init, CheckInv, Rows

\* ... and every step keeps it.
LEMMA CheckNext ==
  ASSUME WarmJobs, InOrder, CheckInv, [Next]_vars
  PROVE  CheckInv'
<1>1. CASE UNCHANGED vars
  <2>1. FilesInv'
    BY FilesNext DEF CheckInv
  <2>2. UNCHANGED <<src, cp, r2, w>>
    BY <1>1 DEF vars, meta
  <2> QED
    BY <2>1, <2>2 DEF CheckInv
<1>2. ASSUME NEW t \in Tables, SourceChange(t) PROVE CheckInv'
  BY <1>2, SourceChangeCheck
<1>3. ASSUME NEW c \in Consumers, NewJob(c) \/ Redeliver(c) \/ FinishJob(c) \/ Crash(c) PROVE CheckInv'
  BY <1>3, JobCheck
<1>4. ASSUME NEW c \in Consumers, SyncNext(c) \/ TransitionNext(c) PROVE CheckInv'
  <2>1. FilesInv
    BY DEF CheckInv
  <2> QED
    BY <1>4, <2>1, ColdSteps, CleanupOrphansCheck, FetchTableCheck, GetPartitionCheck, UploadNewCheck,
       AddPartitionFileCheck, UpdatePartitionCheck, ListPartitionFilesCheck, MergeUploadCheck,
       SwapPartitionFilesCheck, DeleteOldFilesCheck, SyncStepFailsCheck, SaveCheckpointCheck,
       JobEndCheck
<1> QED
  BY <1>1, <1>2, <1>3, <1>4 DEF Next

\* A checkpoint that moves does so while the source and the objects stand still.
LEMMA CheckpointMoves ==
  ASSUME CheckInv, [Next]_vars
  PROVE  UNCHANGED cp \/ UNCHANGED <<src, r2>>
<1>1. CASE UNCHANGED vars
  BY <1>1 DEF vars, meta
<1>2. ASSUME NEW t \in Tables, SourceChange(t) PROVE UNCHANGED cp
  BY <1>2 DEF SourceChange, meta
<1>3. ASSUME NEW c \in Consumers, NewJob(c) \/ Redeliver(c) \/ FinishJob(c) \/ Crash(c) PROVE UNCHANGED cp
  BY <1>3 DEF NewJob, Redeliver, StartJob, FinishJob, Crash, meta
<1>4. ASSUME NEW c \in Consumers, SyncNext(c) \/ TransitionNext(c)
      PROVE  UNCHANGED cp \/ UNCHANGED <<src, r2>>
  <2>1. FilesInv
    BY DEF CheckInv
  <2>2. CASE CleanupOrphans(c) \/ FetchTable(c) \/ GetPartition(c) \/ UploadNew(c) \/ AddPartitionFile(c)
    BY <2>2 DEF CleanupOrphans, FetchTable, GetPartition, UploadNew, AddPartitionFile, meta
  <2>3. CASE UpdatePartition(c) \/ ListPartitionFiles(c) \/ MergeUpload(c) \/ SwapPartitionFiles(c)
    BY <2>3 DEF UpdatePartition, ListPartitionFiles, MergeUpload, SwapPartitionFiles, meta
  <2>4. CASE DeleteOldFiles(c) \/ SyncStepFails(c) \/ JobStepFails(c) \/ CommitSync(c) \/ SetTier(c)
    BY <2>4 DEF DeleteOldFiles, SyncStepFails, JobStepFails, CommitSync, SetTier, meta
  <2>5. CASE SaveCheckpoint(c)
    BY <2>5 DEF SaveCheckpoint
  <2> QED
    BY <1>4, <2>1, <2>2, <2>3, <2>4, <2>5, ColdSteps
<1> QED
  BY <1>1, <1>2, <1>3, <1>4 DEF Next

\* No silent data loss while a source is kept warm: queries find every current
\* row the checkpoint has passed, whichever calls fail and whenever consumers
\* die, as long as the versions of a key within one date are merged in order
\* (sync_source, merge_warm_incremental).
THEOREM CheckpointIsSafe ==
  ASSUME WarmJobs, InOrder
  PROVE  Spec => []CheckpointedRowsAreQueryable
<1>1. CheckInv /\ [Next]_vars => CheckInv'
  BY CheckNext
<1>2. CheckInv => CheckpointedRowsAreQueryable
  BY CheckInvImplies
<1> QED
  BY <1>1, <1>2, CheckInit, PTL DEF Spec

\* Under the same assumptions the saved checkpoint only ever moves past rows
\* that R2 already holds (save_source_checkpoint).
THEOREM CheckpointIsBacked ==
  ASSUME WarmJobs, InOrder
  PROVE  Spec => CheckpointAdvanceIsBacked
<1>1. CheckInv /\ [Next]_vars => CheckInv'
  BY CheckNext
<1>2. ASSUME CheckInv, CheckInv', [Next]_vars
      PROVE  \A t \in Tables : \A k \in Newest(src[t]) :
               cp[t] < k /\ k <= cp'[t] => k \in R2Rows(t) \cup ch[t].rows
  <2> SUFFICES ASSUME NEW t \in Tables, NEW k \in Newest(src[t]), cp[t] < k, k <= cp'[t]
               PROVE  k \in R2Rows(t)
    OBVIOUS
  <2>1. src[t] \in Nat /\ cp[t] \in Nat /\ cp'[t] \in Nat
    BY <1>2, Constants DEF CheckInv, FilesInv, TypeInv, DataInv
  <2>2. k \in 1..cp'[t] /\ cp' # cp
    BY <2>1 DEF Newest
  <2>3. src' = src /\ r2' = r2
    BY <1>2, <2>2, CheckpointMoves
  <2>4. Safe(src, r2, w', cp')
    BY <1>2, <2>3 DEF CheckInv
  <2>5. Lasting(r2, w', t, k)
    BY <2>2, <2>4 DEF Safe, Landed
  <2> QED
    BY <2>5 DEF Lasting, R2Rows
<1>3. CheckInv /\ CheckInv' /\ [Next]_vars =>
        [\A t \in Tables : \A k \in Newest(src[t]) :
           cp[t] < k /\ k <= cp'[t] => k \in R2Rows(t) \cup ch[t].rows]_vars
  BY <1>2
<1> QED
  BY <1>1, <1>3, CheckInit, PTL DEF Spec, CheckpointAdvanceIsBacked

-----------------------------------------------------------------------------
(* One consumer and jobs of every type: the invariant of a checkpoint that  *)
(* is about to be saved.                                                    *)

\* The steps of a date, those of a staged table, and all at which a cursor is
\* in use.
HotWriting == {"stage", "insert"}
Syncing == WarmWriting \cup HotWriting \cup {"fetch", "commitstg", "rollback", "partialcp", "savecp"}

\* The current rows of table t that the cursor of x has passed and the saved
\* checkpoint m has not.
Passed(s, m, x, t) == {k \in Newest(s[t]) : m[t] < k /\ k <= x.mcp[t]}

\* The fetched rows of all dates but the one in hand, and of that one when its
\* object has replaced what was there.
Put(x) ==
  {k \in x.new : \/ DateOf[k] \notin x.days
                 \/ DateOf[k] = Min(x.days) /\ x.pc \in {"delold", "updpart"}}

\* A record of the object is filed under table t and date d.
Filed(ps, rs, key, t, d) ==
  \A r \in rs : \A p \in ps : r.file = key /\ p.id = r.part => p.t = t /\ p.d = d

\* Version k of table t is in an object that consumer state x will not delete.
Kept(os, ps, rs, x, t, k) ==
  \E o \in os : /\ o.t = t /\ k \in o.rows /\ Filed(ps, rs, o.key, t, DateOf[k])
                /\ x.pc \in Owning => o.key # x.fid
                /\ x.pc \in {"merge", "swap", "delold"} => o.key \notin x.olds

\* The rows of the date in hand are in an object without a record.
Uploaded(os, rs, x) ==
  \E o \in os : /\ o.key = x.fid /\ o.t = x.ti /\ DayRows(x) \subseteq o.rows
                /\ \A r \in rs : r.file # x.fid
                /\ x.pc = "swap" => x.fid \notin x.olds

\* What is fetched, when the source is s.
Full(s, x) ==
  /\ \A k \in x.new : k <= s[x.ti]
  /\ \A k \in Newest(s[x.ti]) : \A j \in x.new : x.mcp[x.ti] < k /\ k <= j => k \in x.new

\* A sync to the warm tier.
BackedWarm(s, m, os, ps, rs, x) ==
  /\ x.pc \in WarmWriting => x.target # "hot" /\ \A k \in Put(x) : Kept(os, ps, rs, x, x.ti, k)
  /\ x.pc \in Holding => \A p \in ps : p.id = x.pid => p.t = x.ti /\ p.d = Min(x.days)
  /\ x.pc \in Owning => Uploaded(os, rs, x)
  /\ x.target # "hot" /\ x.pc \in WarmWriting \cup {"fetch", "savecp"} =>
       \A t \in Tables : \A k \in Passed(s, m, x, t) : Kept(os, ps, rs, x, t, k)

\* A sync to the hot tier.
BackedHot(s, m, h, g, x) ==
  /\ x.pc \in HotWriting \cup {"commitstg", "rollback", "partialcp"} => x.target = "hot"
  /\ x.pc = "insert" => x.ti \in x.done
  /\ x.target = "hot" /\ x.pc \in HotWriting \cup {"fetch", "commitstg"} =>
       \A t \in Tables : \A k \in Passed(s, m, x, t) :
         t \in x.done /\ k \in (IF t \in x.todo THEN h[t] ELSE g[t]).rows
  /\ x.target = "hot" /\ x.pc = "savecp" =>
       \A t \in Tables : \A k \in Passed(s, m, x, t) : k \in h[t].rows
  /\ x.pc \in {"rollback", "partialcp"} =>
       \A t \in x.todo \cap Tables : \A k \in Passed(s, m, x, t) : k \in h[t].rows

\* The cursor: not beyond the source, and moved only for tables already read.
Cursor(s, m, x) ==
  /\ x.pc \in Syncing => \A t \in Tables : x.mcp[t] <= s[t]
  /\ x.pc \in WarmWriting \cup HotWriting \cup {"fetch"} =>
       \A t \in Tables : x.ti <= t => x.mcp[t] = m[t]
  /\ x.pc \in WarmWriting \cup HotWriting => Full(s, x)

\* An identifier names partitions of one table and date.
Sited(ps) == \A p \in ps : \A q \in ps : p.id = q.id => p.t = q.t /\ p.d = q.d

BackedInv ==
  /\ TypeInv /\ Sited(part) /\ \A t \in Tables : cp[t] <= src[t]
  /\ \A c \in Consumers : /\ Cursor(src, cp, w[c])
                          /\ BackedWarm(src, cp, r2, part, recs, w[c])
                          /\ BackedHot(src, cp, ch, stg, w[c])

\* A consumer that is not in a sync has no claims.
LEMMA NoClaim ==
  ASSUME NEW s, NEW m, NEW os, NEW ps, NEW rs, NEW h, NEW g, NEW y, y.pc \notin Syncing
  PROVE  Cursor(s, m, y) /\ BackedWarm(s, m, os, ps, rs, y) /\ BackedHot(s, m, h, g, y)
BY DEF Cursor, BackedWarm, BackedHot, Syncing, WarmWriting, Holding, Owning, HotWriting

\* A step of the one consumer.
LEMMA SoleStep ==
  ASSUME OneConsumer, TypeInv, TypeInv', Sited(part'), \A t \in Tables : cp'[t] <= src'[t],
         NEW c \in Consumers, NEW y, Set(c, y),
         Cursor(src', cp', y), BackedWarm(src', cp', r2', part', recs', y),
         BackedHot(src', cp', ch', stg', y)
  PROVE  BackedInv'
<1>1. \A d \in Consumers : w'[d] = y
  BY DEF TypeInv, WorkersInv, Set, OneConsumer
<1> QED
  BY <1>1 DEF BackedInv

\* Partition rows that go, or keep their identifier, table and date.
SameSites(ps, qs) == \A p \in qs : \E q \in ps : q.id = p.id /\ q.t = p.t /\ q.d = p.d

\* What is said about rows holds of what is left of them.
LEMMA SameSitesKeep ==
  ASSUME NEW ps, NEW qs, SameSites(ps, qs)
  PROVE  /\ Sited(ps) => Sited(qs)
         /\ \A rs, key, t, d : Filed(ps, rs, key, t, d) => Filed(qs, rs, key, t, d)
         /\ \A id, t, d : (\A p \in ps : p.id = id => p.t = t /\ p.d = d)
                            => \A p \in qs : p.id = id => p.t = t /\ p.d = d
<1>1. ASSUME Sited(ps) PROVE Sited(qs)
  <2> SUFFICES ASSUME NEW p \in qs, NEW q \in qs, p.id = q.id PROVE p.t = q.t /\ p.d = q.d
    BY DEF Sited
  <2>1. PICK a \in ps : a.id = p.id /\ a.t = p.t /\ a.d = p.d
    BY DEF SameSites
  <2>2. PICK b \in ps : b.id = q.id /\ b.t = q.t /\ b.d = q.d
    BY DEF SameSites
  <2> QED
    BY <1>1, <2>1, <2>2 DEF Sited
<1>2. ASSUME NEW rs, NEW key, NEW t, NEW d, Filed(ps, rs, key, t, d) PROVE Filed(qs, rs, key, t, d)
  <2> SUFFICES ASSUME NEW r \in rs, NEW p \in qs, r.file = key, p.id = r.part PROVE p.t = t /\ p.d = d
    BY DEF Filed
  <2>1. PICK a \in ps : a.id = p.id /\ a.t = p.t /\ a.d = p.d
    BY DEF SameSites
  <2> QED
    BY <1>2, <2>1 DEF Filed
<1>3. ASSUME NEW id, NEW t, NEW d, \A p \in ps : p.id = id => p.t = t /\ p.d = d, NEW p \in qs, p.id = id
      PROVE  p.t = t /\ p.d = d
  <2>1. PICK a \in ps : a.id = p.id /\ a.t = p.t /\ a.d = p.d
    BY DEF SameSites
  <2> QED
    BY <1>3, <2>1
<1> QED
  BY <1>1, <1>2, <1>3

\* update_partition_data and commit_sync move no row.
LEMMA UpdatesKeepSites ==
  ASSUME TypeInv, NEW c \in Consumers,
         CommitSync(c) \/ \E id, path, j : update_partition_data(id, path, j)
  PROVE  SameSites(part, part')
<1>1. ASSUME NEW id, NEW path, NEW j, update_partition_data(id, path, j) PROVE SameSites(part, part')
  <2> DEFINE U(p) == IF p.id = id THEN [p EXCEPT !.state = "pending", !.job = j, !.path = path] ELSE p
  <2>1. part' = {U(p) : p \in part}
    BY <1>1 DEF update_partition_data
  <2>2. ASSUME NEW p \in part PROVE U(p).id = p.id /\ U(p).t = p.t /\ U(p).d = p.d
    BY DEF TypeInv, PartInv, PartitionRows
  <2> HIDE DEF U
  <2> QED
    BY <2>1, <2>2 DEF SameSites
<1>2. CASE CommitSync(c)
  <2> DEFINE U(p) == IF p.job = w[c].job THEN [p EXCEPT !.state = "committed"] ELSE p
  <2>1. part' = {U(p) : p \in part}
    BY <1>2 DEF CommitSync
  <2>2. ASSUME NEW p \in part PROVE U(p).id = p.id /\ U(p).t = p.t /\ U(p).d = p.d
    BY DEF TypeInv, PartInv, PartitionRows
  <2> HIDE DEF U
  <2> QED
    BY <2>1, <2>2 DEF SameSites
<1> QED
  BY <1>1, <1>2

\* get_or_create_partition returns the one row of the table and date.
LEMMA PartitionSite ==
  ASSUME TypeInv, Sited(part), NEW t, NEW d
  PROVE  LET p == PartitionFor(t, d)
         IN  /\ Sited(p.rows) /\ \A q \in p.rows : q.id = p.id => q.t = t /\ q.d = d
             /\ \A q \in p.rows : q \in part \/ q.id = fresh
<1>0. fresh \in Nat /\ \A p \in part : p.id \in Nat /\ p.id < fresh
  BY DEF TypeInv, DataInv, PartInv, PartitionRows
<1>1. CASE PartAt(t, d) # {}
  <2> DEFINE q == CHOOSE p \in PartAt(t, d) : TRUE
  <2>1. q \in part /\ q.t = t /\ q.d = d
    BY <1>1 DEF PartAt
  <2>2. PartitionFor(t, d).rows = part /\ PartitionFor(t, d).id = q.id
    BY <1>1 DEF PartitionFor
  <2> HIDE DEF q
  <2> QED
    BY <2>1, <2>2 DEF Sited
<1>2. CASE PartAt(t, d) = {}
  <2> DEFINE q == [id |-> fresh, t |-> t, d |-> d, state |-> "committed", job |-> 0, path |-> "none"]
  <2>1. PartitionFor(t, d).rows = part \cup {q} /\ PartitionFor(t, d).id = fresh
    BY <1>2 DEF PartitionFor
  <2>2. q.id = fresh /\ q.t = t /\ q.d = d
    OBVIOUS
  <2> HIDE DEF q
  <2> QED
    BY <1>0, <2>1, <2>2 DEF Sited
<1> QED
  BY <1>1, <1>2

\* No step makes an identifier name two sites.
LEMMA SitedNext ==
  ASSUME TypeInv, Sited(part), [Next]_vars
  PROVE  Sited(part')
<1>1. ASSUME part' \subseteq part PROVE Sited(part')
  BY <1>1 DEF Sited
<1>2. ASSUME SameSites(part, part') PROVE Sited(part')
  BY <1>2, SameSitesKeep
<1>3. CASE UNCHANGED vars
  BY <1>1, <1>3 DEF vars, meta
<1>4. ASSUME NEW t \in Tables, SourceChange(t) PROVE Sited(part')
  BY <1>1, <1>4 DEF SourceChange, meta
<1>5. ASSUME NEW c \in Consumers, NewJob(c) \/ Redeliver(c) \/ FinishJob(c) \/ Crash(c)
      PROVE  Sited(part')
  BY <1>1, <1>5 DEF NewJob, Redeliver, StartJob, FinishJob, Crash, meta
<1>6. ASSUME NEW c \in Consumers, SyncNext(c) PROVE Sited(part')
  <2>1. CASE CleanupOrphans(c)
    BY <1>1, <2>1 DEF CleanupOrphans, DeletePartitions
  <2>2. CASE FetchTable(c) \/ UploadNew(c) \/ AddPartitionFile(c) \/ ListPartitionFiles(c)
             \/ MergeUpload(c) \/ SwapPartitionFiles(c) \/ DeleteOldFiles(c) \/ CreateStaging(c)
    BY <1>1, <2>2 DEF FetchTable, UploadNew, AddPartitionFile, ListPartitionFiles, MergeUpload,
                      SwapPartitionFiles, DeleteOldFiles, CreateStaging, meta
  <2>3. CASE InsertStaging(c) \/ SyncStepFails(c) \/ RollbackStaging(c) \/ CommitStaging(c)
             \/ SavePartialCheckpoint(c) \/ SaveCheckpoint(c) \/ JobStepFails(c)
    BY <1>1, <2>3 DEF InsertStaging, SyncStepFails, RollbackStaging, CommitStaging,
                      SavePartialCheckpoint, SaveCheckpoint, JobStepFails, meta
  <2>4. CASE GetPartition(c)
    <3>1. part' = PartitionFor(T(c), Day(c)).rows
      BY <2>4 DEF GetPartition
    <3> QED
      BY <3>1, PartitionSite
  <2>5. CASE UpdatePartition(c)
    <3>1. SameSites(part, part')
      BY <2>5, UpdatesKeepSites DEF UpdatePartition
    <3> QED
      BY <1>2, <3>1
  <2>6. CASE CommitSync(c)
    BY <1>2, <2>6, UpdatesKeepSites
  <2> QED
    BY <1>6, <2>1, <2>2, <2>3, <2>4, <2>5, <2>6 DEF SyncNext
<1>7. ASSUME NEW c \in Consumers, TransitionNext(c) PROVE Sited(part')
  <2>1. CASE SetTier(c) \/ ListPartitions(c) \/ ImportPartition(c) \/ CleanR2(c) \/ DeleteParts(c)
    BY <1>1, <2>1 DEF SetTier, ListPartitions, ImportPartition, CleanR2, DeleteParts,
                      DeletePartitions, meta
  <2>2. CASE ListClickHouse(c) \/ DropClickHouse(c) \/ DropStaging(c) \/ PurgeClickHouse(c) \/ PurgeR2(c)
    BY <1>1, <2>2 DEF ListClickHouse, DropClickHouse, DropStaging, PurgeClickHouse, PurgeR2, meta
  <2>3. CASE ExportTable(c)
    <3> DEFINE t == Min(w[c].todo)
    <3>1. part' = PartitionFor(t, Today).rows
      BY <2>3 DEF ExportTable
    <3> HIDE DEF t
    <3> QED
      BY <3>1, PartitionSite
  <2>4. CASE RecordExport(c)
    <3>1. SameSites(part, part')
      BY <2>4, UpdatesKeepSites DEF RecordExport
    <3> QED
      BY <1>2, <3>1
  <2> QED
    BY <1>7, <2>1, <2>2, <2>3, <2>4 DEF TransitionNext
<1> QED
  BY <1>3, <1>4, <1>5, <1>6, <1>7 DEF Next

\* A step out of the sync, or elsewhere than in one.
LEMMA QuietBacked ==
  ASSUME OneConsumer, BackedInv, TypeInv', Sited(part'), NEW c \in Consumers,
         \/ NewJob(c) \/ Redeliver(c) \/ FinishJob(c) \/ Crash(c)
         \/ SaveCheckpoint(c) \/ SavePartialCheckpoint(c) \/ CommitSync(c) \/ JobStepFails(c)
         \/ TransitionNext(c)
  PROVE  \E y : Set(c, y) /\ y.pc \notin Syncing
<1> DEFINE x == w[c]
<1>0. TypeInv /\ x \in Workers
  BY WorkerIsRecord DEF BackedInv
<1>1. ASSUME NEW p, p \notin Syncing PROVE [x EXCEPT !.pc = p].pc \notin Syncing
  BY <1>0, <1>1 DEF Workers
<1>2. CASE NewJob(c) \/ Redeliver(c)
  <2>1. ASSUME NEW j, NEW p, NEW t PROVE Begin(j, p, t).pc = p /\ [Begin(j, p, t) EXCEPT !.err = TRUE].pc = p
    BY DEF Begin, IdleWorker
  <2>2. ASSUME NEW j, NEW k PROVE FirstStep(j, k).pc \notin Syncing
    <3>1. FirstStep(j, k).pc \in {"cleanup", "finish", "list", "listch", "purgech", "purger2"}
      BY <2>1 DEF FirstStep
    <3> QED
      BY <3>1 DEF Syncing, WarmWriting, Holding, HotWriting
  <2>3. \E j, k : Set(c, FirstStep(j, k))
    BY <1>2 DEF NewJob, Redeliver, StartJob
  <2> QED
    BY <2>2, <2>3
<1>3. CASE FinishJob(c) \/ Crash(c)
  BY <1>3 DEF FinishJob, Crash, IdleWorker, Syncing, WarmWriting, Holding, HotWriting
<1>4. CASE SaveCheckpoint(c) \/ SavePartialCheckpoint(c) \/ CommitSync(c) \/ SetTier(c) \/ CleanR2(c)
           \/ DeleteParts(c) \/ DropClickHouse(c) \/ DropStaging(c) \/ PurgeClickHouse(c) \/ PurgeR2(c)
  <2>1. PICK p \in {"finish", "commitsync", "settier", "dropch", "cleanr2", "delparts", "dropstg", "purger2"} :
          Set(c, [x EXCEPT !.pc = p])
    <3>1. CASE SaveCheckpoint(c) \/ SavePartialCheckpoint(c) \/ CommitSync(c) \/ SetTier(c)
      BY <3>1 DEF SaveCheckpoint, AfterSync, SavePartialCheckpoint, CommitSync, SetTier, Goto
    <3>2. CASE CleanR2(c) \/ DeleteParts(c) \/ DropClickHouse(c) \/ DropStaging(c)
               \/ PurgeClickHouse(c) \/ PurgeR2(c)
      BY <3>2 DEF CleanR2, DeleteParts, DropClickHouse, DropStaging, PurgeClickHouse, PurgeR2, Goto
    <3> QED
      BY <1>4, <3>1, <3>2
  <2>2. p \notin Syncing
    BY DEF Syncing, WarmWriting, Holding, HotWriting
  <2> QED
    BY <1>1, <2>1, <2>2
<1>5. CASE JobStepFails(c)
  <2> DEFINE y == [x EXCEPT !.pc = "finish", !.err = TRUE]
  <2>1. Set(c, y) /\ y.pc = "finish"
    BY <1>0, <1>5 DEF JobStepFails, Workers
  <2> QED
    BY <2>1 DEF Syncing, WarmWriting, Holding, HotWriting
<1>6. CASE ListPartitions(c) \/ ListClickHouse(c)
  <2> DEFINE ids == {p.id : p \in {r \in part : r.state = "committed"}}
             ts == {t \in Tables : ch[t].exists}
             p == IF ids = {} THEN "settier" ELSE "import"
             q == IF ts = {} THEN "settier" ELSE "export"
             y == [x EXCEPT !.pc = p, !.olds = ids, !.todo = ids]
             z == [x EXCEPT !.todo = ts, !.pc = q]
  <2>1. Set(c, y) \/ Set(c, z)
    BY <1>6 DEF ListPartitions, ListClickHouse
  <2>2. p \in {"settier", "import"} /\ q \in {"settier", "export"}
    OBVIOUS
  <2> HIDE DEF ids, ts, p, q
  <2>3. y.pc = p /\ z.pc = q
    BY <1>0 DEF Workers
  <2> HIDE DEF y, z
  <2> QED
    BY <2>1, <2>2, <2>3 DEF Syncing, WarmWriting, Holding, HotWriting
<1>7. CASE ImportPartition(c)
  <2> DEFINE Q(rest, got) == IF rest # {} THEN "import" ELSE IF got = {} THEN "finish" ELSE "settier"
             Y(rest, got) == [x EXCEPT !.todo = rest, !.new = got, !.pc = Q(rest, got),
                                       !.err = rest = {} /\ got = {}]
  <2>1. PICK id \in x.todo : Set(c, Y(x.todo \ {id}, x.new \cup {id})) \/ Set(c, Y(x.todo \ {id}, x.new))
    BY <1>7 DEF ImportPartition
  <2>2. ASSUME NEW rest, NEW got PROVE Y(rest, got).pc \notin Syncing
    <3>1. Q(rest, got) \notin Syncing
      BY DEF Syncing, WarmWriting, Holding, HotWriting
    <3> HIDE DEF Q
    <3>2. Y(rest, got).pc = Q(rest, got)
      BY <1>0 DEF Workers
    <3> QED
      BY <3>1, <3>2
  <2> HIDE DEF Y
  <2> QED
    BY <2>1, <2>2
<1>8. ASSUME NEW z \in Workers PROVE NextExport(z).pc \notin Syncing
  BY <1>8, NextExportKeeps DEF Syncing, WarmWriting, Holding, HotWriting
<1>9. CASE ExportTable(c)
  <2> DEFINE t == Min(x.todo)
             z == [x EXCEPT !.todo = @ \ {t}]
             y == [x EXCEPT !.pc = "exprec", !.pid = PartitionFor(t, Today).id]
  <2>1. Set(c, y) \/ Set(c, NextExport(z))
    BY <1>9 DEF ExportTable
  <2>2. z \in Workers /\ y.pc = "exprec"
    BY <1>0 DEF Workers
  <2> HIDE DEF z, y
  <2> QED
    BY <1>8, <2>1, <2>2 DEF Syncing, WarmWriting, Holding, HotWriting
<1>10. CASE RecordExport(c)
  <2> DEFINE t == Min(x.todo)
             z == [x EXCEPT !.todo = @ \ {t}, !.done = @ \cup {t}, !.pid = 0]
             y == [x EXCEPT !.pc = "finish", !.err = TRUE]
  <2>1. (Set(c, y) \/ Set(c, NextExport(z))) /\ x.pc = "exprec"
    BY <1>10 DEF RecordExport
  <2>2. t \in Tables
    BY <1>0, <2>1, ExportedTable
  <2> HIDE DEF t
  <2>3. z \in Workers /\ y.pc = "finish"
    BY <1>0, <2>2 DEF Workers
  <2> HIDE DEF z, y
  <2> QED
    BY <1>8, <2>1, <2>3 DEF Syncing, WarmWriting, Holding, HotWriting
<1> QED
  BY <1>2, <1>3, <1>4, <1>5, <1>6, <1>7, <1>9, <1>10 DEF TransitionNext

\* The source changes: what the cursor has passed was current before.
LEMMA SourceChangeBacked ==
  ASSUME BackedInv, TypeInv', NEW u \in Tables, SourceChange(u)
  PROVE  BackedInv'
<1>0. TypeInv /\ UNCHANGED <<cp, r2, part, recs, ch, stg, w>>
  BY DEF BackedInv, SourceChange, meta, clickhouse
<1>1. \A t \in Tables : src[t] \in Nat /\ src'[t] \in Nat /\ src[t] <= src'[t]
  <2>1. src \in [Tables -> 0..MaxRow] /\ src' = [src EXCEPT ![u] = @ + 1]
    BY <1>0 DEF TypeInv, DataInv, SourceChange
  <2> QED
    BY <2>1, Constants
<1>2. \A t \in Tables : \A k \in Newest(src'[t]) : k <= src[t] => k \in Newest(src[t])
  BY <1>1, NewestShrinks
<1>3. \A t \in Tables : cp[t] \in Nat /\ cp[t] <= src[t] /\ cp[t] <= src'[t]
  BY <1>0, <1>1, Constants DEF BackedInv, TypeInv, DataInv
<1>4. ASSUME NEW c \in Consumers
      PROVE  /\ Cursor(src', cp, w[c]) /\ BackedWarm(src', cp, r2, part, recs, w[c])
             /\ BackedHot(src', cp, ch, stg, w[c])
  <2> DEFINE x == w[c]
  <2>1. Cursor(src, cp, x) /\ BackedWarm(src, cp, r2, part, recs, x) /\ BackedHot(src, cp, ch, stg, x)
    BY DEF BackedInv
  <2>2. /\ \A t \in Tables : x.mcp[t] \in Nat
        /\ x.pc \in WarmWriting \cup HotWriting => x.ti \in Tables /\ \A k \in x.new : k \in Nat
    <3>1. WorkerInv(x, nextJob, fresh) /\ (x.pc \in WarmWriting \cup HotWriting => x.pc \in Writing)
      BY <1>0 DEF TypeInv, WorkersInv, WarmWriting, Holding, HotWriting, Writing
    <3> QED
      BY <3>1, Constants DEF WorkerInv, Workers
  <2> HIDE DEF x
  <2>3. ASSUME x.pc \in Syncing, NEW t \in Tables PROVE Passed(src', cp, x, t) \subseteq Passed(src, cp, x, t)
    <3> SUFFICES ASSUME NEW k \in Newest(src'[t]), cp[t] < k, k <= x.mcp[t] PROVE k \in Newest(src[t])
      BY DEF Passed
    <3>1. k \in Nat /\ x.mcp[t] <= src[t]
      BY <1>1, <2>1, <2>3 DEF Cursor, Newest
    <3> QED
      BY <1>1, <1>2, <2>2, <3>1
  <2>4. ASSUME x.pc \in WarmWriting \cup HotWriting PROVE Full(src', x)
    <3>1. Full(src, x) /\ x.ti \in Tables
      BY <2>1, <2>2, <2>4 DEF Cursor
    <3>2. \A k \in x.new : k \in Nat /\ k <= src[x.ti] /\ k <= src'[x.ti]
      BY <1>1, <2>2, <2>4, <3>1 DEF Full
    <3>3. ASSUME NEW k \in Newest(src'[x.ti]), NEW j \in x.new, x.mcp[x.ti] < k, k <= j PROVE k \in x.new
      <4>1. k \in Nat
        BY <1>1, <3>1 DEF Newest
      <4>2. k <= src[x.ti]
        BY <1>1, <3>1, <3>2, <3>3, <4>1
      <4> QED
        BY <1>2, <3>1, <3>3, <4>2 DEF Full
    <3> QED
      BY <3>2, <3>3 DEF Full
  <2>5. ASSUME x.pc \in Syncing, NEW t \in Tables PROVE x.mcp[t] <= src'[t]
    <3>1. x.mcp[t] <= src[t]
      BY <2>1, <2>5 DEF Cursor
    <3> QED
      BY <1>1, <2>2, <3>1
  <2>6. Cursor(src', cp, x)
    BY <2>1, <2>4, <2>5 DEF Cursor
  <2>7. BackedWarm(src', cp, r2, part, recs, x)
    <3>1. x.pc \in WarmWriting \cup {"fetch", "savecp"} => x.pc \in Syncing
      BY DEF Syncing
    <3> QED
      BY <2>1, <2>3, <3>1 DEF BackedWarm
  <2>8. BackedHot(src', cp, ch, stg, x)
    <3>1. x.pc \in HotWriting \cup {"fetch", "commitstg", "savecp", "rollback", "partialcp"} => x.pc \in Syncing
      BY DEF Syncing
    <3> QED
      BY <2>1, <2>3, <3>1 DEF BackedHot
  <2> QED
    BY <2>6, <2>7, <2>8 DEF x
<1> QED
  BY <1>0, <1>3, <1>4 DEF BackedInv

\* Such a step leaves nothing to claim.
LEMMA OutOfSyncBacked ==
  ASSUME OneConsumer, BackedInv, TypeInv', Sited(part'), NEW c \in Consumers,
         \/ NewJob(c) \/ Redeliver(c) \/ FinishJob(c) \/ Crash(c)
         \/ SaveCheckpoint(c) \/ SavePartialCheckpoint(c) \/ CommitSync(c) \/ JobStepFails(c)
         \/ TransitionNext(c)
  PROVE  BackedInv'
<1>0. TypeInv /\ \A t \in Tables : cp[t] <= src[t]
  BY DEF BackedInv
<1>1. PICK y : Set(c, y) /\ y.pc \notin Syncing
  BY QuietBacked
<1>2. \A t \in Tables : cp'[t] <= src'[t]
  <2>1. CASE SaveCheckpoint(c)
    <3>1. w[c].pc \in Syncing /\ cp' = w[c].mcp /\ src' = src
      BY <2>1 DEF SaveCheckpoint, Syncing
    <3> QED
      BY <3>1 DEF BackedInv, Cursor
  <2>2. CASE SavePartialCheckpoint(c)
    <3>1. w[c].pc \in Syncing /\ src' = src
      BY <2>2 DEF SavePartialCheckpoint, Syncing
    <3>2. \A t \in Tables : w[c].mcp[t] <= src[t] /\ 0 <= src[t]
      BY <1>0, <3>1, Constants DEF BackedInv, Cursor, TypeInv, DataInv
    <3>3. cp' = cp \/ cp' = [t \in Tables |-> IF t \in w[c].todo THEN w[c].mcp[t] ELSE 0]
      BY <2>2 DEF SavePartialCheckpoint
    <3>4. CASE cp' = [t \in Tables |-> IF t \in w[c].todo THEN w[c].mcp[t] ELSE 0]
      BY <3>1, <3>2, <3>4
    <3> QED
      BY <1>0, <3>1, <3>3, <3>4
  <2>3. CASE NewJob(c) \/ Redeliver(c) \/ FinishJob(c) \/ Crash(c) \/ CommitSync(c) \/ JobStepFails(c)
    BY <1>0, <2>3 DEF NewJob, Redeliver, StartJob, FinishJob, Crash, CommitSync, JobStepFails, meta
  <2>4. CASE SetTier(c) \/ ListPartitions(c) \/ ImportPartition(c) \/ CleanR2(c) \/ DeleteParts(c)
             \/ ListClickHouse(c) \/ ExportTable(c)
    BY <1>0, <2>4 DEF SetTier, ListPartitions, ImportPartition, CleanR2, DeleteParts, ListClickHouse,
                      ExportTable, meta
  <2>5. CASE RecordExport(c) \/ DropClickHouse(c) \/ DropStaging(c) \/ PurgeClickHouse(c) \/ PurgeR2(c)
    BY <1>0, <2>5 DEF RecordExport, DropClickHouse, DropStaging, PurgeClickHouse, PurgeR2, meta
  <2> QED
    BY <2>1, <2>2, <2>3, <2>4, <2>5 DEF TransitionNext
<1> QED
  BY <1>0, <1>1, <1>2, NoClaim, SoleStep

\* A sync starts: the cursor has passed what the checkpoint has.
LEMMA CleanupOrphansBacked ==
  ASSUME OneConsumer, BackedInv, TypeInv', Sited(part'), NEW c \in Consumers, CleanupOrphans(c)
  PROVE  BackedInv'
<1> DEFINE x == w[c]
           y == [x EXCEPT !.pc = "fetch", !.mcp = cp]
<1>0. TypeInv /\ x \in Workers /\ \A t \in Tables : cp[t] <= src[t]
  BY WorkerIsRecord DEF BackedInv
<1>1. Set(c, y) /\ UNCHANGED <<src, cp>>
  BY DEF CleanupOrphans
<1>2. y.pc = "fetch" /\ y.mcp = cp
  BY <1>0 DEF Workers
<1> HIDE DEF x, y
<1>3. \A t \in Tables : cp[t] \in Nat
  BY <1>0, Constants DEF TypeInv, DataInv
<1>4. ASSUME NEW t \in Tables PROVE Passed(src, cp, y, t) = {}
  <2>1. src[t] \in Nat
    BY <1>0, Constants DEF TypeInv, DataInv
  <2>2. \A k \in Newest(src[t]) : k \in Nat
    BY <2>1 DEF Newest
  <2> QED
    BY <1>2, <1>3, <2>2 DEF Passed
<1>5. Cursor(src, cp, y)
  BY <1>0, <1>2 DEF Cursor, WarmWriting, Holding, HotWriting
<1>6. BackedWarm(src, cp, r2', part', recs', y) /\ BackedHot(src, cp, ch', stg', y)
  BY <1>2, <1>4 DEF BackedWarm, BackedHot, WarmWriting, Holding, Owning, HotWriting
<1> QED
  BY <1>0, <1>1, <1>5, <1>6, SoleStep

-----------------------------------------------------------------------------
(* The steps of a sync to the warm tier. *)

\* A step of c from state x to y deletes at most what x condemns, records at
\* most the object x uploaded, and condemns nothing but a new object.
LEMMA KeptMoves ==
  ASSUME BackedInv, NEW x, NEW y,
         \A o \in r2 : o \in r2' \/ Condemned(x, o.key),
         \A r \in recs' : r \in recs \/ (x.pc \in Owning /\ r.file = x.fid),
         \A p \in part' : p.id >= fresh \/ \E q \in part : q.id = p.id /\ q.t = p.t /\ q.d = p.d,
         \A p \in part' : p.id \in Nat,
         y.pc \in Owning => y.fid = fresh \/ (x.pc \in Owning /\ y.fid = x.fid),
         y.pc \in {"merge", "swap", "delold"} =>
           x.pc \in {"merge", "swap", "delold"} /\ y.olds \subseteq x.olds,
         NEW t, NEW k, Kept(r2, part, recs, x, t, k)
  PROVE  Kept(r2', part', recs', y, t, k)
<1>1. PICK o \in r2 : /\ o.t = t /\ k \in o.rows /\ Filed(part, recs, o.key, t, DateOf[k])
                      /\ x.pc \in Owning => o.key # x.fid
                      /\ x.pc \in {"merge", "swap", "delold"} => o.key \notin x.olds
  BY DEF Kept
<1>2. o.key \in Nat /\ o.key < fresh /\ fresh \in Nat
  BY ObjectTypes DEF BackedInv, TypeInv, DataInv
<1>3. o \in r2'
  BY <1>1 DEF Condemned, Owning
<1>4. ASSUME NEW r \in recs', NEW p \in part', r.file = o.key, p.id = r.part
      PROVE  p.t = t /\ p.d = DateOf[k]
  <2>1. r \in recs
    BY <1>1, <1>4
  <2>2. \E q \in part : q.id = r.part
    BY <2>1 DEF BackedInv, TypeInv, RecInv
  <2>3. p.id \in Nat /\ p.id < fresh
    BY <1>4, <2>2 DEF BackedInv, TypeInv, PartInv
  <2>4. PICK q \in part : q.id = p.id /\ q.t = p.t /\ q.d = p.d
    BY <1>2, <2>3
  <2> QED
    BY <1>1, <1>4, <2>1, <2>4 DEF Filed
<1>5. y.pc \in Owning => o.key # y.fid
  BY <1>1, <1>2
<1>6. y.pc \in {"merge", "swap", "delold"} => o.key \notin y.olds
  BY <1>1
<1> QED
  BY <1>1, <1>3, <1>4, <1>5, <1>6 DEF Kept, Filed

\* What a consumer that writes to R2 has in hand.
LEMMA WarmFacts ==
  ASSUME BackedInv, NEW c \in Consumers, w[c].pc \in WarmWriting
  PROVE  /\ TypeInv /\ w[c] \in Workers /\ w[c].target # "hot" /\ w[c].ti \in Tables
         /\ w[c].new # {} /\ w[c].new \subseteq Versions /\ Min(w[c].days) \in w[c].days
         /\ Cursor(src, cp, w[c]) /\ BackedWarm(src, cp, r2, part, recs, w[c])
<1>1. w[c].pc \in Writing /\ TypeInv
  BY DEF WarmWriting, Holding, Writing, BackedInv
<1>2. WorkerInv(w[c], nextJob, fresh)
  BY <1>1 DEF TypeInv, WorkersInv
<1>3. w[c].days \in SUBSET Nat /\ w[c].days # {}
  BY <1>1, <1>2 DEF WorkerInv, Workers
<1>4. Min(w[c].days) \in w[c].days
  BY <1>3, MinOfNat
<1> QED
  BY <1>1, <1>2, <1>4 DEF BackedInv, BackedWarm, WorkerInv

\* A step of a date to the next one.
LEMMA WarmMove ==
  ASSUME OneConsumer, BackedInv, TypeInv', Sited(part'), NEW c \in Consumers,
         w[c].pc \in WarmWriting, NEW y, Set(c, y), y.pc \in WarmWriting, UNCHANGED <<src, cp>>,
         y.new = w[c].new, y.ti = w[c].ti, y.mcp = w[c].mcp, y.target = w[c].target,
         \A t \in Tables : \A k \in Passed(src, cp, w[c], t) : Kept(r2', part', recs', y, t, k),
         \A k \in Put(y) : Kept(r2', part', recs', y, y.ti, k),
         y.pc \in Holding => \A p \in part' : p.id = y.pid => p.t = y.ti /\ p.d = Min(y.days),
         y.pc \in Owning => Uploaded(r2', recs', y)
  PROVE  BackedInv'
<1> DEFINE x == w[c]
<1>1. x.target # "hot" /\ Cursor(src, cp, x) /\ \A t \in Tables : cp[t] <= src[t]
  BY WarmFacts DEF BackedInv
<1>2. x.pc \in Syncing /\ x.pc \in WarmWriting
  BY DEF Syncing
<1> HIDE DEF x
<1>3. Cursor(src, cp, y)
  BY <1>1, <1>2 DEF Cursor, Full, x
<1>4. BackedWarm(src, cp, r2', part', recs', y)
  BY <1>1 DEF BackedWarm, Passed, x
<1>5. BackedHot(src, cp, ch', stg', y)
  BY <1>1 DEF BackedHot, x, WarmWriting, Holding, HotWriting
<1> QED
  BY <1>1, <1>3, <1>4, <1>5, SoleStep DEF BackedInv

\* A step that ends the loop with an error: the cursor stays.
LEMMA WarmGiveUp ==
  ASSUME OneConsumer, BackedInv, TypeInv', Sited(part'), NEW c \in Consumers,
         w[c].pc \in WarmWriting, NEW y, Set(c, y), y.pc = "savecp", UNCHANGED <<src, cp>>,
         y.mcp = w[c].mcp, y.target = w[c].target,
         \A t \in Tables : \A k \in Passed(src, cp, w[c], t) : Kept(r2', part', recs', y, t, k)
  PROVE  BackedInv'
<1> DEFINE x == w[c]
<1>1. x.target # "hot" /\ Cursor(src, cp, x) /\ \A t \in Tables : cp[t] <= src[t]
  BY WarmFacts DEF BackedInv
<1>2. x.pc \in Syncing
  BY DEF Syncing
<1> HIDE DEF x
<1>3. Cursor(src, cp, y)
  BY <1>1, <1>2 DEF Cursor, x, WarmWriting, Holding, HotWriting
<1>4. BackedWarm(src, cp, r2', part', recs', y)
  BY <1>1 DEF BackedWarm, Passed, x, WarmWriting, Holding, Owning
<1>5. BackedHot(src, cp, ch', stg', y)
  BY <1>1 DEF BackedHot, x, WarmWriting, Holding, HotWriting
<1> QED
  BY <1>1, <1>3, <1>4, <1>5, SoleStep DEF BackedInv

\* A step that gives up a date, leaves the rows alone and deletes at most the
\* object that was uploaded and is not filed.
LEMMA FailBacked ==
  ASSUME OneConsumer, BackedInv, TypeInv', NEW c \in Consumers, w[c].pc \in WarmWriting,
         NEW z \in Workers, z.target = w[c].target, z.mcp = w[c].mcp, Set(c, SyncFailed(z)),
         UNCHANGED <<src, cp, recs>>, SameSites(part, part'),
         r2' = r2 \/ (w[c].pc = "swap" /\ r2' = {o \in r2 : o.key # w[c].fid})
  PROVE  BackedInv'
<1> DEFINE x == w[c]
           y == SyncFailed(z)
<1>1. x.target # "hot" /\ BackedWarm(src, cp, r2, part, recs, x)
  BY WarmFacts
<1>2. y.pc = "savecp" /\ y.mcp = x.mcp /\ y.target = x.target
  BY <1>1, SyncFailedWarm
<1>3. Set(c, y) /\ x.pc \in WarmWriting
  OBVIOUS
<1>4. Sited(part')
  BY SameSitesKeep DEF BackedInv
<1>5. \A o \in r2 : o \in r2' \/ Condemned(x, o.key)
  BY DEF Condemned
<1>6. \A p \in part' : p.id \in Nat /\ \E q \in part : q.id = p.id /\ q.t = p.t /\ q.d = p.d
  BY DEF TypeInv, PartInv, PartitionRows, SameSites
<1>7. ASSUME NEW t \in Tables, NEW k \in Passed(src, cp, x, t) PROVE Kept(r2', part', recs', y, t, k)
  <2>1. Kept(r2, part, recs, x, t, k)
    BY <1>1, <1>3 DEF BackedWarm
  <2> HIDE DEF x, y
  <2>2. y.pc \notin Owning /\ y.pc \notin {"merge", "swap", "delold"}
    BY <1>2 DEF Owning
  <2> QED
    BY <1>5, <1>6, <2>1, <2>2, KeptMoves
<1> HIDE DEF y
<1> QED
  BY <1>2, <1>3, <1>4, <1>7, WarmGiveUp

\* get_or_create_partition: the row is of the table and the date in hand.
LEMMA GetPartitionBacked ==
  ASSUME OneConsumer, BackedInv, TypeInv', Sited(part'), NEW c \in Consumers, GetPartition(c)
  PROVE  BackedInv'
<1> DEFINE x == w[c]
           p == PartitionFor(T(c), Day(c))
           q == IF x.mcp[T(c)] = 0 THEN "upload" ELSE "listfiles"
           id == p.id
           y == [x EXCEPT !.pid = id, !.pc = q]
<1>0. x.pc = "getpart" /\ Set(c, y) /\ UNCHANGED <<src, cp, r2, recs>> /\ part' = p.rows
  BY DEF GetPartition
<1>1. x.pc \in WarmWriting
  BY <1>0 DEF WarmWriting
<1>2. x \in Workers /\ TypeInv /\ BackedWarm(src, cp, r2, part, recs, x) /\ x.target # "hot"
  BY <1>1, WarmFacts
<1>3. T(c) = x.ti /\ Day(c) = Min(x.days)
  BY DEF T, Day
<1>4. /\ \A r \in part' : r.id = id => r.t = x.ti /\ r.d = Min(x.days)
      /\ \A r \in part' : r \in part \/ r.id = fresh
  BY <1>0, <1>2, <1>3, PartitionSite DEF BackedInv
<1>5. q \in {"upload", "listfiles"}
  OBVIOUS
<1>6. fresh \in Nat /\ \A r \in part' : r.id \in Nat
  BY <1>2 DEF TypeInv, DataInv, PartInv, PartitionRows
<1> HIDE DEF x, p, q, id
<1>7. /\ y.pc = q /\ y.new = x.new /\ y.ti = x.ti /\ y.mcp = x.mcp /\ y.days = x.days
      /\ y.target = x.target /\ y.pid = id
  BY <1>2 DEF Workers
<1> HIDE DEF y
<1>8. y.pc \in WarmWriting /\ y.pc \notin Owning /\ y.pc \notin {"merge", "swap", "delold", "updpart"}
  BY <1>5, <1>7 DEF WarmWriting, Holding, Owning
<1>9. ASSUME NEW t, NEW k, Kept(r2, part, recs, x, t, k) PROVE Kept(r2', part', recs', y, t, k)
  BY <1>0, <1>4, <1>6, <1>8, <1>9, KeptMoves
<1>10. \A t \in Tables : \A k \in Passed(src, cp, x, t) : Kept(r2', part', recs', y, t, k)
  BY <1>1, <1>2, <1>9 DEF BackedWarm
<1>11. \A k \in Put(y) : Kept(r2', part', recs', y, y.ti, k)
  BY <1>1, <1>2, <1>7, <1>8, <1>9 DEF BackedWarm, Put
<1>12. \A r \in part' : r.id = y.pid => r.t = y.ti /\ r.d = Min(y.days)
  BY <1>4, <1>7
<1> QED
  BY <1>0, <1>1, <1>7, <1>8, <1>10, <1>11, <1>12, WarmMove DEF x

\* A new object n has the rows of the date in hand.
LEMMA UploadBacked ==
  ASSUME OneConsumer, BackedInv, TypeInv', Sited(part'), NEW c \in Consumers,
         w[c].pc \in {"upload", "merge"}, NEW n, r2' = r2 \cup {n}, n.key = fresh, n.t = w[c].ti,
         DayRows(w[c]) \subseteq n.rows, UNCHANGED <<src, cp, part, recs>>,
         NEW y, Set(c, y), y.pc = (IF w[c].pc = "upload" THEN "addrec" ELSE "swap"), y.fid = fresh,
         y.olds = w[c].olds, y.new = w[c].new, y.ti = w[c].ti, y.mcp = w[c].mcp,
         y.days = w[c].days, y.target = w[c].target, y.pid = w[c].pid,
         y.pc = "swap" => w[c].olds \subseteq R2Keys
  PROVE  BackedInv'
<1> DEFINE x == w[c]
<1>1. x.pc \in WarmWriting /\ x.pc \in Holding /\ x.pc \notin Owning
  BY DEF WarmWriting, Holding, Owning
<1>2. y.pc \in WarmWriting /\ y.pc \in Holding /\ y.pc \in {"addrec", "swap"}
  BY DEF WarmWriting, Holding
<1>3. TypeInv /\ BackedWarm(src, cp, r2, part, recs, x)
  BY <1>1, WarmFacts
<1>4. fresh \in Nat /\ \A p \in part : p.id \in Nat
  BY <1>3 DEF TypeInv, DataInv, PartInv, PartitionRows
<1>5. \A o \in r2 : o.key \in Nat /\ o.key < fresh
  BY <1>3, ObjectTypes
<1>6. \A r \in recs : r.file \in Nat /\ r.file < fresh
  BY <1>3 DEF TypeInv, RecInv, FileRows
<1>7. ASSUME NEW t, NEW k, Kept(r2, part, recs, x, t, k) PROVE Kept(r2', part', recs', y, t, k)
  <2>1. y.pc \in {"merge", "swap", "delold"} => x.pc \in {"merge", "swap", "delold"} /\ y.olds \subseteq x.olds
    OBVIOUS
  <2> HIDE DEF x
  <2> QED
    BY <1>4, <1>7, <2>1, KeptMoves
<1>8. n \in r2' /\ \A k \in DayRows(y) : k \in n.rows
  BY DEF DayRows
<1>9. y.pc = "swap" => y.fid \notin y.olds
  BY <1>4, <1>5 DEF R2Keys
<1>10. Uploaded(r2', recs', y)
  <2>1. \A r \in recs' : r.file # y.fid
    BY <1>4, <1>6
  <2> QED
    BY <1>8, <1>9, <2>1 DEF Uploaded
<1> HIDE DEF x
<1>11. \A t \in Tables : \A k \in Passed(src, cp, x, t) : Kept(r2', part', recs', y, t, k)
  BY <1>1, <1>3, <1>7 DEF BackedWarm
<1>12. \A k \in Put(y) : Kept(r2', part', recs', y, y.ti, k)
  BY <1>1, <1>2, <1>3, <1>7 DEF BackedWarm, Put, x
<1>13. \A p \in part' : p.id = y.pid => p.t = y.ti /\ p.d = Min(y.days)
  BY <1>1, <1>3 DEF BackedWarm, x
<1> QED
  BY <1>1, <1>2, <1>10, <1>11, <1>12, <1>13, WarmMove DEF x

\* write_warm_incremental: the upload.
LEMMA UploadNewBacked ==
  ASSUME OneConsumer, BackedInv, TypeInv', Sited(part'), NEW c \in Consumers, UploadNew(c)
  PROVE  BackedInv'
<1> DEFINE x == w[c]
           n == [key |-> fresh, t |-> T(c), d |-> Day(c), rows |-> NewToday(c)]
           y == [x EXCEPT !.pc = "addrec", !.fid = fresh]
<1>1. x.pc = "upload" /\ Set(c, y) /\ r2' = r2 \cup {n} /\ UNCHANGED <<src, cp, part, recs>>
  BY DEF UploadNew, meta
<1>2. x \in Workers
  BY WorkerIsRecord DEF BackedInv
<1>3. n.key = fresh /\ n.t = x.ti /\ n.rows = DayRows(x)
  BY DEF T, Day, NewToday, DayRows
<1> HIDE DEF x, n
<1>4. /\ y.pc = "addrec" /\ y.fid = fresh /\ y.olds = x.olds /\ y.new = x.new /\ y.ti = x.ti
      /\ y.mcp = x.mcp /\ y.days = x.days /\ y.target = x.target /\ y.pid = x.pid
  BY <1>2 DEF Workers
<1> HIDE DEF y
<1>5. y.pc = (IF x.pc = "upload" THEN "addrec" ELSE "swap") /\ x.pc \in {"upload", "merge"} /\ y.pc # "swap"
  BY <1>1, <1>4
<1> QED
  BY <1>1, <1>3, <1>4, <1>5, UploadBacked DEF x

\* merge_warm_incremental: the upload, or nothing if an object is missing.
LEMMA MergeUploadBacked ==
  ASSUME OneConsumer, BackedInv, TypeInv', Sited(part'), NEW c \in Consumers, MergeUpload(c)
  PROVE  BackedInv'
<1>0. w[c] \in Workers /\ w[c].pc = "merge" /\ UNCHANGED <<src, cp, part, recs>>
  BY WorkerIsRecord DEF BackedInv, MergeUpload, meta
<1>1. CASE ~(w[c].olds \subseteq R2Keys)
  <2>1. Set(c, SyncFailed(w[c])) /\ r2' = r2
    BY <1>1 DEF MergeUpload
  <2>2. w[c].pc \in WarmWriting /\ SameSites(part, part')
    BY <1>0 DEF WarmWriting, Holding, SameSites
  <2> QED
    BY <1>0, <2>1, <2>2, FailBacked
<1>2. CASE w[c].olds \subseteq R2Keys
  <2> DEFINE x == w[c]
             n == [key |-> fresh, t |-> T(c), d |-> Day(c), rows |-> MergedRows(c)]
             y == [x EXCEPT !.pc = "swap", !.fid = fresh]
  <2>1. Set(c, y) /\ r2' = r2 \cup {n}
    BY <1>2 DEF MergeUpload, MergedRows
  <2>2. n.key = fresh /\ n.t = x.ti /\ DayRows(x) \subseteq n.rows
    BY DEF T, Day, NewToday, DayRows, MergedRows, merge_batches_by_pk
  <2>3. x \in Workers /\ x.pc = "merge"
    BY <1>0
  <2> HIDE DEF x, n
  <2>4. /\ y.pc = "swap" /\ y.fid = fresh /\ y.olds = x.olds /\ y.new = x.new /\ y.ti = x.ti
        /\ y.mcp = x.mcp /\ y.days = x.days /\ y.target = x.target /\ y.pid = x.pid
    BY <2>3 DEF Workers
  <2> HIDE DEF y
  <2>5. y.pc = (IF x.pc = "upload" THEN "addrec" ELSE "swap") /\ x.pc \in {"upload", "merge"}
    BY <2>3, <2>4
  <2> QED
    BY <1>0, <1>2, <2>1, <2>2, <2>4, <2>5, UploadBacked DEF x
<1> QED
  BY <1>1, <1>2

\* The cursor has not moved for the table in hand.
LEMMA CursorHere ==
  ASSUME BackedInv, NEW c \in Consumers, w[c].pc \in WarmWriting \cup HotWriting
  PROVE  /\ w[c].ti \in Tables /\ cp[w[c].ti] \in Nat /\ src[w[c].ti] \in Nat
         /\ w[c].mcp[w[c].ti] = cp[w[c].ti] /\ w[c].new # {} /\ w[c].new \subseteq Versions
         /\ w[c].todo = {}
<1>1. w[c].pc \in Writing /\ TypeInv /\ Cursor(src, cp, w[c])
  BY DEF WarmWriting, HotWriting, Holding, Writing, BackedInv
<1>2. WorkerInv(w[c], nextJob, fresh) /\ cp \in [Tables -> 0..MaxRow] /\ src \in [Tables -> 0..MaxRow]
  BY <1>1 DEF TypeInv, WorkersInv, DataInv
<1>3. w[c].ti \in Tables /\ w[c].new # {} /\ w[c].new \subseteq Versions /\ w[c].todo = {}
  BY <1>1, <1>2 DEF WorkerInv
<1>4. w[c].ti <= w[c].ti
  BY <1>3, Constants DEF Tables
<1> QED
  BY <1>1, <1>2, <1>3, <1>4, Constants DEF Cursor

\* The files of the partition: they hold rows of the table and the date in hand,
\* none that the cursor or an earlier date has passed.
LEMMA ListPartitionFilesBacked ==
  ASSUME OneConsumer, BackedInv, TypeInv', Sited(part'), NEW c \in Consumers, ListPartitionFiles(c)
  PROVE  BackedInv'
<1> DEFINE x == w[c]
           fs == {r.file : r \in CommittedRecs(x.pid)}
           y == [x EXCEPT !.pc = "merge", !.olds = fs]
<1>0. x.pc = "listfiles" /\ Set(c, y) /\ UNCHANGED <<src, cp, part, recs, r2>>
  BY DEF ListPartitionFiles, meta
<1>1. x.pc \in WarmWriting /\ x.pc \in Holding
  BY <1>0 DEF WarmWriting, Holding
<1>2. /\ x \in Workers /\ TypeInv /\ BackedWarm(src, cp, r2, part, recs, x) /\ x.target # "hot"
      /\ Cursor(src, cp, x) /\ Min(x.days) \in x.days /\ x.ti \in Tables
  BY <1>1, WarmFacts
<1>3. \A g \in fs : \E r \in recs : r.file = g /\ r.part = x.pid
  BY DEF CommittedRecs
<1> HIDE DEF x, fs
<1>4. /\ y.pc = "merge" /\ y.olds = fs /\ y.new = x.new /\ y.ti = x.ti
      /\ y.mcp = x.mcp /\ y.days = x.days /\ y.target = x.target /\ y.pid = x.pid
  BY <1>2 DEF Workers
<1> HIDE DEF y
<1>5. \A r \in recs : \E p \in part : p.id = r.part
  BY <1>2 DEF TypeInv, RecInv
<1>6. \A p \in part : p.id = x.pid => p.t = x.ti /\ p.d = Min(x.days)
  BY <1>1, <1>2 DEF BackedWarm
<1>7. ASSUME NEW t, NEW k, Kept(r2, part, recs, x, t, k), t # x.ti \/ DateOf[k] # Min(x.days)
      PROVE  Kept(r2', part', recs', y, t, k)
  <2>1. PICK o \in r2 : o.t = t /\ k \in o.rows /\ Filed(part, recs, o.key, t, DateOf[k])
    BY <1>7 DEF Kept
  <2>2. o.key \notin fs
    <3> SUFFICES ASSUME o.key \in fs PROVE FALSE
      OBVIOUS
    <3>1. PICK r \in recs : r.file = o.key /\ r.part = x.pid
      BY <1>3
    <3>2. PICK p \in part : p.id = r.part
      BY <1>5
    <3> QED
      BY <1>6, <1>7, <2>1, <3>1, <3>2 DEF Filed
  <2> QED
    BY <1>0, <1>4, <2>1, <2>2 DEF Kept, Owning
<1>8. ASSUME NEW t \in Tables, NEW k \in Passed(src, cp, x, t) PROVE Kept(r2', part', recs', y, t, k)
  <2>1. Kept(r2, part, recs, x, t, k)
    BY <1>1, <1>2 DEF BackedWarm
  <2>2. cp[x.ti] \in Nat /\ src[x.ti] \in Nat /\ x.mcp[x.ti] = cp[x.ti]
    BY <1>1, CursorHere DEF x
  <2>3. t # x.ti
    <3> SUFFICES ASSUME t = x.ti PROVE FALSE
      OBVIOUS
    <3>1. k \in Nat /\ cp[x.ti] < k /\ k <= cp[x.ti]
      BY <2>2 DEF Passed, Newest
    <3> QED
      BY <2>2, <3>1
  <2> QED
    BY <1>7, <2>1, <2>3
<1>9. ASSUME NEW k \in Put(y) PROVE Kept(r2', part', recs', y, y.ti, k)
  <2>1. DateOf[k] \notin x.days /\ k \in Put(x)
    BY <1>4 DEF Put
  <2>2. Kept(r2, part, recs, x, x.ti, k)
    BY <1>1, <1>2, <2>1 DEF BackedWarm
  <2> QED
    BY <1>2, <1>4, <1>7, <2>1, <2>2
<1>10. y.pc \in WarmWriting /\ y.pc \notin Owning
  BY <1>4 DEF WarmWriting, Holding, Owning
<1>11. \A p \in part' : p.id = y.pid => p.t = y.ti /\ p.d = Min(y.days)
  BY <1>0, <1>4, <1>6
<1> QED
  BY <1>0, <1>1, <1>4, <1>8, <1>9, <1>10, <1>11, WarmMove DEF x

\* The object x uploaded is filed under the table and date in hand.
LEMMA NowFiled ==
  ASSUME BackedInv, NEW c \in Consumers, w[c].pc \in Owning, NEW y, y.pc \notin Owning,
         y.ti = w[c].ti, y.new = w[c].new, y.days = w[c].days,
         y.pc \in {"merge", "swap", "delold"} => w[c].pc = "swap" /\ y.olds \subseteq w[c].olds,
         UNCHANGED <<r2, part>>,
         \A r \in recs' : r \in recs \/ r.part = w[c].pid,
         NEW k \in y.new, DateOf[k] = Min(y.days)
  PROVE  Kept(r2', part', recs', y, y.ti, k)
<1> DEFINE x == w[c]
<1>1. x.pc \in WarmWriting /\ x.pc \in Holding
  BY DEF WarmWriting, Holding, Owning
<1>2. BackedWarm(src, cp, r2, part, recs, x)
  BY <1>1, WarmFacts
<1>3. PICK o \in r2 : /\ o.key = x.fid /\ o.t = x.ti /\ DayRows(x) \subseteq o.rows
                      /\ \A r \in recs : r.file # x.fid
                      /\ x.pc = "swap" => x.fid \notin x.olds
  BY <1>2 DEF BackedWarm, Uploaded
<1>4. \A p \in part : p.id = x.pid => p.t = x.ti /\ p.d = Min(x.days)
  BY <1>1, <1>2 DEF BackedWarm
<1>5. k \in o.rows
  BY <1>3 DEF DayRows
<1>6. Filed(part', recs', o.key, y.ti, DateOf[k])
  BY <1>3, <1>4 DEF Filed
<1>7. y.pc \in {"merge", "swap", "delold"} => o.key \notin y.olds
  BY <1>3
<1> QED
  BY <1>3, <1>5, <1>6, <1>7 DEF Kept

\* The record of the uploaded object: c goes on with the same rows.
LEMMA RecordBacked ==
  ASSUME OneConsumer, BackedInv, TypeInv', NEW c \in Consumers, w[c].pc \in Owning,
         NEW y, Set(c, y), y.ti = w[c].ti, y.new = w[c].new, y.days = w[c].days,
         y.mcp = w[c].mcp, y.target = w[c].target, y.pid = w[c].pid,
         \/ y.pc = "updpart"
         \/ y.pc = "delold" /\ w[c].pc = "swap" /\ y.olds \subseteq w[c].olds,
         UNCHANGED <<src, cp, r2, part>>,
         \A r \in recs' : r \in recs \/ (r.part = w[c].pid /\ r.file = w[c].fid)
  PROVE  BackedInv'
<1> DEFINE x == w[c]
<1>1. x.pc \in WarmWriting /\ x.pc \in Holding /\ x.pc \in Owning
  BY DEF WarmWriting, Holding, Owning
<1>2. y.pc \in WarmWriting /\ y.pc \notin Owning
  BY DEF WarmWriting, Holding, Owning
<1>3. TypeInv /\ BackedWarm(src, cp, r2, part, recs, x) /\ Sited(part')
  BY <1>1, WarmFacts DEF BackedInv
<1>4. \A p \in part' : p.id \in Nat
  BY DEF TypeInv, PartInv, PartitionRows
<1>5. ASSUME NEW t, NEW k, Kept(r2, part, recs, x, t, k) PROVE Kept(r2', part', recs', y, t, k)
  <2>1. y.pc \in {"merge", "swap", "delold"} => x.pc \in {"merge", "swap", "delold"} /\ y.olds \subseteq x.olds
    OBVIOUS
  <2>2. \A r \in recs' : r \in recs \/ (x.pc \in Owning /\ r.file = x.fid)
    OBVIOUS
  <2> HIDE DEF x
  <2> QED
    BY <1>2, <1>4, <1>5, <2>1, <2>2, KeptMoves
<1>6. \A t \in Tables : \A k \in Passed(src, cp, x, t) : Kept(r2', part', recs', y, t, k)
  BY <1>1, <1>3, <1>5 DEF BackedWarm
<1>7. ASSUME NEW k \in Put(y) PROVE Kept(r2', part', recs', y, y.ti, k)
  <2>1. k \in y.new
    BY DEF Put
  <2>2. CASE DateOf[k] = Min(y.days)
    BY <1>1, <1>2, <2>1, <2>2, NowFiled
  <2>3. CASE DateOf[k] \notin y.days
    <3>1. k \in Put(x)
      BY <2>1, <2>3 DEF Put
    <3> QED
      BY <1>1, <1>3, <1>5, <3>1 DEF BackedWarm
  <2> QED
    BY <2>2, <2>3 DEF Put
<1>8. \A p \in part' : p.id = y.pid => p.t = y.ti /\ p.d = Min(y.days)
  BY <1>1, <1>3 DEF BackedWarm
<1> QED
  BY <1>1, <1>2, <1>3, <1>6, <1>7, <1>8, WarmMove

\* add_partition_file.
LEMMA AddPartitionFileBacked ==
  ASSUME OneConsumer, BackedInv, TypeInv', NEW c \in Consumers, AddPartitionFile(c)
  PROVE  BackedInv'
<1>0. w[c] \in Workers /\ w[c].pc = "addrec" /\ UNCHANGED <<src, cp, part, r2>>
  BY WorkerIsRecord DEF BackedInv, AddPartitionFile
<1>1. CASE PartId(w[c].pid) = {}
  <2>1. Set(c, SyncFailed(w[c])) /\ recs' = recs
    BY <1>1 DEF AddPartitionFile
  <2>2. w[c].pc \in WarmWriting /\ SameSites(part, part')
    BY <1>0 DEF WarmWriting, Holding, SameSites
  <2> QED
    BY <1>0, <2>1, <2>2, FailBacked
<1>2. CASE PartId(w[c].pid) # {}
  <2> DEFINE x == w[c]
             y == [x EXCEPT !.pc = "updpart"]
             n == [file |-> x.fid, part |-> x.pid, state |-> "pending", job |-> x.job]
  <2>1. Set(c, y) /\ recs' = recs \cup {n} /\ n.file = x.fid /\ n.part = x.pid
    BY <1>2 DEF AddPartitionFile, Goto
  <2>2. x \in Workers /\ x.pc = "addrec" /\ x.pc \in Owning
    BY <1>0 DEF Owning
  <2> HIDE DEF x, n
  <2>3. /\ y.pc = "updpart" /\ y.new = x.new /\ y.ti = x.ti
        /\ y.mcp = x.mcp /\ y.days = x.days /\ y.target = x.target /\ y.pid = x.pid
    BY <2>2 DEF Workers
  <2> HIDE DEF y
  <2>4. \A r \in recs' : r \in recs \/ (r.part = x.pid /\ r.file = x.fid)
    BY <2>1
  <2> QED
    BY <1>0, <2>1, <2>2, <2>3, <2>4, RecordBacked DEF x
<1> QED
  BY <1>1, <1>2

\* swap_partition_files.
LEMMA SwapPartitionFilesBacked ==
  ASSUME OneConsumer, BackedInv, TypeInv', NEW c \in Consumers, SwapPartitionFiles(c)
  PROVE  BackedInv'
<1>0. w[c] \in Workers /\ w[c].pc = "swap" /\ UNCHANGED <<src, cp, part>>
  BY WorkerIsRecord DEF BackedInv, SwapPartitionFiles
<1>1. CASE PartId(w[c].pid) = {}
  <2>1. Set(c, SyncFailed(w[c])) /\ recs' = recs /\ r2' = {o \in r2 : o.key # w[c].fid}
    BY <1>1 DEF SwapPartitionFiles
  <2>2. w[c].pc \in WarmWriting /\ SameSites(part, part')
    BY <1>0 DEF WarmWriting, Holding, SameSites
  <2> QED
    BY <1>0, <2>1, <2>2, FailBacked
<1>2. CASE PartId(w[c].pid) # {}
  <2> DEFINE x == w[c]
             fs == {r.file : r \in {s \in recs : s.file \in x.olds}}
             y == [x EXCEPT !.pc = "delold", !.olds = fs]
             n == [file |-> x.fid, part |-> x.pid, state |-> "committed", job |-> 0]
  <2>1. /\ Set(c, y) /\ recs' = {r \in recs : r.file \notin x.olds} \cup {n} /\ r2' = r2
        /\ n.file = x.fid /\ n.part = x.pid /\ fs \subseteq x.olds
    BY <1>2 DEF SwapPartitionFiles
  <2>2. x \in Workers /\ x.pc = "swap" /\ x.pc \in Owning
    BY <1>0 DEF Owning
  <2> HIDE DEF x, n, fs
  <2>3. /\ y.pc = "delold" /\ y.new = x.new /\ y.ti = x.ti /\ y.olds = fs
        /\ y.mcp = x.mcp /\ y.days = x.days /\ y.target = x.target /\ y.pid = x.pid
    BY <2>2 DEF Workers
  <2> HIDE DEF y
  <2>4. \A r \in recs' : r \in recs \/ (r.part = x.pid /\ r.file = x.fid)
    BY <2>1
  <2> QED
    BY <1>0, <2>1, <2>2, <2>3, <2>4, RecordBacked DEF x
<1> QED
  BY <1>1, <1>2

\* The replaced objects are deleted.
LEMMA DeleteOldFilesBacked ==
  ASSUME OneConsumer, BackedInv, TypeInv', NEW c \in Consumers, DeleteOldFiles(c)
  PROVE  BackedInv'
<1> DEFINE x == w[c]
           y == [x EXCEPT !.pc = "updpart"]
<1>0. x.pc = "delold" /\ Set(c, y) /\ UNCHANGED <<src, cp, part, recs>> /\ delete_objects(x.olds)
  BY DEF DeleteOldFiles, Goto, meta
<1>1. x.pc \in WarmWriting /\ x.pc \in Holding
  BY <1>0 DEF WarmWriting, Holding
<1>2. x \in Workers /\ TypeInv /\ BackedWarm(src, cp, r2, part, recs, x) /\ Sited(part')
  BY <1>0, <1>1, WarmFacts DEF BackedInv
<1>3. \A o \in r2 : o \in r2' \/ Condemned(x, o.key)
  BY <1>0 DEF delete_objects, Condemned
<1>4. \A p \in part' : p.id \in Nat
  BY DEF TypeInv, PartInv, PartitionRows
<1> HIDE DEF x
<1>5. /\ y.pc = "updpart" /\ y.new = x.new /\ y.ti = x.ti
      /\ y.mcp = x.mcp /\ y.days = x.days /\ y.target = x.target /\ y.pid = x.pid
  BY <1>2 DEF Workers
<1> HIDE DEF y
<1>6. y.pc \in WarmWriting /\ y.pc \notin Owning /\ y.pc \notin {"merge", "swap", "delold"}
  BY <1>5 DEF WarmWriting, Holding, Owning
<1>7. ASSUME NEW t, NEW k, Kept(r2, part, recs, x, t, k) PROVE Kept(r2', part', recs', y, t, k)
  BY <1>0, <1>3, <1>4, <1>6, <1>7, KeptMoves
<1>8. \A t \in Tables : \A k \in Passed(src, cp, x, t) : Kept(r2', part', recs', y, t, k)
  BY <1>1, <1>2, <1>7 DEF BackedWarm
<1>9. \A k \in Put(y) : Kept(r2', part', recs', y, y.ti, k)
  BY <1>0, <1>1, <1>2, <1>5, <1>7 DEF BackedWarm, Put
<1>10. \A p \in part' : p.id = y.pid => p.t = y.ti /\ p.d = Min(y.days)
  BY <1>0, <1>1, <1>2, <1>5 DEF BackedWarm
<1> QED
  BY <1>0, <1>1, <1>2, <1>5, <1>6, <1>8, <1>9, <1>10, WarmMove DEF x

\* The end of a table: the cursor passes what was fetched, and no more.
LEMMA TableEnd ==
  ASSUME BackedInv, NEW c \in Consumers, w[c].pc \in WarmWriting \cup HotWriting, NEW y,
         y.pc = "fetch", y.mcp = [w[c].mcp EXCEPT ![w[c].ti] = Max(w[c].new)], y.ti = w[c].ti + 1
  PROVE  /\ Cursor(src, cp, y)
         /\ \A t \in Tables : \A k \in Passed(src, cp, y, t) :
              k \in Passed(src, cp, w[c], t) \/ (t = w[c].ti /\ k \in w[c].new)
<1> DEFINE x == w[c]
           m == Max(x.new)
<1>1. /\ x.ti \in Tables /\ cp[x.ti] \in Nat /\ src[x.ti] \in Nat
      /\ x.mcp[x.ti] = cp[x.ti] /\ x.new # {} /\ x.new \subseteq Versions
  BY CursorHere
<1>2. Cursor(src, cp, x) /\ x \in Workers /\ x.pc \in Syncing /\ x.pc \in WarmWriting \cup HotWriting
  BY WorkerIsRecord DEF BackedInv, Syncing
<1> HIDE DEF x
<1>3. m \in x.new /\ m \in Nat
  BY <1>1, MaxOfVersions, Constants DEF Versions
<1>4. m <= src[x.ti] /\ \A k \in Newest(src[x.ti]) : cp[x.ti] < k /\ k <= m => k \in x.new
  BY <1>1, <1>2, <1>3 DEF Cursor, Full
<1> HIDE DEF m
<1>5. x.mcp \in [Tables -> 0..MaxRow]
  BY <1>2 DEF Workers
<1>6. \A t \in Tables : y.mcp[t] = IF t = x.ti THEN m ELSE x.mcp[t]
  BY <1>5 DEF x, m
<1>7. ASSUME NEW t \in Tables, NEW k \in Passed(src, cp, y, t)
      PROVE  k \in Passed(src, cp, x, t) \/ (t = x.ti /\ k \in x.new)
  BY <1>4, <1>6 DEF Passed
<1>8. Cursor(src, cp, y)
  <2>1. \A t \in Tables : y.mcp[t] <= src[t]
    BY <1>2, <1>4, <1>6 DEF Cursor
  <2>2. ASSUME NEW t \in Tables, y.ti <= t PROVE y.mcp[t] = cp[t]
    <3>1. t # x.ti /\ x.ti <= t
      BY <1>1, <2>2, Constants DEF x, Tables
    <3> QED
      BY <1>2, <1>6, <3>1 DEF Cursor
  <2> QED
    BY <2>1, <2>2 DEF Cursor, WarmWriting, Holding, HotWriting
<1> QED
  BY <1>7, <1>8 DEF x

\* The row of a date is updated: the next date, the end of the table, or an error.
LEMMA UpdatePartitionBacked ==
  ASSUME OneConsumer, BackedInv, TypeInv', Sited(part'), NEW c \in Consumers, UpdatePartition(c)
  PROVE  BackedInv'
<1> DEFINE x == w[c]
<1>0. x.pc = "updpart" /\ UNCHANGED <<src, cp, recs, r2>> /\ update_partition_data(x.pid, "dir", x.job)
  BY DEF UpdatePartition
<1>1. x.pc \in WarmWriting /\ x.pc \in Holding
  BY <1>0 DEF WarmWriting, Holding
<1>2. x \in Workers /\ TypeInv /\ x.target # "hot" /\ BackedWarm(src, cp, r2, part, recs, x)
  BY <1>1, WarmFacts
<1>3. SameSites(part, part')
  BY <1>0, <1>2, UpdatesKeepSites
<1>4. \A p \in part' : p.id \in Nat /\ \E q \in part : q.id = p.id /\ q.t = p.t /\ q.d = p.d
  BY <1>3 DEF TypeInv, PartInv, PartitionRows, SameSites
<1>5. PICK rec : /\ rec = [x EXCEPT !.pc = "getpart", !.days = x.days \ {Day(c)},
                                    !.pid = 0, !.fid = 0, !.olds = {}]
                 /\ rec \in Workers /\ rec.pc = "getpart" /\ rec.olds = {} /\ rec.target # "hot"
                 /\ rec.mcp = x.mcp /\ rec.new = x.new /\ rec.ti = x.ti
                 /\ rec.days = x.days \ {Day(c)}
                 /\ \/ rec.days # {} /\ Set(c, rec)
                    \/ rec.days = {} /\ Set(c, TableDone(rec))
                    \/ rec.days = {} /\ Set(c, SyncFailed(rec))
  BY <1>2, NextDate
<1>6. rec.target = x.target
  BY <1>2, <1>5 DEF Workers
<1>7. Day(c) = Min(x.days)
  BY DEF Day
<1> HIDE DEF x
<1>8. ASSUME NEW y, y.pc \in {"getpart", "fetch"}, NEW t, NEW k, Kept(r2, part, recs, x, t, k)
      PROVE  Kept(r2', part', recs', y, t, k)
  <2>1. y.pc \notin Owning /\ y.pc \notin {"merge", "swap", "delold"}
    BY <1>8 DEF Owning
  <2> QED
    BY <1>0, <1>4, <1>8, <2>1, KeptMoves
<1>9. \A t \in Tables : \A k \in Passed(src, cp, x, t) : Kept(r2, part, recs, x, t, k)
  BY <1>1, <1>2 DEF BackedWarm
<1>10. \A k \in Put(x) : Kept(r2, part, recs, x, x.ti, k)
  BY <1>1, <1>2 DEF BackedWarm
<1>11. CASE Set(c, rec)
  <2>1. rec.pc \in WarmWriting /\ rec.pc \notin Holding /\ rec.pc \notin Owning
    BY <1>5 DEF WarmWriting, Holding, Owning
  <2>2. Put(rec) \subseteq Put(x)
    BY <1>0, <1>5, <1>7 DEF Put
  <2>a. rec.pc = "getpart" /\ rec.ti = x.ti
    BY <1>5
  <2>3. \A k \in Put(rec) : Kept(r2', part', recs', rec, rec.ti, k)
    BY <1>8, <1>10, <2>2, <2>a
  <2>4. \A t \in Tables : \A k \in Passed(src, cp, x, t) : Kept(r2', part', recs', rec, t, k)
    BY <1>8, <1>9, <2>a
  <2> QED
    BY <1>0, <1>1, <1>5, <1>6, <1>11, <2>1, <2>3, <2>4, WarmMove DEF x
<1>12. CASE rec.days = {} /\ Set(c, TableDone(rec))
  <2> DEFINE y == TableDone(rec)
  <2>1. /\ y.pc = "fetch" /\ y.mcp = [rec.mcp EXCEPT ![rec.ti] = Max(rec.new)]
        /\ y.target = rec.target /\ y.ti = rec.ti + 1
    BY <1>5 DEF TableDone, Workers
  <2>2. Set(c, y)
    BY <1>12
  <2> HIDE DEF y
  <2>3. Cursor(src, cp, y) /\ \A t \in Tables : \A k \in Passed(src, cp, y, t) :
          k \in Passed(src, cp, x, t) \/ (t = x.ti /\ k \in x.new)
    BY <1>1, <1>5, <2>1, TableEnd DEF x
  <2>4. \A k \in x.new : k \in Put(x)
    BY <1>0, <1>5, <1>7, <1>12 DEF Put
  <2>5. \A t \in Tables : \A k \in Passed(src, cp, y, t) : Kept(r2', part', recs', y, t, k)
    BY <1>8, <1>9, <1>10, <2>1, <2>3, <2>4
  <2>6. BackedWarm(src, cp, r2', part', recs', y)
    BY <2>1, <2>5 DEF BackedWarm, WarmWriting, Holding, Owning
  <2>7. BackedHot(src, cp, ch', stg', y)
    BY <1>5, <2>1 DEF BackedHot, HotWriting
  <2> QED
    BY <1>0, <2>2, <2>3, <2>6, <2>7, SoleStep DEF BackedInv
<1>13. CASE Set(c, SyncFailed(rec))
  BY <1>0, <1>1, <1>3, <1>5, <1>6, <1>13, FailBacked DEF x
<1> QED
  BY <1>5, <1>11, <1>12, <1>13

-----------------------------------------------------------------------------
(* The loop over the tables, and the staging tables. *)

\* The end of the loop, of a state z with the cursor and the tables of x: the
\* staging tables are committed or given up, or the checkpoint is saved.
LEMMA AfterLoopBacked ==
  ASSUME OneConsumer, BackedInv, TypeInv', NEW c \in Consumers,
         w[c].pc \in HotWriting \cup {"fetch"}, NEW z \in Workers, z.todo = {}, w[c].todo = {},
         z.mcp = w[c].mcp, z.target = w[c].target,
         z.done = w[c].done \/ (w[c].done \subseteq z.done /\ z.err),
         Set(c, AfterTables(z)), UNCHANGED <<src, cp, part, recs, r2, ch>>, z.err \/ stg' = stg
  PROVE  BackedInv'
<1> DEFINE x == w[c]
           y == AfterTables(z)
<1>1. /\ BackedWarm(src, cp, r2, part, recs, x) /\ BackedHot(src, cp, ch, stg, x)
      /\ Cursor(src, cp, x) /\ TypeInv /\ Sited(part) /\ \A t \in Tables : cp[t] <= src[t]
  BY DEF BackedInv
<1>2. x.pc \in Syncing /\ x.pc \in HotWriting \cup {"fetch"}
  BY DEF Syncing
<1>3. Set(c, y)
  OBVIOUS
<1>4. /\ \A p \in {"commitstg", "rollback", "savecp"} :
           LET v == [z EXCEPT !.pc = p]
           IN  v.pc = p /\ v.mcp = z.mcp /\ v.target = z.target /\ v.done = z.done /\ v.todo = z.todo
  BY DEF Workers
<1>5. /\ y.mcp = x.mcp /\ y.target = x.target /\ y.done = z.done /\ y.todo = {}
      /\ \/ y.pc = "commitstg" /\ z.target = "hot" /\ ~z.err
         \/ y.pc = "rollback" /\ z.target = "hot"
         \/ y.pc = "savecp" /\ (z.target = "hot" => z.done = {})
  BY <1>4 DEF AfterTables
<1> HIDE DEF x, y
<1>6. Cursor(src, cp, y)
  BY <1>1, <1>2, <1>5 DEF Cursor, WarmWriting, Holding, HotWriting
<1>7. \A t \in Tables : Passed(src, cp, y, t) = Passed(src, cp, x, t)
  BY <1>5 DEF Passed
<1>8. ASSUME x.target = "hot", NEW t \in Tables, NEW k \in Passed(src, cp, x, t)
      PROVE  t \in x.done /\ k \in stg[t].rows
  BY <1>1, <1>2, <1>8 DEF BackedHot, x
<1>9. BackedHot(src, cp, ch', stg', y)
  <2>1. CASE y.pc = "commitstg"
    BY <1>5, <1>7, <1>8, <2>1 DEF BackedHot, HotWriting, x
  <2>2. CASE y.pc = "rollback"
    BY <1>5, <2>2 DEF BackedHot, HotWriting, x
  <2>3. CASE y.pc = "savecp"
    BY <1>5, <1>7, <1>8, <2>3 DEF BackedHot, HotWriting, x
  <2> QED
    BY <1>5, <2>1, <2>2, <2>3
<1>10. BackedWarm(src, cp, r2', part', recs', y)
  <2>1. CASE y.target = "hot" \/ y.pc # "savecp"
    BY <1>5, <2>1 DEF BackedWarm, WarmWriting, Holding, Owning
  <2>2. CASE y.target # "hot" /\ y.pc = "savecp"
    <3>1. x.pc = "fetch"
      BY <1>1, <1>2, <1>5, <2>2 DEF BackedHot
    <3>2. \A t \in Tables : \A k \in Passed(src, cp, x, t) : Kept(r2, part, recs, x, t, k)
      BY <1>1, <1>5, <2>2, <3>1 DEF BackedWarm
    <3>3. ASSUME NEW t, NEW k, Kept(r2, part, recs, x, t, k) PROVE Kept(r2', part', recs', y, t, k)
      BY <2>2, <3>3 DEF Kept, Owning
    <3> QED
      BY <1>7, <2>2, <3>2, <3>3 DEF BackedWarm, WarmWriting, Holding, Owning
  <2> QED
    BY <2>1, <2>2
<1> QED
  BY <1>1, <1>3, <1>6, <1>9, <1>10, SoleStep

\* An error in the loop of a sync to the hot tier, or between two tables.
LEMMA LoopFails ==
  ASSUME OneConsumer, BackedInv, TypeInv', NEW c \in Consumers,
         w[c].pc \in HotWriting \cup {"fetch"}, NEW z \in Workers, z.todo = {},
         z.mcp = w[c].mcp, z.target = w[c].target, w[c].done \subseteq z.done,
         Set(c, SyncFailed(z)), UNCHANGED <<src, cp, part, recs, r2, ch>>
  PROVE  BackedInv'
<1> DEFINE v == [z EXCEPT !.err = TRUE, !.new = {}, !.days = {}, !.olds = {}, !.pid = 0, !.fid = 0]
<1>1. v \in Workers /\ v.todo = {} /\ v.mcp = z.mcp /\ v.target = z.target /\ v.done = z.done /\ v.err
  BY DEF Workers
<1>2. Set(c, AfterTables(v))
  BY DEF SyncFailed
<1> HIDE DEF v
<1>3. w[c].todo = {}
  <2>1. w[c].pc \in Writing \cup {"fetch"} /\ TypeInv
    BY DEF HotWriting, Writing, BackedInv
  <2> QED
    BY <2>1, WritingIsInLoop DEF InLoop
<1> QED
  BY <1>1, <1>2, <1>3, AfterLoopBacked

\* fetch_table: everything current beyond the cursor.
LEMMA FetchTableBacked ==
  ASSUME OneConsumer, BackedInv, TypeInv', NEW c \in Consumers, FetchTable(c)
  PROVE  BackedInv'
<1> DEFINE x == w[c]
           new == Fetch(x.ti, x.mcp[x.ti])
           days == {DateOf[k] : k \in new}
           q == IF x.target = "hot" THEN "stage" ELSE "getpart"
           i == x.ti + 1
           y == [x EXCEPT !.new = new, !.days = days, !.pc = q]
           z == [x EXCEPT !.ti = i]
<1>0. x.pc = "fetch" /\ UNCHANGED <<src, cp, part, recs, r2, ch, stg>>
  BY DEF FetchTable, meta, clickhouse
<1>1. /\ BackedWarm(src, cp, r2, part, recs, x) /\ BackedHot(src, cp, ch, stg, x)
      /\ Cursor(src, cp, x) /\ TypeInv /\ Sited(part) /\ \A t \in Tables : cp[t] <= src[t]
  BY DEF BackedInv
<1>2. x \in Workers /\ x.todo = {}
  BY <1>0, <1>1, WritingIsInLoop DEF InLoop
<1>3. NTables \in Nat /\ x.ti \in Nat /\ 1 <= x.ti
  BY <1>2, Constants DEF Workers
<1>4. \/ Set(c, AfterTables(x))
      \/ Set(c, z)
      \/ x.ti <= NTables /\ Set(c, y)
  BY <1>2, <1>3 DEF FetchTable, Workers
<1>5. CASE Set(c, AfterTables(x))
  BY <1>0, <1>2, <1>5, AfterLoopBacked
<1>6. CASE Set(c, z)
  <2> HIDE DEF x
  <2>1. i > x.ti /\ i \in Nat
    BY <1>3
  <2> HIDE DEF i
  <2>2. /\ z.pc = "fetch" /\ z.ti = i /\ z.mcp = x.mcp /\ z.target = x.target /\ z.done = x.done
        /\ z.todo = x.todo
    BY <1>0, <1>2 DEF Workers
  <2>3. Set(c, z)
    BY <1>6
  <2> HIDE DEF z
  <2>4. x.pc \in Syncing
    BY <1>0 DEF Syncing
  <2>5. Cursor(src, cp, z)
    <3>1. \A t \in Tables : z.ti <= t => x.ti <= t
      BY <1>3, <2>1, <2>2 DEF Tables
    <3> QED
      BY <1>0, <1>1, <2>2, <2>4, <3>1 DEF Cursor, WarmWriting, Holding, HotWriting
  <2>6. BackedWarm(src, cp, r2', part', recs', z)
    BY <1>0, <1>1, <2>2 DEF BackedWarm, Passed, Kept, WarmWriting, Holding, Owning
  <2>7. BackedHot(src, cp, ch', stg', z)
    BY <1>0, <1>1, <2>2 DEF BackedHot, Passed, HotWriting
  <2> QED
    BY <1>0, <1>1, <2>3, <2>5, <2>6, <2>7, SoleStep
<1>7. CASE x.ti <= NTables /\ Set(c, y)
  <2>1. x.ti \in Tables /\ x.mcp[x.ti] \in Nat /\ src[x.ti] \in Nat
    <3>1. x.ti \in Tables
      BY <1>3, <1>7 DEF Tables
    <3>2. x.mcp \in [Tables -> 0..MaxRow] /\ src \in [Tables -> 0..MaxRow]
      BY <1>1, <1>2 DEF Workers, TypeInv, DataInv
    <3> QED
      BY <3>1, <3>2, Constants
  <2>2. /\ \A k \in new : k <= src[x.ti]
        /\ \A k \in Newest(src[x.ti]) : x.mcp[x.ti] < k => k \in new
    <3>1. \A k \in Newest(src[x.ti]) : k \in Nat /\ k <= src[x.ti]
      BY <2>1 DEF Newest
    <3> QED
      BY <2>1, <3>1 DEF Fetch
  <2>3. q \in {"stage", "getpart"} /\ (q = "stage" <=> x.target = "hot")
    OBVIOUS
  <2>4. \A k \in new : DateOf[k] \in days
    OBVIOUS
  <2>5. Set(c, y)
    BY <1>7
  <2> HIDE DEF x, new, days, q
  <2>6. /\ y.pc = q /\ y.ti = x.ti /\ y.mcp = x.mcp /\ y.target = x.target /\ y.done = x.done
        /\ y.todo = x.todo /\ y.new = new /\ y.days = days
    BY <1>2 DEF Workers
  <2> HIDE DEF y
  <2>7. x.pc \in Syncing /\ y.pc \notin Holding /\ y.pc \notin Owning
        /\ y.pc \notin {"merge", "swap", "delold", "updpart"}
    BY <1>0, <2>3, <2>6 DEF Syncing, Holding, Owning
  <2>8. Full(src, y)
    BY <2>2, <2>6 DEF Full
  <2>9. Cursor(src, cp, y)
    BY <1>0, <1>1, <2>6, <2>7, <2>8 DEF Cursor
  <2>10. Put(y) = {}
    BY <2>4, <2>6, <2>7 DEF Put
  <2>11. \A t \in Tables : Passed(src, cp, y, t) = Passed(src, cp, x, t)
    BY <2>6 DEF Passed
  <2>12. BackedWarm(src, cp, r2', part', recs', y)
    <3>1. ASSUME NEW t, NEW k, Kept(r2, part, recs, x, t, k) PROVE Kept(r2', part', recs', y, t, k)
      BY <1>0, <2>7, <3>1 DEF Kept
    <3>2. x.target # "hot" => \A t \in Tables : \A k \in Passed(src, cp, x, t) : Kept(r2, part, recs, x, t, k)
      BY <1>0, <1>1 DEF BackedWarm
    <3>3. y.pc \in WarmWriting => y.target # "hot"
      BY <2>3, <2>6 DEF WarmWriting, Holding
    <3>4. y.pc \notin Holding /\ y.pc \notin Owning
      BY <2>7
    <3> QED
      BY <2>6, <2>10, <2>11, <3>1, <3>2, <3>3, <3>4 DEF BackedWarm
  <2>13. BackedHot(src, cp, ch', stg', y)
    BY <1>0, <1>1, <2>3, <2>6, <2>11 DEF BackedHot, HotWriting
  <2> QED
    BY <1>0, <1>1, <2>5, <2>9, <2>12, <2>13, SoleStep
<1> QED
  BY <1>4, <1>5, <1>6, <1>7

\* What a consumer that stages a table has in hand.
LEMMA HotFacts ==
  ASSUME BackedInv, NEW c \in Consumers, w[c].pc \in HotWriting
  PROVE  /\ TypeInv /\ w[c] \in Workers /\ w[c].target = "hot" /\ w[c].ti \in Tables /\ w[c].todo = {}
         /\ stg \in [Tables -> ClickHouseTables]
         /\ Cursor(src, cp, w[c]) /\ Sited(part) /\ \A t \in Tables : cp[t] <= src[t]
         /\ \A t \in Tables : \A k \in Passed(src, cp, w[c], t) : t \in w[c].done /\ k \in stg[t].rows
<1>1. TypeInv /\ w[c] \in Workers /\ w[c].ti \in Tables /\ w[c].todo = {}
  BY CursorHere, WorkerIsRecord DEF BackedInv
<1>2. BackedHot(src, cp, ch, stg, w[c]) /\ stg \in [Tables -> ClickHouseTables]
  BY <1>1 DEF BackedInv, TypeInv, DataInv
<1>3. w[c].target = "hot"
  BY <1>2 DEF BackedHot
<1>4. \A t \in Tables : \A k \in Passed(src, cp, w[c], t) : t \in w[c].done /\ k \in stg[t].rows
  BY <1>1, <1>2, <1>3 DEF BackedHot
<1> QED
  BY <1>1, <1>2, <1>3, <1>4 DEF BackedInv

\* write_hot: the staging table is created, or kept with its rows.
LEMMA CreateStagingBacked ==
  ASSUME OneConsumer, BackedInv, TypeInv', NEW c \in Consumers, CreateStaging(c)
  PROVE  BackedInv'
<1> DEFINE x == w[c]
           d == x.done \cup {x.ti}
           y == [x EXCEPT !.pc = "insert", !.done = d]
<1>0. /\ x.pc = "stage" /\ UNCHANGED <<src, cp, part, recs, r2, ch>> /\ Set(c, y)
      /\ stg' = [stg EXCEPT ![x.ti] = TableOf(@.rows)]
  BY DEF CreateStaging, meta, T
<1>1. /\ TypeInv /\ x \in Workers /\ x.target = "hot" /\ x.ti \in Tables /\ x.todo = {}
      /\ stg \in [Tables -> ClickHouseTables]
      /\ Cursor(src, cp, x) /\ Sited(part) /\ \A t \in Tables : cp[t] <= src[t]
      /\ \A t \in Tables : \A k \in Passed(src, cp, x, t) : t \in x.done /\ k \in stg[t].rows
  BY <1>0, HotFacts DEF HotWriting
<1>2. x.pc \in Syncing /\ x.pc \in HotWriting
  BY <1>0 DEF Syncing, HotWriting
<1> HIDE DEF x
<1>3. x.ti \in d /\ x.done \subseteq d
  OBVIOUS
<1> HIDE DEF d
<1>4. /\ y.pc = "insert" /\ y.done = d /\ y.ti = x.ti /\ y.mcp = x.mcp /\ y.target = x.target
      /\ y.todo = x.todo /\ y.new = x.new
  BY <1>1 DEF Workers
<1> HIDE DEF y
<1>5. \A t \in Tables : stg'[t].rows = stg[t].rows
  BY <1>0, <1>1 DEF TableOf
<1>6. Cursor(src, cp, y)
  BY <1>1, <1>2, <1>4 DEF Cursor, Full, HotWriting
<1>7. BackedHot(src, cp, ch', stg', y)
  BY <1>1, <1>3, <1>4, <1>5 DEF BackedHot, Passed, HotWriting
<1>8. BackedWarm(src, cp, r2', part', recs', y)
  BY <1>1, <1>4 DEF BackedWarm, WarmWriting, Holding, Owning
<1> QED
  BY <1>0, <1>1, <1>6, <1>7, <1>8, SoleStep

\* ... and the batches are inserted.
LEMMA InsertStagingBacked ==
  ASSUME OneConsumer, BackedInv, TypeInv', NEW c \in Consumers, InsertStaging(c)
  PROVE  BackedInv'
<1> DEFINE x == w[c]
<1>0. x.pc = "insert" /\ UNCHANGED <<src, cp, part, recs, r2, ch>>
  BY DEF InsertStaging, meta
<1>1. /\ TypeInv /\ x \in Workers /\ x.target = "hot" /\ x.ti \in Tables /\ x.todo = {}
      /\ stg \in [Tables -> ClickHouseTables]
      /\ Cursor(src, cp, x) /\ Sited(part) /\ \A t \in Tables : cp[t] <= src[t]
      /\ \A t \in Tables : \A k \in Passed(src, cp, x, t) : t \in x.done /\ k \in stg[t].rows
  BY <1>0, HotFacts DEF HotWriting
<1>2. x.pc \in HotWriting
  BY <1>0 DEF HotWriting
<1>3. CASE ~stg[x.ti].exists
  <2>1. Set(c, SyncFailed(x))
    BY <1>3 DEF InsertStaging, T
  <2> QED
    BY <1>0, <1>1, <1>2, <2>1, LoopFails
<1>4. CASE stg[x.ti].exists
  <2> DEFINE y == TableDone(x)
  <2>1. Set(c, y) /\ stg' = [stg EXCEPT ![x.ti].rows = @ \cup x.new]
    BY <1>4 DEF InsertStaging, T
  <2>2. x.ti \in x.done
    BY <1>0 DEF BackedInv, BackedHot
  <2> HIDE DEF x
  <2>3. /\ y.pc = "fetch" /\ y.mcp = [x.mcp EXCEPT ![x.ti] = Max(x.new)] /\ y.ti = x.ti + 1
        /\ y.target = x.target /\ y.done = x.done /\ y.todo = x.todo
    BY <1>1 DEF TableDone, Workers
  <2> HIDE DEF y
  <2>4. Cursor(src, cp, y) /\ \A t \in Tables : \A k \in Passed(src, cp, y, t) :
          k \in Passed(src, cp, x, t) \/ (t = x.ti /\ k \in x.new)
    BY <1>2, <2>3, TableEnd DEF x
  <2>5. stg'[x.ti].rows = stg[x.ti].rows \cup x.new /\ \A t \in Tables : t # x.ti => stg'[t] = stg[t]
    BY <1>1, <2>1 DEF ClickHouseTables
  <2>6. \A t \in Tables : \A k \in Passed(src, cp, y, t) : t \in y.done /\ k \in stg'[t].rows
    BY <1>1, <2>2, <2>3, <2>4, <2>5
  <2>7. BackedHot(src, cp, ch', stg', y)
    BY <1>1, <2>3, <2>6 DEF BackedHot, HotWriting
  <2>8. BackedWarm(src, cp, r2', part', recs', y)
    BY <1>1, <2>3 DEF BackedWarm, WarmWriting, Holding, Owning
  <2> QED
    BY <1>0, <1>1, <2>1, <2>4, <2>7, <2>8, SoleStep
<1> QED
  BY <1>3, <1>4

\* A call of the loop fails.
LEMMA SyncStepFailsBacked ==
  ASSUME OneConsumer, BackedInv, TypeInv', NEW c \in Consumers, SyncStepFails(c)
  PROVE  BackedInv'
<1> DEFINE x == w[c]
           d == IF x.pc = "stage" THEN x.done \cup {x.ti} ELSE x.done
           z == [x EXCEPT !.done = d]
<1>0. /\ x.pc \in WarmWriting \cup HotWriting \cup {"fetch"}
      /\ UNCHANGED <<src, cp, part, recs, ch>>
      /\ r2' = r2 \/ (x.pc = "swap" /\ r2' = {o \in r2 : o.key # x.fid})
  BY DEF SyncStepFails, meta, WarmWriting, Holding, HotWriting
<1>1. Set(c, SyncFailed(z))
  <2>1. z = [x EXCEPT !.done = IF x.pc = "stage" THEN @ \cup {T(c)} ELSE @]
    BY WorkerIsRecord DEF T, BackedInv, Workers
  <2> QED
    BY <2>1 DEF SyncStepFails
<1>2. x \in Workers /\ x.todo = {}
  <2>1. x.pc \in Writing \cup {"fetch"} /\ TypeInv
    BY <1>0 DEF WarmWriting, Holding, HotWriting, Writing, BackedInv
  <2> QED
    BY <2>1, WritingIsInLoop DEF InLoop
<1>3. d \in SUBSET Tables /\ x.done \subseteq d
  <2>1. x.pc = "stage" => x.ti \in Tables
    BY CursorHere DEF HotWriting
  <2> QED
    BY <1>2, <2>1 DEF Workers
<1>4. z \in Workers /\ z.todo = {} /\ z.mcp = x.mcp /\ z.target = x.target /\ z.done = d
  <2> HIDE DEF x, d
  <2> QED
    BY <1>2, <1>3 DEF Workers
<1> HIDE DEF z
<1>5. CASE x.pc \in WarmWriting
  <2>1. SameSites(part, part')
    BY <1>0 DEF SameSites
  <2> QED
    BY <1>0, <1>1, <1>4, <1>5, <2>1, FailBacked
<1>6. CASE x.pc \in HotWriting \cup {"fetch"}
  <2>1. r2' = r2
    BY <1>0, <1>6 DEF HotWriting
  <2> QED
    BY <1>0, <1>1, <1>3, <1>4, <1>6, <2>1, LoopFails
<1> QED
  BY <1>0, <1>5, <1>6

\* The staged tables become the production tables one by one.
LEMMA CommitStagingBacked ==
  ASSUME OneConsumer, BackedInv, TypeInv', NEW c \in Consumers, CommitStaging(c)
  PROVE  BackedInv'
<1> DEFINE x == w[c]
           left == x.done \ x.todo
           t == Min(left)
           q == IF left = {t} THEN "savecp" ELSE "commitstg"
           s == x.todo \cup {t}
           y == [x EXCEPT !.todo = s, !.pc = q]
           z == [x EXCEPT !.pc = "rollback", !.err = TRUE]
<1>0. x.pc = "commitstg" /\ UNCHANGED <<src, cp, part, recs, r2>>
  BY DEF CommitStaging, meta
<1>1. /\ TypeInv /\ x \in Workers /\ Cursor(src, cp, x) /\ BackedHot(src, cp, ch, stg, x)
      /\ Sited(part) /\ \A u \in Tables : cp[u] <= src[u]
  BY WorkerIsRecord DEF BackedInv
<1>2. ch \in [Tables -> ClickHouseTables] /\ stg \in [Tables -> ClickHouseTables]
  BY <1>1 DEF TypeInv, DataInv
<1>3. left # {} /\ left \subseteq Tables
  <2>1. WorkerInv(x, nextJob, fresh)
    BY <1>1 DEF TypeInv, WorkersInv
  <2> QED
    BY <1>0, <1>1, <2>1 DEF WorkerInv, Workers
<1>4. \/ Set(c, y) /\ ch' = [ch EXCEPT ![t] = stg[t]] /\ stg' = [stg EXCEPT ![t] = NoTable]
      \/ Set(c, z) /\ (UNCHANGED <<ch, stg>> \/ ch' = [ch EXCEPT ![t] = stg[t]])
  BY DEF CommitStaging, clickhouse
<1> HIDE DEF x, left
<1>5. t \in left /\ t \in Tables
  <2>1. left \in SUBSET Nat
    BY <1>3 DEF Tables
  <2> QED
    BY <1>3, <2>1, MinOfNat
<1> HIDE DEF t
<1>6. x.target = "hot" /\ \A u \in Tables : \A k \in Passed(src, cp, x, u) :
        u \in x.done /\ k \in (IF u \in x.todo THEN ch[u] ELSE stg[u]).rows
  BY <1>0, <1>1 DEF BackedHot
<1>7. q \in {"savecp", "commitstg"} /\ (q = "savecp" => left = {t})
  OBVIOUS
<1> HIDE DEF q, s
<1>8. /\ y.pc = q /\ y.todo = s /\ y.done = x.done /\ y.mcp = x.mcp /\ y.target = x.target
      /\ z.pc = "rollback" /\ z.todo = x.todo /\ z.mcp = x.mcp /\ z.target = x.target
  BY <1>1 DEF Workers
<1> HIDE DEF y, z
<1>9. x.pc \in Syncing
  BY <1>0 DEF Syncing
<1>10. Cursor(src, cp, y) /\ Cursor(src, cp, z)
  BY <1>1, <1>7, <1>8, <1>9 DEF Cursor, WarmWriting, Holding, HotWriting
<1>11. BackedWarm(src, cp, r2', part', recs', y) /\ BackedWarm(src, cp, r2', part', recs', z)
  BY <1>6, <1>7, <1>8 DEF BackedWarm, WarmWriting, Holding, Owning
<1>12. \A u \in Tables : Passed(src, cp, y, u) = Passed(src, cp, x, u) /\ Passed(src, cp, z, u) = Passed(src, cp, x, u)
  BY <1>8 DEF Passed
<1>13. CASE Set(c, y) /\ ch' = [ch EXCEPT ![t] = stg[t]] /\ stg' = [stg EXCEPT ![t] = NoTable]
  <2>1. ASSUME NEW u \in Tables, NEW k \in Passed(src, cp, x, u)
        PROVE  /\ u \in y.done /\ k \in (IF u \in y.todo THEN ch'[u] ELSE stg'[u]).rows
               /\ y.pc = "savecp" => u \in y.todo
    <3>1. u \in x.done /\ k \in (IF u \in x.todo THEN ch[u] ELSE stg[u]).rows
      BY <1>6
    <3>2. u = t \/ (ch'[u] = ch[u] /\ stg'[u] = stg[u])
      BY <1>2, <1>13
    <3>3. ch'[t] = stg[t] /\ t \notin x.todo /\ t \in y.todo /\ y.todo = x.todo \cup {t}
      BY <1>2, <1>5, <1>8, <1>13 DEF left, s
    <3>4. y.pc = "savecp" => u \in y.todo
      BY <1>7, <1>8, <3>1, <3>3 DEF left
    <3> QED
      BY <1>8, <3>1, <3>2, <3>3, <3>4
  <2>2. BackedHot(src, cp, ch', stg', y)
    BY <1>6, <1>7, <1>8, <1>12, <2>1 DEF BackedHot, HotWriting
  <2> QED
    BY <1>0, <1>1, <1>10, <1>11, <1>13, <2>2, SoleStep
<1>14. CASE Set(c, z) /\ (UNCHANGED <<ch, stg>> \/ ch' = [ch EXCEPT ![t] = stg[t]])
  <2>1. \A u \in Tables : u \in x.todo => ch'[u] = ch[u]
    BY <1>2, <1>5, <1>14 DEF left
  <2>2. \A u \in z.todo \cap Tables : \A k \in Passed(src, cp, z, u) : k \in ch'[u].rows
    BY <1>6, <1>8, <1>12, <2>1
  <2>3. BackedHot(src, cp, ch', stg', z)
    BY <1>6, <1>8, <2>2 DEF BackedHot, HotWriting
  <2> QED
    BY <1>0, <1>1, <1>10, <1>11, <1>14, <2>3, SoleStep
<1> QED
  BY <1>4, <1>13, <1>14

\* The uncommitted staging tables are dropped.
LEMMA RollbackStagingBacked ==
  ASSUME OneConsumer, BackedInv, TypeInv', NEW c \in Consumers, RollbackStaging(c)
  PROVE  BackedInv'
<1> DEFINE x == w[c]
           q == IF x.todo = {} THEN "finish" ELSE "partialcp"
           y == [x EXCEPT !.pc = q]
<1>0. x.pc = "rollback" /\ UNCHANGED <<src, cp, part, recs, r2, ch>> /\ Set(c, y)
  BY DEF RollbackStaging, Goto, meta
<1>1. /\ TypeInv /\ x \in Workers /\ Cursor(src, cp, x) /\ BackedHot(src, cp, ch, stg, x)
      /\ Sited(part) /\ \A u \in Tables : cp[u] <= src[u]
  BY WorkerIsRecord DEF BackedInv
<1>2. q \in {"finish", "partialcp"}
  OBVIOUS
<1> HIDE DEF x, q
<1>3. y.pc = q /\ y.todo = x.todo /\ y.mcp = x.mcp /\ y.target = x.target
  BY <1>1 DEF Workers
<1> HIDE DEF y
<1>4. x.pc \in Syncing
  BY <1>0 DEF Syncing
<1>5. Cursor(src, cp, y)
  BY <1>1, <1>2, <1>3, <1>4 DEF Cursor, WarmWriting, Holding, HotWriting
<1>6. BackedWarm(src, cp, r2', part', recs', y)
  BY <1>2, <1>3 DEF BackedWarm, WarmWriting, Holding, Owning
<1>7. BackedHot(src, cp, ch', stg', y)
  BY <1>0, <1>1, <1>2, <1>3 DEF BackedHot, Passed, HotWriting
<1> QED
  BY <1>0, <1>1, <1>5, <1>6, <1>7, SoleStep

-----------------------------------------------------------------------------
(* The theorem. *)

\* The invariant holds initially ...
LEMMA BackedInit == Init => BackedInv
<1> SUFFICES ASSUME Init PROVE BackedInv
  OBVIOUS
<1>1. TypeInv
  BY TypeInit
<1>2. \A c \in Consumers : w[c].pc \notin Syncing
  BY DEF Init, IdleWorker, Syncing, WarmWriting, Holding, HotWriting
<1>3. Sited(part) /\ \A t \in Tables : cp[t] <= src[t]
  BY DEF Init, Sited
<1> QED
  BY <1>1, <1>2, <1>3, NoClaim DEF BackedInv

\* ... and every step keeps it.
LEMMA BackedNext ==
  ASSUME OneConsumer, BackedInv, [Next]_vars
  PROVE  BackedInv'
<1>0. TypeInv' /\ Sited(part')
  BY TypeStep, SitedNext DEF BackedInv
<1>1. CASE UNCHANGED vars
  <2>1. UNCHANGED <<src, cp, r2, part, recs, ch, stg, w>>
    BY <1>1 DEF vars, meta, clickhouse
  <2> QED
    BY <1>0, <2>1 DEF BackedInv
<1>2. ASSUME NEW t \in Tables, SourceChange(t) PROVE BackedInv'
  BY <1>0, <1>2, SourceChangeBacked
<1>3. ASSUME NEW c \in Consumers,
             NewJob(c) \/ Redeliver(c) \/ FinishJob(c) \/ Crash(c) \/ TransitionNext(c)
      PROVE  BackedInv'
  BY <1>0, <1>3, OutOfSyncBacked
<1>4. ASSUME NEW c \in Consumers, SyncNext(c) PROVE BackedInv'
  BY <1>0, <1>4, OutOfSyncBacked, CleanupOrphansBacked, FetchTableBacked, GetPartitionBacked,
     UploadNewBacked, AddPartitionFileBacked, UpdatePartitionBacked, ListPartitionFilesBacked,
     MergeUploadBacked, SwapPartitionFilesBacked, DeleteOldFilesBacked, CreateStagingBacked,
     InsertStagingBacked, SyncStepFailsBacked, RollbackStagingBacked, CommitStagingBacked DEF SyncNext
<1> QED
  BY <1>1, <1>2, <1>3, <1>4 DEF Next

\* The checkpoint moves where a sync saves it.
LEMMA CheckpointSaved ==
  ASSUME [Next]_vars
  PROVE  cp' = cp \/ \E c \in Consumers : SaveCheckpoint(c) \/ SavePartialCheckpoint(c)
<1>1. CASE UNCHANGED vars
  BY <1>1 DEF vars, meta
<1>2. ASSUME NEW t \in Tables, SourceChange(t) PROVE cp' = cp
  BY <1>2 DEF SourceChange, meta
<1>3. ASSUME NEW c \in Consumers, NewJob(c) \/ Redeliver(c) \/ FinishJob(c) \/ Crash(c) PROVE cp' = cp
  BY <1>3 DEF NewJob, Redeliver, StartJob, FinishJob, Crash, meta
<1>4. ASSUME NEW c \in Consumers, SyncNext(c)
      PROVE  cp' = cp \/ SaveCheckpoint(c) \/ SavePartialCheckpoint(c)
  <2>1. CASE CleanupOrphans(c) \/ FetchTable(c) \/ GetPartition(c) \/ UploadNew(c) \/ AddPartitionFile(c)
    BY <2>1 DEF CleanupOrphans, FetchTable, GetPartition, UploadNew, AddPartitionFile, meta
  <2>2. CASE UpdatePartition(c) \/ ListPartitionFiles(c) \/ MergeUpload(c) \/ SwapPartitionFiles(c)
             \/ DeleteOldFiles(c)
    BY <2>2 DEF UpdatePartition, ListPartitionFiles, MergeUpload, SwapPartitionFiles, DeleteOldFiles, meta
  <2>3. CASE CreateStaging(c) \/ InsertStaging(c) \/ SyncStepFails(c) \/ RollbackStaging(c)
             \/ CommitStaging(c) \/ CommitSync(c) \/ JobStepFails(c)
    BY <2>3 DEF CreateStaging, InsertStaging, SyncStepFails, RollbackStaging, CommitStaging,
                CommitSync, JobStepFails, meta
  <2> QED
    BY <1>4, <2>1, <2>2, <2>3 DEF SyncNext
<1>5. ASSUME NEW c \in Consumers, TransitionNext(c) PROVE cp' = cp
  <2>1. CASE SetTier(c) \/ ListPartitions(c) \/ ImportPartition(c) \/ CleanR2(c) \/ DeleteParts(c)
             \/ ListClickHouse(c) \/ ExportTable(c)
    BY <2>1 DEF SetTier, ListPartitions, ImportPartition, CleanR2, DeleteParts, ListClickHouse,
                ExportTable, meta
  <2>2. CASE RecordExport(c) \/ DropClickHouse(c) \/ DropStaging(c) \/ PurgeClickHouse(c) \/ PurgeR2(c)
    BY <2>2 DEF RecordExport, DropClickHouse, DropStaging, PurgeClickHouse, PurgeR2, meta
  <2> QED
    BY <1>5, <2>1, <2>2 DEF TransitionNext
<1> QED
  BY <1>1, <1>2, <1>3, <1>4, <1>5 DEF Next

\* With one consumer and jobs of every type the saved checkpoint only moves past
\* rows that R2 or the production table holds: not past a staging table that was
\* rolled back, an upload that failed, or a commit that stopped half way
\* (sync_source, save_source_checkpoint).
THEOREM CheckpointIsBackedInEveryTier ==
  ASSUME OneConsumer
  PROVE  Spec => CheckpointAdvanceIsBacked
<1>1. BackedInv /\ [Next]_vars => BackedInv'
  BY BackedNext
<1>2. ASSUME BackedInv, BackedInv', [Next]_vars
      PROVE  \A t \in Tables : \A k \in Newest(src[t]) :
               cp[t] < k /\ k <= cp'[t] => k \in R2Rows(t) \cup ch[t].rows
  <2> SUFFICES ASSUME NEW t \in Tables, NEW k \in Newest(src[t]), cp[t] < k, k <= cp'[t]
               PROVE  k \in R2Rows(t) \cup ch[t].rows
    OBVIOUS
  <2>1. src[t] \in Nat /\ cp[t] \in Nat /\ k \in Nat
    <3>1. src[t] \in Nat /\ cp[t] \in Nat
      BY <1>2, Constants DEF BackedInv, TypeInv, DataInv
    <3> QED
      BY <3>1 DEF Newest
  <2>2. cp' # cp
    BY <2>1
  <2>3. PICK c \in Consumers : SaveCheckpoint(c) \/ SavePartialCheckpoint(c)
    BY <1>2, <2>2, CheckpointSaved
  <2>4. BackedWarm(src, cp, r2, part, recs, w[c]) /\ BackedHot(src, cp, ch, stg, w[c])
    BY <1>2 DEF BackedInv
  <2>5. CASE SaveCheckpoint(c)
    <3>1. w[c].pc = "savecp" /\ k \in Passed(src, cp, w[c], t)
      BY <2>5 DEF SaveCheckpoint, Passed
    <3>2. CASE w[c].target = "hot"
      BY <2>4, <3>1, <3>2 DEF BackedHot
    <3>3. CASE w[c].target # "hot"
      <4>1. Kept(r2, part, recs, w[c], t, k)
        BY <2>4, <3>1, <3>3 DEF BackedWarm
      <4> QED
        BY <4>1 DEF Kept, R2Rows
    <3> QED
      BY <3>2, <3>3
  <2>6. CASE SavePartialCheckpoint(c)
    <3>1. w[c].pc = "partialcp" /\ cp' = [u \in Tables |-> IF u \in w[c].todo THEN w[c].mcp[u] ELSE 0]
      BY <2>2, <2>6 DEF SavePartialCheckpoint
    <3>2. t \in w[c].todo /\ k <= w[c].mcp[t]
      BY <2>1, <3>1
    <3>3. k \in Passed(src, cp, w[c], t)
      BY <3>2 DEF Passed
    <3> QED
      BY <2>4, <3>1, <3>2, <3>3 DEF BackedHot
  <2> QED
    BY <2>3, <2>5, <2>6
<1>3. BackedInv /\ BackedInv' /\ [Next]_vars =>
        [\A t \in Tables : \A k \in Newest(src[t]) :
           cp[t] < k /\ k <= cp'[t] => k \in R2Rows(t) \cup ch[t].rows]_vars
  BY <1>2
<1> QED
  BY <1>1, <1>3, BackedInit, PTL DEF Spec, CheckpointAdvanceIsBacked

=============================================================================
