--------------------------- MODULE WarehouseSync ---------------------------
(***************************************************************************)
(* What a warehouse job does to the data of ONE source of Pond: the sync   *)
(* executor and the tier transitions of the sync job consumer, with the    *)
(* metadata they keep in PostgreSQL, the Parquet objects in R2 and the     *)
(* tables in ClickHouse.                                                   *)
(*                                                                         *)
(* A row version is its incremental key, a number; a version carries a     *)
(* primary key and a date.  The external source holds, of every primary    *)
(* key, the newest version.  Warm queries read every object under the      *)
(* prefix of the table, hot queries read the ClickHouse table, whatever    *)
(* the metadata says.                                                      *)
(*                                                                         *)
(* One action is one statement or call to PostgreSQL, R2 or ClickHouse     *)
(* (an export is filed under its partition row in the same action); a      *)
(* consumer may fail, or die, between any two of them, and the job is then *)
(* delivered again; a consumer that lost its Kafka partition carries on    *)
(* while another one runs the same job.                                    *)
(***************************************************************************)
EXTENDS Naturals, FiniteSets, FiniteSetsExt

CONSTANTS
  Consumers,   \* sync job consumers
  NTables,     \* the tables of the source, in the order list_tables returns
  MaxRow,      \* bound: row versions per table
  MaxChanges,  \* bound: row versions of all tables together
  PkOf,        \* the primary key of a version
  DateOf,      \* the date bucket of a version
  Today,       \* the date an export is filed under
  JobKinds,    \* the job types that are produced
  MaxJobs,     \* bound: jobs
  MaxFaults    \* bound: failed calls, crashes and lost partitions together

Tables == 1..NTables
Versions == 1..MaxRow
Jobs == 1..MaxJobs
Tiers == {"cold", "warm", "hot"}
Kinds == {"sync", "upgrade_to_warm", "upgrade_to_hot",
          "downgrade_to_warm", "downgrade_to_cold"}

ASSUME ConstantsAssumption ==
  /\ NTables \in Nat \ {0} /\ MaxRow \in Nat /\ MaxChanges \in Nat /\ Today \in Nat
  /\ MaxJobs \in Nat /\ MaxFaults \in Nat
  /\ JobKinds \subseteq Kinds
  /\ DOMAIN PkOf = Versions /\ DateOf \in [Versions -> Nat]

VARIABLES
  src,     \* external source: the newest version of each table
  tier,    \* warehouse_sources.tier
  cp,      \* warehouse_sources.sync_checkpoint: last_value per table, 0 if none
  r2,      \* Parquet objects: key, table, date, versions
  part,    \* warehouse_partitions rows
  recs,    \* warehouse_partition_files rows
  ch,      \* ClickHouse production tables
  stg,     \* ClickHouse staging tables
  job,     \* warehouse_jobs.status
  kind,    \* warehouse_jobs.job_type
  nextJob,
  fresh,   \* the next fresh Uuid (partitions and objects)
  w,       \* the consumers' local state
  faults

meta == <<cp, part, recs>>
clickhouse == <<ch, stg>>
queue == <<job, kind, nextJob>>
vars == <<src, tier, meta, r2, clickhouse, queue, fresh, w, faults>>

NoTable == [exists |-> FALSE, rows |-> {}]
TableOf(rows) == [exists |-> TRUE, rows |-> rows]

\* A consumer between two jobs.
IdleWorker ==
  [pc |-> "idle", job |-> 0, target |-> "cold", ti |-> 1, new |-> {}, days |-> {},
   mcp |-> [t \in Tables |-> 0], done |-> {}, todo |-> {}, olds |-> {},
   pid |-> 0, fid |-> 0, err |-> FALSE]

-----------------------------------------------------------------------------
(* Derived values. *)

\* Of every primary key among versions 1..n, the newest version.
Newest(n) == {k \in 1..n : \A m \in (k + 1)..n : PkOf[m] # PkOf[k]}

\* fetch_table: WHERE key > last_value on what the source holds now.
Fetch(t, last) == {k \in Newest(src[t]) : k > last}

R2Rows(t) == UNION {o.rows : o \in {x \in r2 : x.t = t}}
R2Keys == {o.key : o \in r2}

PartAt(t, d) == {p \in part : p.t = t /\ p.d = d}
PartId(id) == {p \in part : p.id = id}
CommittedRecs(pid) == {r \in recs : r.part = pid /\ r.state = "committed"}

Spend == faults < MaxFaults /\ faults' = faults + 1

\* The local state of c after a step.
Set(c, rec) == w' = [w EXCEPT ![c] = rec]
Goto(c, pc) == Set(c, [w[c] EXCEPT !.pc = pc])
T(c) == w[c].ti
Day(c) == Min(w[c].days)
NewToday(c) == {k \in w[c].new : DateOf[k] = Day(c)}

\* Mutant: the checkpoint is saved although the staging tables are not committed.
AfterTablesSave(rec) ==
  [rec EXCEPT !.pc = IF rec.target = "hot" /\ rec.done # {} /\ ~rec.err
                     THEN "commitstg" ELSE "savecp"]

\* After the loop over the tables: staging is committed or dropped,
\* otherwise the checkpoint is saved, after an error too.
AfterTables(rec) ==
  CASE rec.target = "hot" /\ rec.done # {} /\ ~rec.err -> [rec EXCEPT !.pc = "commitstg"]
    [] rec.target = "hot" /\ rec.done # {} /\ rec.err  -> [rec EXCEPT !.pc = "rollback"]
    [] OTHER                                          -> [rec EXCEPT !.pc = "savecp"]

\* The table in hand is written: the in-memory cursor advances.
TableDone(rec) ==
  [rec EXCEPT !.pc = "fetch", !.mcp[rec.ti] = Max(rec.new), !.ti = @ + 1,
              !.new = {}, !.days = {}, !.olds = {}, !.pid = 0, !.fid = 0]

SyncFailed(rec) ==
  AfterTables([rec EXCEPT !.err = TRUE, !.new = {}, !.days = {}, !.olds = {},
                          !.pid = 0, !.fid = 0])

\* get_or_create_partition: the row of the date, its id, and the next Uuid.
\* A new row is committed by the column default.
PartitionFor(t, d) ==
  IF PartAt(t, d) # {}
  THEN [rows |-> part, id |-> (CHOOSE p \in PartAt(t, d) : TRUE).id, fresh |-> fresh]
  ELSE [rows |-> part \cup {[id |-> fresh, t |-> t, d |-> d, state |-> "committed",
                             job |-> 0, path |-> "none"]},
        id |-> fresh, fresh |-> fresh + 1]

\* update_partition_data: the row turns pending under the job; a deleted row
\* matches nothing.
update_partition_data(id, path, j) ==
  part' = {IF p.id = id THEN [p EXCEPT !.state = "pending", !.job = j, !.path = path]
           ELSE p : p \in part}

\* Mutant: a foreign key without ON DELETE CASCADE.
DeletePartitionsOnly(ids) == part' = {p \in part : p.id \notin ids} /\ UNCHANGED recs

\* DELETE FROM warehouse_partitions: file records go with them (CASCADE).
DeletePartitions(ids) ==
  /\ part' = {p \in part : p.id \notin ids}
  /\ recs' = {r \in recs : r.part \notin ids}

\* Objects are deleted best effort: some deletes may fail, and are only logged.
delete_objects(keys) ==
  \E gone \in SUBSET (keys \cap R2Keys) :
    /\ r2' = {o \in r2 : o.key \notin gone}
    /\ IF gone = keys \cap R2Keys THEN UNCHANGED faults ELSE Spend

-----------------------------------------------------------------------------
(* Jobs. *)

\* The external source changes: a new row, or a new version of one.
SourceChange(t) ==
  /\ src[t] < MaxRow /\ Cardinality({x \in Tables \X Versions : x[2] <= src[x[1]]}) < MaxChanges
  /\ src' = [src EXCEPT ![t] = @ + 1]
  /\ UNCHANGED <<tier, meta, r2, clickhouse, queue, fresh, w, faults>>

\* A consumer that begins job j with step pc towards a tier.
Begin(j, pc, target) == [IdleWorker EXCEPT !.job = j, !.pc = pc, !.target = target]

\* process_message: the path the job type and the tier select.  A sync of a cold
\* source is an error, a downgrade to warm of one that is not hot does nothing.
FirstStep(j, k) ==
  CASE k = "upgrade_to_warm"                    -> Begin(j, "cleanup", "warm")
    [] k = "sync" /\ tier = "cold"              -> [Begin(j, "finish", "cold") EXCEPT !.err = TRUE]
    [] k = "sync" /\ tier # "cold"              -> Begin(j, "cleanup", tier)
    [] k = "upgrade_to_hot" /\ tier = "warm"    -> Begin(j, "list", "hot")
    [] k = "upgrade_to_hot" /\ tier # "warm"    -> Begin(j, "cleanup", "hot")
    [] k = "downgrade_to_warm" /\ tier = "hot"  -> Begin(j, "listch", "warm")
    [] k = "downgrade_to_warm" /\ tier # "hot"  -> Begin(j, "finish", "cold")
    [] k = "downgrade_to_cold" /\ tier = "hot"  -> Begin(j, "purgech", "cold")
    [] OTHER                                    -> Begin(j, "purger2", "cold")

\* ... after its status is running.
StartJob(c, j, k) ==
  /\ job' = [job EXCEPT ![j] = "running"]
  /\ Set(c, FirstStep(j, k))
  /\ UNCHANGED <<src, tier, meta, r2, clickhouse, fresh>>

\* The next message of the partition: the earlier ones were processed.
NewJob(c) ==
  /\ w[c].pc = "idle" /\ nextJob <= MaxJobs
  /\ \A j \in 1..(nextJob - 1) : job[j] # "running"
  /\ \E k \in JobKinds :
       /\ kind' = [kind EXCEPT ![nextJob] = k]
       /\ StartJob(c, nextJob, k)
  /\ nextJob' = nextJob + 1
  /\ UNCHANGED faults

\* A message is delivered again: its consumer died, or (a fault) it lost the
\* partition, or its commit and those of later messages got lost.
Redeliver(c) ==
  /\ w[c].pc = "idle"
  /\ \E j \in 1..(nextJob - 1) :
         /\ StartJob(c, j, kind[j])
         /\ IF job[j] = "running" /\ \A d \in Consumers : w[d].job # j
            THEN UNCHANGED faults ELSE Spend
  /\ UNCHANGED <<kind, nextJob>>

\* status completed or failed.
FinishJob(c) ==
  /\ w[c].pc = "finish"
  /\ job' = [job EXCEPT ![w[c].job] = IF w[c].err THEN "failed" ELSE "completed"]
  /\ Set(c, IdleWorker)
  /\ UNCHANGED <<src, tier, meta, r2, clickhouse, kind, nextJob, fresh, faults>>

Crash(c) ==
  /\ w[c].pc # "idle"
  /\ Spend
  /\ Set(c, IdleWorker)
  /\ UNCHANGED <<src, tier, meta, r2, clickhouse, queue, fresh>>

-----------------------------------------------------------------------------
(* SyncExecutor::sync_source. *)

\* cleanup_orphans, then load_checkpoint.  A partition is an orphan when it is
\* pending under a failed job, or (after six hours) under one not running.  Of
\* its data only an object whose exact key is in parquet_path is deleted, best
\* effort; an error of the two statements is only logged.
CleanupOrphans(c) ==
  /\ w[c].pc = "cleanup"
  /\ \E aged \in BOOLEAN :
       LET orphans == {p \in part : p.state = "pending"
                                    /\ \/ job[p.job] = "failed"
                                       \/ aged /\ job[p.job] # "running"}
           keys    == {p.id : p \in {x \in orphans : x.path = "key"}}
       IN  \/ delete_objects(keys) /\ DeletePartitions({p.id : p \in orphans})
           \/ /\ Spend
              /\ r2' \in {r2, {o \in r2 : o.key \notin keys}}
              /\ UNCHANGED <<part, recs>>
  /\ Set(c, [w[c] EXCEPT !.pc = "fetch", !.mcp = cp])
  /\ UNCHANGED <<src, tier, cp, clickhouse, queue, fresh>>

\* fetch_table for the next table; no rows, no work.
FetchTable(c) ==
  /\ w[c].pc = "fetch"
  /\ LET rec == w[c]
         new == Fetch(rec.ti, rec.mcp[rec.ti])
     IN  Set(c, CASE rec.ti > NTables       -> AfterTables(rec)
                  [] rec.ti <= NTables /\ new = {} -> [rec EXCEPT !.ti = @ + 1]
                  [] OTHER -> [rec EXCEPT !.new = new, !.days = {DateOf[k] : k \in new},
                                 !.pc = IF rec.target = "hot" THEN "stage" ELSE "getpart"])
  /\ UNCHANGED <<src, tier, meta, r2, clickhouse, queue, fresh, faults>>

\* The next date: its partition row.  The first sync of a table appends files,
\* an incremental one merges.
GetPartition(c) ==
  /\ w[c].pc = "getpart"
  /\ LET p == PartitionFor(T(c), Day(c))
     IN  /\ part' = p.rows
         /\ fresh' = p.fresh
         /\ Set(c, [w[c] EXCEPT !.pid = p.id,
                      !.pc = IF w[c].mcp[T(c)] = 0 THEN "upload" ELSE "listfiles"])
  /\ UNCHANGED <<src, tier, cp, recs, r2, clickhouse, queue, faults>>

\* write_warm_incremental, one date: the upload ...
UploadNew(c) ==
  /\ w[c].pc = "upload"
  /\ r2' = r2 \cup {[key |-> fresh, t |-> T(c), d |-> Day(c), rows |-> NewToday(c)]}
  /\ fresh' = fresh + 1
  /\ Set(c, [w[c] EXCEPT !.pc = "addrec", !.fid = fresh])
  /\ UNCHANGED <<src, tier, meta, clickhouse, queue, faults>>

\* ... add_partition_file (its foreign keys need the partition to be there) ...
AddPartitionFile(c) ==
  /\ w[c].pc = "addrec"
  /\ IF PartId(w[c].pid) # {}
     THEN /\ recs' = recs \cup {[file |-> w[c].fid, part |-> w[c].pid,
                                 state |-> "pending", job |-> w[c].job]}
          /\ Goto(c, "updpart")
     ELSE Set(c, SyncFailed(w[c])) /\ UNCHANGED recs
  /\ UNCHANGED <<src, tier, cp, part, r2, clickhouse, queue, fresh, faults>>

\* ... and update_partition_metadata, with the directory as parquet_path.  After
\* the last date the table is registered, which may fail.
UpdatePartition(c) ==
  /\ w[c].pc = "updpart"
  /\ update_partition_data(w[c].pid, "dir", w[c].job)
  /\ LET rest == w[c].days \ {Day(c)}
         rec  == [w[c] EXCEPT !.pc = "getpart", !.days = rest, !.pid = 0, !.fid = 0, !.olds = {}]
     IN  \/ rest # {} /\ Set(c, rec) /\ UNCHANGED faults
         \/ rest = {} /\ Set(c, TableDone(rec)) /\ UNCHANGED faults
         \/ rest = {} /\ Set(c, SyncFailed(rec)) /\ Spend
  /\ UNCHANGED <<src, tier, cp, recs, r2, clickhouse, queue, fresh>>

\* merge_warm_incremental, one date: the committed files of the partition ...
ListPartitionFiles(c) ==
  /\ w[c].pc = "listfiles"
  /\ Set(c, [w[c] EXCEPT !.pc = "merge", !.olds = {r.file : r \in CommittedRecs(w[c].pid)}])
  /\ UNCHANGED <<src, tier, meta, r2, clickhouse, queue, fresh, faults>>

\* Mutant: the existing rows are not carried over.
merge_new_only(old, new) == new

\* merge_batches_by_pk: new rows replace existing ones of the same key.
merge_batches_by_pk(old, new) ==
  {k \in old : \A m \in new : PkOf[m] # PkOf[k]} \cup new

\* ... are downloaded, merged and uploaded as a new object (a missing object
\* aborts the merge) ...
MergeUpload(c) ==
  /\ w[c].pc = "merge"
  /\ IF w[c].olds \subseteq R2Keys
     THEN LET old == UNION {o.rows : o \in {x \in r2 : x.key \in w[c].olds}}
          IN  /\ r2' = r2 \cup {[key |-> fresh, t |-> T(c), d |-> Day(c),
                                 rows |-> merge_batches_by_pk(old, NewToday(c))]}
              /\ fresh' = fresh + 1
              /\ Set(c, [w[c] EXCEPT !.pc = "swap", !.fid = fresh])
     ELSE Set(c, SyncFailed(w[c])) /\ UNCHANGED <<r2, fresh>>
  /\ UNCHANGED <<src, tier, meta, clickhouse, queue, faults>>

\* Mutant: the records of the merged files stay.
SwapKeepsOldRecords(c) ==
  /\ w[c].pc = "swap"
  /\ PartId(w[c].pid) # {}
  /\ recs' = recs \cup {[file |-> w[c].fid, part |-> w[c].pid, state |-> "committed", job |-> 0]}
  /\ Goto(c, "delold")
  /\ UNCHANGED <<src, tier, cp, r2, part, clickhouse, queue, fresh, faults>>

\* ... swap_partition_files exchanges the records in one transaction ...
SwapPartitionFiles(c) ==
  /\ w[c].pc = "swap"
  /\ IF PartId(w[c].pid) # {}
     THEN /\ recs' = {r \in recs : r.file \notin w[c].olds}
                       \cup {[file |-> w[c].fid, part |-> w[c].pid,
                              state |-> "committed", job |-> 0]}
          /\ Set(c, [w[c] EXCEPT !.pc = "delold",
                       !.olds = {r.file : r \in {x \in recs : x.file \in w[c].olds}}])
          /\ UNCHANGED r2
     ELSE /\ r2' = {o \in r2 : o.key # w[c].fid}
          /\ Set(c, SyncFailed(w[c]))
          /\ UNCHANGED recs
  /\ UNCHANGED <<src, tier, cp, part, clickhouse, queue, fresh, faults>>

\* ... and the objects of the records it deleted go, best effort.
DeleteOldFiles(c) ==
  /\ w[c].pc = "delold"
  /\ delete_objects(w[c].olds)
  /\ Goto(c, "updpart")
  /\ UNCHANGED <<src, tier, meta, clickhouse, queue, fresh>>

\* write_hot: CREATE TABLE IF NOT EXISTS the staging table ...
CreateStaging(c) ==
  /\ w[c].pc = "stage"
  /\ stg' = [stg EXCEPT ![T(c)] = TableOf(@.rows)]
  /\ Set(c, [w[c] EXCEPT !.pc = "insert", !.done = @ \cup {T(c)}])
  /\ UNCHANGED <<src, tier, meta, r2, ch, queue, fresh, faults>>

\* ... and insert the batches.
InsertStaging(c) ==
  /\ w[c].pc = "insert"
  /\ IF stg[T(c)].exists
     THEN /\ stg' = [stg EXCEPT ![T(c)].rows = @ \cup w[c].new]
          /\ Set(c, TableDone(w[c]))
     ELSE Set(c, SyncFailed(w[c])) /\ UNCHANGED stg
  /\ UNCHANGED <<src, tier, meta, r2, ch, queue, fresh, faults>>

\* A fetch, upload, database or ClickHouse call of the loop fails, an insert
\* perhaps half way.  After a failed swap the new object is deleted, best effort.
SyncStepFails(c) ==
  /\ w[c].pc \in {"fetch", "getpart", "upload", "addrec", "updpart", "listfiles", "merge", "swap",
                  "stage", "insert"}
  /\ Spend
  /\ \/ UNCHANGED r2
     \/ w[c].pc = "swap" /\ r2' = {o \in r2 : o.key # w[c].fid}
  /\ \/ UNCHANGED stg
     \/ /\ w[c].pc = "insert" /\ stg[T(c)].exists
        /\ stg' = [stg EXCEPT ![T(c)].rows = @ \cup {Max(w[c].new)}]
  /\ Set(c, SyncFailed([w[c] EXCEPT !.done = IF w[c].pc = "stage" THEN @ \cup {T(c)} ELSE @]))
  /\ UNCHANGED <<src, tier, meta, ch, queue, fresh>>

\* commit_staging_table for the next staged table: EXCHANGE with production
\* (or RENAME), then DROP.  "todo" collects the committed tables.  It may fail
\* before the exchange or after it.
CommitStaging(c) ==
  /\ w[c].pc = "commitstg"
  /\ LET left == w[c].done \ w[c].todo
         t    == Min(left)
     IN  \/ /\ stg[t].exists
            /\ ch' = [ch EXCEPT ![t] = stg[t]]
            /\ stg' = [stg EXCEPT ![t] = NoTable]
            /\ Set(c, [w[c] EXCEPT !.todo = @ \cup {t},
                                   !.pc = IF left = {t} THEN "savecp" ELSE "commitstg"])
            /\ UNCHANGED faults
         \/ /\ IF stg[t].exists THEN Spend ELSE UNCHANGED faults
            /\ \/ UNCHANGED clickhouse
               \/ /\ stg[t].exists
                  /\ ch' = [ch EXCEPT ![t] = stg[t]]
                  /\ stg' = [stg EXCEPT ![t] = ch[t]]
            /\ Set(c, [w[c] EXCEPT !.pc = "rollback", !.err = TRUE])
  /\ UNCHANGED <<src, tier, meta, r2, queue, fresh>>

\* rollback_staging_tables: the uncommitted ones are dropped, best effort.  The
\* checkpoint is saved only if some table was committed.
RollbackStaging(c) ==
  /\ w[c].pc = "rollback"
  /\ LET left == w[c].done \ w[c].todo
     IN  \E gone \in SUBSET left :
           /\ stg' = [t \in Tables |-> IF t \in gone THEN NoTable ELSE stg[t]]
           /\ IF gone = left THEN UNCHANGED faults ELSE Spend
  /\ Goto(c, IF w[c].todo = {} THEN "finish" ELSE "partialcp")
  /\ UNCHANGED <<src, tier, meta, r2, ch, queue, fresh>>

\* After a partial commit: the saved checkpoint keeps the committed tables
\* only; a failure to save it is only logged.
SavePartialCheckpoint(c) ==
  /\ w[c].pc = "partialcp"
  /\ \/ /\ cp' = [t \in Tables |-> IF t \in w[c].todo THEN w[c].mcp[t] ELSE 0]
        /\ UNCHANGED faults
     \/ Spend /\ UNCHANGED cp
  /\ Goto(c, "finish")
  /\ UNCHANGED <<src, tier, part, recs, r2, clickhouse, queue, fresh>>

\* What follows sync_source when it returned Ok.
AfterSync(c) ==
  CASE ~w[c].err /\ w[c].target = "warm"                                   -> "commitsync"
    [] ~w[c].err /\ w[c].target = "hot" /\ kind[w[c].job] = "upgrade_to_hot" -> "settier"
    [] OTHER                                                              -> "finish"

\* save_source_checkpoint: the whole map is written.
SaveCheckpoint(c) ==
  /\ w[c].pc = "savecp"
  /\ cp' = w[c].mcp
  /\ Goto(c, AfterSync(c))
  /\ UNCHANGED <<src, tier, part, recs, r2, clickhouse, queue, fresh, faults>>

\* Any other statement of a job fails: the error is the result of the job.  At
\* the first fetch, listing the tables fails; at the end of a sync, the update
\* of last_sync_at.
JobStepFails(c) ==
  /\ \/ w[c].pc \in {"cleanup", "savecp", "commitsync", "settier", "list", "import",
                     "listch", "export", "exprec", "purgech"}
     \/ w[c].pc = "fetch" /\ w[c].ti = 1
     \/ w[c].pc = "finish" /\ kind[w[c].job] = "sync" /\ ~w[c].err
  /\ Spend
  /\ Set(c, [w[c] EXCEPT !.pc = "finish", !.err = TRUE])
  /\ UNCHANGED <<src, tier, meta, r2, clickhouse, queue, fresh>>

-----------------------------------------------------------------------------
(* The rest of the consumer: commit_sync and the tier transitions. *)

\* commit_sync, one transaction.
CommitSync(c) ==
  /\ w[c].pc = "commitsync"
  /\ part' = {IF p.job = w[c].job THEN [p EXCEPT !.state = "committed"] ELSE p : p \in part}
  /\ recs' = {IF r.job = w[c].job THEN [r EXCEPT !.state = "committed"] ELSE r : r \in recs}
  /\ Goto(c, IF kind[w[c].job] = "sync" THEN "finish" ELSE "settier")
  /\ UNCHANGED <<src, tier, cp, r2, clickhouse, queue, fresh, faults>>

\* update_source_tier, and what is left to do in the new tier.  "done" holds
\* the partitions listed by a warm-to-hot upgrade, or the tables exported by a
\* downgrade.
SetTier(c) ==
  /\ w[c].pc = "settier"
  /\ tier' = w[c].target
  /\ Goto(c, CASE kind[w[c].job] = "downgrade_to_warm" /\ w[c].done # {} -> "dropch"
               [] kind[w[c].job] = "upgrade_to_hot" /\ w[c].olds # {}    -> "cleanr2"
               [] OTHER                                                -> "finish")
  /\ UNCHANGED <<src, meta, r2, clickhouse, queue, fresh, faults>>

\* upgrade_warm_to_hot: list the committed partitions ("olds") ...
ListPartitions(c) ==
  /\ w[c].pc = "list"
  /\ LET ids == {p.id : p \in {x \in part : x.state = "committed"}}
     IN  Set(c, [w[c] EXCEPT !.pc = IF ids = {} THEN "settier" ELSE "import",
                             !.olds = ids, !.todo = ids])
  /\ UNCHANGED <<src, tier, meta, r2, clickhouse, queue, fresh, faults>>

\* ... download parquet_path of each and insert it into the production table.
\* A directory is not an object: such a partition is skipped, like a failed
\* download.  "new" holds the keys imported.
ImportPartition(c) ==
  /\ w[c].pc = "import"
  /\ \E id \in w[c].todo :
       LET rest == w[c].todo \ {id}
           obj  == {o \in r2 : o.key = id /\ \E p \in PartId(id) : p.path = "key"}
           Next1(got) ==
             [w[c] EXCEPT !.todo = rest, !.new = got,
                !.pc = IF rest # {} THEN "import"
                       ELSE IF got = {} THEN "finish" ELSE "settier",
                !.err = rest = {} /\ got = {}]
       IN  \/ /\ obj # {}
              /\ ch' = [t \in Tables |->
                          IF \E o \in obj : o.t = t
                          THEN TableOf(ch[t].rows \cup UNION {o.rows : o \in obj})
                          ELSE ch[t]]
              /\ Set(c, Next1(w[c].new \cup {id}))
              /\ UNCHANGED faults
           \/ /\ IF obj = {} THEN UNCHANGED faults ELSE Spend
              /\ Set(c, Next1(w[c].new))
              /\ UNCHANGED ch
  /\ UNCHANGED <<src, tier, meta, r2, stg, queue, fresh>>

\* ... after the tier is hot, delete the objects imported and every committed
\* file of the partitions listed, best effort ...
CleanR2(c) ==
  /\ w[c].pc = "cleanr2"
  /\ LET keys == w[c].new \cup {r.file : r \in UNION {CommittedRecs(i) : i \in w[c].olds}}
     IN  delete_objects(keys)
  /\ Goto(c, "delparts")
  /\ UNCHANGED <<src, tier, meta, clickhouse, queue, fresh>>

\* ... and cleanup_partitions: all at once, or one by one after an error.
DeleteParts(c) ==
  /\ w[c].pc = "delparts"
  /\ \E gone \in SUBSET w[c].olds :
       /\ DeletePartitions(gone)
       /\ IF gone = w[c].olds THEN UNCHANGED faults ELSE Spend
  /\ Goto(c, "finish")
  /\ UNCHANGED <<src, tier, cp, r2, clickhouse, queue, fresh>>

\* execute_downgrade_to_warm: the ClickHouse tables there are ("todo") ...
ListClickHouse(c) ==
  /\ w[c].pc = "listch"
  /\ LET ts == {t \in Tables : ch[t].exists}
     IN  Set(c, [w[c] EXCEPT !.todo = ts, !.pc = IF ts = {} THEN "settier" ELSE "export"])
  /\ UNCHANGED <<src, tier, meta, r2, clickhouse, queue, fresh, faults>>

\* Mutant: the tables are dropped before the partitions and the tier are written.
NextExportDrops(rec) ==
  [rec EXCEPT !.pc = IF rec.todo # {} THEN "export" ELSE "dropch"]

\* The export loop goes on, or ends: nothing exported is an error.
NextExport(rec) ==
  [rec EXCEPT !.pc = CASE rec.todo # {}                  -> "export"
                       [] rec.todo = {} /\ rec.done = {} -> "finish"
                       [] OTHER                          -> "commitsync",
              !.err = rec.todo = {} /\ rec.done = {}]

\* ... export_tables_to_r2: ClickHouse writes the object named after today's
\* partition; an empty table and a failed export are skipped.  A second export
\* on one day finds the object of the first: the statement does not ask for
\* truncation, so the settings of the server decide whether it overwrites or
\* fails, which is then no fault ...
ExportTable(c) ==
  /\ w[c].pc = "export"
  /\ LET t == Min(w[c].todo)
         p == PartitionFor(t, Today)
         skip == NextExport([w[c] EXCEPT !.todo = @ \ {t}])
     IN  /\ part' = p.rows
         /\ fresh' = p.fresh
         /\ \/ /\ ch[t].rows # {}
               /\ r2' = {o \in r2 : o.key # p.id}
                          \cup {[key |-> p.id, t |-> t, d |-> Today, rows |-> ch[t].rows]}
               /\ Set(c, [w[c] EXCEPT !.pc = "exprec", !.pid = p.id])
               /\ UNCHANGED faults
            \/ /\ IF ch[t].rows = {} \/ \E o \in r2 : o.key = p.id THEN UNCHANGED faults ELSE Spend
               /\ Set(c, skip)
               /\ UNCHANGED r2
  /\ UNCHANGED <<src, tier, cp, recs, clickhouse, queue>>

\* ... and the object becomes the partition's parquet_path; registering the
\* table may fail after that.
RecordExport(c) ==
  /\ w[c].pc = "exprec"
  /\ LET t == Min(w[c].todo)
     IN  \/ /\ Set(c, NextExport([w[c] EXCEPT !.todo = @ \ {t}, !.done = @ \cup {t}, !.pid = 0]))
            /\ UNCHANGED faults
         \/ Spend /\ Set(c, [w[c] EXCEPT !.pc = "finish", !.err = TRUE])
  /\ update_partition_data(w[c].pid, "key", w[c].job)
  /\ UNCHANGED <<src, tier, cp, recs, r2, clickhouse, queue, fresh>>

\* drop_source_tables: one table after the other until one fails; the callers
\* only log the error.
drop_source_tables ==
  \E gone \in SUBSET Tables :
    /\ ch' = [t \in Tables |-> IF t \in gone THEN NoTable ELSE ch[t]]
    /\ IF gone = Tables THEN UNCHANGED faults ELSE Spend

\* cleanup_clickhouse_after_downgrade: every table of the source goes, whether
\* it was exported or skipped ...
DropClickHouse(c) ==
  /\ w[c].pc = "dropch"
  /\ drop_source_tables
  /\ Goto(c, "dropstg")
  /\ UNCHANGED <<src, tier, meta, r2, stg, queue, fresh>>

\* ... and the staging tables, best effort too.
DropStaging(c) ==
  /\ w[c].pc = "dropstg"
  /\ \/ stg' = [t \in Tables |-> NoTable] /\ UNCHANGED faults
     \/ Spend /\ UNCHANGED stg
  /\ Goto(c, "finish")
  /\ UNCHANGED <<src, tier, meta, r2, ch, queue, fresh>>

\* execute_downgrade_to_cold: drop the tables if the source was hot ...
PurgeClickHouse(c) ==
  /\ w[c].pc = "purgech"
  /\ drop_source_tables
  /\ Goto(c, "purger2")
  /\ UNCHANGED <<src, tier, meta, r2, stg, queue, fresh>>

\* ... then every object under the prefix, both best effort.  Partition rows,
\* file records and the checkpoint stay.
PurgeR2(c) ==
  /\ w[c].pc = "purger2"
  /\ delete_objects(R2Keys)
  /\ Goto(c, "settier")
  /\ UNCHANGED <<src, tier, meta, clickhouse, queue, fresh>>

-----------------------------------------------------------------------------
Init ==
  /\ src = [t \in Tables |-> 0]
  /\ tier = "cold"
  /\ cp = [t \in Tables |-> 0]
  /\ r2 = {} /\ part = {} /\ recs = {}
  /\ ch = [t \in Tables |-> NoTable] /\ stg = [t \in Tables |-> NoTable]
  /\ job = [j \in Jobs |-> "none"] /\ kind = [j \in Jobs |-> "sync"] /\ nextJob = 1
  /\ fresh = 1
  /\ w = [c \in Consumers |-> IdleWorker]
  /\ faults = 0

SyncNext(c) ==
  \/ CleanupOrphans(c) \/ FetchTable(c) \/ GetPartition(c) \/ UploadNew(c)
  \/ AddPartitionFile(c)
  \/ UpdatePartition(c) \/ ListPartitionFiles(c) \/ MergeUpload(c)
  \/ SwapPartitionFiles(c) \/ DeleteOldFiles(c) \/ CreateStaging(c) \/ InsertStaging(c)
  \/ SyncStepFails(c) \/ RollbackStaging(c) \/ CommitStaging(c)
  \/ SavePartialCheckpoint(c) \/ SaveCheckpoint(c) \/ CommitSync(c) \/ JobStepFails(c)

TransitionNext(c) ==
  \/ SetTier(c) \/ ListPartitions(c) \/ ImportPartition(c) \/ CleanR2(c) \/ DeleteParts(c)
  \/ ListClickHouse(c) \/ ExportTable(c) \/ RecordExport(c) \/ DropClickHouse(c) \/ DropStaging(c)
  \/ PurgeClickHouse(c) \/ PurgeR2(c)

Next ==
  \/ \E t \in Tables : SourceChange(t)
  \/ \E c \in Consumers :
       NewJob(c) \/ Redeliver(c) \/ FinishJob(c) \/ Crash(c) \/ SyncNext(c) \/ TransitionNext(c)

Spec == Init /\ [][Next]_vars

-----------------------------------------------------------------------------
(* Properties. *)

Pcs ==
  {"idle", "cleanup", "fetch", "getpart", "upload", "addrec", "updpart", "listfiles", "merge",
   "swap", "delold", "stage", "insert", "commitstg", "rollback", "partialcp", "savecp",
   "commitsync", "settier", "list", "import", "cleanr2", "delparts", "listch", "export",
   "exprec", "dropch", "dropstg", "purgech", "purger2", "finish"}
RowStates == {"pending", "committed"}
Objects == [key : Nat, t : Tables, d : Nat, rows : SUBSET Versions]
PartitionRows ==
  [id : Nat, t : Tables, d : Nat, state : RowStates, job : 0..MaxJobs,
   path : {"none", "dir", "key"}]
FileRows == [file : Nat, part : Nat, state : RowStates, job : 0..MaxJobs]
ClickHouseTables == [exists : BOOLEAN, rows : SUBSET Versions]
Workers ==
  [pc : Pcs, job : 0..MaxJobs, target : Tiers, ti : 1..(NTables + 1), new : SUBSET Nat,
   days : SUBSET Nat, mcp : [Tables -> 0..MaxRow], done : SUBSET Tables, todo : SUBSET Nat,
   olds : SUBSET Nat, pid : Nat, fid : Nat, err : BOOLEAN]

\* Every variable keeps to its domain, identifiers are below the next fresh
\* one, a table and date have one partition, a file record has its partition,
\* and only issued jobs are worked on.
TypeOK ==
  /\ src \in [Tables -> 0..MaxRow] /\ cp \in [Tables -> 0..MaxRow] /\ tier \in Tiers
  /\ r2 \subseteq Objects /\ \A o \in r2 : o.key < fresh
  /\ part \subseteq PartitionRows
  /\ \A p \in part : /\ p.id < fresh /\ PartAt(p.t, p.d) = {p}
                     /\ p.state = "pending" => p.job # 0
  /\ recs \subseteq FileRows /\ \A r \in recs : r.file < fresh /\ PartId(r.part) # {}
  /\ ch \in [Tables -> ClickHouseTables] /\ stg \in [Tables -> ClickHouseTables]
  /\ job \in [Jobs -> {"none", "running", "completed", "failed"}] /\ kind \in [Jobs -> Kinds]
  /\ nextJob \in 1..(MaxJobs + 1) /\ fresh \in Nat /\ faults \in 0..MaxFaults
  /\ w \in [Consumers -> Workers]
  /\ \A c \in Consumers : w[c].job < nextJob /\ w[c].pid < fresh /\ w[c].fid < fresh

\* The rows a query of table t sees.
Queryable(t) == IF tier = "hot" THEN ch[t].rows ELSE R2Rows(t)

\* A downgrade to cold, which removes the data before the tier, is under way.
Purging == \E c \in Consumers : w[c].job # 0 /\ kind[w[c].job] = "downgrade_to_cold"

\* No silent data loss: once the checkpoint of a table has passed a row that
\* is still current in the source, no sync fetches the row again, so queries
\* of the warm or hot tier must find it (sync_source, sync_executor.rs).  A stale
\* consumer breaks it where one date has two versions of a key: it merges the
\* older one, fetched long ago, over the newer.
CheckpointedRowsAreQueryable ==
  tier # "cold" /\ ~Purging =>
    \A t \in Tables : \A k \in Newest(src[t]) : k <= cp[t] => k \in Queryable(t)

\* A committed file record always has its object: a dangling one would make
\* every later merge of that date abort (merge_warm_incremental).
CommittedFilesExist ==
  \A r \in recs : r.state = "committed" => r.file \in R2Keys

\* The saved checkpoint only moves past rows that have landed in R2 or in a
\* production table: not past a rolled back staging table, a failed upload, or
\* a table whose commit failed (sync_source).
CheckpointAdvanceIsBacked ==
  [][\A t \in Tables : \A k \in Newest(src[t]) :
       cp[t] < k /\ k <= cp'[t] => k \in R2Rows(t) \cup ch[t].rows]_vars

\* docs/invariants.md: ClickHouse tables are only dropped after the R2 data is
\* committed, and R2 then has the same data.
ClickHouseDroppedAfterR2 ==
  [][\A t \in Tables : tier = "warm" /\ ch[t].exists /\ ~ch'[t].exists
        => ch[t].rows \subseteq R2Rows(t)]_vars

\* A hot-to-warm downgrade drops a ClickHouse table it exported only when the
\* source is already served from R2 and R2 holds every row of the table, also
\* when the job died and was run again (execute_downgrade_to_warm).
ExportedBeforeDrop ==
  [][\A c \in Consumers : w[c].pc = "dropch" /\ w'[c].pc = "dropstg" =>
       /\ tier = "warm"
       /\ \A t \in w[c].done : ch[t].rows \subseteq R2Rows(t)]_vars

=============================================================================
