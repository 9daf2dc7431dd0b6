# Reiver in TLA+

Reiver is a platform of several services: **Pond** (a data warehouse over
external sources), **Flow** (an LLM gateway), **Watch** (telemetry and alerts),
**Herd** (agent messaging), **MCP** (a tool adapter), a website with billing and
accounts, and a shared `core` library. This project models the parts where
concurrency, partial failure and recovery decide whether the program is right:

* Pond's job queue and what its jobs do to PostgreSQL, Cloudflare R2 and
  ClickHouse (`SyncJobs`, `WarehouseSync`);
* Pond's limiter of concurrent queries (`QueryLimiter`);
* Pond's event-driven pipelines (`PipelineDag`, `Pipelines`);
* Flow's circuit breaker and provider fallback (`Gateway`).

## 1. Inventory

| Component | State | Operations | What is hard | What makes it correct |
|---|---|---|---|---|
| Interval scheduler (`scheduler.rs`) | none of its own | find due sources, insert job, publish | publishes inside an open transaction | a visible job has a message |
| Lifecycle worker (`lifecycle_worker.rs`) | none of its own | count queries, choose a tier, insert job, publish | the same; the tier may change meanwhile | the same |
| Job endpoints (`api/warehouse.rs`) | none of its own | sync, upgrade, downgrade | check-then-insert; a send that times out | an accepted job runs |
| Job table (`warehouse_jobs`) | status and type per job | insert, update by id | several producers and consumers | completed only if it ran |
| Kafka topic of sync jobs | partition log, committed offset, owner | append, deliver, commit, rebalance | duplicates, redelivery, cumulative commits | no message skipped; each processed |
| Consumer (`sync_job_consumer.rs`) | message in hand | run a job, record the outcome, commit | crashes, revocation, lost updates | as above |
| Sync executor (`sync_executor.rs`) | checkpoint per table, staging tables | orphan cleanup, fetch, append, merge, stage, commit, save checkpoint | a failure between any two calls to three stores | rows below the checkpoint are queryable |
| Partition manager (`partition_manager.rs`) | partition rows, file records | create, update, swap | swap against listing and deletion | a committed record has its object |
| Tier transitions (`sync_job_consumer.rs`) | tier | import, export, drop, purge | data is moved, then deleted | nothing is dropped before it is elsewhere |
| Query limiter (`query/limiter.rs`) | global semaphore; per project a semaphore and a count, in a bounded map | acquire, cancel, release, expire, evict | unsynchronised atomics; check-then-remove; cancellation at an await | counters match the queries; the limit holds; nobody waits for ever |
| Pipeline store and events (`pipeline/store.rs`, `events.rs`) | graphs, subscriptions, events, runs | edit, subscribe, emit | a graph is read with three statements | only runnable graphs are stored |
| Pipeline dispatcher (`dispatcher.rs`) | offsets, `running_streams` | deliver, load, spawn, settle, commit | redelivery, fire-and-forget tasks | no event skipped; one stream per pod |
| Pipeline executor (`executor.rs`, `dag.rs`) | buffers of a run | sort, run nodes, stream, record | edits and other pods' clean-up during a run | inputs before outputs; the recorded outcome is the real one |
| Circuit breaker (`gateway/circuit_breaker.rs`) | state, window, probe flag per provider, in memory | ask, record success or failure | probes that are never reported; late reports | one probe; closed only by an answer; half-open ends |
| Fallback chain (`routes/execution.rs`, `fallback.rs`, `latency_tracker.rs`) | position and retries of a request; cached percentiles | skip, call, retry, fall back, report | two reporting disciplines; cancelled clients | as above |

Producers and consumers share only PostgreSQL and Kafka. A source's jobs are
keyed by project, so they are in one Kafka partition, and the members of the
consumer group hand that partition over through crashes and timeouts. The
consumer calls the executor, which calls R2 and ClickHouse directly; there is no
transaction across the stores. Queries pass the limiter and read the stores; they
do not write them. Pipelines have a queue of their own, a Kafka topic keyed by
project, and share nothing with the sync jobs but the database. Flow shares no
state with Pond. The other services are listed in `PROJECT.json` with the reason
why they are not modelled.

## 2. Modules

| Module | Role |
|---|---|
| `SyncJobs` | the queue: producers, `warehouse_jobs`, Kafka partition, consumers |
| `AtLeastOnceLog` | abstract: what a consumer group with manual commits promises of a partition |
| `WarehouseSync` | the data: executor and tier transitions over PostgreSQL, R2, ClickHouse |
| `QueryLimiter` | the query limiter, its callers and its map of project limiters |
| `PipelineDag` | graphs, `topological_sort`, and a reference definition of what it is for |
| `Pipelines` | API, dispatcher, executor and pods; EXTENDS `PipelineDag` |
| `Gateway` | circuit breaker, latency verdicts, requests walking a provider chain |
| `MC*` | the instances of these modules for TLC |
| `SyncJobs_proofs`, `QueryLimiter_proofs`, `Gateway_proofs`, `PipelineDag_proofs` | theorems about the module of that name |
| `Pipelines_proofs` | theorems about `Pipelines`; EXTENDS `PipelineDag_proofs` |
| `WarehouseSync_proofs` | theorems about all job types |
| `WarehouseWarm_proofs` | theorems about the jobs of the warm tier; EXTENDS `WarehouseSync_proofs` |
| `WarehouseCheckpoint_proofs` | theorems about the checkpoint, of the warm tier and of all job types; EXTENDS `WarehouseWarm_proofs` |

`SyncJobs` and `Pipelines` both instantiate `AtLeastOnceLog`, under the identity
mapping of `log`, `handled` (the offsets whose processing came to an end) and
`committed`, and are shown to implement it. The abstract log allows the committed
offset to go back, which the code can do: a member that lost the partition and
got it back may commit an old message.

### SyncJobs

`row`, `jtype` and `nextJob` are `warehouse_jobs`; `tier` is
`warehouse_sources.tier`; `log`, `committed` and `owner` are the Kafka partition
as the group sees it; `prod` and `cons` are the program counters and locals of
the producers and consumers. `creator`, `acked`, `dropped` and `ranOk` are
history variables, used in properties only. A row is `uncommitted` while the
inserting transaction is open: no other session sees or updates it, and the
`NOT EXISTS` guards of other sessions miss it.

A producer decides (`SelectDue`, `EvaluateTier`, `RequestTransition`,
`RequestSync`), deduplicates (`FindActiveJob`, or the `NOT EXISTS` of
`InsertInTx`), inserts, publishes, and commits or marks the row failed. The
workers publish before they commit; the upgrade and downgrade endpoints insert
first and publish after; the manual endpoint does not publish. `Publish` has
the outcomes of a non-idempotent producer: one copy, two copies, an error with
or without a copy. A consumer takes a message (`Deliver`), marks the job
running (`BeginJob`), reads the tier (`LoadSource`), runs it (`RunOk`, `RunErr`),
records the outcome (`FinishJob`) and commits the offset (`CommitOffset`).
`StatusUpdateError` is the `Err` branch of `run`: no commit, next message.
A producer starts only while there is a job identifier left for it (`IdsLeft`),
so the bound `MaxJobs` never stops one half-way.
`Assign`, `Revoke`, `ConsumerCrash` and `Restart` are Kafka and the orchestrator.

### WarehouseSync

A row version is a number, its incremental key, with a primary key and a date.
`src` is the source; `cp` is `sync_checkpoint`; `part` and `recs` are
`warehouse_partitions` and `warehouse_partition_files`; `r2` is the set of
Parquet objects; `ch` and `stg` are the production and staging tables; `w` is the
local state of the consumers. Chunking, schemas, statistics and formats are left
out: a file is the set of versions in it. Each action is one statement or call,
so a consumer can crash, or fail (`SyncStepFails`, `JobStepFails`), between any
two. `Redeliver` runs an earlier job again: after a crash, or, as a fault, while
its first consumer is still at work or after it has ended (a lost commit, whatever
ran in between). `ExportTable` onto an object that exists may overwrite it or fail
without a fault: the export sets no truncation, so the server's settings decide.
Warm queries read every object below the table's prefix and hot queries the
ClickHouse table (`Queryable`), whatever the metadata says.

Fields of `w` are reused by the transitions: `olds` is the list of files to
merge or of partitions to import, `todo` the tables committed, or left to import
or export, `done` the tables staged or exported.

### QueryLimiter

`entry` is `project_limiters`; `avail`, `queued` and `pwait` are semaphore,
`queue_size` and waiters of a limiter instance; `globalAvail` and `gwait` are the
global semaphore. Limiters are instances shared by reference: a query keeps the
one it found (`lim`) although the map may have dropped it. `stale` is the set of
projects whose limiter has passed its idle timeout. `acquire` is `Found` or
`Missing`, the clean-up (`Retain`, `CollectLru`, `RemoveLru`), `Insert`, then
`Enqueue` or `Reject`, `GrantGlobal`, `GrantProject`. Dropping the permit is three
steps (`Finish`, `ReleaseGlobal`, `ReleaseProject`), because Rust drops the value
first and its fields in order, and `is_idle` can observe the steps between
(`IdleReads`). `Cancel` drops the future at either await. Which limiter was used
longest ago is abstracted: any may be.

### Pipelines

`pipe`, `subs`, `event` and `run` are the tables; `log`, `committed` and `owner`
the partition; `pod` the dispatchers with their `running_streams`; `task` the
spawned runs. `handled` and `unrecorded` are history. A user saves (`Save`, after
validation), deletes or subscribes; `emit` writes the event and sends it, which may
be lost or doubled. The dispatcher reads the subscriptions (`Deliver`), loads each
pipeline (`LoadPipeline`, then `Dispatch` for its nodes and mode), spawns a task,
settles the event and commits. A task reads nodes (`LoadNodes`) and edges
(`StartRun`) with separate statements, so it may see two versions; it runs if the
graph is still `Startable`, and `TaskError` is a statement before that which fails,
`insert_run` among them, which may have taken effect all the same. The task runs the
nodes one by one (`NodeOk`, `NodeErr`, `NodesDone`), a stream batch by batch
(`StreamBatch`, `StreamEnd`), and records the outcome (`Record`). `Boot` and
`Started` are the start of a pod with `cleanup_stale_runs`, which marks every run
older than the pod. A node is executed as a whole: rows and UDFs are left out.

`PipelineDag` keeps the algorithm (in-degrees, queue, stable sort by kind) and
quantifies over the orders in which rows and hash maps are enumerated.
`MCPipelines` compares it with a definition that does not mention the algorithm:
`TopologicalSortExact` says that exactly the graphs through which data can flow
are accepted and that every order returned is a good one, on all graphs of up to
three nodes and selected ones of four. It is an ASSUME, so TLC evaluates it at the
start of the run.

### Gateway

`circ` is `CircuitBreaker::circuits` (state, probe flag, window; `cooled` when
the cooldown is over); `degraded` the providers whose cached P99 is too high;
`req` the requests; `admitted` is history. `Check` asks `is_open` and
`is_degraded` for the candidate, in this order and always both, as the code does:
a degraded provider may be marked as probed and then skipped. `Retry` and
`Answer` are `retry_with_backoff` and what follows; a streaming request reports
every attempt, a plain one only at its end and only about its first candidate
(`Report`). After its report a plain request that was answered may be executed once
more on its first candidate alone, when the answer breaks the output contract
(`Enforced`); this second execution asks the breaker and reports nothing.
`Cancel` is the client that goes away while a provider is called.
Windows hold the last outcomes of a closed circuit; an entry may expire at any
push. `Refresh` turns the verdict on one provider.

## 3. Runs

All bounds are CONSTANTS; `CHECK_DEADLOCK FALSE` is set for the two queues, the
sync and the pipelines because jobs and triggers are bounded and the system may
rest when they are done. `limiter` and `gateway` check deadlock.

| Run | Instance | Shows |
|---|---|---|
| `jobs_safety` | both workers, 2 consumers, 2 jobs, 2 faults | `TypeOK`, `CommittedMeansHandled`, `CompletedMeansDone`, `VisibleMeansPublished` |
| `jobs_liveness` | the interval scheduler and both kinds of endpoint, 2 consumers, 1 job, 2 faults | `QueueIsAtLeastOnce` (refinement), `EveryMessageHandled`, `PublishedJobSettles` |
| `jobs_manual_sync` | manual endpoint, no fault | `ManualSyncRuns` is violated |
| `jobs_failed_offset` | 2 jobs, 1 consumer, 1 fault | `FailedOffsetNotCommitted` is violated |
| `warehouse_warm` | 2 consumers, 1 table, 3 versions in 2 dates of which one is an update that moves its row, 3 jobs, 1 fault | `TypeOK`, `CheckpointedRowsAreQueryable`, `CommittedFilesExist` |
| `warehouse_transitions` | 1 consumer, 2 tables, every job type, 3 jobs, 2 faults | `CheckpointAdvanceIsBacked`, `ExportedBeforeDrop` |
| `warehouse_hot_sync` | 2 syncs of a hot source, no fault | `CheckpointedRowsAreQueryable` is violated |
| `warehouse_cold_again` | warm, cold, warm, no fault | `CheckpointedRowsAreQueryable` is violated |
| `warehouse_failed_export` | 2 tables, 1 failed export | `ClickHouseDroppedAfterR2` is violated |
| `limiter` | 3 callers, 2 projects, 1 query per project, 2 in all, queue of 2, map of 1 | `TypeOK`, `CountersMatchQueries`, `PerProjectLimit`, `OnlyLruEvictsActive`, `QueuedQueryProceeds` |
| `gateway` | 2 requests at a time, 2 providers in one chain, 1 retry, window and minimum of 2, 1 cancellation | `TypeOK`, `OneProbePerEpisode`, `ClosesOnlyOnAnswer`, `PrimarySettles` |
| `pipelines` | 2 pods, 1 pipeline with a batch, a streaming or a cyclic graph, 1 event, 2 tasks, 1 edit, 1 fault | `TypeOK`, `RunOrderSound`, `SucceededWroteAllSinks`, `RecordedOutcome`, `OneStreamPerPod`, `DispatcherIsAtLeastOnce` (refinement), `RunSettles` |

Why the bounds are enough: skipping a message needs two messages and a change of
owner, that is two jobs (or one duplicated) and one or two faults. A stale
consumer needs a second one and one fault, and three jobs give it two others to
interfere with. Losing an existing row in a merge needs two rows of one
date and an update. A partial commit or export needs two tables. Two consumers
are interchangeable, hence the symmetry; the runs with liveness properties use
none. In `warehouse_transitions` two changes over two tables give one row in
each or an increment in one.

The LRU stage of the limiter needs a map over its capacity: two callers that miss
at once with room for one. Drift needs a cancelled and a served query of one
limiter, a re-created limiter a third caller. In the gateway a second probe or a
foreign report needs two requests, a leaked probe one cancellation or a degraded
verdict; opening needs two outcomes. In the pipelines a redelivery needs one fault
(a crash, a revocation, a lost commit) and two tasks, a torn read one edit, a
wrong clean-up one crashed pod and a living one; the batch graph has a sink on
either side of a transform, so that the last sort matters.

Fairness (`FairSpec`): a running task executes its next statement, a dead
process is restarted (the deployment restarts pods), and the coordinator assigns
an unowned partition. No fairness is put on starting a producer, on success of a
job, or on faults, which are bounded: a consumer that crashes for ever finishes
nothing. `PublishedJobSettles` speaks of visible active jobs with a message still to
be processed, and excludes those whose status update was lost. It says nothing of a
worker's job all of whose messages were processed before its transaction committed:
`jobs_liveness` has such jobs, and they do not settle (section 4).

In `QueryLimiter` a query that has its permits ends and tokio serves its waiters in
order (weak fairness of each caller's `Progress`). In `Gateway` providers answer or
time out, the clock runs, and plain requests for each chain keep coming (strong
fairness of `Start`, since slots may be busy): without traffic nobody would ask the
breaker anything. In `Pipelines` a spawned task is scheduled, the calls of its nodes
to connectors and UDFs return, and a pod starts after every death; dispatching gets
no fairness, as no property needs it. A stream may wait for ever, so `RunSettles` is
about batch runs; it excludes runs whose inserting, completing or clean-up statement
failed (`unrecorded`), which stay running for as long as no pod starts.

For a stream `RunOrderSound` is about one batch: `NodesDone` clears the buffers, and
with them what was written, before the next. `DispatcherIsAtLeastOnce` is run with
one event and one fault: a commit that covers several events and a change of owner
do not meet in that instance, and that case rests on `DispatcherRefinesLog`.

## 4. What the runs found

* **Manual sync never runs** (`jobs_manual_sync`). `trigger_sync` inserts a
  pending row and publishes nothing; Pond's README says every trigger publishes.
  The row also keeps the interval scheduler from scheduling the source.
* **A failed message is not retried** (`jobs_failed_offset`). The stream goes on
  after an error, and the commit of the next message covers the failed one; the
  comment in `run` says it is redelivered.
* **A second hot sync keeps only its increment** (`warehouse_hot_sync`). The
  staging table holds the fetched increment and is exchanged with the production
  table, while the checkpoint prevents the older rows from being fetched again.
* **Warm after cold is incomplete** (`warehouse_cold_again`). Going cold deletes
  the data and keeps the checkpoint.
* **A failed export is dropped** (`warehouse_failed_export`). One exported table
  is enough for all tables of the source to be dropped.

The passing runs show four limits of the code that their properties are worded
around. A worker's job may be overtaken by its message: the worker publishes
before it commits (`scheduler.rs:697`, `:708`), a consumer runs the job and
commits the offset, its updates (`sync_job_consumer.rs:230`) match no row, and the
row that then appears stays pending. It takes 11 steps and no fault, and as the
`NOT EXISTS` of the interval scheduler sees an active job, the source is not
scheduled again; `PublishedJobSettles` says that jobs with a message left do end.
The LRU stage of the limiter can evict a project that has just become active,
against the comment "Projects with active queries are never evicted"
(`limiter.rs:57`); `OnlyLruEvictsActive` says that nothing else can, and
`PerProjectLimit` what still holds. A probe of a provider that is only a fallback,
once it is cancelled, skipped as slow or sent by a plain request, is never
reported, nor is a probe sent to repeat an answer that broke its contract, and the
circuit stays half-open; `PrimarySettles` says that the circuit of a first choice
leaves that state, closed or open again. An event is completed when its run is
spawned, not when it ends: a crash in between loses the run and keeps the event
completed, which no property here excludes.

`CheckpointedRowsAreQueryable` therefore holds in runs of warm syncs and is
violated with hot syncs or cold downgrades; `CheckpointAdvanceIsBacked` and
`ExportedBeforeDrop`, which speak of one step of the same code, hold with every
job type.

Proving showed two more limits, both of stale consumers (one that lost the
partition and runs on, while its job, or a later one, runs elsewhere; Pond's
README says that jobs are skipped while another job of the source is running, but
`process_message` does not look):

* **An older version merged over a newer one.** A consumer fetches version 2 of a
  row and is overtaken: another one merges version 3 of it, saves the checkpoint
  and finishes. The first then merges version 2 into the file that has version
  3 (`merge_batches_by_pk` lets the rows in hand win) and deletes that file. The
  source's current row is below the checkpoint and nowhere. TLC shows it in 34
  steps with `PkOf` 1, 2, 2 and one date for all three versions, two consumers, 2
  jobs and 1 fault. It needs two versions of a key in one date, hence `InOrder` in
  the theorems below; in `warehouse_warm` the update moves its row to another date.
* **A tier set behind a downgrade's back.** A consumer stale in `upgrade_to_hot`
  sets the tier hot between the tier update and the drop of a newer
  `downgrade_to_warm`: the source is hot and its tables are gone. TLC shows it in
  27 steps in the instance of `warehouse_transitions` with two consumers, these
  two job types, 2 jobs and 1 fault. Hence `OneConsumer` in `ExportIsComplete`,
  and the single consumer of that run.

## 5. Proofs

`SyncJobs_proofs` proves, for any producers with any roles, any consumers, any
number of jobs and faults:

| Theorem | Statement |
|---|---|
| `TypeCorrect` | `Spec => []TypeOK` |
| `NoMessageSkipped` | `Spec => []CommittedMeansHandled` |
| `CompletedJobsRan` | `Spec => []CompletedMeansDone` |
| `VisibleJobsArePublished` | `Spec => []VisibleMeansPublished` |
| `QueueRefinesLog` | `Spec => QueueIsAtLeastOnce`, that is, `SyncJobs` implements `AtLeastOnceLog` |

The assumptions are the three in `SyncJobs`: the bounds are naturals, every
producer has a role, `NoOwner` is not a consumer. Each theorem rests on an
inductive invariant, and each of those uses the ones before it:

* `TypeInv` adds to `TypeOK` that a producer past its insert holds a job in range
  (`ProducerJob`) and that a consumer with a message in hand has its offset in the
  log (`MessageInHand`); without them `log[cur]` and `row[job]` are untyped.
* `OffsetInv`. The committed offset is not monotonic (a member that lost the
  partition and got it back may still commit an old message), and only the owner
  can commit. What carries the induction is `OwnerPosition`, every message up to
  the owner's position is handled or is the one in its hand; `NoGap`, every message
  before one in hand is handled, also for a member that lost the partition; and
  `CommitAfterHandling`, a consumer about to commit has handled its message.
* `OutcomeInv` adds `ResultIsKnown`: a consumer that will write `completed` has a
  job in `ranOk`.
* `PublicationInv` adds `SentBeforeCommit`: a worker about to commit its
  transaction has its message in the log.

* `QueueRefinesLog`: every step appends to the log, marks one offset handled,
  moves the committed offset, or leaves all three alone. Only the owner's
  `CommitOffset` needs an invariant: `NoGap` and `CommitAfterHandling` say that
  everything up to the committed message is handled.

`QueryLimiter_proofs` proves, for any finite set of queries, any projects, any
instances and any positive limits:

| Theorem | Statement |
|---|---|
| `TypeCorrect` | `Spec => []TypeOK`: no counter wraps or exceeds its limit |
| `NoDrift` | `Spec => []CountersMatchQueries` |
| `LimitHolds` | `Spec => []PerProjectLimit` |
| `ExpirySparesActive` | `Spec => OnlyLruEvictsActive` |

`LimiterInv` is `TypeOK`, `CountersMatchQueries`, `LimitersAreOwned` (no two
projects share a limiter, and whoever refers to a limiter of the map is a query of
that project) and `TouchedIsFresh` (a limiter between `touch` and `try_new` has not
expired). The bounds in `TypeOK` and the equations of `CountersMatchQueries` need
each other: a counter stays above zero because it counts the query that gives
back, and below its limit because an unused instance counts nobody. Each step
moves one query, so every set a counter stands for changes by at most that
query; `SizeStep` and `AccountsStep` turn this into arithmetic. `ExpirySparesActive`
follows since an active query is either counted, and then `is_idle` is false
however its reads interleave, or has just touched its limiter.

`Gateway_proofs` proves, for any requests, providers, chains and thresholds:

| Theorem | Statement |
|---|---|
| `GatewayTypeCorrect` | `Spec => []TypeOK` |
| `OneProbe` | `Spec => []OneProbePerEpisode` |
| `ClosesOnAnswer` | `Spec => ClosesOnlyOnAnswer` |

`GatewayInv` adds to the two invariants `HalfOpenIsMarked`, a half-open circuit has
its probe flag set (so `is_open` refuses the next request), and
`AnsweredByCandidate`, a request that ended with an answer stands at the candidate
that gave it: a report on the first candidate is a success only if that candidate
answered. Nothing is assumed but that chains are non-empty and the window holds the
minimum of requests.

`PipelineDag_proofs` proves `TopologicalSortSound`: for a graph of any size, in
any order of its rows and of its hash maps, every order `topological_sort` returns
lists each node once, every edge points forward, and no sink comes before a
transform. The rounds of Kahn's algorithm are a recursive function; the induction
theorems of the library take an operator and cannot be used here, so the first
section proves induction on `0..n` and the existence of an iteration again, from
the well-foundedness of the naturals, with a *set* of good rounds in place of the
operator. The invariant of a round
is that a node's remaining in-degree counts its predecessors that are not sorted
yet, that a node queued or sorted has none left and is so only once, and that a
sorted node comes after its predecessors. The final stable
sort keeps edges forward because `WellFormed` admits none into a source or out of a
sink. The other direction, that every graph through which data can flow is
accepted, stays with TLC (`TopologicalSortExact`).

`Pipelines_proofs` proves, for any pods, pipelines, graphs, subscriptions, events,
tasks, edits and faults:

| Theorem | Statement |
|---|---|
| `PipelinesTypeCorrect` | `Spec => []TypeOK` |
| `DispatcherRefinesLog` | `Spec => DispatcherIsAtLeastOnce`, that is, `Pipelines` implements `AtLeastOnceLog` |
| `NodesRunInOrder` | `Spec => []RunOrderSound` |
| `SucceededWroteAll` | `Spec => []SucceededWroteAllSinks` |
| `OutcomeIsRecorded` | `Spec => []RecordedOutcome` |
| `OneStream` | `Spec => []OneStreamPerPod` |

`PipelinesInv` has four parts. `DispatcherInv` is the types and `OffsetInv`, as for
the sync jobs. `TasksInv`: what a task has left to run can be run in that order
(`Ready`), which `TopologicalSortSound` gives for every graph a task may load, also
one torn between two versions, and the sinks are among what is written or left.
`StreamsInv`: every stream that lives has its pipeline in `running_streams` of its
pod, and dies with it. `RunInv`: no row before a task starts its run, and
`succeeded` only of a task that ended well. `PayloadAssumption` says that what the
API receives has the shape of a graph, no more.

`WarehouseSync_proofs` proves, for all job types and any tables, versions,
consumers, jobs and faults unless an assumption is named:

| Theorem | Assumes | Statement |
|---|---|---|
| `WarehouseTypeCorrect` | | `Spec => []TypeOK` |
| `ExportIsComplete` | `OneConsumer` | `Spec => ExportedBeforeDrop` |
| `FilesExist` (`WarehouseWarm_proofs`) | `WarmJobs` | `Spec => []CommittedFilesExist` |
| `CheckpointIsSafe` (`WarehouseCheckpoint_proofs`) | `WarmJobs`, `InOrder` | `Spec => []CheckpointedRowsAreQueryable` |
| `CheckpointIsBacked` (the same) | `WarmJobs`, `InOrder` | `Spec => CheckpointAdvanceIsBacked` |
| `CheckpointIsBackedInEveryTier` (the same) | `OneConsumer` | `Spec => CheckpointAdvanceIsBacked` |

`WarmJobs`: only `sync` and `upgrade_to_warm` are produced. A downgrade to cold or an
upgrade to hot deletes objects and keeps their records, or keeps the checkpoint,
so neither property holds with them (section 4). `OneConsumer`: one consumer, which
may still fail, die and be given the job again at any step. `InOrder`: one consumer,
or never two versions of a key in one date; without it the property is false
(section 4). Each assumption is on the constants and is met by the instance of the
run that checks the property: of the two theorems about `CheckpointAdvanceIsBacked`
the second is the one of `warehouse_transitions`, the first allows several
consumers.

* `TypeInv` adds what each step needs of its consumer (`WorkerInv`: a step that
  writes has a table, rows and dates in hand).
* `ExportInv`. What is copied must stay copied until the drop: `Copied` says, for
  every exported table, that R2 has each of its rows. An export overwrites the
  object named after today's partition; that this takes nothing from another table
  is `Named`: an identifier belongs to partitions and objects of one table.
  `Exported` carries target, tier and `Copied` through the steps of the downgrade.
* `FilesInv`. Who may delete an object: the consumer that uploaded it and has not
  recorded it yet (`Owning`), or the one that has removed its record (`delold`).
  Object keys, identifiers and records name one thing each (`Store`).
* `CheckInv`. An object is `Lasting` unless a consumer is about to delete it. The
  rows in lasting objects only get fewer by rows the source has replaced
  (`Covers`, `Latest`); a cursor and the saved checkpoint only pass rows that have
  `Landed`; and what a consumer fetched is complete between its cursor and its
  newest row (`Batch`).
* `BackedInv`. Jobs of other types delete objects and tables, so nothing can be said
  of the rows below the saved checkpoint; the invariant speaks of those the cursor
  of the sync under way has `Passed` and the saved one has not. In a warm sync each
  is `Kept`: in an object whose records are all of its table and date, so the merge
  of another date or table, which deletes the files of its own partition, leaves it
  alone (`Sited`: an identifier names one table and date). In a hot sync it is in
  the staging table until that is exchanged and in the production table after; once
  a commit has failed, only the tables committed before count (`BackedHot`). The
  cursor moves only for tables already read (`Cursor`), and passes what was fetched
  and no more (`Full`).

Model-checked only:

* liveness (`EveryMessageHandled`, `PublishedJobSettles`, `QueuedQueryProceeds`,
  `PrimarySettles`, `RunSettles`): fairness and ENABLED are beyond the prover;
* the completeness of `topological_sort` (`TopologicalSortExact`).

With several consumers `CheckpointAdvanceIsBacked` is proved for the jobs of the
warm tier only; with every job type it is neither checked nor claimed.

## 6. Not modelled

Sync: derived-table refresh and age-based lifecycle rules (their jobs use the same
queue); warm backing sources of a hot source; the time-based sync scope; tables
without an incremental or primary key; several sources or projects in one
partition; skip indexes, PII scans and mutation statistics (no influence on the
data); partial failure inside one R2 upload or one ClickHouse export; deletion of
a source; the lease-based `JobWorker`, the cron `SyncScheduler` and compaction,
which `main.rs` does not start.

Limiter: the periodic clean-up task, which nobody starts; closing the semaphores,
which nobody does. Pipelines: cursors (a batch run never advances one), the
shutdown path (`main.rs` forgets its handle), event types, UDF jobs, nodes whose
type and configuration disagree, rows. Gateway: which models and keys make a chain,
response cache, guardrails, the percentiles themselves.

The query engine, connectors, PromQL, authentication, billing, telemetry and the
host agent are transformations of data or clients of other systems; most of the
repository's lines are there. The hazards no property covers are in
`PROJECT.json` with the reason.

## 7. Plan

Done: the queue, the sync, the limiter, the pipelines, the gateway, the
refinements of the two queues, the theorems above: every safety invariant and every
action property of a passing run is stated by a theorem, under the assumptions of
section 5. Left, in this order:

1. The completeness of `topological_sort`: a graph without a cycle is sorted to the
   end.
2. Further modules: the alert worker of Watch, the message worker of Herd.
