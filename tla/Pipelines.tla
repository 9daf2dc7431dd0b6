----------------------------- MODULE Pipelines -----------------------------
(***************************************************************************)
(* Event-driven pipelines of Pond.  A trigger (an API call or a cron tick) *)
(* records an event and puts it on a Kafka topic; the dispatcher of the    *)
(* pod that owns the partition reads the subscriptions and spawns one task *)
(* per matching pipeline; a task loads the graph, records a run and        *)
(* executes the nodes in topological order.  Users edit pipelines          *)
(* meanwhile, and pods crash and restart.                                  *)
(*                                                                         *)
(* All events of a project are in one Kafka partition, "log".  The graph   *)
(* of a pipeline is read with three statements, so a task may see the      *)
(* nodes of one version and the edges of the next.  The node_type of a     *)
(* node is taken to agree with its config.                                 *)
(***************************************************************************)
EXTENDS PipelineDag

CONSTANTS
  Pods,
  NoPod,
  Pipes,        \* ids of pipelines
  Payloads,     \* the graphs users submit, valid or not
  Absent,       \* not there yet
  Deleted,      \* gone for good: ids are not used again
  Subs,         \* subscriptions: the pipeline and the filter, a pipeline or none
  NoFilter,     \* the empty filter
  MaxEvents,    \* bound: triggers
  MaxTasks,     \* bound: tasks ever spawned
  MaxEdits,     \* bound: edits by users
  MaxFaults     \* bound: broker, database and process faults together

ASSUME PipelineBounds ==
  MaxEvents \in Nat /\ MaxTasks \in Nat /\ MaxEdits \in Nat /\ MaxFaults \in Nat
ASSUME PipelineConstants ==
  /\ NoPod \notin Pods /\ {Absent, Deleted} \cap Payloads = {} /\ NoFilter \notin Pipes
  /\ \A s \in Subs : s.pipe \in Pipes /\ s.filter \in Pipes \cup {NoFilter}
ASSUME PayloadAssumption == \A g \in Payloads : IsGraph(g.nodes, g.edges)

VARIABLES
  pipe,       \* warehouse_pipelines with their nodes and edges
  subs,       \* warehouse_pipeline_subscriptions
  event,      \* warehouse_pipeline_events: status, and the pipeline of the payload
  run,        \* warehouse_pipeline_runs: status of the run of each task
  log, committed, owner,  \* Kafka: the partition, the offset, the assigned member
  pod,        \* per pod: next step of the dispatcher, position, message in hand,
              \* subscriptions still to do, the one being loaded, running_streams,
              \* the runs that had started before the pod did
  task,       \* spawned runs: next step and what was loaded and done
  handled,    \* history: offsets whose process_message returned
  unrecorded, \* history: tasks whose last status, or clean-up, was not written
  edits, faults

dbVars == <<pipe, subs, edits>>
kafkaVars == <<log, committed, owner>>
vars == <<dbVars, event, run, kafkaVars, pod, task, handled, unrecorded, faults>>

Events == 1..MaxEvents
Tasks == 1..MaxTasks
Spend == faults < MaxFaults /\ faults' = faults + 1
Edit == edits < MaxEdits /\ edits' = edits + 1

Exists(p) == pipe[p] \in Payloads

\* The orders of every graph a task may load, torn ones included.
NodeMaps == {g.nodes : g \in Payloads} \cup {<< >>}
EdgeSets == {g.edges : g \in Payloads} \cup {{}}
Orders == [n \in NodeMaps |-> [e \in EdgeSets |-> topological_sort(n, e)]]
Accepted == {g \in Payloads : Orders[g.nodes][g.edges] # {}}

NoGraph == [nodes |-> << >>, edges |-> {}]
NoTask == [pc |-> "none", pod |-> NoPod, pipe |-> Absent, stream |-> FALSE, graph |-> NoGraph,
           srcs |-> << >>, down |-> << >>, rest |-> << >>, done |-> {}, written |-> {}, ok |-> FALSE,
           all |-> FALSE]

-----------------------------------------------------------------------------
(* The API: pipelines and subscriptions. *)

\* create_pipeline, update_pipeline: one transaction, after validation.
Save(p, g) ==
  /\ Edit
  /\ pipe[p] # Deleted /\ g \in Accepted
  /\ pipe' = [pipe EXCEPT ![p] = g]
  /\ UNCHANGED <<subs, event, run, kafkaVars, pod, task, handled, unrecorded, faults>>

\* delete_pipeline; ON DELETE CASCADE takes subscriptions and runs along.
Delete(p) ==
  /\ Edit
  /\ Exists(p)
  /\ pipe' = [pipe EXCEPT ![p] = Deleted]
  /\ subs' = {s \in subs : s.pipe # p}
  /\ run' = [t \in Tasks |-> IF task[t].pipe = p THEN "absent" ELSE run[t]]
  /\ UNCHANGED <<event, kafkaVars, pod, task, handled, unrecorded, faults>>

create_subscription(s) ==
  /\ Edit
  /\ s \notin subs /\ Exists(s.pipe)
  /\ subs' = subs \cup {s}
  /\ UNCHANGED <<pipe, event, run, kafkaVars, pod, task, handled, unrecorded, faults>>

delete_subscription(s) ==
  /\ Edit
  /\ s \in subs
  /\ subs' = subs \ {s}
  /\ UNCHANGED <<pipe, event, run, kafkaVars, pod, task, handled, unrecorded, faults>>

\* emit, for a manual trigger or a cron tick about pipeline p: the row, then
\* the message, which may be lost (also with the process) or sent twice.
emit(e, p) ==
  /\ event[e].st = "absent"
  /\ \A d \in Events : d < e => event[d].st # "absent"
  /\ event' = [event EXCEPT ![e] = [st |-> "dispatched", pipe |-> p]]
  /\ \E n \in 0..2 :
       /\ IF n = 1 THEN UNCHANGED faults ELSE Spend
       /\ log' = log \o [i \in 1..n |-> e]
  /\ UNCHANGED <<dbVars, run, committed, owner, pod, task, handled, unrecorded>>

-----------------------------------------------------------------------------
(* EventDispatcher::run, process_message and dispatch_event. *)

EventOf(c) == log[pod[c].cur]
matches_filter(e, s) == s.filter = NoFilter \/ s.filter = event[e].pipe

\* Mutant: enable.auto.commit, the offset is committed on delivery.
DeliverAutoCommit(c) ==
  /\ pod[c].pc = "poll" /\ owner = c /\ pod[c].pos < Len(log)
  /\ pod' = [pod EXCEPT ![c].pc = "next", ![c].pos = @ + 1, ![c].cur = pod[c].pos + 1,
                        ![c].todo = {s \in subs : matches_filter(log[pod[c].pos + 1], s)}]
  /\ committed' = pod[c].pos + 1
  /\ UNCHANGED <<dbVars, event, run, log, owner, task, handled, unrecorded, faults>>

\* The stream yields the next message to the pod that owns the partition;
\* get_subscriptions_for_event, filtered, says what is to do.
Deliver(c) ==
  /\ pod[c].pc = "poll" /\ owner = c /\ pod[c].pos < Len(log)
  /\ pod' = [pod EXCEPT ![c].pc = "next", ![c].pos = @ + 1, ![c].cur = pod[c].pos + 1,
                        ![c].todo = {s \in subs : matches_filter(log[pod[c].pos + 1], s)}]
  /\ UNCHANGED <<dbVars, event, run, kafkaVars, task, handled, unrecorded, faults>>

\* The next subscription: the row of its pipeline; none, or not enabled, and it
\* is skipped.
LoadPipeline(c) ==
  /\ pod[c].pc = "next"
  /\ \E s \in pod[c].todo :
       LET skip == Exists(s.pipe) => ~pipe[s.pipe].enabled
       IN  pod' = [pod EXCEPT ![c].pc = IF skip THEN "next" ELSE "mode",
                              ![c].todo = @ \ {s},
                              ![c].pipe = IF skip THEN Absent ELSE s.pipe]
  /\ UNCHANGED <<dbVars, event, run, kafkaVars, task, handled, unrecorded, faults>>

\* tokio::spawn of run or run_streaming.
Spawn(t, c, p, stream) ==
  /\ task[t].pc = "none"
  /\ \A u \in Tasks : u < t => task[u].pc # "none"
  /\ task' = [task EXCEPT ![t] = [NoTask EXCEPT !.pc = "load", !.pod = c, !.pipe = p,
                                                !.stream = stream]]

\* Mutant: running_streams is not consulted.
DispatchAgain(c) ==
  /\ pod[c].pc = "mode"
  /\ LET p == pod[c].pipe
         stream == Exists(p) /\ Streaming(pipe[p].nodes)
     IN /\ \E t \in Tasks : Spawn(t, c, p, stream)
        /\ pod' = [pod EXCEPT ![c].pc = "next", ![c].pipe = Absent,
                              ![c].streams = IF stream THEN @ \cup {p} ELSE @]
  /\ UNCHANGED <<dbVars, event, run, kafkaVars, handled, unrecorded, faults>>

\* The nodes, a later statement, decide the mode.  A streaming pipeline this
\* pod started before is left alone, whatever became of it.
Dispatch(c) ==
  /\ pod[c].pc = "mode"
  /\ LET p == pod[c].pipe
         stream == Exists(p) /\ Streaming(pipe[p].nodes)
     IN /\ IF stream /\ p \in pod[c].streams
           THEN UNCHANGED task
           ELSE \E t \in Tasks : Spawn(t, c, p, stream)
        /\ pod' = [pod EXCEPT ![c].pc = "next", ![c].pipe = Absent,
                              ![c].streams = IF stream THEN @ \cup {p} ELSE @]
  /\ UNCHANGED <<dbVars, event, run, kafkaVars, handled, unrecorded, faults>>

\* The event is settled; the error of the update is ignored.
Settle(c, st) ==
  /\ \/ event' = [event EXCEPT ![EventOf(c)].st = st] /\ UNCHANGED faults
     \/ UNCHANGED event /\ Spend
  /\ handled' = handled \cup {pod[c].cur}

EventDone(c) ==
  /\ pod[c].pc = "next" /\ pod[c].todo = {}
  /\ Settle(c, "completed")
  /\ pod' = [pod EXCEPT ![c].pc = "commit"]
  /\ UNCHANGED <<dbVars, run, kafkaVars, task, unrecorded>>

\* get_subscriptions_for_event fails ...
SubscriptionsError(c) ==
  /\ pod[c].pc = "poll" /\ owner = c /\ pod[c].pos < Len(log)
  /\ Spend
  /\ event' = [event EXCEPT ![log[pod[c].pos + 1]].st = "failed"]
  /\ handled' = handled \cup {pod[c].pos + 1}
  /\ pod' = [pod EXCEPT ![c].pc = "commit", ![c].pos = @ + 1, ![c].cur = pod[c].pos + 1]
  /\ UNCHANGED <<dbVars, run, kafkaVars, task, unrecorded>>

\* ... or the load of a pipeline: the other subscriptions are dropped.
DispatchError(c) ==
  /\ pod[c].pc = "mode" \/ (pod[c].pc = "next" /\ pod[c].todo # {})
  /\ Spend
  /\ event' = [event EXCEPT ![EventOf(c)].st = "failed"]
  /\ handled' = handled \cup {pod[c].cur}
  /\ pod' = [pod EXCEPT ![c].pc = "commit", ![c].todo = {}, ![c].pipe = Absent]
  /\ UNCHANGED <<dbVars, run, kafkaVars, task, unrecorded>>

\* commit_message(Async): from the owner only, and it may be lost.
CommitOffset(c) ==
  /\ pod[c].pc = "commit"
  /\ \/ owner = c /\ committed' = pod[c].cur /\ UNCHANGED faults
     \/ owner # c /\ UNCHANGED <<committed, faults>>
     \/ owner = c /\ UNCHANGED committed /\ Spend
  /\ pod' = [pod EXCEPT ![c].pc = "poll", ![c].cur = 0]
  /\ UNCHANGED <<dbVars, event, run, log, owner, task, handled, unrecorded>>

\* The consumer group assigns the partition, and may take it away.
Assign(c) ==
  /\ owner = NoPod /\ pod[c].pc \notin {"down", "boot", "idle"}
  /\ owner' = c
  /\ pod' = [pod EXCEPT ![c].pos = committed]
  /\ UNCHANGED <<dbVars, event, run, log, committed, task, handled, unrecorded, faults>>

Revoke ==
  /\ owner # NoPod
  /\ Spend
  /\ owner' = NoPod
  /\ UNCHANGED <<dbVars, event, run, log, committed, pod, task, handled, unrecorded>>

-----------------------------------------------------------------------------
(* PipelineExecutor::run and run_streaming. *)

\* A task is over, by itself or with its pod: what remains is the result, and
\* as history whether all sinks were written.
Gone(t, pc) ==
  [NoTask EXCEPT !.pc = pc, !.pipe = task[t].pipe, !.stream = task[t].stream, !.ok = task[t].ok,
                 !.all = Sinks(task[t].graph.nodes) \subseteq task[t].written]
Over(t) == task' = [task EXCEPT ![t] = Gone(t, "over")]

\* load: the row of the pipeline, without which the task ends and leaves no
\* run, and its nodes.
LoadNodes(t) ==
  /\ task[t].pc = "load"
  /\ LET p == task[t].pipe
     IN  IF Exists(p) THEN task' = [task EXCEPT ![t].pc = "edges", ![t].graph.nodes = pipe[p].nodes]
         ELSE Over(t)
  /\ UNCHANGED <<dbVars, event, run, kafkaVars, pod, handled, unrecorded, faults>>

\* Where execution starts: a batch run with the first node, a stream by waiting
\* for a batch of its first source.
Begin(t, edges, order) ==
  LET nodes == task[t].graph.nodes
  IN  IF task[t].stream
      THEN [task[t] EXCEPT !.pc = "stream", !.graph.edges = edges,
                           !.srcs = Select(order, Sources(nodes)),
                           !.down = Select(order, DOMAIN nodes \ Sources(nodes))]
      ELSE [task[t] EXCEPT !.pc = "exec", !.graph.edges = edges, !.rest = order]

\* Whether a run can start: the graph has an order, run_streaming finds it still
\* a stream, and the pipeline the new row refers to is still there.
Startable(t) ==
  LET p == task[t].pipe
      nodes == task[t].graph.nodes
  IN  Exists(p) /\ Orders[nodes][pipe[p].edges] # {} /\ (task[t].stream => Streaming(nodes))

\* load_edges; the graph is sorted and the run recorded, or the task ends.
StartRun(t) ==
  /\ task[t].pc = "edges"
  /\ \/ ~Startable(t) /\ Over(t) /\ UNCHANGED run
     \/ /\ Startable(t)
        /\ LET edges == pipe[task[t].pipe].edges
           IN  \E order \in Orders[task[t].graph.nodes][edges] :
                 task' = [task EXCEPT ![t] = Begin(t, edges, order)]
        /\ run' = [run EXCEPT ![t] = "running"]
  /\ UNCHANGED <<dbVars, event, kafkaVars, pod, handled, unrecorded, faults>>

\* A statement up to insert_run fails: the task ends.  insert_run may have taken
\* effect all the same; nobody knows of that row, which stays running until a
\* pod starts.
TaskError(t) ==
  /\ task[t].pc \in {"load", "edges"}
  /\ Spend
  /\ Over(t)
  /\ \/ UNCHANGED <<run, unrecorded>>
     \/ /\ task[t].pc = "edges" /\ Startable(t)
        /\ run' = [run EXCEPT ![t] = "running"]
        /\ unrecorded' = unrecorded \cup {t}
  /\ UNCHANGED <<dbVars, event, kafkaVars, pod, handled>>

\* Execution ends with result ok: what was loaded is needed no more.
Ended(t, ok, written) ==
  [task[t] EXCEPT !.pc = "record", !.ok = ok, !.rest = << >>, !.srcs = << >>, !.down = << >>,
                  !.written = written]

\* A node succeeds: execute_source, execute_transform or execute_sink.  A batch
\* run cannot read a cdc source.
NodeOk(t) ==
  /\ task[t].pc = "exec" /\ task[t].rest # << >>
  /\ LET n == Head(task[t].rest)
         nodes == task[t].graph.nodes
     IN /\ nodes[n] = "cdc" => task[t].stream
        /\ task' = [task EXCEPT ![t].rest = Tail(@), ![t].done = @ \cup {n},
                                ![t].written = IF nodes[n] = "sink" THEN @ \cup {n} ELSE @]
  /\ UNCHANGED <<dbVars, event, run, kafkaVars, pod, handled, unrecorded, faults>>

\* Mutant: the error of a node is swallowed.
NodeErrIgnored(t) ==
  /\ task[t].pc = "exec" /\ task[t].rest # << >>
  /\ task' = [task EXCEPT ![t].rest = Tail(@)]
  /\ UNCHANGED <<dbVars, event, run, kafkaVars, pod, handled, unrecorded, faults>>

\* A node fails and the rest is not run; a sink without transactions may have
\* written.
NodeErr(t) ==
  /\ task[t].pc = "exec" /\ task[t].rest # << >>
  /\ LET n == Head(task[t].rest)
     IN  \E partial \in SUBSET ({n} \cap Sinks(task[t].graph.nodes)) :
           task' = [task EXCEPT ![t] = Ended(t, FALSE, task[t].written \cup partial)]
  /\ UNCHANGED <<dbVars, event, run, kafkaVars, pod, handled, unrecorded, faults>>

\* All nodes ran: a batch run is over, a stream waits for more (save_cursor).
\* Every batch of a stream has its own buffers: done and written are about the
\* batch in hand, and start empty with the next.
NodesDone(t) ==
  /\ task[t].pc = "exec" /\ task[t].rest = << >>
  /\ task' = [task EXCEPT ![t] = IF task[t].stream THEN [task[t] EXCEPT !.pc = "stream", !.done = {},
                                                                        !.written = {}]
                                 ELSE Ended(t, TRUE, task[t].written)]
  /\ UNCHANGED <<dbVars, event, run, kafkaVars, pod, handled, unrecorded, faults>>

\* stream.next(): a batch goes through all transforms and sinks ...
StreamBatch(t) ==
  /\ task[t].pc = "stream"
  /\ task' = [task EXCEPT ![t].pc = "exec", ![t].done = {Head(task[t].srcs)},
                          ![t].rest = task[t].down]
  /\ UNCHANGED <<dbVars, event, run, kafkaVars, pod, handled, unrecorded, faults>>

\* Mutant: the end of a source is always followed by another source.
StreamEndPastLast(t) ==
  /\ task[t].pc = "stream"
  /\ \E ok \in BOOLEAN :
       task' = [task EXCEPT ![t] = IF ok THEN [task[t] EXCEPT !.srcs = Tail(@)]
                                   ELSE Ended(t, ok, task[t].written)]
  /\ UNCHANGED <<dbVars, event, run, kafkaVars, pod, handled, unrecorded, faults>>

\* ... the source has no more and the next one is streamed, the last one ends
\* the run, or it fails.
StreamEnd(t) ==
  /\ task[t].pc = "stream"
  /\ \E ok \in BOOLEAN :
       task' = [task EXCEPT ![t] = IF ok /\ Len(task[t].srcs) > 1
                                   THEN [task[t] EXCEPT !.srcs = Tail(@)]
                                   ELSE Ended(t, ok, task[t].written)]
  /\ UNCHANGED <<dbVars, event, run, kafkaVars, pod, handled, unrecorded, faults>>

\* Mutant: only a run that is still "running" is updated.
RecordIfRunning(t) ==
  /\ task[t].pc = "record"
  /\ run' = IF run[t] # "running" THEN run
            ELSE [run EXCEPT ![t] = IF task[t].ok THEN "succeeded" ELSE "failed"]
  /\ Over(t)
  /\ UNCHANGED <<dbVars, event, kafkaVars, pod, handled, unrecorded, faults>>

\* complete_run or fail_run, whatever the row says by now; an error is logged.
Record(t) ==
  /\ task[t].pc = "record"
  /\ \/ /\ run' = IF run[t] = "absent" THEN run
                  ELSE [run EXCEPT ![t] = IF task[t].ok THEN "succeeded" ELSE "failed"]
        /\ UNCHANGED <<unrecorded, faults>>
     \/ Spend /\ unrecorded' = unrecorded \cup {t} /\ UNCHANGED run
  /\ Over(t)
  /\ UNCHANGED <<dbVars, event, kafkaVars, pod, handled>>

-----------------------------------------------------------------------------
(* Pods. *)

NewPod == [pc |-> "poll", pos |-> 0, cur |-> 0, todo |-> {}, pipe |-> Absent,
           streams |-> {}, before |-> {}]

Crash(c) ==
  /\ pod[c].pc # "down"
  /\ Spend
  /\ pod' = [pod EXCEPT ![c] = [NewPod EXCEPT !.pc = "down"]]
  /\ owner' = IF owner = c THEN NoPod ELSE owner
  /\ task' = [t \in Tasks |-> IF task[t].pod = c /\ task[t].pc \notin {"none", "over", "dead"}
                              THEN Gone(t, "dead") ELSE task[t]]
  /\ UNCHANGED <<dbVars, event, run, log, committed, handled, unrecorded>>

\* The pod starts; server_start is taken.
Boot(c) ==
  /\ pod[c].pc = "down"
  /\ pod' = [pod EXCEPT ![c].pc = "boot", ![c].before = {t \in Tasks : run[t] # "absent"}]
  /\ UNCHANGED <<dbVars, event, run, kafkaVars, task, handled, unrecorded, faults>>

\* Mutant: the comparison of the start times is the wrong way round.
cleanup_stale_runs_later(c) ==
  [t \in Tasks |-> IF t \notin pod[c].before /\ run[t] = "running" THEN "crashed" ELSE run[t]]

\* Runs started before this pod that are "running" are marked, also those of
\* other pods.
cleanup_stale_runs(c) ==
  [t \in Tasks |-> IF t \in pod[c].before /\ run[t] = "running" THEN "crashed" ELSE run[t]]

\* Then the dispatcher starts, even if the clean-up failed; but if the UDF
\* registry cannot be initialized neither happens.
Started(c) ==
  /\ pod[c].pc = "boot"
  /\ \/ /\ run' = cleanup_stale_runs(c)
        /\ pod' = [pod EXCEPT ![c] = NewPod]
        /\ UNCHANGED <<unrecorded, faults>>
     \/ /\ Spend
        /\ \E pc \in {"poll", "idle"} : pod' = [pod EXCEPT ![c] = [NewPod EXCEPT !.pc = pc]]
        /\ unrecorded' = unrecorded \cup {t \in Tasks : run[t] = "running" /\ task[t].pc = "dead"}
        /\ UNCHANGED run
  /\ UNCHANGED <<dbVars, event, kafkaVars, task, handled>>

-----------------------------------------------------------------------------
Init ==
  /\ pipe \in [Pipes -> Accepted \cup {Absent}]
  /\ subs \in SUBSET {s \in Subs : Exists(s.pipe)}
  /\ event = [e \in Events |-> [st |-> "absent", pipe |-> Absent]]
  /\ run = [t \in Tasks |-> "absent"]
  /\ log = << >> /\ committed = 0 /\ owner = NoPod
  /\ pod = [c \in Pods |-> NewPod]
  /\ task = [t \in Tasks |-> NoTask]
  /\ handled = {} /\ unrecorded = {}
  /\ edits = 0 /\ faults = 0

Edits ==
  \/ \E p \in Pipes : Delete(p) \/ \E g \in Payloads : Save(p, g)
  \/ \E s \in Subs : create_subscription(s) \/ delete_subscription(s)

DispatcherStep(c) ==
  \/ Deliver(c) \/ LoadPipeline(c) \/ Dispatch(c) \/ EventDone(c) \/ CommitOffset(c)

TaskStep(t) ==
  \/ LoadNodes(t) \/ StartRun(t)
  \/ NodeOk(t) \/ NodeErr(t) \/ NodesDone(t) \/ StreamEnd(t) \/ Record(t)

Next ==
  \/ Edits
  \/ \E e \in Events, p \in Pipes : emit(e, p)
  \/ \E c \in Pods : 
       \/ DispatcherStep(c) \/ SubscriptionsError(c) \/ DispatchError(c) \/ Assign(c)
       \/ Crash(c) \/ Boot(c) \/ Started(c)
  \/ \E t \in Tasks : TaskStep(t) \/ StreamBatch(t) \/ TaskError(t)
  \/ Revoke

Spec == Init /\ [][Next]_vars

\* A spawned task is scheduled, the connector and UDF calls of its nodes return,
\* and a dead pod is started again.
FairSpec ==
  /\ Spec
  /\ \A c \in Pods : WF_vars(Boot(c) \/ Started(c))
  /\ \A t \in Tasks : WF_vars(TaskStep(t))

-----------------------------------------------------------------------------
(* Properties. *)

Live == {"load", "edges", "exec", "stream", "record"}

NodeIds == UNION {DOMAIN nodes : nodes \in NodeMaps}

PodStates ==
  [pc : {"down", "boot", "idle", "poll", "next", "mode", "commit"}, pos : Nat, cur : Nat,
   todo : SUBSET Subs, pipe : Pipes \cup {Absent}, streams : SUBSET Pipes, before : SUBSET Tasks]

TaskStates ==
  [pc : Live \cup {"none", "over", "dead"}, pod : Pods \cup {NoPod}, pipe : Pipes \cup {Absent},
   stream : BOOLEAN, graph : [nodes : NodeMaps, edges : EdgeSets], srcs : Seq(NodeIds),
   down : Seq(NodeIds), rest : Seq(NodeIds), done : SUBSET NodeIds, written : SUBSET NodeIds,
   ok : BOOLEAN, all : BOOLEAN]

\* Every variable keeps to its domain, and the local state of a pod or a task
\* to the step it is at.
TypeOK ==
  /\ pipe \in [Pipes -> Payloads \cup {Absent, Deleted}]
  /\ subs \subseteq Subs
  /\ event \in [Events -> [st : {"absent", "dispatched", "completed", "failed"},
                          pipe : Pipes \cup {Absent}]]
  /\ run \in [Tasks -> {"absent", "running", "succeeded", "failed", "crashed"}]
  /\ log \in Seq(Events) /\ committed \in 0..Len(log) /\ owner \in Pods \cup {NoPod}
  /\ pod \in [Pods -> PodStates]
  /\ \A c \in Pods :
       /\ pod[c].pos \in 0..Len(log)
       /\ pod[c].cur \in IF pod[c].pc \in {"next", "mode", "commit"} THEN 1..Len(log) ELSE {0}
       /\ pod[c].pipe \in IF pod[c].pc = "mode" THEN Pipes ELSE {Absent}
  /\ task \in [Tasks -> TaskStates]
  /\ \A t \in Tasks :
       /\ task[t].pc \in Live => task[t].pod \in Pods
       /\ task[t].pc # "none" => task[t].pipe \in Pipes
       /\ task[t].pc = "stream" => task[t].stream /\ task[t].srcs # << >>
       /\ task[t].done \cup task[t].written \subseteq DOMAIN task[t].graph.nodes
       /\ Range(task[t].rest) \cap task[t].done = {}
  /\ handled \subseteq 1..Len(log) /\ unrecorded \subseteq Tasks
  /\ edits \in 0..MaxEdits /\ faults \in 0..MaxFaults

\* A node runs only when every node that feeds it has run, so that no missing
\* buffer is silently taken for no rows (a stream passes on one source at a
\* time), and nothing is written before every transform of the graph has
\* succeeded: "If the UDF errors on any batch ... write_table() is never
\* called" (docs/udf-transactional-processing.md).  Of a stream it speaks of the
\* batch in hand: what earlier batches wrote stays written.  It holds of graphs
\* that were loaded while an update replaced them (executor.rs, dag.rs).
RunOrderSound ==
  \A t \in Tasks :
    LET nodes == task[t].graph.nodes
        edges == task[t].graph.edges
    IN  /\ \A n \in task[t].done \cup task[t].written : \A u \in Upstream(edges, n) :
             u \in task[t].done \/ (task[t].stream /\ u \in Sources(nodes))
        /\ task[t].written # {} => Transforms(nodes) \subseteq task[t].done

\* A run recorded as succeeded has written every sink of the graph it loaded,
\* even if another pod declared it crashed in between (complete_run).
SucceededWroteAllSinks ==
  \A t \in Tasks : run[t] = "succeeded" /\ ~task[t].stream
                      => task[t].all

\* The run of a task that is over has the status the task ended with, although
\* the clean-up of a starting pod marks the runs of other, living pods crashed:
\* either it comes first and is corrected, or it finds nothing to mark
\* (cleanup_stale_runs, complete_run, fail_run).
RecordedOutcome ==
  \A t \in Tasks :
    task[t].pc = "over" /\ t \notin unrecorded /\ run[t] # "absent"
      => run[t] = IF task[t].ok THEN "succeeded" ELSE "failed"

\* A pod never runs two streams of one pipeline at a time, whatever events are
\* delivered again (running_streams, dispatch_event).
OneStreamPerPod ==
  \A t, u \in Tasks :
    /\ t # u /\ task[t].stream /\ task[u].stream
    /\ task[t].pc \in Live /\ task[u].pc \in Live
    => task[t].pod # task[u].pod \/ task[t].pipe # task[u].pipe

\* The dispatcher and its offsets are an at-least-once consumer: no offset is
\* committed over an event that was not processed (EventDispatcher::run).
AtLeastOnce == INSTANCE AtLeastOnceLog WITH Message <- Events
DispatcherIsAtLeastOnce == AtLeastOnce!Spec

\* No batch run is "running" for ever: its task records the outcome, or the pod
\* dies and a later start marks it (PipelineExecutor::run, cleanup_stale_runs).
\* Left out are the runs whose row no statement will correct, because the one
\* that inserted, completed or cleaned it up failed.
RunSettles ==
  \A t \in Tasks :
    (run[t] = "running" /\ ~task[t].stream) ~> (run[t] # "running" \/ t \in unrecorded)

=============================================================================
