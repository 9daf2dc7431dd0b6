-------------------------- MODULE Pipelines_proofs --------------------------
(***************************************************************************)
(* Proofs about the pipelines of Pond, for any number of pods, pipelines,  *)
(* subscriptions, events and tasks, any graphs and any number of faults:   *)
(* the dispatcher is an at-least-once consumer, a pod runs one stream of a *)
(* pipeline at a time, nodes run in order, and the status of a run is what *)
(* became of its task.                                                     *)
(***************************************************************************)
EXTENDS Pipelines, PipelineDag_proofs

-----------------------------------------------------------------------------
(* The inductive invariant. *)

\* What is left to run can be run in that order: what feeds a node has run or
\* comes earlier, and so has every transform when a sink is reached.
Ready(nodes, edges, done, stream, rest) ==
  /\ rest \in Seq(DOMAIN nodes) /\ NoRepeats(rest) /\ Range(rest) \cap done = {}
  /\ \A i \in 1..Len(rest) : \A u \in Upstream(edges, rest[i]) :
       \/ u \in done \/ (stream /\ u \in Sources(nodes))
       \/ \E j \in 1..Len(rest) : j < i /\ rest[j] = u
  /\ \A i \in 1..Len(rest) : rest[i] \in Sinks(nodes) =>
       \A n \in Transforms(nodes) : n \in done \/ \E j \in 1..Len(rest) : j < i /\ rest[j] = n

\* RunOrderSound, of one task.
OrderSound(x) ==
  /\ \A n \in x.done \cup x.written : \A u \in Upstream(x.graph.edges, n) :
       u \in x.done \/ (x.stream /\ u \in Sources(x.graph.nodes))
  /\ x.written # {} => Transforms(x.graph.nodes) \subseteq x.done

\* The types that TypeOK demands of one task.
TaskType(x) ==
  /\ x \in TaskStates
  /\ x.pc \in Live => x.pod \in Pods
  /\ x.pc # "none" => x.pipe \in Pipes
  /\ x.pc = "stream" => x.stream /\ x.srcs # << >>
  /\ x.done \cup x.written \subseteq DOMAIN x.graph.nodes
  /\ Range(x.rest) \cap x.done = {}

\* A task that executes nodes does so along an order of its graph; one that does
\* not has run nothing.
TaskInv(x) ==
  /\ TaskType(x) /\ OrderSound(x)
  /\ x.pc \notin {"exec", "record"} => x.done = {} /\ x.written = {}
  /\ x.pc # "exec" => x.rest = << >>
  /\ x.ok => x.pc \in {"record", "over", "dead"}
  /\ x.pc = "exec" => /\ Ready(x.graph.nodes, x.graph.edges, x.done, x.stream, x.rest)
                      /\ Sinks(x.graph.nodes) \subseteq x.written \cup Range(x.rest)
  /\ x.pc \in {"exec", "stream"} /\ x.stream =>
       /\ x.srcs \in Seq(Sources(x.graph.nodes)) /\ x.srcs # << >>
       /\ \A n \in Sources(x.graph.nodes) : Upstream(x.graph.edges, n) = {}
       /\ Ready(x.graph.nodes, x.graph.edges, {}, TRUE, x.down)
       /\ Range(x.down) = DOMAIN x.graph.nodes \ Sources(x.graph.nodes)
  /\ x.pc = "record" /\ x.ok /\ ~x.stream => Sinks(x.graph.nodes) \subseteq x.written
  /\ x.pc = "over" /\ x.ok /\ ~x.stream => x.all

TasksInv == task \in [Tasks -> TaskStates] /\ \A t \in Tasks : TaskInv(task[t])

\* The row of a run and its task: no row before the task starts its run, and
\* "succeeded" only of a task that ended well.
RunInv ==
  /\ run \in [Tasks -> {"absent", "running", "succeeded", "failed", "crashed"}]
  /\ \A t \in Tasks :
       /\ task[t].pc \in {"none", "load", "edges"} => run[t] = "absent"
       /\ run[t] = "succeeded" => task[t].pc = "over" /\ task[t].ok
  /\ RecordedOutcome

\* The live tasks of a pod die with it, and running_streams has the pipelines of
\* all its streams.
StreamsInv ==
  /\ \A t \in Tasks : task[t].pc \in Live => pod[task[t].pod].pc \notin {"down", "boot"}
  /\ \A t \in Tasks : task[t].pc \in Live /\ task[t].stream
                        => task[t].pipe \in pod[task[t].pod].streams
  /\ OneStreamPerPod

\* The dispatcher handles messages in order: all below the committed offset are
\* handled, all up to the position of the owner but for the one in hand, and all
\* before a message in hand, also in the hands of a former owner.
InHand == {"next", "mode", "commit"}
OffsetInv ==
  /\ (1..committed) \subseteq handled
  /\ \A c \in Pods : owner = c => (1..pod[c].pos) \subseteq handled \cup {pod[c].cur}
  /\ \A c \in Pods : pod[c].pc \in InHand => (1..(pod[c].cur - 1)) \subseteq handled
  /\ \A c \in Pods : pod[c].pc = "commit" => pod[c].cur \in handled

-----------------------------------------------------------------------------
(* Orders of execution. *)

\* Every graph a task may load, a torn one included, has the shape of a graph,
\* and its orders are good.
LEMMA OrderFacts ==
  ASSUME NEW nodes \in NodeMaps, NEW edges \in EdgeSets, NEW o \in Orders[nodes][edges]
  PROVE  /\ o \in Seq(DOMAIN nodes) /\ NoRepeats(o) /\ Range(o) = DOMAIN nodes
         /\ GoodOrder(nodes, edges, o) /\ WellFormed(nodes, edges)
<1>1. IsFiniteSet(DOMAIN nodes) /\ nodes \in [DOMAIN nodes -> Kinds]
  <2>1. CASE nodes = << >>
    <3>1. DOMAIN nodes = {}
      BY <2>1
    <3>2. nodes \in [{} -> Kinds]
      BY <2>1
    <3> QED
      BY <3>1, <3>2, FS_EmptySet
  <2>2. CASE \E g \in Payloads : nodes = g.nodes
    BY <2>2, PayloadAssumption DEF IsGraph
  <2> QED
    BY <2>1, <2>2 DEF NodeMaps
<1>2. \A e \in edges : e = <<e[1], e[2]>>
  BY PayloadAssumption DEF IsGraph, EdgeSets
<1>3. IsGraph(nodes, edges)
  BY <1>1, <1>2 DEF IsGraph
<1>4. o \in topological_sort(nodes, edges)
  BY DEF Orders
<1> QED
  BY <1>3, <1>4, TopologicalSortSound DEF GoodOrder

\* An order of the whole graph can be run.
LEMMA OrderReady ==
  ASSUME NEW nodes \in NodeMaps, NEW edges \in EdgeSets, NEW o \in Orders[nodes][edges],
         NEW stream \in BOOLEAN
  PROVE  Ready(nodes, edges, {}, stream, o) /\ Sinks(nodes) \subseteq Range(o)
<1>1. /\ o \in Seq(DOMAIN nodes) /\ NoRepeats(o) /\ Range(o) = DOMAIN nodes
      /\ GoodOrder(nodes, edges, o) /\ WellFormed(nodes, edges)
  BY OrderFacts
<1>2. \A n \in DOMAIN nodes : \E j \in 1..Len(o) : o[j] = n
  BY <1>1, SeqRange
<1>3. ASSUME NEW i \in 1..Len(o), NEW u \in Upstream(edges, o[i])
      PROVE  \E j \in 1..Len(o) : j < i /\ o[j] = u
  <2>1. PICK e \in edges : e[2] = o[i] /\ e[1] = u
    BY DEF Upstream
  <2>2. e = <<u, o[i]>>
    BY <2>1, PayloadAssumption DEF IsGraph, EdgeSets
  <2>3. u \in DOMAIN nodes
    BY <1>1, <2>1 DEF WellFormed
  <2>4. PICK j \in 1..Len(o) : o[j] = u
    BY <1>2, <2>3
  <2>5. j < i
    BY <1>1, <2>1, <2>2, <2>4 DEF GoodOrder
  <2> QED
    BY <2>4, <2>5
<1>4. ASSUME NEW i \in 1..Len(o), o[i] \in Sinks(nodes), NEW n \in Transforms(nodes)
      PROVE  \E j \in 1..Len(o) : j < i /\ o[j] = n
  <2>1. n \in DOMAIN nodes /\ nodes[n] = "transform" /\ nodes[o[i]] = "sink"
    BY <1>4 DEF Transforms, Sinks, OfKind
  <2>2. PICK j \in 1..Len(o) : o[j] = n
    BY <1>2, <2>1
  <2>3. j < i
    BY <1>1, <2>1, <2>2 DEF GoodOrder
  <2> QED
    BY <2>2, <2>3
<1>5. Sinks(nodes) \subseteq Range(o)
  BY <1>1 DEF Sinks, OfKind
<1> QED
  BY <1>1, <1>3, <1>4, <1>5 DEF Ready

\* The transforms and sinks of a stream can be run whenever a source has
\* produced a batch.
LEMMA StreamReady ==
  ASSUME NEW nodes \in NodeMaps, NEW edges \in EdgeSets, NEW o \in Orders[nodes][edges]
  PROVE  LET down == Select(o, DOMAIN nodes \ Sources(nodes))
         IN  /\ Ready(nodes, edges, {}, TRUE, down)
             /\ Range(down) = DOMAIN nodes \ Sources(nodes)
<1> DEFINE A == DOMAIN nodes \ Sources(nodes)
           r == Select(o, A)
<1>1. o \in Seq(DOMAIN nodes) /\ NoRepeats(o) /\ Range(o) = DOMAIN nodes /\ WellFormed(nodes, edges)
  BY OrderFacts
<1>2. r \in Seq(DOMAIN nodes) /\ NoRepeats(r) /\ Range(r) = A
  <2>1. r \in Seq(DOMAIN nodes) /\ NoRepeats(r) /\ Range(r) = Range(o) \cap A
    BY <1>1, SelectFacts
  <2> QED
    BY <1>1, <2>1
<1>3. /\ \A i \in 1..Len(o) : \A u \in Upstream(edges, o[i]) : \E j \in 1..Len(o) : j < i /\ o[j] = u
      /\ \A i \in 1..Len(o) : o[i] \in Sinks(nodes) =>
           \A n \in Transforms(nodes) : \E j \in 1..Len(o) : j < i /\ o[j] = n
  <2>1. Ready(nodes, edges, {}, FALSE, o)
    BY OrderReady
  <2> QED
    BY <2>1 DEF Ready
<1>4. ASSUME NEW i \in 1..Len(r), NEW u \in A, NEW k \in 1..Len(o), NEW l \in 1..Len(o),
             o[l] = r[i], o[k] = u, k < l
      PROVE  \E j \in 1..Len(r) : j < i /\ r[j] = u
  <2>1. PICK j \in 1..Len(r) : r[j] = u
    <3>1. r \in Seq(DOMAIN nodes) /\ u \in Range(r)
      BY <1>2
    <3> HIDE DEF r, A
    <3> QED
      BY <3>1, SeqRange
  <2>2. j < i
    BY <1>1, <1>4, <2>1, SelectOrder
  <2> QED
    BY <2>1, <2>2
<1> HIDE DEF r
<1>5. ASSUME NEW i \in 1..Len(r) PROVE \E l \in 1..Len(o) : o[l] = r[i]
  BY <1>1, <1>2, SeqRange
<1>6. ASSUME NEW i \in 1..Len(r), NEW u \in Upstream(edges, r[i]), u \notin Sources(nodes)
      PROVE  \E j \in 1..Len(r) : j < i /\ r[j] = u
  <2>1. PICK l \in 1..Len(o) : o[l] = r[i]
    BY <1>5
  <2>2. PICK k \in 1..Len(o) : k < l /\ o[k] = u
    BY <1>3, <2>1
  <2>3. u \in A
    BY <1>1, <1>6, <2>2, SeqRange
  <2> QED
    BY <1>4, <2>1, <2>2, <2>3
<1>7. ASSUME NEW i \in 1..Len(r), r[i] \in Sinks(nodes), NEW n \in Transforms(nodes)
      PROVE  \E j \in 1..Len(r) : j < i /\ r[j] = n
  <2>1. PICK l \in 1..Len(o) : o[l] = r[i]
    BY <1>5
  <2>2. PICK k \in 1..Len(o) : k < l /\ o[k] = n
    BY <1>3, <1>7, <2>1
  <2>3. n \in A
    BY DEF Transforms, Sources, OfKind
  <2> QED
    BY <1>4, <2>1, <2>2, <2>3
<1>8. Ready(nodes, edges, {}, TRUE, r)
  BY <1>2, <1>6, <1>7 DEF Ready
<1> QED
  BY <1>2, <1>8 DEF r

\* A streaming graph has a source to read, and its sources are fed by nothing.
LEMMA StreamSources ==
  ASSUME NEW nodes \in NodeMaps, NEW edges \in EdgeSets, NEW o \in Orders[nodes][edges]
  PROVE  /\ Select(o, Sources(nodes)) \in Seq(Sources(nodes))
         /\ Select(o, Sources(nodes)) # << >>
         /\ \A n \in Sources(nodes) : Upstream(edges, n) = {}
<1> DEFINE r == Select(o, Sources(nodes))
<1>1. o \in Seq(DOMAIN nodes) /\ NoRepeats(o) /\ Range(o) = DOMAIN nodes /\ WellFormed(nodes, edges)
  BY OrderFacts
<1>2. r \in Seq(DOMAIN nodes) /\ Range(r) = Range(o) \cap Sources(nodes)
  BY <1>1, SelectFacts
<1>3. Sources(nodes) \subseteq DOMAIN nodes
  BY DEF Sources, OfKind
<1> HIDE DEF r
<1>4. Range(r) = Sources(nodes)
  BY <1>1, <1>2, <1>3
<1>5. \A i \in 1..Len(r) : r[i] \in Sources(nodes)
  BY <1>2, <1>4, SeqRange
<1>6. r \in Seq(Sources(nodes))
  BY <1>2, <1>5
<1>7. r # << >>
  <2>1. Sources(nodes) # {}
    BY <1>1 DEF WellFormed
  <2> QED
    BY <1>4, <2>1 DEF Range
<1> QED
  BY <1>1, <1>6, <1>7 DEF WellFormed, r

\* The next node to run: what feeds it has run, and the rest can be run after it.
LEMMA RunNode ==
  ASSUME NEW nodes, NEW edges, NEW done, NEW stream, NEW rest,
         Ready(nodes, edges, done, stream, rest), rest # << >>
  PROVE  /\ Head(rest) \in DOMAIN nodes /\ Range(rest) = Range(Tail(rest)) \cup {Head(rest)}
         /\ \A u \in Upstream(edges, Head(rest)) : u \in done \/ (stream /\ u \in Sources(nodes))
         /\ Head(rest) \in Sinks(nodes) => Transforms(nodes) \subseteq done
         /\ Ready(nodes, edges, done \cup {Head(rest)}, stream, Tail(rest))
<1> DEFINE h == Head(rest)
           r == Tail(rest)
<1>1. rest \in Seq(DOMAIN nodes) /\ NoRepeats(rest) /\ Range(rest) \cap done = {}
  BY DEF Ready
<1>2. /\ h \in Range(rest) /\ h \in DOMAIN nodes /\ r \in Seq(DOMAIN nodes) /\ NoRepeats(r)
      /\ Range(r) = Range(rest) \ {h}
  BY <1>1, TailFacts
<1>3. /\ Len(rest) \in Nat \ {0} /\ Len(r) = Len(rest) - 1 /\ h = rest[1] /\ 1 \in 1..Len(rest)
      /\ \A i \in 1..Len(r) : r[i] = rest[i + 1]
  BY <1>1
<1> HIDE DEF h, r
<1>4. \A j \in 1..Len(rest) : ~(j < 1)
  BY <1>3
<1>5. \A u \in Upstream(edges, h) : u \in done \/ (stream /\ u \in Sources(nodes))
  BY <1>3, <1>4 DEF Ready
<1>6. h \in Sinks(nodes) => Transforms(nodes) \subseteq done
  BY <1>3, <1>4 DEF Ready
<1>7. ASSUME NEW i \in 1..Len(r), NEW u, \E j \in 1..Len(rest) : j < i + 1 /\ rest[j] = u
      PROVE  u = h \/ \E j \in 1..Len(r) : j < i /\ r[j] = u
  <2>1. PICK j \in 1..Len(rest) : j < i + 1 /\ rest[j] = u
    BY <1>7
  <2>2. CASE j = 1
    BY <1>3, <2>1, <2>2
  <2>3. CASE j # 1
    <3>1. j - 1 \in 1..Len(r) /\ j - 1 < i /\ (j - 1) + 1 = j
      BY <1>3, <2>1, <2>3
    <3>2. r[j - 1] = u
      BY <1>3, <2>1, <3>1
    <3> QED
      BY <3>1, <3>2
  <2> QED
    BY <2>2, <2>3
<1>8. \A i \in 1..Len(r) : i + 1 \in 1..Len(rest)
  BY <1>3
<1>9. ASSUME NEW i \in 1..Len(r), NEW u \in Upstream(edges, r[i])
      PROVE  \/ u \in done \cup {h} \/ (stream /\ u \in Sources(nodes))
             \/ \E j \in 1..Len(r) : j < i /\ r[j] = u
  <2>1. u \in Upstream(edges, rest[i + 1]) /\ i + 1 \in 1..Len(rest)
    BY <1>3, <1>8
  <2>2. \/ u \in done \/ (stream /\ u \in Sources(nodes))
        \/ \E j \in 1..Len(rest) : j < i + 1 /\ rest[j] = u
    BY <2>1 DEF Ready
  <2> QED
    BY <1>7, <2>2
<1>10. ASSUME NEW i \in 1..Len(r), r[i] \in Sinks(nodes), NEW n \in Transforms(nodes)
       PROVE  n \in done \cup {h} \/ \E j \in 1..Len(r) : j < i /\ r[j] = n
  <2>1. rest[i + 1] \in Sinks(nodes) /\ i + 1 \in 1..Len(rest)
    BY <1>3, <1>8, <1>10
  <2>2. n \in done \/ \E j \in 1..Len(rest) : j < i + 1 /\ rest[j] = n
    BY <2>1 DEF Ready
  <2> QED
    BY <1>7, <2>2
<1>11. Range(r) \cap (done \cup {h}) = {}
  BY <1>1, <1>2
<1>12. Ready(nodes, edges, done \cup {h}, stream, r)
  BY <1>2, <1>9, <1>10, <1>11 DEF Ready
<1> QED
  BY <1>2, <1>5, <1>6, <1>12 DEF h, r

-----------------------------------------------------------------------------
(* The steps of one task. *)

\* Sources and sinks are different nodes.
LEMMA KindFacts ==
  ASSUME NEW nodes
  PROVE  /\ Sources(nodes) \subseteq DOMAIN nodes /\ Sinks(nodes) \subseteq DOMAIN nodes
         /\ Sinks(nodes) \cap Sources(nodes) = {}
         /\ \A n \in DOMAIN nodes : n \in Sinks(nodes) <=> nodes[n] = "sink"
BY DEF Sources, Sinks, OfKind

\* The nodes of a pipeline are node ids.
LEMMA NodeIdFacts ==
  ASSUME NEW nodes \in NodeMaps
  PROVE  DOMAIN nodes \subseteq NodeIds /\ Seq(DOMAIN nodes) \subseteq Seq(NodeIds)
<1>1. DOMAIN nodes \subseteq NodeIds
  BY DEF NodeIds
<1> QED
  BY <1>1

\* No graph, and no task.
LEMMA NoTaskInv == TaskInv(NoTask)
<1>1. << >> \in NodeMaps /\ {} \in EdgeSets
  BY DEF NodeMaps, EdgeSets
<1>2. NoTask \in TaskStates
  BY <1>1 DEF NoTask, NoGraph, TaskStates
<1>3. Range(<< >>) = {}
  BY DEF Range
<1> QED
  BY <1>2, <1>3 DEF NoTask, NoGraph, TaskInv, TaskType, OrderSound, Live

\* tokio::spawn.
LEMMA SpawnedTask ==
  ASSUME NEW c \in Pods, NEW p \in Pipes, NEW stream \in BOOLEAN
  PROVE  TaskInv([NoTask EXCEPT !.pc = "load", !.pod = c, !.pipe = p, !.stream = stream])
<1> DEFINE x == [NoTask EXCEPT !.pc = "load", !.pod = c, !.pipe = p, !.stream = stream]
<1>1. NoTask \in TaskStates /\ NoTask.rest = << >>
  BY NoTaskInv DEF TaskInv, TaskType, NoTask
<1>2. NoTask.done = {} /\ NoTask.written = {} /\ ~NoTask.ok
  BY DEF NoTask
<1>3. x \in TaskStates
  BY <1>1 DEF TaskStates, Live
<1>4. /\ x.pc = "load" /\ x.pod = c /\ x.pipe = p /\ x.done = NoTask.done
      /\ x.written = NoTask.written /\ x.rest = NoTask.rest /\ x.ok = NoTask.ok
  BY <1>1 DEF TaskStates
<1>5. Range(<< >>) = {}
  BY DEF Range
<1> HIDE DEF x
<1>6. TaskType(x) /\ OrderSound(x)
  BY <1>1, <1>2, <1>3, <1>4, <1>5 DEF TaskType, OrderSound
<1>7. TaskInv(x)
  BY <1>1, <1>2, <1>4, <1>6 DEF TaskInv
<1> QED
  BY <1>7 DEF x

\* load.
LEMMA LoadedTask ==
  ASSUME NEW x, TaskInv(x), x.pc = "load", NEW nodes \in NodeMaps
  PROVE  TaskInv([x EXCEPT !.pc = "edges", !.graph.nodes = nodes])
<1> DEFINE y == [x EXCEPT !.pc = "edges", !.graph.nodes = nodes]
<1>1. x \in TaskStates
  BY DEF TaskInv, TaskType
<1>2. y \in TaskStates
  BY <1>1 DEF TaskStates, Live
<1>3. /\ y.pc = "edges" /\ y.pod = x.pod /\ y.pipe = x.pipe /\ y.stream = x.stream
      /\ y.rest = x.rest /\ y.done = x.done /\ y.written = x.written /\ y.ok = x.ok
  BY <1>1 DEF TaskStates
<1> HIDE DEF y
<1>4. y.done = {} /\ y.written = {} /\ ~y.ok /\ y.rest = << >>
  BY <1>3 DEF TaskInv
<1>5. TaskType(y)
  BY <1>2, <1>3, <1>4 DEF TaskInv, TaskType, Live
<1>6. OrderSound(y)
  BY <1>4 DEF OrderSound
<1>7. TaskInv(y)
  BY <1>3, <1>4, <1>5, <1>6 DEF TaskInv
<1> QED
  BY <1>7 DEF y

\* The task is over, or dies with its pod.
LEMMA GoneTask ==
  ASSUME NEW t \in Tasks, TaskInv(task[t]), NEW pc \in {"over", "dead"},
         task[t].pc \in Live
  PROVE  TaskInv(Gone(t, pc))
<1> DEFINE x == task[t]
           y == Gone(t, pc)
<1>1. x \in TaskStates /\ x.pipe \in Pipes /\ x.stream \in BOOLEAN /\ x.ok \in BOOLEAN
  BY DEF TaskInv, TaskType, TaskStates, Live
<1>2. NoTask \in TaskStates /\ NoTask.rest = << >>
  BY NoTaskInv DEF TaskInv, TaskType, NoTask
<1>3. NoTask.done = {} /\ NoTask.written = {} /\ NoTask.stream = FALSE
  BY DEF NoTask
<1> DEFINE all == Sinks(x.graph.nodes) \subseteq x.written
<1>4. y = [NoTask EXCEPT !.pc = pc, !.pipe = x.pipe, !.stream = x.stream, !.ok = x.ok, !.all = all]
  BY DEF Gone
<1>5. all \in BOOLEAN
  OBVIOUS
<1> HIDE DEF y, x, all
<1>6. y \in TaskStates
  BY <1>1, <1>2, <1>4, <1>5 DEF TaskStates, Live
<1>7. /\ y.pc = pc /\ y.pipe = x.pipe /\ y.done = NoTask.done /\ y.stream = x.stream
      /\ y.written = NoTask.written /\ y.rest = NoTask.rest /\ y.ok = x.ok
  BY <1>1, <1>2, <1>4 DEF TaskStates
<1>8. y.all = all
  BY <1>1, <1>2, <1>4, <1>5 DEF TaskStates
<1>9. x.ok => x.pc = "record"
  BY DEF TaskInv, Live, x
<1>10. y.ok /\ ~y.stream => y.all
  BY <1>7, <1>8, <1>9 DEF TaskInv, x, all
<1>11. Range(<< >>) = {}
  BY DEF Range
<1>12. TaskType(y) /\ OrderSound(y)
  BY <1>1, <1>2, <1>3, <1>6, <1>7, <1>11 DEF TaskType, OrderSound, Live
<1>13. TaskInv(y)
  BY <1>2, <1>3, <1>7, <1>10, <1>12 DEF TaskInv
<1> QED
  BY <1>13 DEF y

\* The run starts, in an order of the graph that was loaded.
LEMMA BegunTask ==
  ASSUME NEW t \in Tasks, TaskInv(task[t]), task[t].pc = "edges", NEW edges \in EdgeSets,
         NEW order \in Orders[task[t].graph.nodes][edges]
  PROVE  TaskInv(Begin(t, edges, order))
<1> DEFINE x == task[t]
           nodes == x.graph.nodes
           y == Begin(t, edges, order)
           S == Sources(nodes)
           srcs == Select(order, S)
           down == Select(order, DOMAIN nodes \ S)
<1>1. /\ x \in TaskStates /\ x.pod \in Pods /\ x.pipe \in Pipes /\ x.stream \in BOOLEAN
      /\ nodes \in NodeMaps /\ x.graph = [nodes |-> nodes, edges |-> x.graph.edges]
  BY DEF TaskInv, TaskType, TaskStates, Live
<1>2. x.done = {} /\ x.written = {} /\ ~x.ok /\ x.rest = << >>
  BY DEF TaskInv
<1>3. Ready(nodes, edges, {}, x.stream, order) /\ S \subseteq DOMAIN nodes
      /\ Sinks(nodes) \subseteq Range(order)
  BY <1>1, OrderReady, KindFacts
<1>4. /\ Ready(nodes, edges, {}, TRUE, down) /\ Range(down) = DOMAIN nodes \ S
  BY <1>1, StreamReady
<1>5. srcs \in Seq(S) /\ srcs # << >> /\ \A n \in S : Upstream(edges, n) = {}
  BY <1>1, StreamSources
<1>6. order \in Seq(DOMAIN nodes) /\ down \in Seq(DOMAIN nodes)
  BY <1>3, <1>4 DEF Ready
<1>7. /\ y.graph.nodes = nodes /\ y.graph.edges = edges /\ y.pod = x.pod /\ y.pipe = x.pipe
      /\ y.stream = x.stream /\ y.done = x.done /\ y.written = x.written /\ y.ok = x.ok
  BY <1>1 DEF Begin, TaskStates
<1>8. x.stream => /\ y.pc = "stream" /\ y.srcs = srcs /\ y.down = down /\ y.rest = x.rest
  BY <1>1 DEF Begin, TaskStates
<1>9. ~x.stream => y.pc = "exec" /\ y.rest = order
  BY <1>1 DEF Begin, TaskStates
<1>10. order \in Seq(NodeIds) /\ down \in Seq(NodeIds) /\ srcs \in Seq(NodeIds)
  <2>1. Seq(S) \subseteq Seq(DOMAIN nodes) /\ Seq(DOMAIN nodes) \subseteq Seq(NodeIds)
    BY <1>1, <1>3, NodeIdFacts
  <2> HIDE DEF srcs, down, S
  <2> QED
    BY <1>5, <1>6, <2>1
<1> HIDE DEF srcs, down, S, nodes, x
<1>11. y \in TaskStates
  <2>1. CASE x.stream
    <3>1. y = [x EXCEPT !.pc = "stream", !.graph.edges = edges, !.srcs = srcs, !.down = down]
      BY <2>1 DEF Begin, x, srcs, down, S, nodes
    <3> HIDE DEF y
    <3> QED
      BY <1>1, <1>10, <3>1 DEF TaskStates, Live
  <2>2. CASE ~x.stream
    <3>1. y = [x EXCEPT !.pc = "exec", !.graph.edges = edges, !.rest = order]
      BY <2>2 DEF Begin, x
    <3> HIDE DEF y
    <3> QED
      BY <1>1, <1>10, <3>1 DEF TaskStates, Live
  <2> QED
    BY <1>1, <2>1, <2>2
<1> HIDE DEF y
<1>12. Range(<< >>) = {}
  BY DEF Range
<1>13. TaskType(y) /\ OrderSound(y)
  BY <1>1, <1>2, <1>5, <1>7, <1>8, <1>9, <1>11, <1>12 DEF TaskType, OrderSound
<1>14. ASSUME x.stream PROVE TaskInv(y)
  BY <1>2, <1>4, <1>5, <1>7, <1>8, <1>13, <1>14 DEF TaskInv, S
<1>15. ASSUME ~x.stream PROVE TaskInv(y)
  BY <1>2, <1>3, <1>7, <1>9, <1>13, <1>15 DEF TaskInv
<1>16. TaskInv(y)
  BY <1>1, <1>14, <1>15
<1> QED
  BY <1>16 DEF y

\* RunNode, for the next node of a task.
LEMMA NextNode ==
  ASSUME NEW x, TaskInv(x), x.pc = "exec", x.rest # << >>
  PROVE  LET h == Head(x.rest)
             nodes == x.graph.nodes
             edges == x.graph.edges
         IN  /\ h \in DOMAIN nodes /\ Range(x.rest) = Range(Tail(x.rest)) \cup {h}
             /\ \A u \in Upstream(edges, h) : u \in x.done \/ (x.stream /\ u \in Sources(nodes))
             /\ h \in Sinks(nodes) => Transforms(nodes) \subseteq x.done
             /\ Ready(nodes, edges, x.done \cup {h}, x.stream, Tail(x.rest))
<1> DEFINE nodes == x.graph.nodes
           edges == x.graph.edges
           done == x.done
           stream == x.stream
           rest == x.rest
<1>1. Ready(nodes, edges, done, stream, rest) /\ rest # << >> /\ stream \in BOOLEAN
  BY DEF TaskInv, TaskType, TaskStates
<1> HIDE DEF nodes, edges, done, stream, rest
<1>2. /\ Head(rest) \in DOMAIN nodes /\ Range(rest) = Range(Tail(rest)) \cup {Head(rest)}
      /\ \A u \in Upstream(edges, Head(rest)) : u \in done \/ (stream /\ u \in Sources(nodes))
      /\ Head(rest) \in Sinks(nodes) => Transforms(nodes) \subseteq done
      /\ Ready(nodes, edges, done \cup {Head(rest)}, stream, Tail(rest))
  BY <1>1, RunNode
<1> QED
  BY <1>2 DEF nodes, edges, done, stream, rest

\* The next node succeeds.
LEMMA RanTask ==
  ASSUME NEW x, TaskInv(x), x.pc = "exec", x.rest # << >>
  PROVE  TaskInv([x EXCEPT !.rest = Tail(x.rest), !.done = x.done \cup {Head(x.rest)},
                           !.written = IF x.graph.nodes[Head(x.rest)] = "sink"
                                       THEN x.written \cup {Head(x.rest)} ELSE x.written])
<1> DEFINE h == Head(x.rest)
           r == Tail(x.rest)
           w == IF x.graph.nodes[h] = "sink" THEN x.written \cup {h} ELSE x.written
           y == [x EXCEPT !.rest = r, !.done = x.done \cup {h}, !.written = w]
           nodes == x.graph.nodes
           edges == x.graph.edges
<1>1. /\ x \in TaskStates /\ x.pod \in Pods /\ x.pipe \in Pipes /\ x.stream \in BOOLEAN
      /\ nodes \in NodeMaps /\ x.done \subseteq DOMAIN nodes /\ x.written \subseteq DOMAIN nodes
  BY DEF TaskInv, TaskType, TaskStates, Live
<1>2. /\ Ready(nodes, edges, x.done, x.stream, x.rest) /\ ~x.ok
      /\ Sinks(nodes) \subseteq x.written \cup Range(x.rest)
  BY DEF TaskInv
<1>3. /\ h \in DOMAIN nodes /\ Range(x.rest) = Range(r) \cup {h}
      /\ \A u \in Upstream(edges, h) : u \in x.done \/ (x.stream /\ u \in Sources(nodes))
      /\ h \in Sinks(nodes) => Transforms(nodes) \subseteq x.done
      /\ Ready(nodes, edges, x.done \cup {h}, x.stream, r)
  BY NextNode
<1>4. DOMAIN nodes \subseteq NodeIds /\ Seq(DOMAIN nodes) \subseteq Seq(NodeIds)
  BY <1>1, NodeIdFacts
<1>5. r \in Seq(DOMAIN nodes) /\ Range(r) \cap (x.done \cup {h}) = {}
  BY <1>3 DEF Ready
<1>6. h \in Sinks(nodes) <=> nodes[h] = "sink"
  BY <1>3, KindFacts
<1> HIDE DEF h, r
<1>7. /\ w \subseteq DOMAIN nodes /\ x.written \subseteq w /\ w \subseteq x.written \cup {h}
      /\ h \in w \ x.written => h \in Sinks(nodes)
      /\ h \in Sinks(nodes) => h \in w
  BY <1>1, <1>3, <1>6
<1> HIDE DEF w
<1>8. y \in TaskStates
  BY <1>1, <1>3, <1>4, <1>5, <1>7 DEF TaskStates
<1>9. /\ y.pc = "exec" /\ y.graph = x.graph /\ y.pod = x.pod /\ y.pipe = x.pipe
      /\ y.stream = x.stream /\ y.done = x.done \cup {h} /\ y.written = w /\ y.ok = x.ok
      /\ y.rest = r /\ y.srcs = x.srcs /\ y.down = x.down
  BY <1>1 DEF TaskStates
<1> HIDE DEF y
<1>10. TaskType(y)
  BY <1>1, <1>3, <1>5, <1>7, <1>8, <1>9 DEF TaskType
<1>11. /\ \A n \in x.done \cup x.written : \A u \in Upstream(edges, n) :
            u \in x.done \/ (x.stream /\ u \in Sources(nodes))
       /\ x.written # {} => Transforms(nodes) \subseteq x.done
  BY DEF TaskInv, OrderSound
<1>12. OrderSound(y)
  <2>1. \A n \in y.done \cup y.written : n \in x.done \cup x.written \/ n = h
    BY <1>7, <1>9
  <2>2. \A n \in y.done \cup y.written : \A u \in Upstream(edges, n) :
          u \in x.done \/ (x.stream /\ u \in Sources(nodes))
    BY <1>3, <1>11, <2>1
  <2>3. y.written # {} => Transforms(nodes) \subseteq x.done
    BY <1>3, <1>7, <1>9, <1>11
  <2> QED
    BY <1>9, <2>2, <2>3 DEF OrderSound
<1>13. Sinks(nodes) \subseteq w \cup Range(r)
  BY <1>2, <1>3, <1>7
<1>14. x.stream => /\ x.srcs \in Seq(Sources(nodes)) /\ x.srcs # << >>
                   /\ \A n \in Sources(nodes) : Upstream(edges, n) = {}
                   /\ Ready(nodes, edges, {}, TRUE, x.down)
                   /\ Range(x.down) = DOMAIN nodes \ Sources(nodes)
  BY DEF TaskInv
<1>15. Ready(nodes, edges, y.done, y.stream, y.rest)
  BY <1>3, <1>9
<1>16. TaskInv(y)
  BY <1>2, <1>9, <1>10, <1>12, <1>13, <1>14, <1>15 DEF TaskInv
<1> QED
  BY <1>16 DEF y, w, h, r

\* Execution ends: with an error after some nodes, and perhaps part of a sink, or
\* with all nodes run.
LEMMA EndedTask ==
  ASSUME NEW t \in Tasks, TaskInv(task[t]), task[t].pc \in {"exec", "stream"},
         NEW ok \in BOOLEAN, NEW written,
         \/ written = task[t].written
         \/ /\ task[t].pc = "exec" /\ task[t].rest # << >> /\ ~ok
            /\ written \subseteq
                 task[t].written \cup ({Head(task[t].rest)} \cap Sinks(task[t].graph.nodes)),
         ok /\ ~task[t].stream => Sinks(task[t].graph.nodes) \subseteq written
  PROVE  TaskInv(Ended(t, ok, written))
<1> DEFINE x == task[t]
           y == Ended(t, ok, written)
           nodes == x.graph.nodes
           edges == x.graph.edges
           h == Head(x.rest)
<1>1. /\ x \in TaskStates /\ x.pod \in Pods /\ x.pipe \in Pipes /\ x.stream \in BOOLEAN
      /\ nodes \in NodeMaps /\ x.done \subseteq DOMAIN nodes /\ x.written \subseteq DOMAIN nodes
  BY DEF TaskInv, TaskType, TaskStates, Live
<1>2. DOMAIN nodes \subseteq NodeIds /\ Sinks(nodes) \subseteq DOMAIN nodes
  BY <1>1, NodeIdFacts, KindFacts
<1>3. /\ \A n \in x.done \cup x.written : \A u \in Upstream(edges, n) :
           u \in x.done \/ (x.stream /\ u \in Sources(nodes))
      /\ x.written # {} => Transforms(nodes) \subseteq x.done
  BY DEF TaskInv, OrderSound
<1>5. x.pc = "exec" /\ x.rest # << >> =>
        /\ \A u \in Upstream(edges, h) : u \in x.done \/ (x.stream /\ u \in Sources(nodes))
        /\ h \in Sinks(nodes) => Transforms(nodes) \subseteq x.done
  BY NextNode
<1> HIDE DEF h
<1>6. \/ written = x.written
      \/ /\ x.pc = "exec" /\ x.rest # << >> /\ written \subseteq x.written \cup ({h} \cap Sinks(nodes))
  BY DEF h
<1>7. written \subseteq DOMAIN nodes
  BY <1>1, <1>2, <1>6
<1>8. ok /\ ~x.stream => Sinks(nodes) \subseteq written
  OBVIOUS
<1>9. y = [x EXCEPT !.pc = "record", !.ok = ok, !.rest = << >>, !.srcs = << >>, !.down = << >>,
                    !.written = written]
  BY DEF Ended
<1> HIDE DEF y, x, nodes, edges
<1>10. y \in TaskStates
  <2>1. written \in SUBSET NodeIds /\ << >> \in Seq(NodeIds)
    BY <1>2, <1>7
  <2> QED
    BY <1>1, <1>9, <2>1 DEF TaskStates, Live
<1>11. /\ y.pc = "record" /\ y.graph = x.graph /\ y.pod = x.pod /\ y.pipe = x.pipe
       /\ y.stream = x.stream /\ y.done = x.done /\ y.written = written /\ y.rest = << >>
  BY <1>1, <1>9 DEF TaskStates
<1>12. y.ok = ok
  BY <1>1, <1>9 DEF TaskStates
<1>13. Range(<< >>) = {}
  BY DEF Range
<1>14. TaskType(y)
  BY <1>1, <1>7, <1>10, <1>11, <1>13 DEF TaskType, nodes
<1>15. \A n \in x.done \cup written : \A u \in Upstream(edges, n) :
         u \in x.done \/ (x.stream /\ u \in Sources(nodes))
  BY <1>3, <1>5, <1>6
<1>16. written # {} => Transforms(nodes) \subseteq x.done
  BY <1>3, <1>5, <1>6
<1>17. OrderSound(y)
  BY <1>11, <1>15, <1>16 DEF OrderSound, nodes, edges
<1>18. TaskInv(y)
  BY <1>8, <1>11, <1>12, <1>14, <1>17 DEF TaskInv, nodes
<1> QED
  BY <1>18 DEF y

\* A batch of a stream is through: what it ran is forgotten.
LEMMA WaitingTask ==
  ASSUME NEW x, TaskInv(x), x.pc = "exec", x.rest = << >>, x.stream
  PROVE  TaskInv([x EXCEPT !.pc = "stream", !.done = {}, !.written = {}])
<1> DEFINE y == [x EXCEPT !.pc = "stream", !.done = {}, !.written = {}]
<1>1. x \in TaskStates /\ x.pod \in Pods /\ x.pipe \in Pipes /\ ~x.ok /\ x.srcs # << >>
  BY DEF TaskInv, TaskType, TaskStates, Live
<1>2. y \in TaskStates
  BY <1>1 DEF TaskStates, Live
<1>3. /\ y.pc = "stream" /\ y.graph = x.graph /\ y.pod = x.pod /\ y.pipe = x.pipe
      /\ y.stream = x.stream /\ y.done = {} /\ y.written = {} /\ y.ok = x.ok
      /\ y.rest = x.rest /\ y.srcs = x.srcs /\ y.down = x.down
  BY <1>1 DEF TaskStates
<1> HIDE DEF y
<1>4. TaskType(y) /\ OrderSound(y)
  BY <1>1, <1>2, <1>3 DEF TaskType, OrderSound
<1>5. TaskInv(y)
  BY <1>1, <1>3, <1>4 DEF TaskInv
<1> QED
  BY <1>5 DEF y

\* A source yields a batch for everything downstream.
LEMMA BatchTask ==
  ASSUME NEW x, TaskInv(x), x.pc = "stream"
  PROVE  TaskInv([x EXCEPT !.pc = "exec", !.done = {Head(x.srcs)}, !.rest = x.down])
<1> DEFINE h == Head(x.srcs)
           y == [x EXCEPT !.pc = "exec", !.done = {h}, !.rest = x.down]
           nodes == x.graph.nodes
           edges == x.graph.edges
<1>1. /\ x \in TaskStates /\ x.pod \in Pods /\ x.pipe \in Pipes /\ ~x.ok /\ x.stream
      /\ nodes \in NodeMaps /\ x.written = {}
  BY DEF TaskInv, TaskType, TaskStates, Live
<1>2. /\ x.srcs \in Seq(Sources(nodes)) /\ x.srcs # << >>
      /\ \A n \in Sources(nodes) : Upstream(edges, n) = {}
      /\ Ready(nodes, edges, {}, TRUE, x.down)
      /\ Range(x.down) = DOMAIN nodes \ Sources(nodes)
  BY <1>1 DEF TaskInv
<1>3. h \in Sources(nodes)
  BY <1>2
<1>4. DOMAIN nodes \subseteq NodeIds /\ Sources(nodes) \subseteq DOMAIN nodes
      /\ Sinks(nodes) \subseteq DOMAIN nodes /\ Sinks(nodes) \cap Sources(nodes) = {}
  BY <1>1, NodeIdFacts, KindFacts
<1> HIDE DEF h
<1>5. y \in TaskStates
  BY <1>1, <1>3, <1>4 DEF TaskStates, Live
<1>6. /\ y.pc = "exec" /\ y.graph = x.graph /\ y.pod = x.pod /\ y.pipe = x.pipe
      /\ y.stream = x.stream /\ y.done = {h} /\ y.written = x.written /\ y.ok = x.ok
      /\ y.rest = x.down /\ y.srcs = x.srcs /\ y.down = x.down
  BY <1>1 DEF TaskStates
<1> HIDE DEF y, nodes, edges
<1>7. Range(x.down) \cap {h} = {}
  BY <1>2, <1>3
<1>8. Ready(nodes, edges, {h}, TRUE, x.down)
  BY <1>2, <1>7 DEF Ready
<1>9. TaskType(y) /\ OrderSound(y)
  BY <1>1, <1>2, <1>3, <1>4, <1>5, <1>6, <1>7 DEF TaskType, OrderSound, nodes, edges
<1>10. Sinks(nodes) \subseteq Range(x.down)
  BY <1>2, <1>4
<1>11. y.stream = TRUE
  BY <1>1, <1>5, <1>6 DEF TaskStates
<1>12. Ready(y.graph.nodes, y.graph.edges, y.done, y.stream, y.rest)
  BY <1>6, <1>8, <1>11 DEF nodes, edges
<1>13. TaskInv(y)
  BY <1>1, <1>2, <1>6, <1>9, <1>10, <1>12 DEF TaskInv, nodes, edges
<1> QED
  BY <1>13 DEF y, h

\* The tail of a sequence of two or more elements is not empty.
LEMMA LongTail ==
  ASSUME NEW D, NEW s \in Seq(D), Len(s) > 1
  PROVE  Tail(s) \in Seq(D) /\ Tail(s) # << >>
<1> DEFINE r == Tail(s)
<1>1. s # << >>
  OBVIOUS
<1>2. r \in Seq(D) /\ Len(r) = Len(s) - 1 /\ Len(s) \in Nat
  BY <1>1
<1> HIDE DEF r
<1>3. r # << >>
  BY <1>2
<1> QED
  BY <1>2, <1>3 DEF r

\* A source has no more, and another one is left.
LEMMA NextSourceTask ==
  ASSUME NEW x, TaskInv(x), x.pc = "stream", Len(x.srcs) > 1
  PROVE  TaskInv([x EXCEPT !.srcs = Tail(x.srcs)])
<1> DEFINE r == Tail(x.srcs)
           y == [x EXCEPT !.srcs = r]
           nodes == x.graph.nodes
           edges == x.graph.edges
<1>1. /\ x \in TaskStates /\ x.pod \in Pods /\ x.pipe \in Pipes /\ x.stream /\ nodes \in NodeMaps
  BY DEF TaskInv, TaskType, TaskStates, Live
<1>2. x.srcs \in Seq(Sources(nodes))
  BY <1>1 DEF TaskInv
<1>3. r \in Seq(Sources(nodes)) /\ r # << >>
  BY <1>2, LongTail
<1>4. r \in Seq(NodeIds)
  <2>1. Sources(nodes) \subseteq NodeIds
    BY <1>1, NodeIdFacts, KindFacts
  <2> HIDE DEF r
  <2> QED
    BY <1>3, <2>1
<1> HIDE DEF r
<1>5. y \in TaskStates
  BY <1>1, <1>4 DEF TaskStates
<1>6. /\ y.pc = x.pc /\ y.graph = x.graph /\ y.pod = x.pod /\ y.pipe = x.pipe
      /\ y.stream = x.stream /\ y.done = x.done /\ y.written = x.written /\ y.ok = x.ok
      /\ y.rest = x.rest /\ y.srcs = r /\ y.down = x.down
  BY <1>1 DEF TaskStates
<1> HIDE DEF y
<1>7. TaskType(y) /\ OrderSound(y)
  BY <1>3, <1>5, <1>6 DEF TaskInv, TaskType, OrderSound
<1>8. TaskInv(y)
  BY <1>3, <1>6, <1>7 DEF TaskInv
<1> QED
  BY <1>8 DEF y, r

-----------------------------------------------------------------------------
(* The tasks. *)

\* One task changes, or none, and the invariant of tasks is kept.
LEMMA TaskJoin ==
  ASSUME TasksInv, NEW t \in Tasks, NEW y, TaskInv(y), task' = [task EXCEPT ![t] = y]
  PROVE  TasksInv'
<1>1. y \in TaskStates
  BY DEF TaskInv, TaskType
<1>2. task' \in [Tasks -> TaskStates]
  BY <1>1 DEF TasksInv
<1>3. \A u \in Tasks : TaskInv(task'[u])
  BY DEF TasksInv
<1> QED
  BY <1>2, <1>3 DEF TasksInv

PipeType == pipe \in [Pipes -> Payloads \cup {Absent, Deleted}]

\* What is loaded of a pipeline are nodes, and edges, of a graph.
LEMMA LoadedGraph ==
  ASSUME NEW p \in Pipes, Exists(p)
  PROVE  pipe[p].nodes \in NodeMaps /\ pipe[p].edges \in EdgeSets
BY DEF Exists, NodeMaps, EdgeSets

\* Loading the nodes keeps the tasks good.
LEMMA LoadNodesTasks ==
  ASSUME TasksInv, NEW t \in Tasks, LoadNodes(t)
  PROVE  TasksInv'
<1> DEFINE p == task[t].pipe
           y == [task[t] EXCEPT !.pc = "edges", !.graph.nodes = pipe[p].nodes]
<1>1. TaskInv(task[t]) /\ task[t].pc = "load" /\ p \in Pipes
  BY DEF TasksInv, TaskInv, TaskType, LoadNodes
<1>2. CASE Exists(p)
  <2>1. TaskInv(y)
    BY <1>1, <1>2, LoadedGraph, LoadedTask
  <2>2. task' = [task EXCEPT ![t] = y]
    BY <1>2 DEF LoadNodes, TasksInv
  <2> HIDE DEF y
  <2> QED
    BY <2>1, <2>2, TaskJoin
<1>3. CASE ~Exists(p)
  <2>1. task' = [task EXCEPT ![t] = Gone(t, "over")]
    BY <1>3 DEF LoadNodes, Over
  <2>2. TaskInv(Gone(t, "over"))
    BY <1>1, GoneTask DEF Live
  <2> QED
    BY <2>1, <2>2, TaskJoin
<1> QED
  BY <1>2, <1>3

\* A task that ends without a run keeps the tasks good.
LEMMA OverTasks ==
  ASSUME TasksInv, NEW t \in Tasks, task[t].pc \in Live, Over(t)
  PROVE  TasksInv'
<1>1. TaskInv(Gone(t, "over"))
  BY GoneTask DEF TasksInv
<1> QED
  BY <1>1, TaskJoin DEF Over

\* The start of a run keeps the tasks good.
LEMMA StartRunTasks ==
  ASSUME TasksInv, NEW t \in Tasks, StartRun(t)
  PROVE  TasksInv'
<1> DEFINE p == task[t].pipe
           nodes == task[t].graph.nodes
           edges == pipe[p].edges
<1>1. TaskInv(task[t]) /\ task[t].pc = "edges" /\ p \in Pipes
  BY DEF TasksInv, TaskInv, TaskType, StartRun
<1>2. Startable(t) => edges \in EdgeSets
  BY <1>1, LoadedGraph DEF Startable
<1>3. CASE Over(t)
  BY <1>1, <1>3, OverTasks DEF Live
<1>4. CASE Startable(t) /\ \E order \in Orders[nodes][edges] : task' = [task EXCEPT ![t] = Begin(t, edges, order)]
  <2>1. PICK order \in Orders[nodes][edges] : task' = [task EXCEPT ![t] = Begin(t, edges, order)]
    BY <1>4
  <2> HIDE DEF edges
  <2>2. TaskInv(Begin(t, edges, order))
    BY <1>1, <1>2, <1>4, BegunTask
  <2> QED
    BY <2>1, <2>2, TaskJoin
<1> QED
  BY <1>3, <1>4 DEF StartRun

\* A node that ran keeps the tasks good.
LEMMA NodeOkTasks ==
  ASSUME TasksInv, NEW t \in Tasks, NodeOk(t)
  PROVE  TasksInv'
<1> DEFINE x == task[t]
           y == [x EXCEPT !.rest = Tail(x.rest), !.done = x.done \cup {Head(x.rest)},
                          !.written = IF x.graph.nodes[Head(x.rest)] = "sink"
                                      THEN x.written \cup {Head(x.rest)} ELSE x.written]
<1>1. TaskInv(x) /\ x.pc = "exec" /\ x.rest # << >>
  BY DEF TasksInv, NodeOk
<1>2. TaskInv(y)
  BY <1>1, RanTask
<1>3. task' = [task EXCEPT ![t] = y]
  BY DEF NodeOk, TasksInv
<1> HIDE DEF y
<1> QED
  BY <1>2, <1>3, TaskJoin

\* A node that failed keeps the tasks good.
LEMMA NodeErrTasks ==
  ASSUME TasksInv, NEW t \in Tasks, NodeErr(t)
  PROVE  TasksInv'
<1> DEFINE x == task[t]
           S == {Head(x.rest)} \cap Sinks(x.graph.nodes)
<1>1. TaskInv(x) /\ x.pc = "exec" /\ x.rest # << >>
  BY DEF TasksInv, NodeErr
<1>2. PICK partial \in SUBSET S :
        task' = [task EXCEPT ![t] = Ended(t, FALSE, x.written \cup partial)]
  BY DEF NodeErr
<1> DEFINE w == x.written \cup partial
<1>3. w \subseteq x.written \cup S
  BY <1>2
<1> HIDE DEF w
<1>4. TaskInv(Ended(t, FALSE, w))
  BY <1>1, <1>3, EndedTask
<1>5. task' = [task EXCEPT ![t] = Ended(t, FALSE, w)]
  BY <1>2 DEF w
<1> QED
  BY <1>4, <1>5, TaskJoin

\* The end of the nodes keeps the tasks good.
LEMMA NodesDoneTasks ==
  ASSUME TasksInv, NEW t \in Tasks, NodesDone(t)
  PROVE  TasksInv'
<1> DEFINE x == task[t]
           y == [x EXCEPT !.pc = "stream", !.done = {}, !.written = {}]
<1>1. TaskInv(x) /\ x.pc = "exec" /\ x.rest = << >> /\ x.stream \in BOOLEAN
  BY DEF TasksInv, NodesDone, TaskStates
<1>2. CASE x.stream
  <2>1. TaskInv(y)
    BY <1>1, <1>2, WaitingTask
  <2>2. task' = [task EXCEPT ![t] = y]
    BY <1>2 DEF NodesDone
  <2> HIDE DEF y
  <2> QED
    BY <2>1, <2>2, TaskJoin
<1>3. CASE ~x.stream
  <2>1. Sinks(x.graph.nodes) \subseteq x.written
    <3>1. Range(<< >>) = {}
      BY DEF Range
    <3> QED
      BY <1>1, <3>1 DEF TaskInv
  <2>2. TaskInv(Ended(t, TRUE, x.written))
    BY <1>1, <2>1, EndedTask
  <2>3. task' = [task EXCEPT ![t] = Ended(t, TRUE, x.written)]
    BY <1>3 DEF NodesDone
  <2> QED
    BY <2>2, <2>3, TaskJoin
<1> QED
  BY <1>1, <1>2, <1>3

\* A batch of a stream keeps the tasks good.
LEMMA StreamBatchTasks ==
  ASSUME TasksInv, NEW t \in Tasks, StreamBatch(t)
  PROVE  TasksInv'
<1> DEFINE x == task[t]
           y == [x EXCEPT !.pc = "exec", !.done = {Head(x.srcs)}, !.rest = x.down]
<1>1. TaskInv(x) /\ x.pc = "stream"
  BY DEF TasksInv, StreamBatch
<1>2. TaskInv(y)
  BY <1>1, BatchTask
<1>3. task' = [task EXCEPT ![t] = y]
  BY DEF StreamBatch, TasksInv
<1> HIDE DEF y
<1> QED
  BY <1>2, <1>3, TaskJoin

\* The end of a stream keeps the tasks good.
LEMMA StreamEndTasks ==
  ASSUME TasksInv, NEW t \in Tasks, StreamEnd(t)
  PROVE  TasksInv'
<1> DEFINE x == task[t]
           y == [x EXCEPT !.srcs = Tail(x.srcs)]
<1>1. TaskInv(x) /\ x.pc = "stream" /\ x.stream
  BY DEF TasksInv, StreamEnd, TaskInv, TaskType
<1>2. PICK ok \in BOOLEAN :
        task' = [task EXCEPT ![t] = IF ok /\ Len(x.srcs) > 1 THEN y ELSE Ended(t, ok, x.written)]
  BY DEF StreamEnd
<1>3. CASE ok /\ Len(x.srcs) > 1
  <2>1. TaskInv(y)
    BY <1>1, <1>3, NextSourceTask
  <2> HIDE DEF y
  <2> QED
    BY <1>2, <1>3, <2>1, TaskJoin
<1>4. CASE ~(ok /\ Len(x.srcs) > 1)
  <2>1. TaskInv(Ended(t, ok, x.written))
    BY <1>1, EndedTask
  <2> QED
    BY <1>2, <1>4, <2>1, TaskJoin
<1> QED
  BY <1>3, <1>4

\* Spawn is given the pod, the pipeline and the mode.
LEMMA SpawnTasks ==
  ASSUME TasksInv, NEW t \in Tasks, NEW c \in Pods, NEW p \in Pipes, NEW stream \in BOOLEAN,
         Spawn(t, c, p, stream)
  PROVE  TasksInv'
<1> DEFINE y == [NoTask EXCEPT !.pc = "load", !.pod = c, !.pipe = p, !.stream = stream]
<1>1. TaskInv(y)
  BY SpawnedTask
<1>2. task' = [task EXCEPT ![t] = y]
  BY DEF Spawn
<1> HIDE DEF y
<1> QED
  BY <1>1, <1>2, TaskJoin

\* A pod that dies takes its tasks with it.
LEMMA CrashTasks ==
  ASSUME TasksInv, NEW c \in Pods, Crash(c)
  PROVE  TasksInv'
<1>1. ASSUME NEW t \in Tasks PROVE TaskInv(task'[t])
  <2>1. CASE task[t].pod = c /\ task[t].pc \notin {"none", "over", "dead"}
    <3>1. task[t].pc \in Live /\ TaskInv(task[t])
      BY <2>1 DEF TasksInv, TaskStates
    <3>2. task'[t] = Gone(t, "dead")
      BY <2>1 DEF Crash
    <3> QED
      BY <3>1, <3>2, GoneTask
  <2>2. CASE ~(task[t].pod = c /\ task[t].pc \notin {"none", "over", "dead"})
    <3>1. task'[t] = task[t]
      BY <2>2 DEF Crash
    <3> QED
      BY <3>1 DEF TasksInv
  <2> QED
    BY <2>1, <2>2
<1>2. \A t \in Tasks : task'[t] \in TaskStates
  BY <1>1 DEF TaskInv, TaskType
<1>3. task' \in [Tasks -> TaskStates]
  BY <1>2 DEF Crash
<1> QED
  BY <1>1, <1>3 DEF TasksInv

-----------------------------------------------------------------------------
(* The dispatcher. *)

\* The parts of TypeOK that are not about tasks and runs.
EventRows == [Events -> [st : {"absent", "dispatched", "completed", "failed"},
                        pipe : Pipes \cup {Absent}]]
RowType ==
  /\ PipeType /\ subs \subseteq Subs /\ edits \in 0..MaxEdits
  /\ event \in EventRows
LogType ==
  /\ log \in Seq(Events) /\ committed \in 0..Len(log) /\ owner \in Pods \cup {NoPod}
  /\ handled \subseteq 1..Len(log)
PodType(x, n) ==
  /\ x.pos \in 0..n
  /\ x.cur \in IF x.pc \in InHand THEN 1..n ELSE {0}
  /\ x.pipe \in IF x.pc = "mode" THEN Pipes ELSE {Absent}
PodsType == pod \in [Pods -> PodStates] /\ \A c \in Pods : PodType(pod[c], Len(log))
CountType == unrecorded \subseteq Tasks /\ faults \in 0..MaxFaults

DispatcherInv == RowType /\ LogType /\ PodsType /\ CountType /\ OffsetInv

\* One pod changes, and the log does not.
LEMMA PodJoin ==
  ASSUME PodsType, NEW c \in Pods, NEW y \in PodStates, PodType(y, Len(log)),
         pod' = [pod EXCEPT ![c] = y], UNCHANGED log
  PROVE  PodsType'
<1>1. pod' \in [Pods -> PodStates]
  BY DEF PodsType
<1>2. \A d \in Pods : PodType(pod'[d], Len(log'))
  BY DEF PodsType
<1> QED
  BY <1>1, <1>2 DEF PodsType

\* One pod changes, and what it is given or leaves is in order.
LEMMA OffsetJoin ==
  ASSUME OffsetInv, pod \in [Pods -> PodStates], NEW c \in Pods, NEW y,
         pod' = [pod EXCEPT ![c] = y], handled \subseteq handled',
         (1..committed') \subseteq handled',
         \A d \in Pods : d # c /\ owner' = d => owner = d,
         owner' = c => (1..y.pos) \subseteq handled' \cup {y.cur},
         y.pc \in InHand => (1..(y.cur - 1)) \subseteq handled',
         y.pc = "commit" => y.cur \in handled'
  PROVE  OffsetInv'
<1>1. \A d \in Pods : pod'[d] = IF d = c THEN y ELSE pod[d]
  OBVIOUS
<1>2. \A d \in Pods : owner' = d => (1..pod'[d].pos) \subseteq handled' \cup {pod'[d].cur}
  BY <1>1 DEF OffsetInv
<1>3. \A d \in Pods : pod'[d].pc \in InHand => (1..(pod'[d].cur - 1)) \subseteq handled'
  BY <1>1 DEF OffsetInv
<1>4. \A d \in Pods : pod'[d].pc = "commit" => pod'[d].cur \in handled'
  BY <1>1 DEF OffsetInv
<1> QED
  BY <1>2, <1>3, <1>4 DEF OffsetInv, InHand

\* No pod changes, nor what was handled or committed.
LEMMA OffsetKept ==
  ASSUME OffsetInv, UNCHANGED <<pod, handled, committed>>, \A d \in Pods : owner' = d => owner = d
  PROVE  OffsetInv'
BY DEF OffsetInv, InHand

\* A log that grows keeps the types of the pods.
LEMMA EmitDispatcher ==
  ASSUME DispatcherInv, NEW e \in Events, NEW p \in Pipes, emit(e, p)
  PROVE  DispatcherInv'
<1>1. PICK n \in 0..2 : /\ IF n = 1 THEN UNCHANGED faults ELSE Spend
                       /\ log' = log \o [i \in 1..n |-> e]
  BY DEF emit
<1> DEFINE s == [i \in 1..n |-> e]
<1>2. s \in Seq(Events) /\ Len(s) = n
  OBVIOUS
<1> HIDE DEF s
<1>3. log' = log \o s /\ log \in Seq(Events)
  BY <1>1 DEF s, DispatcherInv, LogType
<1>4. log' \in Seq(Events) /\ Len(log') \in Nat /\ Len(log) \in Nat /\ Len(log') >= Len(log)
  BY <1>2, <1>3
<1>5. UNCHANGED <<pipe, subs, edits, committed, owner, pod, handled, unrecorded>>
  BY DEF emit, dbVars
<1>6. LogType'
  BY <1>4, <1>5 DEF DispatcherInv, LogType
<1>7. RowType'
  BY <1>5 DEF DispatcherInv, RowType, EventRows, PipeType, emit
<1>8. PodsType'
  <2>1. \A c \in Pods : PodType(pod[c], Len(log'))
    <3> SUFFICES ASSUME NEW c \in Pods PROVE PodType(pod[c], Len(log'))
      OBVIOUS
    <3>1. PodType(pod[c], Len(log))
      BY DEF DispatcherInv, PodsType
    <3> QED
      BY <1>4, <3>1 DEF PodType
  <2> QED
    BY <1>5, <2>1 DEF DispatcherInv, PodsType
<1>9. CountType'
  BY <1>1, <1>5, PipelineBounds DEF DispatcherInv, CountType, Spend
<1>10. OffsetInv'
  BY <1>5, OffsetKept DEF DispatcherInv
<1> QED
  BY <1>6, <1>7, <1>8, <1>9, <1>10 DEF DispatcherInv

\* A step of one pod.
LEMMA PodStep ==
  ASSUME DispatcherInv, NEW c \in Pods, NEW y \in PodStates, PodType(y, Len(log)),
         pod' = [pod EXCEPT ![c] = y], UNCHANGED <<pipe, subs, edits, log>>,
         event' \in EventRows, committed' \in 0..Len(log), owner' \in Pods \cup {NoPod},
         handled \subseteq handled', handled' \subseteq 1..Len(log), CountType',
         (1..committed') \subseteq handled',
         \A d \in Pods : d # c /\ owner' = d => owner = d,
         owner' = c => (1..y.pos) \subseteq handled' \cup {y.cur},
         y.pc \in InHand => (1..(y.cur - 1)) \subseteq handled',
         y.pc = "commit" => y.cur \in handled'
  PROVE  DispatcherInv'
<1>1. PodsType'
  BY PodJoin DEF DispatcherInv
<1>2. OffsetInv'
  BY OffsetJoin DEF DispatcherInv, PodsType
<1>3. RowType' /\ LogType'
  BY DEF DispatcherInv, RowType, PipeType, LogType
<1> QED
  BY <1>1, <1>2, <1>3 DEF DispatcherInv

\* A step of one pod that only works on the message in hand: nothing is handled
\* or committed.
LEMMA WorkStep ==
  ASSUME DispatcherInv, NEW c \in Pods, NEW y \in PodStates, PodType(y, Len(log)),
         pod' = [pod EXCEPT ![c] = y],
         UNCHANGED <<pipe, subs, edits, log, event, committed, owner, handled, unrecorded, faults>>,
         owner = c => (1..y.pos) \subseteq handled \cup {y.cur},
         y.pc \in InHand => (1..(y.cur - 1)) \subseteq handled,
         y.pc = "commit" => y.cur \in handled
  PROVE  DispatcherInv'
<1>1. /\ event \in EventRows /\ committed \in 0..Len(log) /\ owner \in Pods \cup {NoPod}
      /\ handled \subseteq 1..Len(log) /\ (1..committed) \subseteq handled
  BY DEF DispatcherInv, RowType, LogType, OffsetInv
<1>2. CountType'
  BY DEF DispatcherInv, CountType
<1> QED
  BY <1>1, <1>2, PodStep

\* A delivery keeps the dispatcher good.
LEMMA DeliverDispatcher ==
  ASSUME DispatcherInv, NEW c \in Pods, Deliver(c)
  PROVE  DispatcherInv'
<1> DEFINE todo == {s \in subs : matches_filter(log[pod[c].pos + 1], s)}
           n == pod[c].pos + 1
           y == [pod[c] EXCEPT !.pc = "next", !.pos = n, !.cur = n, !.todo = todo]
<1>1. /\ pod[c].pc = "poll" /\ owner = c /\ pod[c].pos < Len(log)
      /\ UNCHANGED <<pipe, subs, edits, event, log, committed, owner, handled, unrecorded, faults>>
  BY DEF Deliver, dbVars, kafkaVars
<1>2. pod[c] \in PodStates /\ pod[c].pos \in Nat /\ Len(log) \in Nat /\ pod[c].cur = 0
      /\ pod[c].pipe = Absent /\ pod \in [Pods -> PodStates]
  BY <1>1 DEF DispatcherInv, PodsType, PodType, PodStates, LogType, InHand
<1>3. todo \in SUBSET Subs /\ n \in Nat
  BY <1>2 DEF DispatcherInv, RowType
<1>4. pod' = [pod EXCEPT ![c] = y]
  BY <1>2 DEF Deliver
<1> HIDE DEF todo, n
<1>5. y \in PodStates
  BY <1>2, <1>3 DEF PodStates
<1>6. y.pc = "next" /\ y.pos = n /\ y.cur = n /\ y.pipe = pod[c].pipe
  BY <1>2 DEF PodStates
<1> HIDE DEF y
<1>7. PodType(y, Len(log))
  BY <1>1, <1>2, <1>6 DEF PodType, InHand, n
<1>8. (1..y.pos) \subseteq handled \cup {y.cur} /\ (1..(y.cur - 1)) \subseteq handled
  <2>1. (1..pod[c].pos) \subseteq handled
    BY <1>1, <1>2 DEF DispatcherInv, OffsetInv
  <2> QED
    BY <1>2, <1>6, <2>1 DEF n
<1> QED
  BY <1>1, <1>4, <1>5, <1>6, <1>7, <1>8, WorkStep

\* The steps that leave the position, and a message in hand, as they are.
LEMMA StayDispatcher ==
  ASSUME DispatcherInv, NEW c \in Pods, LoadPipeline(c) \/ Dispatch(c) \/ Boot(c)
  PROVE  DispatcherInv'
<1> DEFINE x == pod[c]
           y == pod'[c]
<1>1. x \in PodStates /\ pod \in [Pods -> PodStates] /\ PodType(x, Len(log))
  BY DEF DispatcherInv, PodsType
<1>2. UNCHANGED <<pipe, subs, edits, event, log, committed, owner, handled, unrecorded, faults>>
  BY DEF LoadPipeline, Dispatch, Boot, dbVars, kafkaVars
<1>3. ASSUME LoadPipeline(c)
      PROVE  /\ pod' = [pod EXCEPT ![c] = y] /\ y \in PodStates /\ y.pos = x.pos /\ y.cur = x.cur
             /\ PodType(y, Len(log)) /\ y.pc \in {"next", "mode"} /\ x.pc = "next"
  <2> DEFINE skip(s) == Exists(s.pipe) => ~pipe[s.pipe].enabled
             pc(s) == IF skip(s) THEN "next" ELSE "mode"
             ppl(s) == IF skip(s) THEN Absent ELSE s.pipe
  <2>1. PICK s \in pod[c].todo :
          pod' = [pod EXCEPT ![c].pc = pc(s), ![c].todo = @ \ {s}, ![c].pipe = ppl(s)]
    BY <1>3 DEF LoadPipeline
  <2>2. x.pc = "next" /\ s \in Subs /\ s.pipe \in Pipes
    BY <1>1, <1>3, <2>1, PipelineConstants DEF LoadPipeline, PodStates
  <2>3. /\ pc(s) \in {"next", "mode"} /\ ppl(s) \in Pipes \cup {Absent}
        /\ ppl(s) \in IF pc(s) = "mode" THEN Pipes ELSE {Absent}
    BY <2>2
  <2> HIDE DEF pc, ppl
  <2>4. y = [x EXCEPT !.pc = pc(s), !.todo = x.todo \ {s}, !.pipe = ppl(s)]
    BY <1>1, <2>1
  <2>5. pod' = [pod EXCEPT ![c] = y]
    BY <1>1, <2>1
  <2> HIDE DEF y, x
  <2>6. y \in PodStates /\ y.pos = x.pos /\ y.cur = x.cur /\ y.pc = pc(s) /\ y.pipe = ppl(s)
    BY <1>1, <2>3, <2>4 DEF PodStates
  <2>7. PodType(y, Len(log))
    BY <1>1, <2>2, <2>3, <2>6 DEF PodType, InHand, x
  <2> QED
    BY <2>2, <2>3, <2>5, <2>6, <2>7 DEF x
<1>4. ASSUME Dispatch(c)
      PROVE  /\ pod' = [pod EXCEPT ![c] = y] /\ y \in PodStates /\ y.pos = x.pos /\ y.cur = x.cur
             /\ PodType(y, Len(log)) /\ y.pc = "next" /\ x.pc = "mode"
  <2> DEFINE p == pod[c].pipe
             stream == Exists(p) /\ Streaming(pipe[p].nodes)
             streams == IF stream THEN x.streams \cup {p} ELSE x.streams
  <2>1. x.pc = "mode" /\ p \in Pipes
    BY <1>1, <1>4 DEF Dispatch, PodType
  <2>2. streams \in SUBSET Pipes
    BY <1>1, <2>1 DEF PodStates
  <2>3. pod' = [pod EXCEPT ![c].pc = "next", ![c].pipe = Absent, ![c].streams = streams]
    BY <1>1, <1>4 DEF Dispatch
  <2> HIDE DEF streams
  <2>4. y = [x EXCEPT !.pc = "next", !.pipe = Absent, !.streams = streams]
    BY <1>1, <2>3
  <2>5. pod' = [pod EXCEPT ![c] = y]
    BY <1>1, <2>3
  <2> HIDE DEF y, x
  <2>6. y \in PodStates /\ y.pos = x.pos /\ y.cur = x.cur /\ y.pc = "next" /\ y.pipe = Absent
    BY <1>1, <2>2, <2>4 DEF PodStates
  <2>7. PodType(y, Len(log))
    BY <1>1, <2>1, <2>6 DEF PodType, InHand
  <2> QED
    BY <2>1, <2>5, <2>6, <2>7
<1>5. ASSUME Boot(c)
      PROVE  /\ pod' = [pod EXCEPT ![c] = y] /\ y \in PodStates /\ y.pos = x.pos /\ y.cur = x.cur
             /\ PodType(y, Len(log)) /\ y.pc = "boot" /\ x.pc = "down"
  <2> DEFINE before == {t \in Tasks : run[t] # "absent"}
  <2>1. pod' = [pod EXCEPT ![c].pc = "boot", ![c].before = before] /\ x.pc = "down"
    BY <1>5 DEF Boot
  <2>2. before \in SUBSET Tasks
    OBVIOUS
  <2> HIDE DEF before
  <2>3. y = [x EXCEPT !.pc = "boot", !.before = before]
    BY <1>1, <2>1
  <2>4. pod' = [pod EXCEPT ![c] = y]
    BY <1>1, <2>1
  <2> HIDE DEF y, x
  <2>5. y \in PodStates /\ y.pos = x.pos /\ y.cur = x.cur /\ y.pc = "boot" /\ y.pipe = x.pipe
    BY <1>1, <2>2, <2>3 DEF PodStates
  <2>6. PodType(y, Len(log))
    BY <1>1, <2>1, <2>5 DEF PodType, InHand
  <2> QED
    BY <2>1, <2>4, <2>5, <2>6
<1>6. owner = c => (1..x.pos) \subseteq handled \cup {x.cur}
  BY DEF DispatcherInv, OffsetInv
<1>7. x.pc \in InHand => (1..(x.cur - 1)) \subseteq handled
  BY DEF DispatcherInv, OffsetInv
<1> HIDE DEF x, y
<1>8. /\ pod' = [pod EXCEPT ![c] = y] /\ y \in PodStates /\ PodType(y, Len(log))
      /\ owner = c => (1..y.pos) \subseteq handled \cup {y.cur}
      /\ y.pc \in InHand => (1..(y.cur - 1)) \subseteq handled
      /\ y.pc # "commit"
  BY <1>3, <1>4, <1>5, <1>6, <1>7 DEF InHand
<1> QED
  BY <1>2, <1>8, WorkStep

\* The message at offset n, in hand or the next one, is handled, in success or
\* in error; the pod goes on to commit it.
LEMMA HandleStep ==
  ASSUME DispatcherInv, NEW c \in Pods, NEW y \in PodStates, PodType(y, Len(log)),
         pod' = [pod EXCEPT ![c] = y],
         UNCHANGED <<pipe, subs, edits, log, committed, owner, unrecorded>>,
         event' \in EventRows, faults' \in 0..MaxFaults, handled' = handled \cup {y.cur},
         y.pc = "commit", owner = c => (1..y.pos) \subseteq handled \cup {y.cur},
         (1..(y.cur - 1)) \subseteq handled
  PROVE  DispatcherInv'
<1>1. /\ committed \in 0..Len(log) /\ owner \in Pods \cup {NoPod}
      /\ handled \subseteq 1..Len(log) /\ (1..committed) \subseteq handled
  BY DEF DispatcherInv, RowType, LogType, OffsetInv
<1>2. CountType'
  BY DEF DispatcherInv, CountType
<1>3. y.cur \in 1..Len(log)
  BY DEF PodType, InHand
<1>4. handled' \subseteq 1..Len(log) /\ handled \subseteq handled' /\ y.cur \in handled'
  BY <1>1, <1>3
<1>5. /\ (1..committed) \subseteq handled' /\ (1..(y.cur - 1)) \subseteq handled'
      /\ owner = c => (1..y.pos) \subseteq handled' \cup {y.cur}
  BY <1>1, <1>4
<1> QED
  BY <1>1, <1>2, <1>4, <1>5, PodStep

\* An event gets another status.
LEMMA EventUpdate ==
  ASSUME event \in EventRows, NEW e \in Events,
         NEW st \in {"absent", "dispatched", "completed", "failed"},
         event' = [event EXCEPT ![e].st = st] \/ UNCHANGED event
  PROVE  event' \in EventRows
BY DEF EventRows

\* An event handled, with or without an error, keeps the dispatcher good.
LEMMA HandleDispatcher ==
  ASSUME DispatcherInv, NEW c \in Pods, EventDone(c) \/ DispatchError(c) \/ SubscriptionsError(c)
  PROVE  DispatcherInv' /\ \E i \in 1..Len(log) : handled' = handled \cup {i}
<1> DEFINE x == pod[c]
           y == pod'[c]
<1>1. x \in PodStates /\ pod \in [Pods -> PodStates] /\ PodType(x, Len(log))
  BY DEF DispatcherInv, PodsType
<1>2. UNCHANGED <<pipe, subs, edits, log, committed, owner, unrecorded>>
  BY DEF EventDone, DispatchError, SubscriptionsError, dbVars, kafkaVars
<1>3. event \in EventRows /\ faults \in 0..MaxFaults /\ MaxFaults \in Nat /\ log \in Seq(Events)
      /\ Len(log) \in Nat
  BY PipelineBounds DEF DispatcherInv, RowType, CountType, LogType
<1>4. faults' \in 0..MaxFaults
  BY <1>3 DEF EventDone, DispatchError, SubscriptionsError, Settle, Spend
<1>5. ASSUME EventDone(c)
      PROVE  /\ pod' = [pod EXCEPT ![c] = y] /\ y \in PodStates /\ y.pos = x.pos /\ y.cur = x.cur
             /\ PodType(y, Len(log)) /\ y.pc = "commit" /\ x.pc \in InHand
             /\ handled' = handled \cup {y.cur} /\ event' \in EventRows
  <2>1. x.pc = "next" /\ pod' = [pod EXCEPT ![c].pc = "commit"] /\ handled' = handled \cup {x.cur}
    BY <1>5 DEF EventDone, Settle
  <2>2. x.cur \in 1..Len(log)
    BY <1>1, <2>1 DEF PodType, InHand
  <2>3. log[x.cur] \in Events
    BY <1>3, <2>2
  <2>4. event' \in EventRows
    BY <1>3, <1>5, <2>3, EventUpdate DEF EventDone, Settle, EventOf
  <2>5. y = [x EXCEPT !.pc = "commit"]
    BY <1>1, <2>1
  <2>6. pod' = [pod EXCEPT ![c] = y]
    BY <1>1, <2>1
  <2> HIDE DEF y, x
  <2>7. y \in PodStates /\ y.pos = x.pos /\ y.cur = x.cur /\ y.pc = "commit" /\ y.pipe = x.pipe
    BY <1>1, <2>5 DEF PodStates
  <2>8. PodType(y, Len(log))
    BY <1>1, <2>1, <2>7 DEF PodType, InHand
  <2> QED
    BY <2>1, <2>4, <2>6, <2>7, <2>8 DEF InHand
<1>6. ASSUME DispatchError(c)
      PROVE  /\ pod' = [pod EXCEPT ![c] = y] /\ y \in PodStates /\ y.pos = x.pos /\ y.cur = x.cur
             /\ PodType(y, Len(log)) /\ y.pc = "commit" /\ x.pc \in InHand
             /\ handled' = handled \cup {y.cur} /\ event' \in EventRows
  <2>1. /\ x.pc \in {"mode", "next"} /\ handled' = handled \cup {x.cur}
        /\ pod' = [pod EXCEPT ![c].pc = "commit", ![c].todo = {}, ![c].pipe = Absent]
    BY <1>6 DEF DispatchError
  <2>2. x.cur \in 1..Len(log)
    BY <1>1, <2>1 DEF PodType, InHand
  <2>3. log[x.cur] \in Events
    BY <1>3, <2>2
  <2>4. event' \in EventRows
    BY <1>3, <1>6, <2>3, EventUpdate DEF DispatchError, EventOf
  <2>5. y = [x EXCEPT !.pc = "commit", !.todo = {}, !.pipe = Absent]
    BY <1>1, <2>1
  <2>6. pod' = [pod EXCEPT ![c] = y]
    BY <1>1, <2>1
  <2> HIDE DEF y, x
  <2>7. y \in PodStates /\ y.pos = x.pos /\ y.cur = x.cur /\ y.pc = "commit" /\ y.pipe = Absent
    BY <1>1, <2>5 DEF PodStates
  <2>8. PodType(y, Len(log))
    BY <1>1, <2>1, <2>7 DEF PodType, InHand
  <2> QED
    BY <2>1, <2>4, <2>6, <2>7, <2>8 DEF InHand
<1>7. ASSUME SubscriptionsError(c)
      PROVE  /\ pod' = [pod EXCEPT ![c] = y] /\ y \in PodStates /\ y.pos = x.pos + 1
             /\ y.cur = x.pos + 1 /\ x.pos \in Nat /\ x.cur = 0 /\ owner = c
             /\ PodType(y, Len(log)) /\ y.pc = "commit"
             /\ handled' = handled \cup {y.cur} /\ event' \in EventRows
  <2> DEFINE n == x.pos + 1
  <2>1. /\ x.pc = "poll" /\ owner = c /\ handled' = handled \cup {n} /\ x.pos < Len(log)
        /\ pod' = [pod EXCEPT ![c].pc = "commit", ![c].pos = n, ![c].cur = n]
    BY <1>1, <1>7 DEF SubscriptionsError
  <2>2. n \in 1..Len(log) /\ x.pos \in Nat /\ x.cur = 0 /\ x.pipe = Absent /\ n \in Nat
    BY <1>1, <1>3, <2>1 DEF PodType, InHand
  <2>3. log[n] \in Events
    BY <1>3, <2>2
  <2>4. event' \in EventRows
    BY <1>3, <1>7, <2>3, EventUpdate DEF SubscriptionsError
  <2> HIDE DEF n
  <2>5. y = [x EXCEPT !.pc = "commit", !.pos = n, !.cur = n]
    BY <1>1, <2>1
  <2>6. pod' = [pod EXCEPT ![c] = y]
    BY <1>1, <2>1
  <2> HIDE DEF y, x
  <2>7. y \in PodStates /\ y.pos = n /\ y.cur = n /\ y.pc = "commit" /\ y.pipe = x.pipe
    BY <1>1, <2>2, <2>5 DEF PodStates
  <2>8. PodType(y, Len(log))
    BY <1>3, <2>2, <2>7 DEF PodType, InHand
  <2> QED
    BY <2>1, <2>2, <2>4, <2>6, <2>7, <2>8 DEF n
<1>8. owner = c => (1..x.pos) \subseteq handled \cup {x.cur}
  BY DEF DispatcherInv, OffsetInv
<1>9. x.pc \in InHand => (1..(x.cur - 1)) \subseteq handled
  BY DEF DispatcherInv, OffsetInv
<1> HIDE DEF x, y
<1>10. ASSUME SubscriptionsError(c)
       PROVE  (1..y.pos) \subseteq handled \cup {y.cur} /\ (1..(y.cur - 1)) \subseteq handled
  <2>1. (1..x.pos) \subseteq handled
    BY <1>7, <1>8, <1>10
  <2> QED
    BY <1>7, <1>10, <2>1
<1>11. /\ pod' = [pod EXCEPT ![c] = y] /\ y \in PodStates /\ PodType(y, Len(log))
       /\ y.pc = "commit" /\ handled' = handled \cup {y.cur} /\ event' \in EventRows
       /\ owner = c => (1..y.pos) \subseteq handled \cup {y.cur}
       /\ (1..(y.cur - 1)) \subseteq handled
  <2>1. CASE EventDone(c)
    BY <1>5, <1>8, <1>9, <2>1
  <2>2. CASE DispatchError(c)
    BY <1>6, <1>8, <1>9, <2>2
  <2>3. CASE SubscriptionsError(c)
    BY <1>7, <1>10, <2>3
  <2> QED
    BY <2>1, <2>2, <2>3
<1>12. DispatcherInv'
  BY <1>2, <1>4, <1>11, HandleStep
<1>13. y.cur \in 1..Len(log)
  BY <1>11 DEF PodType, InHand
<1> QED
  BY <1>11, <1>12, <1>13

\* A commit covers handled events only.
LEMMA CommitDispatcher ==
  ASSUME DispatcherInv, NEW c \in Pods, CommitOffset(c)
  PROVE  /\ DispatcherInv' /\ UNCHANGED <<log, handled>>
         /\ UNCHANGED committed
            \/ \E n \in 0..Len(log) : (1..n) \subseteq handled /\ committed' = n
<1> DEFINE x == pod[c]
           y == [x EXCEPT !.pc = "poll", !.cur = 0]
<1>1. x \in PodStates /\ pod \in [Pods -> PodStates] /\ PodType(x, Len(log))
  BY DEF DispatcherInv, PodsType
<1>2. /\ x.pc = "commit" /\ pod' = [pod EXCEPT ![c] = y] /\ committed' \in {committed, x.cur}
      /\ UNCHANGED <<pipe, subs, edits, event, log, owner, handled, unrecorded>>
  BY <1>1 DEF CommitOffset, dbVars
<1>3. x.cur \in 1..Len(log) /\ x.pipe = Absent /\ Len(log) \in Nat
  BY <1>1, <1>2 DEF PodType, InHand, DispatcherInv, LogType
<1>4. y \in PodStates
  BY <1>1 DEF PodStates
<1>5. y.pos = x.pos /\ y.cur = 0 /\ y.pc = "poll" /\ y.pipe = x.pipe
  BY <1>1 DEF PodStates
<1>6. /\ owner = c => (1..x.pos) \subseteq handled \cup {x.cur}
      /\ (1..(x.cur - 1)) \subseteq handled /\ x.cur \in handled
  BY <1>2 DEF DispatcherInv, OffsetInv, InHand
<1> HIDE DEF x, y
<1>7. (1..x.cur) \subseteq handled
  BY <1>3, <1>6
<1>8. /\ event \in EventRows /\ committed \in 0..Len(log) /\ owner \in Pods \cup {NoPod}
      /\ handled \subseteq 1..Len(log) /\ (1..committed) \subseteq handled
  BY DEF DispatcherInv, RowType, LogType, OffsetInv
<1>9. committed' \in 0..Len(log) /\ (1..committed') \subseteq handled
  BY <1>2, <1>3, <1>7, <1>8
<1>10. PodType(y, Len(log))
  BY <1>1, <1>3, <1>5 DEF PodType, InHand
<1>11. CountType'
  BY <1>2, PipelineBounds DEF DispatcherInv, CountType, CommitOffset, Spend
<1>12. y.pc \notin InHand /\ y.pc # "commit" /\ (owner = c => (1..y.pos) \subseteq handled \cup {y.cur})
  BY <1>5, <1>6 DEF InHand
<1>13. DispatcherInv'
  BY <1>2, <1>4, <1>8, <1>9, <1>10, <1>11, <1>12, PodStep
<1> QED
  BY <1>2, <1>9, <1>13

\* A pod that gets the partition resumes at the committed offset.
LEMMA AssignDispatcher ==
  ASSUME DispatcherInv, NEW c \in Pods, Assign(c)
  PROVE  DispatcherInv'
<1> DEFINE x == pod[c]
           y == [x EXCEPT !.pos = committed]
<1>1. x \in PodStates /\ pod \in [Pods -> PodStates] /\ PodType(x, Len(log))
  BY DEF DispatcherInv, PodsType
<1>2. /\ owner = NoPod /\ owner' = c /\ pod' = [pod EXCEPT ![c] = y]
      /\ UNCHANGED <<pipe, subs, edits, event, log, committed, handled, unrecorded, faults>>
  BY <1>1 DEF Assign, dbVars
<1>3. /\ event \in EventRows /\ committed \in 0..Len(log) /\ Len(log) \in Nat
      /\ handled \subseteq 1..Len(log) /\ (1..committed) \subseteq handled
  BY DEF DispatcherInv, RowType, LogType, OffsetInv
<1>4. y \in PodStates
  <2>1. committed \in Nat
    BY <1>3
  <2> HIDE DEF x
  <2> QED
    BY <1>1, <2>1 DEF PodStates
<1>5. y.pos = committed /\ y.cur = x.cur /\ y.pc = x.pc /\ y.pipe = x.pipe
  BY <1>1 DEF PodStates
<1>6. /\ y.pc \in InHand => (1..(y.cur - 1)) \subseteq handled
      /\ y.pc = "commit" => y.cur \in handled
  BY <1>5 DEF DispatcherInv, OffsetInv
<1> HIDE DEF y
<1>7. PodType(y, Len(log))
  BY <1>1, <1>3, <1>5 DEF PodType
<1>8. CountType'
  BY <1>2 DEF DispatcherInv, CountType
<1>9. \A d \in Pods : d # c /\ owner' = d => owner = d
  BY <1>2
<1>10. (1..y.pos) \subseteq handled \cup {y.cur}
  BY <1>3, <1>5
<1> QED
  BY <1>2, <1>3, <1>4, <1>6, <1>7, <1>8, <1>9, <1>10, PodStep

\* A pod that crashes or starts has nothing in hand.
LEMMA FreshPod ==
  ASSUME NEW pc \in {"down", "poll", "idle"}, NEW n \in Nat
  PROVE  LET y == [NewPod EXCEPT !.pc = pc]
         IN  y \in PodStates /\ PodType(y, n) /\ y.pc = pc /\ y.pos = 0 /\ y.streams = {}
BY DEF NewPod, PodStates, PodType, InHand

\* A pod that dies or comes up keeps the dispatcher good.
LEMMA LifeDispatcher ==
  ASSUME DispatcherInv, NEW c \in Pods, Crash(c) \/ Started(c)
  PROVE  DispatcherInv' /\ UNCHANGED <<log, committed, handled>>
<1>1. PICK pc \in {"down", "poll", "idle"} : pod' = [pod EXCEPT ![c] = [NewPod EXCEPT !.pc = pc]]
  <2>1. NewPod = [NewPod EXCEPT !.pc = "poll"]
    BY DEF NewPod
  <2> QED
    BY <2>1 DEF Crash, Started
<1> DEFINE y == [NewPod EXCEPT !.pc = pc]
<1>2. /\ UNCHANGED <<pipe, subs, edits, event, log, committed, handled>>
      /\ owner' = owner \/ owner' = NoPod
  BY DEF Crash, Started, dbVars, kafkaVars
<1>3. /\ event \in EventRows /\ committed \in 0..Len(log) /\ Len(log) \in Nat
      /\ handled \subseteq 1..Len(log) /\ (1..committed) \subseteq handled
      /\ owner \in Pods \cup {NoPod}
  BY DEF DispatcherInv, RowType, LogType, OffsetInv
<1>4. y \in PodStates /\ PodType(y, Len(log)) /\ y.pc = pc /\ y.pos = 0
  BY <1>3, FreshPod
<1> HIDE DEF y
<1>5. pod' = [pod EXCEPT ![c] = y]
  BY <1>1 DEF y
<1>6. CountType'
  BY PipelineBounds DEF DispatcherInv, CountType, Crash, Started, Spend
<1>7. \A d \in Pods : owner' = d => owner = d
  BY <1>2, PipelineConstants
<1>8. y.pc \notin InHand /\ y.pc # "commit" /\ (1..y.pos) \subseteq handled \cup {y.cur}
  BY <1>1, <1>4 DEF InHand
<1>9. DispatcherInv'
  BY <1>2, <1>3, <1>4, <1>5, <1>6, <1>7, <1>8, PodStep
<1> QED
  BY <1>2, <1>9

\* Edits, the steps of tasks and a revoked partition change no pod.
LEMMA OtherDispatcher ==
  ASSUME DispatcherInv, UNCHANGED <<log, committed, handled, pod, event>>,
         PipeType', subs' \subseteq Subs, edits' \in 0..MaxEdits,
         faults' \in 0..MaxFaults, unrecorded' \subseteq Tasks,
         owner' = owner \/ owner' = NoPod
  PROVE  DispatcherInv'
<1>1. \A d \in Pods : owner' = d => owner = d
  BY PipelineConstants
<1>2. OffsetInv'
  BY <1>1, OffsetKept DEF DispatcherInv
<1>3. RowType' /\ LogType' /\ CountType'
  BY DEF DispatcherInv, RowType, EventRows, LogType, CountType
<1>4. PodsType'
  BY DEF DispatcherInv, PodsType, PodType, InHand
<1> QED
  BY <1>2, <1>3, <1>4 DEF DispatcherInv

\* Edits of pipelines leave the dispatcher alone.
LEMMA EditsDispatcher ==
  ASSUME DispatcherInv, Edits
  PROVE  DispatcherInv' /\ UNCHANGED <<log, committed, handled, pod, task, unrecorded>>
<1>1. UNCHANGED <<log, committed, handled, pod, event, owner, faults, unrecorded, task>>
  BY DEF Edits, Delete, Save, create_subscription, delete_subscription, kafkaVars
<1>2. edits' \in 0..MaxEdits
  BY PipelineBounds
     DEF DispatcherInv, RowType, Edits, Delete, Save, create_subscription, delete_subscription, Edit
<1>3. PipeType'
  BY DEF DispatcherInv, RowType, PipeType, Edits, Delete, Save, create_subscription,
         delete_subscription, Accepted
<1>4. subs' \subseteq Subs
  BY DEF DispatcherInv, RowType, Edits, Delete, Save, create_subscription, delete_subscription
<1>5. faults' \in 0..MaxFaults /\ unrecorded' \subseteq Tasks
  BY <1>1 DEF DispatcherInv, CountType
<1> QED
  BY <1>1, <1>2, <1>3, <1>4, <1>5, OtherDispatcher

AnyTaskStep(t) == TaskStep(t) \/ StreamBatch(t) \/ TaskError(t)

\* The steps of tasks leave the dispatcher alone.
LEMMA TaskDispatcher ==
  ASSUME DispatcherInv, NEW t \in Tasks, AnyTaskStep(t)
  PROVE  DispatcherInv' /\ UNCHANGED <<log, committed, handled, pod>>
<1> USE DEF AnyTaskStep, TaskStep, LoadNodes, StartRun, NodeOk, NodeErr, NodesDone, StreamEnd,
            Record, StreamBatch, TaskError
<1>1. UNCHANGED <<log, committed, handled, pod, event, owner, pipe, subs, edits>>
  BY DEF dbVars, kafkaVars
<1>2. faults' \in 0..MaxFaults
  <2>1. UNCHANGED faults \/ Spend
    OBVIOUS
  <2> QED
    BY ONLY <2>1, DispatcherInv, PipelineBounds DEF DispatcherInv, CountType, Spend
<1>3. unrecorded' \subseteq Tasks
  <2>1. unrecorded' \in {unrecorded, unrecorded \cup {t}}
    OBVIOUS
  <2> QED
    BY ONLY <2>1, DispatcherInv, t \in Tasks DEF DispatcherInv, CountType
<1>4. PipeType' /\ subs' \subseteq Subs /\ edits' \in 0..MaxEdits
  BY <1>1 DEF DispatcherInv, RowType, PipeType
<1> QED
  BY <1>1, <1>2, <1>3, <1>4, OtherDispatcher

\* A pod that loses the partition keeps the dispatcher good.
LEMMA RevokeDispatcher ==
  ASSUME DispatcherInv, Revoke
  PROVE  DispatcherInv' /\ UNCHANGED <<log, committed, handled, pod>>
<1>1. UNCHANGED <<log, committed, handled, pod, event, pipe, subs, edits, unrecorded>>
      /\ owner' = NoPod
  BY DEF Revoke, dbVars
<1>2. faults' \in 0..MaxFaults
  BY PipelineBounds DEF DispatcherInv, CountType, Spend, Revoke
<1>3. PipeType' /\ subs' \subseteq Subs /\ edits' \in 0..MaxEdits /\ unrecorded' \subseteq Tasks
  BY <1>1 DEF DispatcherInv, RowType, PipeType, CountType
<1> QED
  BY <1>1, <1>2, <1>3, OtherDispatcher

-----------------------------------------------------------------------------
(* The dispatcher implements the abstract log. *)

\* The dispatcher starts good.
LEMMA InitDispatcher == Init => DispatcherInv
<1> SUFFICES ASSUME Init PROVE DispatcherInv
  OBVIOUS
<1>1. RowType
  BY PipelineBounds DEF Init, RowType, EventRows, PipeType, Accepted
<1>2. log = << >> /\ committed = 0 /\ owner = NoPod /\ handled = {} /\ Len(<< >>) = 0
  BY DEF Init
<1>3. LogType
  BY <1>2 DEF LogType
<1>4. NewPod = [NewPod EXCEPT !.pc = "poll"]
  BY DEF NewPod
<1>5. NewPod \in PodStates /\ PodType(NewPod, 0) /\ NewPod.pc = "poll"
  BY <1>4, FreshPod
<1>6. pod = [c \in Pods |-> NewPod]
  BY DEF Init
<1>7. PodsType
  BY <1>2, <1>5, <1>6 DEF PodsType
<1>8. CountType
  BY PipelineBounds DEF Init, CountType
<1>9. OffsetInv
  BY <1>2, <1>5, <1>6, PipelineConstants DEF OffsetInv, InHand
<1> QED
  BY <1>1, <1>3, <1>7, <1>8, <1>9 DEF DispatcherInv

\* The log only grows, by copies of the event that is emitted.
LEMMA EmitGrows ==
  ASSUME LogType, NEW e \in Events, NEW p \in Pipes, emit(e, p)
  PROVE  AtLeastOnce!Produce
<1>1. PICK n \in 0..2 : log' = log \o [i \in 1..n |-> e]
  BY DEF emit
<1> DEFINE s == [i \in 1..n |-> e]
<1>2. s \in Seq(Events) /\ Len(s) = n
  OBVIOUS
<1> HIDE DEF s
<1>3. log' = log \o s /\ log \in Seq(Events)
  BY <1>1 DEF s, LogType
<1>4. log' \in Seq(Events) /\ Len(log') >= Len(log)
  BY <1>2, <1>3
<1>5. \A i \in 1..Len(log) : log'[i] = log[i]
  BY <1>2, <1>3
<1>6. UNCHANGED <<handled, committed>>
  BY DEF emit
<1> QED
  BY <1>4, <1>5, <1>6 DEF AtLeastOnce!Produce

\* Every step keeps the invariant of the dispatcher and is a step of the
\* abstract log, or none.
LEMMA NextDispatcher ==
  ASSUME DispatcherInv, [Next]_vars
  PROVE  DispatcherInv' /\ [AtLeastOnce!Next]_(AtLeastOnce!vars)
<1> USE DEF AtLeastOnce!Next, AtLeastOnce!vars
<1>1. CASE Edits
  BY <1>1, EditsDispatcher
<1>2. CASE \E e \in Events, p \in Pipes : emit(e, p)
  BY <1>2, EmitDispatcher, EmitGrows DEF DispatcherInv
<1>3. ASSUME NEW c \in Pods, Deliver(c) \/ LoadPipeline(c) \/ Dispatch(c) \/ Boot(c) \/ Assign(c)
      PROVE  DispatcherInv' /\ UNCHANGED AtLeastOnce!vars
  <2>1. UNCHANGED <<log, handled, committed>>
    BY <1>3 DEF Deliver, LoadPipeline, Dispatch, Boot, Assign, kafkaVars
  <2> QED
    BY <1>3, <2>1, DeliverDispatcher, StayDispatcher, AssignDispatcher
<1>4. ASSUME NEW c \in Pods, EventDone(c) \/ DispatchError(c) \/ SubscriptionsError(c)
      PROVE  DispatcherInv' /\ AtLeastOnce!Next
  <2>1. UNCHANGED <<log, committed>>
    BY <1>4 DEF EventDone, DispatchError, SubscriptionsError, kafkaVars
  <2> QED
    BY <1>4, <2>1, HandleDispatcher DEF AtLeastOnce!Handle
<1>5. ASSUME NEW c \in Pods, CommitOffset(c)
      PROVE  DispatcherInv' /\ [AtLeastOnce!Next]_(AtLeastOnce!vars)
  BY <1>5, CommitDispatcher DEF AtLeastOnce!Commit
<1>6. ASSUME NEW c \in Pods, Crash(c) \/ Started(c)
      PROVE  DispatcherInv' /\ UNCHANGED AtLeastOnce!vars
  BY <1>6, LifeDispatcher
<1>7. ASSUME NEW t \in Tasks, AnyTaskStep(t) PROVE DispatcherInv' /\ UNCHANGED AtLeastOnce!vars
  BY <1>7, TaskDispatcher
<1>8. CASE Revoke
  BY <1>8, RevokeDispatcher
<1>9. CASE UNCHANGED vars
  <2>1. PipeType' /\ subs' \subseteq Subs /\ edits' \in 0..MaxEdits /\ unrecorded' \subseteq Tasks
        /\ faults' \in 0..MaxFaults
    BY <1>9 DEF vars, dbVars, DispatcherInv, RowType, PipeType, CountType
  <2> QED
    BY <1>9, <2>1, OtherDispatcher DEF vars, kafkaVars
<1> QED
  BY <1>1, <1>2, <1>3, <1>4, <1>5, <1>6, <1>7, <1>8, <1>9 DEF Next, DispatcherStep, AnyTaskStep

\* The dispatcher never commits an offset over an event that was not processed:
\* it implements the abstract at-least-once log, with rebalances, late commits,
\* lost commits and crashes (EventDispatcher::run).
THEOREM DispatcherRefinesLog == Spec => DispatcherIsAtLeastOnce
<1>1. Init => AtLeastOnce!Init
  BY DEF Init, AtLeastOnce!Init
<1>2. DispatcherInv /\ [Next]_vars => DispatcherInv' /\ [AtLeastOnce!Next]_(AtLeastOnce!vars)
  BY NextDispatcher
<1> QED
  BY <1>1, <1>2, InitDispatcher, PTL DEF Spec, DispatcherIsAtLeastOnce, AtLeastOnce!Spec

-----------------------------------------------------------------------------
(* Tasks, streams and runs. *)

\* One task goes from one step to another; it keeps its pipeline, its mode and,
\* while it lives, its pod.
Moves(t, from, to) ==
  /\ task[t].pc \in from /\ task'[t].pc \in to
  /\ task'[t].pipe = task[t].pipe /\ task'[t].stream = task[t].stream
  /\ task'[t].pc \in Live => task'[t].pod = task[t].pod
  /\ \A u \in Tasks : u # t => task'[u] = task[u]

\* A task that ends without a run moves to its end.
LEMMA OverMoves ==
  ASSUME TasksInv, NEW t \in Tasks, Over(t), NEW from, task[t].pc \in from
  PROVE  Moves(t, from, {"over"}) /\ task'[t].ok = task[t].ok
<1>1. task' = [task EXCEPT ![t] = Gone(t, "over")] /\ task \in [Tasks -> TaskStates]
  BY DEF Over, TasksInv
<1>2. task'[t] = Gone(t, "over") /\ \A u \in Tasks : u # t => task'[u] = task[u]
  BY <1>1
<1>3. NoTask \in TaskStates
  BY NoTaskInv DEF TaskInv, TaskType
<1>4. /\ Gone(t, "over").pc = "over" /\ Gone(t, "over").pipe = task[t].pipe
      /\ Gone(t, "over").stream = task[t].stream /\ Gone(t, "over").ok = task[t].ok
  BY <1>1, <1>3 DEF Gone, TaskStates
<1> QED
  BY <1>2, <1>4 DEF Moves, Live

\* A task that loads its nodes goes on to the edges, or ends.
LEMMA LoadNodesMoves ==
  ASSUME TasksInv, NEW t \in Tasks, LoadNodes(t)
  PROVE  Moves(t, {"load"}, {"edges", "over"})
<1>1. task[t].pc = "load" /\ task \in [Tasks -> TaskStates]
  BY DEF LoadNodes, TasksInv
<1>2. CASE Over(t)
  BY <1>1, <1>2, OverMoves DEF Moves
<1>3. CASE task' = [task EXCEPT ![t].pc = "edges", ![t].graph.nodes = pipe[task[t].pipe].nodes]
  BY <1>1, <1>3 DEF Moves, TaskStates
<1> QED
  BY <1>2, <1>3 DEF LoadNodes

\* run is recorded if, and only if, execution starts.
LEMMA StartRunMoves ==
  ASSUME TasksInv, NEW t \in Tasks, StartRun(t)
  PROVE  \/ Moves(t, {"edges"}, {"over"}) /\ UNCHANGED run
         \/ Moves(t, {"edges"}, {"exec", "stream"}) /\ run' = [run EXCEPT ![t] = "running"]
<1> DEFINE p == task[t].pipe
           nodes == task[t].graph.nodes
           edges == pipe[p].edges
<1>1. task[t].pc = "edges" /\ task \in [Tasks -> TaskStates]
  BY DEF StartRun, TasksInv
<1>2. CASE Over(t) /\ UNCHANGED run
  BY <1>1, <1>2, OverMoves
<1>3. CASE /\ \E order \in Orders[nodes][edges] : task' = [task EXCEPT ![t] = Begin(t, edges, order)]
           /\ run' = [run EXCEPT ![t] = "running"]
  <2>1. PICK order \in Orders[nodes][edges] : task' = [task EXCEPT ![t] = Begin(t, edges, order)]
    BY <1>3
  <2> HIDE DEF edges
  <2>2. task'[t] = Begin(t, edges, order) /\ \A u \in Tasks : u # t => task'[u] = task[u]
    BY <1>1, <2>1
  <2>3. LET y == Begin(t, edges, order)
        IN  /\ y.pc \in {"exec", "stream"} /\ y.pipe = task[t].pipe /\ y.stream = task[t].stream
            /\ y.pod = task[t].pod
    BY <1>1 DEF Begin, TaskStates
  <2> QED
    BY <1>1, <1>3, <2>2, <2>3 DEF Moves
<1> QED
  BY <1>2, <1>3 DEF StartRun

\* A run that ended is to be recorded, for the same pipeline and pod.
LEMMA EndedFields ==
  ASSUME TasksInv, NEW t \in Tasks, NEW ok \in BOOLEAN, NEW w
  PROVE  LET y == Ended(t, ok, w)
         IN  /\ y.pc = "record" /\ y.pipe = task[t].pipe /\ y.stream = task[t].stream
             /\ y.pod = task[t].pod
<1>1. task[t] \in TaskStates
  BY DEF TasksInv
<1> QED
  BY <1>1 DEF Ended, TaskStates

\* The steps of the execution proper, which leave the row of the run alone.
ExecStep(t) == NodeOk(t) \/ NodeErr(t) \/ NodesDone(t) \/ StreamBatch(t) \/ StreamEnd(t)

\* A run goes on, or is to be recorded.
LEMMA ExecMoves ==
  ASSUME TasksInv, NEW t \in Tasks, ExecStep(t)
  PROVE  Moves(t, {"exec", "stream"}, {"exec", "stream", "record"})
<1> DEFINE x == task[t]
<1>1. task \in [Tasks -> TaskStates] /\ x \in TaskStates
  BY DEF TasksInv
<1>3. CASE NodeOk(t)
  <2> DEFINE y == [x EXCEPT !.rest = Tail(x.rest), !.done = x.done \cup {Head(x.rest)},
                            !.written = IF x.graph.nodes[Head(x.rest)] = "sink"
                                        THEN x.written \cup {Head(x.rest)} ELSE x.written]
  <2>1. task' = [task EXCEPT ![t] = y] /\ x.pc = "exec"
    BY <1>1, <1>3 DEF NodeOk
  <2>2. y.pc = x.pc /\ y.pipe = x.pipe /\ y.stream = x.stream /\ y.pod = x.pod
    BY <1>1 DEF TaskStates
  <2> HIDE DEF y
  <2>3. task'[t] = y /\ \A u \in Tasks : u # t => task'[u] = task[u]
    BY <1>1, <2>1
  <2> QED
    BY <2>1, <2>2, <2>3 DEF Moves
<1>4. CASE NodeErr(t)
  <2>1. PICK w : task' = [task EXCEPT ![t] = Ended(t, FALSE, w)]
    BY <1>4 DEF NodeErr
  <2>2. x.pc = "exec"
    BY <1>4 DEF NodeErr
  <2>3. LET y == Ended(t, FALSE, w)
        IN  y.pc = "record" /\ y.pipe = x.pipe /\ y.stream = x.stream /\ y.pod = x.pod
    BY EndedFields
  <2>4. task'[t] = Ended(t, FALSE, w) /\ \A u \in Tasks : u # t => task'[u] = task[u]
    BY <1>1, <2>1
  <2> QED
    BY <2>2, <2>3, <2>4 DEF Moves
<1>5. CASE NodesDone(t)
  <2> DEFINE y == [x EXCEPT !.pc = "stream", !.done = {}, !.written = {}]
  <2>1. x.pc = "exec"
    BY <1>5 DEF NodesDone
  <2>2. CASE task' = [task EXCEPT ![t] = y]
    <3>1. y.pc = "stream" /\ y.pipe = x.pipe /\ y.stream = x.stream /\ y.pod = x.pod
      BY <1>1 DEF TaskStates
    <3> HIDE DEF y
    <3>2. task'[t] = y /\ \A u \in Tasks : u # t => task'[u] = task[u]
      BY <1>1, <2>2
    <3> QED
      BY <2>1, <3>1, <3>2 DEF Moves
  <2>3. CASE task' = [task EXCEPT ![t] = Ended(t, TRUE, x.written)]
    <3>1. LET z == Ended(t, TRUE, x.written)
          IN  z.pc = "record" /\ z.pipe = x.pipe /\ z.stream = x.stream /\ z.pod = x.pod
      BY EndedFields
    <3>2. task'[t] = Ended(t, TRUE, x.written) /\ \A u \in Tasks : u # t => task'[u] = task[u]
      BY <1>1, <2>3
    <3> QED
      BY <2>1, <3>1, <3>2 DEF Moves
  <2> QED
    BY <1>5, <2>2, <2>3 DEF NodesDone
<1>6. CASE StreamBatch(t)
  <2> DEFINE y == [x EXCEPT !.pc = "exec", !.done = {Head(x.srcs)}, !.rest = x.down]
  <2>1. task' = [task EXCEPT ![t] = y] /\ x.pc = "stream"
    BY <1>1, <1>6 DEF StreamBatch
  <2>2. y.pc = "exec" /\ y.pipe = x.pipe /\ y.stream = x.stream /\ y.pod = x.pod
    BY <1>1 DEF TaskStates
  <2> HIDE DEF y
  <2>3. task'[t] = y /\ \A u \in Tasks : u # t => task'[u] = task[u]
    BY <1>1, <2>1
  <2> QED
    BY <2>1, <2>2, <2>3 DEF Moves
<1>7. CASE StreamEnd(t)
  <2> DEFINE y == [x EXCEPT !.srcs = Tail(x.srcs)]
  <2>1. PICK ok \in BOOLEAN :
          task' = [task EXCEPT ![t] = IF ok /\ Len(x.srcs) > 1 THEN y ELSE Ended(t, ok, x.written)]
    BY <1>7 DEF StreamEnd
  <2>2. x.pc = "stream"
    BY <1>7 DEF StreamEnd
  <2>3. CASE task' = [task EXCEPT ![t] = y]
    <3>1. y.pc = x.pc /\ y.pipe = x.pipe /\ y.stream = x.stream /\ y.pod = x.pod
      BY <1>1 DEF TaskStates
    <3> HIDE DEF y
    <3>2. task'[t] = y /\ \A u \in Tasks : u # t => task'[u] = task[u]
      BY <1>1, <2>3
    <3> QED
      BY <2>2, <3>1, <3>2 DEF Moves
  <2>4. CASE task' = [task EXCEPT ![t] = Ended(t, ok, x.written)]
    <3>1. LET z == Ended(t, ok, x.written)
          IN  z.pc = "record" /\ z.pipe = x.pipe /\ z.stream = x.stream /\ z.pod = x.pod
      BY EndedFields
    <3>2. task'[t] = Ended(t, ok, x.written) /\ \A u \in Tasks : u # t => task'[u] = task[u]
      BY <1>1, <2>4
    <3> QED
      BY <2>2, <3>1, <3>2 DEF Moves
  <2> QED
    BY <2>1, <2>3, <2>4
<1> QED
  BY <1>3, <1>4, <1>5, <1>6, <1>7 DEF ExecStep

\* Every step keeps the invariant of the tasks.
LEMMA NextTasks ==
  ASSUME TasksInv, PodsType, [Next]_vars
  PROVE  TasksInv'
<1>1. CASE UNCHANGED task
  BY <1>1 DEF TasksInv
<1>2. ASSUME NEW c \in Pods, Dispatch(c) PROVE TasksInv'
  <2> DEFINE p == pod[c].pipe
             stream == Exists(p) /\ Streaming(pipe[p].nodes)
  <2>1. p \in Pipes /\ stream \in BOOLEAN
    BY <1>2 DEF Dispatch, PodsType, PodType
  <2>2. CASE \E t \in Tasks : Spawn(t, c, p, stream)
    <3>1. PICK t \in Tasks : Spawn(t, c, p, stream)
      BY <2>2
    <3> HIDE DEF stream, p
    <3> QED
      BY <2>1, <3>1, SpawnTasks
  <2> QED
    BY <1>1, <1>2, <2>2 DEF Dispatch
<1>3. ASSUME NEW c \in Pods, Crash(c) PROVE TasksInv'
  BY <1>3, CrashTasks
<1>4. ASSUME NEW t \in Tasks, ExecStep(t) PROVE TasksInv'
  BY <1>4, NodeOkTasks, NodeErrTasks, NodesDoneTasks, StreamBatchTasks, StreamEndTasks DEF ExecStep
<1>5. ASSUME NEW t \in Tasks, LoadNodes(t) \/ StartRun(t) \/ Record(t) \/ TaskError(t)
      PROVE  TasksInv'
  <2>1. Record(t) \/ TaskError(t) => Over(t) /\ task[t].pc \in Live
    BY DEF Record, TaskError, Live
  <2> QED
    BY <1>5, <2>1, OverTasks, LoadNodesTasks, StartRunTasks
<1>6. CASE Edits
  BY <1>1, <1>6 DEF Edits, Delete, Save, create_subscription, delete_subscription
<1>7. CASE \E e \in Events, p \in Pipes : emit(e, p)
  BY <1>1, <1>7 DEF emit
<1>8. ASSUME NEW c \in Pods,
             \/ Deliver(c) \/ LoadPipeline(c) \/ EventDone(c) \/ CommitOffset(c)
             \/ SubscriptionsError(c) \/ DispatchError(c) \/ Assign(c) \/ Boot(c) \/ Started(c)
      PROVE  TasksInv'
  BY <1>1, <1>8 DEF Deliver, LoadPipeline, EventDone, CommitOffset, SubscriptionsError,
                    DispatchError, Assign, Boot, Started
<1>9. CASE Revoke \/ UNCHANGED vars
  BY <1>1, <1>9 DEF Revoke, vars
<1> QED
  BY <1>2, <1>3, <1>4, <1>5, <1>6, <1>7, <1>8, <1>9
     DEF Next, DispatcherStep, TaskStep, ExecStep

\* No task becomes live or changes hands, and pods with live tasks keep their
\* streams.
LEMMA StreamsKept ==
  ASSUME StreamsInv,
         \A u \in Tasks : task'[u].pc \in Live =>
           /\ task[u].pc \in Live /\ task'[u].pod = task[u].pod /\ task'[u].pipe = task[u].pipe
           /\ task'[u].stream = task[u].stream
           /\ pod'[task[u].pod].pc \notin {"down", "boot"}
           /\ pod[task[u].pod].streams \subseteq pod'[task[u].pod].streams
  PROVE  StreamsInv'
<1>1. \A u \in Tasks : task'[u].pc \in Live => pod'[task'[u].pod].pc \notin {"down", "boot"}
  OBVIOUS
<1>2. \A u \in Tasks : task'[u].pc \in Live /\ task'[u].stream
                         => task'[u].pipe \in pod'[task'[u].pod].streams
  BY DEF StreamsInv
<1>3. OneStreamPerPod'
  BY DEF StreamsInv, OneStreamPerPod, Live
<1> QED
  BY <1>1, <1>2, <1>3 DEF StreamsInv, Live

\* A live task that goes on adds no stream.
LEMMA MoveStreams ==
  ASSUME StreamsInv, NEW t \in Tasks, NEW to, Moves(t, Live, to), UNCHANGED pod
  PROVE  StreamsInv'
<1>1. \A u \in Tasks : task'[u].pc \in Live =>
        /\ task[u].pc \in Live /\ task'[u].pod = task[u].pod /\ task'[u].pipe = task[u].pipe
        /\ task'[u].stream = task[u].stream
  BY DEF Moves
<1>2. \A u \in Tasks : task[u].pc \in Live => pod'[task[u].pod].pc \notin {"down", "boot"}
  BY DEF StreamsInv
<1> QED
  BY <1>1, <1>2, StreamsKept

\* The steps of a dispatcher other than Dispatch.
LEMMA PodStreams ==
  ASSUME StreamsInv, PodsType, TasksInv, NEW c \in Pods,
         \/ Deliver(c) \/ LoadPipeline(c) \/ EventDone(c) \/ CommitOffset(c)
         \/ SubscriptionsError(c) \/ DispatchError(c) \/ Assign(c)
  PROVE  StreamsInv'
<1>1. UNCHANGED task
  BY DEF Deliver, LoadPipeline, EventDone, CommitOffset, SubscriptionsError, DispatchError, Assign
<1>2. pod \in [Pods -> PodStates] /\ pod[c] \in PodStates
  BY DEF PodsType
<1>3. pod'[c].streams = pod[c].streams /\ pod'[c].pc \notin {"down", "boot"}
      /\ \A d \in Pods : d # c => pod'[d] = pod[d]
  <2>1. CASE Deliver(c)
    BY <1>2, <2>1 DEF Deliver, PodStates
  <2>2. CASE LoadPipeline(c)
    <3> DEFINE skip(s) == Exists(s.pipe) => ~pipe[s.pipe].enabled
               step(s) == IF skip(s) THEN "next" ELSE "mode"
    <3>1. PICK s \in pod[c].todo :
            pod' = [pod EXCEPT ![c].pc = step(s), ![c].todo = @ \ {s},
                               ![c].pipe = IF skip(s) THEN Absent ELSE s.pipe]
      BY <2>2 DEF LoadPipeline
    <3>2. step(s) \in {"next", "mode"}
      OBVIOUS
    <3> HIDE DEF step, skip
    <3> QED
      BY <1>2, <3>1, <3>2 DEF PodStates
  <2>3. CASE EventDone(c)
    BY <1>2, <2>3 DEF EventDone, PodStates
  <2>4. CASE CommitOffset(c)
    BY <1>2, <2>4 DEF CommitOffset, PodStates
  <2>5. CASE SubscriptionsError(c)
    BY <1>2, <2>5 DEF SubscriptionsError, PodStates
  <2>6. CASE DispatchError(c)
    BY <1>2, <2>6 DEF DispatchError, PodStates
  <2>7. CASE Assign(c)
    BY <1>2, <2>7 DEF Assign, PodStates
  <2> QED
    BY <2>1, <2>2, <2>3, <2>4, <2>5, <2>6, <2>7
<1>4. \A u \in Tasks : task[u].pc \in Live =>
        task[u].pod \in Pods /\ pod[task[u].pod].pc \notin {"down", "boot"}
  BY DEF StreamsInv, TasksInv, TaskInv, TaskType
<1>5. \A u \in Tasks : task[u].pc \in Live =>
        /\ pod'[task[u].pod].pc \notin {"down", "boot"}
        /\ pod[task[u].pod].streams \subseteq pod'[task[u].pod].streams
  BY <1>3, <1>4
<1> QED
  BY <1>1, <1>5, StreamsKept

\* A pod that dies, boots or starts has no live task.
LEMMA LifeStreams ==
  ASSUME StreamsInv, PodsType, TasksInv, NEW c \in Pods, Crash(c) \/ Boot(c) \/ Started(c)
  PROVE  StreamsInv'
<1>1. pod \in [Pods -> PodStates] /\ task \in [Tasks -> TaskStates]
  BY DEF PodsType, TasksInv
<1>2. \A d \in Pods : d # c => pod'[d] = pod[d]
  BY <1>1 DEF Crash, Boot, Started
<1>3. \A u \in Tasks : task'[u].pc \in Live => task'[u] = task[u] /\ task[u].pod # c
  <2>1. CASE Crash(c)
    <3> SUFFICES ASSUME NEW u \in Tasks, task'[u].pc \in Live
                 PROVE  task'[u] = task[u] /\ task[u].pod # c
      OBVIOUS
    <3>1. task[u].pod = c /\ task[u].pc \notin {"none", "over", "dead"} => task'[u] = Gone(u, "dead")
      BY <2>1 DEF Crash
    <3>2. ~(task[u].pod = c /\ task[u].pc \notin {"none", "over", "dead"}) => task'[u] = task[u]
      BY <2>1 DEF Crash
    <3>3. Gone(u, "dead").pc = "dead"
      BY NoTaskInv DEF Gone, TaskInv, TaskType, TaskStates
    <3> QED
      BY <3>1, <3>2, <3>3 DEF Live
  <2>2. CASE Boot(c) \/ Started(c)
    <3>1. pod[c].pc \in {"down", "boot"} /\ UNCHANGED task
      BY <2>2 DEF Boot, Started
    <3> QED
      BY <3>1 DEF StreamsInv
  <2> QED
    BY <2>1, <2>2
<1>4. \A u \in Tasks : task[u].pc \in Live =>
        task[u].pod \in Pods /\ pod[task[u].pod].pc \notin {"down", "boot"}
  BY DEF StreamsInv, TasksInv, TaskInv, TaskType
<1> QED
  BY <1>2, <1>3, <1>4, StreamsKept

\* A stream is spawned only where running_streams does not have its pipeline.
LEMMA DispatchStreams ==
  ASSUME StreamsInv, PodsType, TasksInv, NEW c \in Pods, Dispatch(c)
  PROVE  StreamsInv'
<1> DEFINE p == pod[c].pipe
           stream == Exists(p) /\ Streaming(pipe[p].nodes)
<1>1. pod \in [Pods -> PodStates] /\ pod[c] \in PodStates /\ task \in [Tasks -> TaskStates]
      /\ p \in Pipes /\ pod[c].pc = "mode"
  BY DEF PodsType, TasksInv, Dispatch, PodType
<1>2. /\ pod'[c].pc = "next" /\ pod[c].streams \subseteq pod'[c].streams
      /\ stream => p \in pod'[c].streams
      /\ \A d \in Pods : d # c => pod'[d] = pod[d]
  BY <1>1 DEF Dispatch, PodStates
<1>3. \A u \in Tasks : task[u].pc \in Live =>
        task[u].pod \in Pods /\ pod[task[u].pod].pc \notin {"down", "boot"}
  BY DEF StreamsInv, TasksInv, TaskInv, TaskType
<1>4. \A u \in Tasks : task[u].pc \in Live =>
        /\ pod'[task[u].pod].pc \notin {"down", "boot"}
        /\ pod[task[u].pod].streams \subseteq pod'[task[u].pod].streams
  BY <1>2, <1>3
<1>5. CASE UNCHANGED task
  BY <1>4, <1>5, StreamsKept
<1>6. CASE ~(stream /\ p \in pod[c].streams) /\ \E t \in Tasks : Spawn(t, c, p, stream)
  <2> HIDE DEF stream, p
  <2>1. PICK t \in Tasks : Spawn(t, c, p, stream)
    BY <1>6
  <2>2. stream \in BOOLEAN
    BY DEF stream
  <2> DEFINE y == [NoTask EXCEPT !.pc = "load", !.pod = c, !.pipe = p, !.stream = stream]
  <2>3. task' = [task EXCEPT ![t] = y]
    BY <2>1 DEF Spawn
  <2>4. y.pc = "load" /\ y.pod = c /\ y.pipe = p /\ y.stream = stream
    <3>1. NoTask \in TaskStates
      BY NoTaskInv DEF TaskInv, TaskType
    <3> QED
      BY <2>2, <3>1 DEF TaskStates
  <2> HIDE DEF y
  <2>5. task'[t] = y /\ \A u \in Tasks : u # t => task'[u] = task[u]
    BY <1>1, <2>3
  <2>6. \A u \in Tasks : task'[u].pc \in Live => pod'[task'[u].pod].pc \notin {"down", "boot"}
    BY <1>2, <1>4, <2>4, <2>5
  <2>7. \A u \in Tasks : task'[u].pc \in Live /\ task'[u].stream
                           => task'[u].pipe \in pod'[task'[u].pod].streams
    <3> SUFFICES ASSUME NEW u \in Tasks, task'[u].pc \in Live, task'[u].stream
                 PROVE  task'[u].pipe \in pod'[task'[u].pod].streams
      OBVIOUS
    <3>1. CASE u = t
      BY <1>2, <2>4, <2>5, <3>1 DEF stream, p
    <3>2. CASE u # t
      BY <1>4, <2>5, <3>2 DEF StreamsInv
    <3> QED
      BY <3>1, <3>2
  <2>8. ASSUME NEW u \in Tasks, u # t, y.stream, task[u].stream, task[u].pc \in Live
        PROVE  c # task[u].pod \/ p # task[u].pipe
    BY <1>6, <2>4, <2>8 DEF StreamsInv
  <2>9. OneStreamPerPod'
    <3> SUFFICES ASSUME NEW u \in Tasks, NEW v \in Tasks, u # v,
                        task'[u].stream, task'[v].stream,
                        task'[u].pc \in Live, task'[v].pc \in Live
                 PROVE  task'[u].pod # task'[v].pod \/ task'[u].pipe # task'[v].pipe
      BY DEF OneStreamPerPod, Live
    <3>1. CASE u # t /\ v # t
      BY <2>5, <3>1 DEF StreamsInv, OneStreamPerPod
    <3>2. CASE u = t
      BY <2>4, <2>5, <2>8, <3>2
    <3>3. CASE v = t
      BY <2>4, <2>5, <2>8, <3>3
    <3> QED
      BY <3>1, <3>2, <3>3
  <2> QED
    BY <2>6, <2>7, <2>9 DEF StreamsInv, Live
<1> QED
  BY <1>5, <1>6 DEF Dispatch

\* Every step keeps the streams of a pod apart.
LEMMA NextStreams ==
  ASSUME StreamsInv, PodsType, TasksInv, [Next]_vars
  PROVE  StreamsInv'
<1>1. CASE UNCHANGED <<task, pod>>
  <2>1. \A u \in Tasks : task[u].pc \in Live => pod'[task[u].pod].pc \notin {"down", "boot"}
    BY <1>1 DEF StreamsInv
  <2> QED
    BY <1>1, <2>1, StreamsKept
<1>2. ASSUME NEW t \in Tasks, LoadNodes(t) PROVE StreamsInv'
  <2>1. Moves(t, {"load"}, {"edges", "over"}) /\ UNCHANGED pod
    BY <1>2, LoadNodesMoves DEF LoadNodes
  <2>2. Moves(t, Live, {"edges", "over"})
    BY <2>1 DEF Moves, Live
  <2> QED
    BY <2>1, <2>2, MoveStreams
<1>3. ASSUME NEW t \in Tasks, StartRun(t) PROVE StreamsInv'
  <2>1. (\E to : Moves(t, {"edges"}, to)) /\ UNCHANGED pod
    BY <1>3, StartRunMoves DEF StartRun
  <2>2. PICK to : Moves(t, {"edges"}, to)
    BY <2>1
  <2>3. Moves(t, Live, to)
    BY <2>2 DEF Moves, Live
  <2> QED
    BY <2>1, <2>3, MoveStreams
<1>4. ASSUME NEW t \in Tasks, ExecStep(t) PROVE StreamsInv'
  <2>1. Moves(t, {"exec", "stream"}, {"exec", "stream", "record"})
    BY <1>4, ExecMoves
  <2>2. UNCHANGED pod
    BY <1>4 DEF ExecStep, NodeOk, NodeErr, NodesDone, StreamBatch, StreamEnd
  <2>3. Moves(t, Live, {"exec", "stream", "record"})
    BY <2>1 DEF Moves, Live
  <2> QED
    BY <2>2, <2>3, MoveStreams
<1>5. ASSUME NEW t \in Tasks, Record(t) \/ TaskError(t) PROVE StreamsInv'
  <2>1. Over(t) /\ UNCHANGED pod /\ task[t].pc \in Live
    BY <1>5 DEF Record, TaskError, Live
  <2>2. Moves(t, Live, {"over"})
    BY <2>1, OverMoves
  <2> QED
    BY <2>1, <2>2, MoveStreams
<1>6. CASE Edits
  BY <1>1, <1>6 DEF Edits, Delete, Save, create_subscription, delete_subscription
<1>7. CASE \E e \in Events, p \in Pipes : emit(e, p)
  BY <1>1, <1>7 DEF emit
<1>8. ASSUME NEW c \in Pods,
             \/ DispatcherStep(c) \/ SubscriptionsError(c) \/ DispatchError(c) \/ Assign(c)
             \/ Crash(c) \/ Boot(c) \/ Started(c)
      PROVE  StreamsInv'
  BY <1>8, PodStreams, LifeStreams, DispatchStreams DEF DispatcherStep
<1>9. CASE Revoke \/ UNCHANGED vars
  BY <1>1, <1>9 DEF Revoke, vars
<1> QED
  BY <1>2, <1>3, <1>4, <1>5, <1>6, <1>7, <1>8, <1>9 DEF Next, TaskStep, ExecStep

\* RunInv, of the task u with local state x and the status r of its run.
RunRow(x, r, u, lost) ==
  /\ x.pc \in {"none", "load", "edges"} => r = "absent"
  /\ r = "succeeded" => x.pc = "over" /\ x.ok
  /\ x.pc = "over" /\ u \notin lost /\ r # "absent" => r = IF x.ok THEN "succeeded" ELSE "failed"

Statuses == {"absent", "running", "succeeded", "failed", "crashed"}

\* The invariant of the run rows, task by task ...
LEMMA RunRows ==
  RunInv <=> run \in [Tasks -> Statuses] /\ \A u \in Tasks : RunRow(task[u], run[u], u, unrecorded)
BY DEF RunInv, RecordedOutcome, RunRow, Statuses

\* ... and put together again.
LEMMA RunJoin ==
  ASSUME run' \in [Tasks -> Statuses], \A u \in Tasks : RunRow(task'[u], run'[u], u, unrecorded')
  PROVE  RunInv'
BY DEF RunInv, RecordedOutcome, RunRow, Statuses

\* Runs are only deleted, or found running and marked crashed.
LEMMA RunKept ==
  ASSUME RunInv, UNCHANGED task, unrecorded \subseteq unrecorded', run' \in [Tasks -> Statuses],
         \A u \in Tasks : \/ run'[u] = run[u] \/ run'[u] = "absent"
                          \/ run[u] = "running" /\ run'[u] = "crashed"
  PROVE  RunInv'
<1>1. \A u \in Tasks : RunRow(task[u], run[u], u, unrecorded)
  BY RunRows
<1>2. \A u \in Tasks : RunRow(task[u], run'[u], u, unrecorded')
  BY <1>1 DEF RunRow
<1> QED
  BY <1>2, RunJoin

\* One task moves; the rows of the others are as they were.
LEMMA RunMoves ==
  ASSUME RunInv, NEW t \in Tasks, \A u \in Tasks : u # t => task'[u] = task[u],
         NEW r \in Statuses, run' = [run EXCEPT ![t] = r], unrecorded \subseteq unrecorded',
         RunRow(task'[t], r, t, unrecorded')
  PROVE  RunInv'
<1>1. run \in [Tasks -> Statuses] /\ \A u \in Tasks : RunRow(task[u], run[u], u, unrecorded)
  BY RunRows
<1>2. run' \in [Tasks -> Statuses] /\ run'[t] = r /\ \A u \in Tasks : u # t => run'[u] = run[u]
  BY <1>1
<1>3. \A u \in Tasks : RunRow(task'[u], run'[u], u, unrecorded')
  BY <1>1, <1>2 DEF RunRow
<1> QED
  BY <1>2, <1>3, RunJoin

\* Every step of a task keeps the run rows true.
LEMMA TaskRuns ==
  ASSUME RunInv, TasksInv, NEW t \in Tasks, AnyTaskStep(t)
  PROVE  RunInv'
<1>1. /\ run \in [Tasks -> Statuses] /\ run[t] \in Statuses /\ RunRow(task[t], run[t], t, unrecorded)
      /\ run = [run EXCEPT ![t] = run[t]]
  BY RunRows
<1>2. CASE LoadNodes(t)
  <2>1. Moves(t, {"load"}, {"edges", "over"}) /\ UNCHANGED <<run, unrecorded>>
    BY <1>2, LoadNodesMoves DEF LoadNodes
  <2>2. run[t] = "absent"
    BY <1>1, <2>1 DEF Moves, RunRow
  <2>3. RunRow(task'[t], run[t], t, unrecorded')
    BY <2>2 DEF RunRow
  <2> QED
    BY <1>1, <2>1, <2>3, RunMoves DEF Moves
<1>3. CASE TaskError(t)
  <2>1. Over(t) /\ task[t].pc \in {"load", "edges"}
    BY <1>3 DEF TaskError
  <2>2. Moves(t, {"load", "edges"}, {"over"})
    BY <2>1, OverMoves
  <2>3. run[t] = "absent"
    BY <1>1, <2>1 DEF RunRow
  <2>4. CASE UNCHANGED <<run, unrecorded>>
    <3>1. RunRow(task'[t], run[t], t, unrecorded')
      BY <2>3 DEF RunRow
    <3> QED
      BY <1>1, <2>2, <2>4, <3>1, RunMoves DEF Moves
  <2>5. CASE run' = [run EXCEPT ![t] = "running"] /\ unrecorded' = unrecorded \cup {t}
    <3>1. RunRow(task'[t], "running", t, unrecorded')
      BY <2>2, <2>5 DEF RunRow, Moves
    <3>2. "running" \in Statuses
      BY DEF Statuses
    <3> QED
      BY <2>2, <2>5, <3>1, <3>2, RunMoves DEF Moves
  <2> QED
    BY <1>3, <2>4, <2>5 DEF TaskError
<1>4. CASE StartRun(t)
  <2>1. UNCHANGED unrecorded /\ task[t].pc = "edges"
    BY <1>4 DEF StartRun
  <2>2. run[t] = "absent"
    BY <1>1, <2>1 DEF RunRow
  <2>3. CASE Moves(t, {"edges"}, {"over"}) /\ UNCHANGED run
    <3>1. RunRow(task'[t], run[t], t, unrecorded')
      BY <2>2 DEF RunRow
    <3> QED
      BY <1>1, <2>1, <2>3, <3>1, RunMoves DEF Moves
  <2>4. CASE Moves(t, {"edges"}, {"exec", "stream"}) /\ run' = [run EXCEPT ![t] = "running"]
    <3>1. RunRow(task'[t], "running", t, unrecorded')
      BY <2>4 DEF RunRow, Moves
    <3>2. "running" \in Statuses
      BY DEF Statuses
    <3> QED
      BY <2>1, <2>4, <3>1, <3>2, RunMoves DEF Moves
  <2> QED
    BY <1>4, <2>3, <2>4, StartRunMoves
<1>5. CASE ExecStep(t)
  <2>1. Moves(t, {"exec", "stream"}, {"exec", "stream", "record"})
    BY <1>5, ExecMoves
  <2>2. UNCHANGED <<run, unrecorded>>
    BY <1>5 DEF ExecStep, NodeOk, NodeErr, NodesDone, StreamBatch, StreamEnd
  <2>3. RunRow(task'[t], run[t], t, unrecorded')
    BY <1>1, <2>1 DEF RunRow, Moves
  <2> QED
    BY <1>1, <2>1, <2>2, <2>3, RunMoves DEF Moves
<1>6. CASE Record(t)
  <2>1. Over(t) /\ task[t].pc = "record" /\ task[t].pc \in {"record"}
    BY <1>6 DEF Record
  <2>2. Moves(t, {"record"}, {"over"}) /\ task'[t].ok = task[t].ok
    BY <2>1, OverMoves
  <2> DEFINE r == IF run[t] = "absent" THEN "absent" ELSE IF task[t].ok THEN "succeeded" ELSE "failed"
  <2>3. r \in Statuses /\ RunRow(task'[t], r, t, unrecorded')
    BY <2>2 DEF RunRow, Moves, Statuses
  <2>4. CASE run' = [run EXCEPT ![t] = r] /\ UNCHANGED unrecorded
    <3> HIDE DEF r
    <3> QED
      BY <2>2, <2>3, <2>4, RunMoves DEF Moves
  <2>5. CASE UNCHANGED run /\ unrecorded' = unrecorded \cup {t}
    <3>1. RunRow(task'[t], run[t], t, unrecorded')
      BY <1>1, <2>1, <2>2, <2>5 DEF RunRow, Moves
    <3> QED
      BY <1>1, <2>2, <2>5, <3>1, RunMoves DEF Moves
  <2>6. run[t] = "absent" => [run EXCEPT ![t] = r] = run
    BY <1>1
  <2> QED
    BY <1>6, <2>4, <2>5, <2>6 DEF Record
<1> QED
  BY <1>2, <1>3, <1>4, <1>5, <1>6 DEF AnyTaskStep, TaskStep, ExecStep

\* Every step keeps runs and tasks in agreement.
LEMMA NextRuns ==
  ASSUME RunInv, TasksInv, [Next]_vars
  PROVE  RunInv'
<1>1. run \in [Tasks -> Statuses] /\ \A u \in Tasks : RunRow(task[u], run[u], u, unrecorded)
  BY RunRows
<1>2. CASE UNCHANGED <<run, task, unrecorded>>
  BY <1>1, <1>2, RunKept
<1>3. CASE Edits
  <2>1. ASSUME NEW p \in Pipes, Delete(p) PROVE RunInv'
    <3>1. run' = [t \in Tasks |-> IF task[t].pipe = p THEN "absent" ELSE run[t]]
          /\ UNCHANGED <<task, unrecorded>>
      BY <2>1 DEF Delete
    <3>2. run' \in [Tasks -> Statuses]
      BY <1>1, <3>1 DEF Statuses
    <3> QED
      BY <3>1, <3>2, RunKept
  <2> QED
    BY <1>2, <1>3, <2>1 DEF Edits, Save, create_subscription, delete_subscription
<1>4. CASE \E e \in Events, p \in Pipes : emit(e, p)
  BY <1>2, <1>4 DEF emit
<1>5. ASSUME NEW c \in Pods, Dispatch(c) PROVE RunInv'
  <2>1. UNCHANGED <<run, unrecorded>>
    BY <1>5 DEF Dispatch
  <2>2. CASE \E t \in Tasks : Spawn(t, c, pod[c].pipe, Exists(pod[c].pipe) /\ Streaming(pipe[pod[c].pipe].nodes))
    <3> DEFINE p == pod[c].pipe
               stream == Exists(p) /\ Streaming(pipe[p].nodes)
    <3>1. PICK t \in Tasks : Spawn(t, c, p, stream)
      BY <2>2
    <3> HIDE DEF p, stream
    <3> DEFINE y == [NoTask EXCEPT !.pc = "load", !.pod = c, !.pipe = p, !.stream = stream]
    <3>2. task[t].pc = "none" /\ task' = [task EXCEPT ![t] = y] /\ task \in [Tasks -> TaskStates]
      BY <3>1 DEF Spawn, TasksInv
    <3>3. y.pc = "load"
      BY NoTaskInv DEF TaskInv, TaskType, TaskStates
    <3> HIDE DEF y
    <3>4. task'[t] = y /\ \A u \in Tasks : u # t => task'[u] = task[u]
      BY <3>2
    <3>5. run[t] = "absent"
      BY <1>1, <3>2 DEF RunRow
    <3>6. RunRow(task'[t], run[t], t, unrecorded')
      BY <3>3, <3>4, <3>5 DEF RunRow
    <3>7. run' = [run EXCEPT ![t] = run[t]] /\ run[t] \in Statuses
      BY <1>1, <2>1
    <3> QED
      BY <2>1, <3>4, <3>6, <3>7, RunMoves
  <2> QED
    BY <1>2, <1>5, <2>1, <2>2 DEF Dispatch
<1>6. ASSUME NEW c \in Pods, Crash(c) PROVE RunInv'
  <2>1. UNCHANGED <<run, unrecorded>>
    BY <1>6 DEF Crash
  <2>2. ASSUME NEW u \in Tasks PROVE RunRow(task'[u], run[u], u, unrecorded)
    <3>1. RunRow(task[u], run[u], u, unrecorded)
      BY <1>1
    <3>2. CASE task[u].pod = c /\ task[u].pc \notin {"none", "over", "dead"}
      <4>1. task'[u] = Gone(u, "dead")
        BY <1>6, <3>2 DEF Crash
      <4>2. Gone(u, "dead").pc = "dead"
        BY NoTaskInv DEF Gone, TaskInv, TaskType, TaskStates
      <4> QED
        BY <3>1, <3>2, <4>1, <4>2 DEF RunRow
    <3>3. CASE ~(task[u].pod = c /\ task[u].pc \notin {"none", "over", "dead"})
      BY <1>6, <3>1, <3>3 DEF Crash
    <3> QED
      BY <3>2, <3>3
  <2> QED
    BY <1>1, <2>1, <2>2, RunJoin
<1>7. ASSUME NEW c \in Pods, Started(c) PROVE RunInv'
  <2>1. UNCHANGED task /\ unrecorded \subseteq unrecorded'
    BY <1>7 DEF Started
  <2>2. CASE UNCHANGED run
    BY <1>1, <2>1, <2>2, RunKept
  <2>3. CASE run' = cleanup_stale_runs(c)
    <3>1. run' \in [Tasks -> Statuses]
      BY <1>1, <2>3 DEF cleanup_stale_runs, Statuses
    <3>2. \A u \in Tasks : run'[u] = run[u] \/ (run[u] = "running" /\ run'[u] = "crashed")
      BY <2>3 DEF cleanup_stale_runs
    <3> QED
      BY <2>1, <3>1, <3>2, RunKept
  <2> QED
    BY <1>7, <2>2, <2>3 DEF Started
<1>8. ASSUME NEW c \in Pods,
             \/ Deliver(c) \/ LoadPipeline(c) \/ EventDone(c) \/ CommitOffset(c)
             \/ SubscriptionsError(c) \/ DispatchError(c) \/ Assign(c) \/ Boot(c)
      PROVE  RunInv'
  BY <1>2, <1>8 DEF Deliver, LoadPipeline, EventDone, CommitOffset, SubscriptionsError,
                    DispatchError, Assign, Boot
<1>9. ASSUME NEW t \in Tasks, AnyTaskStep(t) PROVE RunInv'
  BY <1>9, TaskRuns
<1>10. CASE Revoke \/ UNCHANGED vars
  BY <1>2, <1>10 DEF Revoke, vars
<1> QED
  BY <1>3, <1>4, <1>5, <1>6, <1>7, <1>8, <1>9, <1>10 DEF Next, DispatcherStep, AnyTaskStep

-----------------------------------------------------------------------------
(* The theorems. *)

PipelinesInv == DispatcherInv /\ TasksInv /\ StreamsInv /\ RunInv

\* The invariant holds initially.
LEMMA InitPipelines == Init => PipelinesInv
<1> SUFFICES ASSUME Init PROVE PipelinesInv
  OBVIOUS
<1>1. task = [t \in Tasks |-> NoTask] /\ run = [t \in Tasks |-> "absent"] /\ unrecorded = {}
  BY DEF Init
<1>2. NoTask.pc = "none" /\ NoTask \in TaskStates
  BY NoTaskInv DEF NoTask, TaskInv, TaskType
<1>3. TasksInv
  BY <1>1, <1>2, NoTaskInv DEF TasksInv
<1>4. \A t \in Tasks : task[t].pc = "none"
  BY <1>1, <1>2
<1>5. StreamsInv
  BY <1>4 DEF StreamsInv, OneStreamPerPod, Live
<1>6. RunInv
  BY <1>1, <1>4 DEF RunInv, RecordedOutcome
<1> QED
  BY <1>3, <1>5, <1>6, InitDispatcher DEF PipelinesInv

\* The inductive invariant: what the dispatcher has handled and committed, what a
\* task may still run, which streams a pod has, and what the row of a run may
\* say.
THEOREM PipelinesInvariant == Spec => []PipelinesInv
<1>1. PipelinesInv /\ [Next]_vars => PipelinesInv'
  <2> SUFFICES ASSUME PipelinesInv, [Next]_vars PROVE PipelinesInv'
    OBVIOUS
  <2>1. DispatcherInv /\ TasksInv /\ StreamsInv /\ RunInv /\ PodsType
    BY DEF PipelinesInv, DispatcherInv
  <2> QED
    BY <2>1, NextDispatcher, NextTasks, NextStreams, NextRuns DEF PipelinesInv
<1> QED
  BY <1>1, InitPipelines, PTL DEF Spec

\* Every variable keeps to its domain, and the local state of a pod or a task to
\* the step it is at.
THEOREM PipelinesTypeCorrect == Spec => []TypeOK
<1>1. PipelinesInv => TypeOK
  <2> SUFFICES ASSUME PipelinesInv PROVE TypeOK
    OBVIOUS
  <2>1. DispatcherInv /\ TasksInv /\ RunInv
    BY DEF PipelinesInv
  <2>2. /\ pipe \in [Pipes -> Payloads \cup {Absent, Deleted}] /\ subs \subseteq Subs
        /\ edits \in 0..MaxEdits
        /\ event \in [Events -> [st : {"absent", "dispatched", "completed", "failed"},
                                pipe : Pipes \cup {Absent}]]
    BY <2>1 DEF DispatcherInv, RowType, PipeType, EventRows
  <2>3. /\ log \in Seq(Events) /\ committed \in 0..Len(log) /\ owner \in Pods \cup {NoPod}
        /\ handled \subseteq 1..Len(log) /\ unrecorded \subseteq Tasks /\ faults \in 0..MaxFaults
    BY <2>1 DEF DispatcherInv, LogType, CountType
  <2>4. /\ pod \in [Pods -> PodStates]
        /\ \A c \in Pods :
             /\ pod[c].pos \in 0..Len(log)
             /\ pod[c].cur \in IF pod[c].pc \in {"next", "mode", "commit"} THEN 1..Len(log) ELSE {0}
             /\ pod[c].pipe \in IF pod[c].pc = "mode" THEN Pipes ELSE {Absent}
    BY <2>1 DEF DispatcherInv, PodsType, PodType, InHand
  <2>5. /\ task \in [Tasks -> TaskStates]
        /\ \A t \in Tasks :
             /\ task[t].pc \in Live => task[t].pod \in Pods
             /\ task[t].pc # "none" => task[t].pipe \in Pipes
             /\ task[t].pc = "stream" => task[t].stream /\ task[t].srcs # << >>
             /\ task[t].done \cup task[t].written \subseteq DOMAIN task[t].graph.nodes
             /\ Range(task[t].rest) \cap task[t].done = {}
    BY <2>1 DEF TasksInv, TaskInv, TaskType
  <2>6. run \in [Tasks -> {"absent", "running", "succeeded", "failed", "crashed"}]
    BY <2>1 DEF RunInv
  <2> QED
    BY <2>2, <2>3, <2>4, <2>5, <2>6 DEF TypeOK
<1> QED
  BY <1>1, PipelinesInvariant, PTL

\* A node runs only when every node that feeds it has run, and no sink is written
\* before every transform has succeeded, whatever mixture of two versions of the
\* graph the task has loaded (PipelineExecutor::run, run_streaming).
THEOREM NodesRunInOrder == Spec => []RunOrderSound
<1>1. PipelinesInv => RunOrderSound
  BY DEF PipelinesInv, TasksInv, TaskInv, OrderSound, RunOrderSound
<1> QED
  BY <1>1, PipelinesInvariant, PTL

\* A run that says "succeeded" has written every sink of the graph it loaded
\* (complete_run).
THEOREM SucceededWroteAll == Spec => []SucceededWroteAllSinks
<1>1. PipelinesInv => SucceededWroteAllSinks
  BY DEF PipelinesInv, RunInv, TasksInv, TaskInv, SucceededWroteAllSinks
<1> QED
  BY <1>1, PipelinesInvariant, PTL

\* The run of a task that is over says how the task ended, although starting pods
\* mark the runs of living ones crashed (cleanup_stale_runs, complete_run).
THEOREM OutcomeIsRecorded == Spec => []RecordedOutcome
<1>1. PipelinesInv => RecordedOutcome
  BY DEF PipelinesInv, RunInv
<1> QED
  BY <1>1, PipelinesInvariant, PTL

\* A pod never runs two streams of one pipeline at a time (running_streams).
THEOREM OneStream == Spec => []OneStreamPerPod
<1>1. PipelinesInv => OneStreamPerPod
  BY DEF PipelinesInv, StreamsInv
<1> QED
  BY <1>1, PipelinesInvariant, PTL

=============================================================================
