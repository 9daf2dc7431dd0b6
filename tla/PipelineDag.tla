---------------------------- MODULE PipelineDag ----------------------------
(***************************************************************************)
(* The graph of a pipeline and topological_sort, which the API calls       *)
(* before it stores a graph and the executor before it runs one.           *)
(*                                                                         *)
(* "nodes" is a function from node ids to the kind of the node; "cdc" is a *)
(* source with the CdcStream strategy.  "edges" is a set of pairs.  Rows   *)
(* come without ORDER BY and hash maps have no order: q is the order in    *)
(* which the nodes, es the order in which the edges are met.               *)
(***************************************************************************)
EXTENDS Naturals, Sequences, FiniteSets, SequencesExt

Kinds == {"source", "cdc", "transform", "sink"}

OfKind(nodes, ks) == {n \in DOMAIN nodes : nodes[n] \in ks}
Sources(nodes) == OfKind(nodes, {"source", "cdc"})
Transforms(nodes) == OfKind(nodes, {"transform"})
Sinks(nodes) == OfKind(nodes, {"sink"})

Upstream(edges, n) == {e[1] : e \in {f \in edges : f[2] = n}}
Downstream(edges, n) == {e[2] : e \in {f \in edges : f[1] = n}}

\* Pipeline::mode
Streaming(nodes) == OfKind(nodes, {"cdc"}) # {}

\* A graph as it comes from the API or the tables: finitely many nodes, each of
\* one kind, and edges between two ids.
IsGraph(nodes, edges) ==
  /\ IsFiniteSet(DOMAIN nodes) /\ nodes \in [DOMAIN nodes -> Kinds]
  /\ \A e \in edges : e = <<e[1], e[2]>>

\* The checks before the sort.
WellFormed(nodes, edges) ==
  /\ \A e \in edges : e[1] \in DOMAIN nodes /\ e[2] \in DOMAIN nodes
  /\ Sources(nodes) # {} /\ Sinks(nodes) # {}
  /\ ~(Streaming(nodes) /\ OfKind(nodes, {"source"}) # {})
  /\ \A n \in Sources(nodes) : Upstream(edges, n) = {}
  /\ \A n \in Transforms(nodes) : Upstream(edges, n) # {} /\ Downstream(edges, n) # {}
  /\ \A n \in Sinks(nodes) : Upstream(edges, n) # {} /\ Downstream(edges, n) = {}

\* The elements of a sequence that are in S, in their order.
Select(s, S) ==
  LET taken[i \in 0..Len(s)] ==
        IF i = 0 THEN << >>
        ELSE IF s[i] \in S THEN Append(taken[i - 1], s[i]) ELSE taken[i - 1]
  IN  taken[Len(s)]

\* Kahn's algorithm: the queue, the remaining in-degrees, the nodes sorted so
\* far; a round takes the head of the queue and frees what only it still held.
KahnStart(edges, q) ==
  LET degree == [n \in Range(q) |-> Cardinality(Upstream(edges, n))]
  IN  [queue |-> Select(q, {n \in Range(q) : degree[n] = 0}), deg |-> degree, sorted |-> << >>]

KahnRound(edges, es, s) ==
  IF s.queue = << >> THEN s
  ELSE LET h == Head(s.queue)
           freed == Select(es, {e \in edges : e[1] = h /\ s.deg[e[2]] = 1})
       IN  [queue |-> Tail(s.queue) \o [k \in 1..Len(freed) |-> freed[k][2]],
            deg |-> [n \in DOMAIN s.deg |-> IF <<h, n>> \in edges THEN s.deg[n] - 1 ELSE s.deg[n]],
            sorted |-> Append(s.sorted, h)]

Kahn(edges, q, es) ==
  LET round[i \in 0..Len(q)] ==
        IF i = 0 THEN KahnStart(edges, q) ELSE KahnRound(edges, es, round[i - 1])
  IN  round[Len(q)].sorted

\* The stable sort at the end: sources, transforms, sinks.
SourcesFirst(nodes, order) ==
  Select(order, Sources(nodes)) \o Select(order, Transforms(nodes)) \o Select(order, Sinks(nodes))

\* The orders topological_sort may return; none is an error.
topological_sort(nodes, edges) ==
  IF ~WellFormed(nodes, edges) THEN {}
  ELSE {SourcesFirst(nodes, o) :
          o \in {p \in {Kahn(edges, q, es) : q \in SetToSeqs(DOMAIN nodes),
                                            es \in SetToSeqs(edges)} :
                   Len(p) = Cardinality(DOMAIN nodes)}}

-----------------------------------------------------------------------------
(* What the sort is for, without reference to how it works. *)

\* The nodes reached from n in one or more steps.
Reach(edges, n) ==
  LET ids == {e[1] : e \in edges} \cup {e[2] : e \in edges}
      hop[i \in 0..Cardinality(ids)] ==
        IF i = 0 THEN Downstream(edges, n)
        ELSE hop[i - 1] \cup UNION {Downstream(edges, m) : m \in hop[i - 1]}
  IN  hop[Cardinality(ids)]

\* Data can flow: nothing feeds itself, every transform and sink is fed by a
\* source, every transform feeds a sink, and nothing flows into a source, out
\* of a sink or between a batch and a streaming half.
CanFlow(nodes, edges) ==
  /\ Sources(nodes) # {} /\ Sinks(nodes) # {}
  /\ OfKind(nodes, {"cdc"}) = {} \/ OfKind(nodes, {"source"}) = {}
  /\ \A e \in edges : /\ e[1] \in Sources(nodes) \cup Transforms(nodes)
                      /\ e[2] \in Transforms(nodes) \cup Sinks(nodes)
                      /\ e[1] \notin Reach(edges, e[1])
  /\ \A n \in Transforms(nodes) \cup Sinks(nodes) :
       \E m \in Sources(nodes) : n \in Reach(edges, m)
  /\ \A n \in Transforms(nodes) : Reach(edges, n) \cap Sinks(nodes) # {}

\* A permutation in which every edge points forward and no sink comes before a
\* transform.
GoodOrder(nodes, edges, order) ==
  /\ Len(order) = Cardinality(DOMAIN nodes) /\ Range(order) = DOMAIN nodes
  /\ \A i, j \in 1..Len(order) :
       /\ <<order[i], order[j]>> \in edges => i < j
       /\ nodes[order[i]] = "transform" /\ nodes[order[j]] = "sink" => i < j

=============================================================================
