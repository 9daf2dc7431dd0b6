---------------------------- MODULE MCPipelines ----------------------------
(* An instance of Pipelines for TLC, and topological_sort on all small graphs. *)
EXTENDS Pipelines, FiniteSetsExt

CONSTANTS p1, c1, c2

\* A batch graph with a sink on either side of the transform, a stream, and a
\* graph with a cycle.
Batch == [enabled |-> TRUE, nodes |-> <<"source", "transform", "sink", "sink">>,
          edges |-> {<<1, 2>>, <<2, 3>>, <<1, 4>>}]
Stream == [enabled |-> TRUE, nodes |-> <<"cdc", "transform", "sink">>,
           edges |-> {<<1, 2>>, <<2, 3>>}]
Cyclic == [enabled |-> TRUE, nodes |-> <<"source", "transform", "transform", "sink">>,
           edges |-> {<<1, 2>>, <<2, 3>>, <<3, 2>>, <<3, 4>>}]
Graphs == {Batch, Stream, Cyclic}

\* All graphs of up to three nodes, with edges that may lead nowhere, and those
\* of four nodes with up to four edges that leave room for a cycle or for two
\* ways to a sink.
SmallGraphs ==
       UNION {[1..n -> Kinds] \X SUBSET ((1..n) \X (1..n)) : n \in 1..3}
  \cup [1..2 -> Kinds] \X SUBSET ({1} \X {2, 3})
  \cup {<<"source", "transform", "transform", "sink">>, <<"cdc", "transform", "sink", "sink">>}
       \X UNION {kSubset(k, (1..4) \X (1..4)) : k \in 3..4}

\* topological_sort accepts exactly the graphs through which data can flow, and
\* returns only good orders of them, in whatever order rows and hash maps are
\* enumerated (dag.rs).
ASSUME TopologicalSortExact ==
  \A g \in SmallGraphs :
    LET orders == topological_sort(g[1], g[2])
    IN  /\ orders # {} <=> CanFlow(g[1], g[2])
        /\ \A o \in orders : GoodOrder(g[1], g[2], o)

OneSub == {[pipe |-> p1, filter |-> p1]}

=============================================================================
