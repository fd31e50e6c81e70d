---------------------------- MODULE PipelineGraph ----------------------------
(* A saved pipeline (spikeforge_serve/pipeline.py): its nodes are checkpoints, *)
(* its edges pass one checkpoint's result to another.  topological_order()     *)
(* validates the document and sorts it with Kahn's algorithm, and run_pipeline *)
(* runs the nodes in that order, each on the results of the nodes before it.   *)
(* Node ids are numbers here: all the code does with them is to compare them.  *)
EXTENDS Integers, FiniteSets, Sequences

CONSTANTS
    Names,       \* the ids that a document may mention
    MaxNodes,    \* the length of its list of nodes
    MaxEdges     \* the length of its list of edges

ASSUME GraphAssumption ==
    Names \subseteq Nat /\ MaxNodes \in Nat /\ MaxEdges \in Nat

PipeEdge == [source : Names, target : Names]
Lists(S, n) == UNION {[1..k -> S] : k \in 0..n}

VARIABLES
    nodes, edges,    \* the document
    phase,
    degree,          \* in_degree: per node, its edges that are not released
    ready,           \* the ids without one, which the code keeps sorted
    remaining,       \* remaining_edges, as positions in the list of edges
    ordered          \* the nodes taken so far

graphVars == <<nodes, edges, phase, degree, ready, remaining, ordered>>

NodeIds == {nodes[k] : k \in DOMAIN nodes}
Into(n, E) == {k \in E : edges[k].target = n}

GraphInit ==
    /\ nodes \in Lists(Names, MaxNodes)
    /\ edges \in Lists(PipeEdge, MaxEdges)
    /\ phase = "validate"
    /\ degree = <<>> /\ ready = {} /\ remaining = {} /\ ordered = <<>>

\* validate(): ids are unique, and edges name nodes of the document.
Valid ==
    /\ \A j, k \in DOMAIN nodes : nodes[j] = nodes[k] => j = k
    /\ \A k \in DOMAIN edges : edges[k].source \in NodeIds /\ edges[k].target \in NodeIds

\* Mutant: edges from the same source count once.
InDegreesBySource ==
    [n \in NodeIds |-> Cardinality({edges[k].source : k \in Into(n, DOMAIN edges)})]

\* _in_degrees() and the first ready list.
InDegrees == [n \in NodeIds |-> Cardinality(Into(n, DOMAIN edges))]

Validate ==
    /\ phase = "validate" /\ Valid
    /\ phase' = "sort"
    /\ degree' = InDegrees
    /\ ready' = {n \in NodeIds : InDegrees[n] = 0}
    /\ remaining' = DOMAIN edges
    /\ UNCHANGED <<nodes, edges, ordered>>

Refuse ==
    /\ phase = "validate" /\ ~Valid
    /\ phase' = "refused"
    /\ UNCHANGED <<nodes, edges, degree, ready, remaining, ordered>>

\* The edges out of n that are left, and what releasing them makes of the
\* degrees (_release_targets).
Outgoing(n) == {k \in remaining : edges[k].source = n}
Released(n) ==
    [m \in NodeIds |-> degree[m] - Cardinality(Into(m, Outgoing(n)))]

\* Mutant: a released target is ready whatever it still waits for.
TakeEagerly(n) ==
    /\ phase = "sort" /\ n \in ready /\ \A m \in ready : n <= m
    /\ ordered' = Append(ordered, n)
    /\ remaining' = remaining \ Outgoing(n)
    /\ degree' = Released(n)
    /\ ready' = (ready \ {n}) \cup {m \in NodeIds : Into(m, Outgoing(n)) # {}}
    /\ UNCHANGED <<nodes, edges, phase>>

\* One turn of the loop: the smallest id is taken.
Take(n) ==
    /\ phase = "sort" /\ n \in ready /\ \A m \in ready : n <= m
    /\ ordered' = Append(ordered, n)
    /\ remaining' = remaining \ Outgoing(n)
    /\ degree' = Released(n)
    /\ ready' = (ready \ {n}) \cup
                {m \in NodeIds : Into(m, Outgoing(n)) # {} /\ Released(n)[m] = 0}
    /\ UNCHANGED <<nodes, edges, phase>>

\* Nothing is ready: the order is complete, or the rest is a cycle.
Sorted ==
    /\ phase = "sort" /\ ready = {}
    /\ phase' = IF Len(ordered) = Len(nodes) THEN "run" ELSE "cyclic"
    /\ UNCHANGED <<nodes, edges, degree, ready, remaining, ordered>>

GraphNext == Validate \/ Refuse \/ (\E n \in Names : Take(n)) \/ Sorted

GraphSpec == GraphInit /\ [][GraphNext]_graphVars

-----------------------------------------------------------------------------
GraphTypeOK ==
    /\ nodes \in Seq(Names) /\ edges \in Seq(PipeEdge)
    /\ phase \in {"validate", "sort", "run", "cyclic", "refused"}
    /\ phase \in {"sort", "run", "cyclic"} => degree \in [NodeIds -> Nat]
    /\ ready \subseteq NodeIds /\ remaining \subseteq DOMAIN edges
    /\ ordered \in Seq(NodeIds)

\* Every node that is taken comes after the sources of all its edges, so that
\* run_pipeline finds in results what _node_input reads, and no node runs twice.
OrderIsTopological ==
    /\ \A i, j \in DOMAIN ordered : ordered[i] = ordered[j] => i = j
    /\ \A k \in DOMAIN edges, j \in DOMAIN ordered :
         edges[k].target = ordered[j] =>
             \E i \in 1..(j - 1) : ordered[i] = edges[k].source

\* A set of nodes in which each has a predecessor: a finite graph has one where
\* it has a cycle.
Circular(S) ==
    S # {} /\ \A n \in S : \E k \in DOMAIN edges :
                  edges[k].target = n /\ edges[k].source \in S

\* A document is refused as cyclic only where it has a cycle, and one that runs
\* leaves no node out, parallel edges and self-loops included.
CycleIsReal ==
    /\ phase = "cyclic" => \E S \in SUBSET NodeIds : Circular(S)
    /\ phase = "run" => \A n \in NodeIds : \E i \in DOMAIN ordered : ordered[i] = n
=============================================================================
