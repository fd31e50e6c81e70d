------------------------------- MODULE NirPlan -------------------------------
(* A topology, the NIR graph that renders it and the graph rewritten for a     *)
(* target, run side by side: the stages stepped by                             *)
(* spikeforge/topology/stage_module.py, the plan of nir_bridge/planner.py and  *)
(* its rewriting by spikeforge_targets/rewrite.py, both stepped by the         *)
(* reference interpreter of nir_bridge/interpreter.py.                         *)
(*                                                                             *)
(* A merge stage ("add") emits no node: its sources are wired to its           *)
(* consumers, and a delayed edge becomes a Delay node.  A stage that computes  *)
(* is one node here and passes on the sum of its inputs, so that a value is    *)
(* the number of ways by which the impulse of step 0 arrives at a step.  A     *)
(* target without average pooling gets a SumPool2d of area 2 and a Scale.      *)
EXTENDS Naturals, Sequences, FiniteSets

CONSTANTS
    Stages,      \* the stages
    Entry,       \* spec.input
    Pools,       \* the stages of kind avgpool2d, where they are not merges
    MaxLinks,    \* edges of a topology
    Steps        \* steps of a run

NirEdge(N) == [source : N, target : N, delayed : BOOLEAN]
Input == "input"       \* the NIR nodes that stand for no stage
Output == "output"
Scale(n) == n \o "__scale"   \* the name of the Scale of a pool

\* Stages are named apart from the nodes that stand for no stage
\* (planner.py:25, "Reserved node names").
ASSUME NirAssumption ==
    /\ IsFiniteSet(Stages) /\ Entry \in Stages /\ Pools \subseteq Stages
    /\ MaxLinks \in Nat /\ Steps \in Nat
    /\ Input \notin Stages /\ Output \notin Stages
    /\ \A n \in Pools : Scale(n) \notin Stages \cup {Input, Output}
    /\ \A m, n \in Pools : Scale(m) = Scale(n) => m = n

VARIABLES
    spec,       \* the topology: edges, merge stages and the output stage
    planned,    \* how far it is
    step,
    stages,     \* what each stage gave at this step (StageModule.step)
    reference,  \* the plan and its run: what each node gave, and what each
    target      \* Delay holds for the next step; the rewritten graph and its run

nirVars == <<spec, planned, step, stages, reference, target>>

Inbound(E, n) == {e \in E : e.target = n}
Now(E) == {e \in E : ~e.delayed}

\* The sum of a function's values, which are naturals.
Total(f) == Cardinality(UNION {{x} \X (1..f[x]) : x \in DOMAIN f})

\* No edges lead round in N: in no part of it has every node a predecessor.
\* Kahn's algorithm, wherever the code drains a graph, leaves no node then.
Acyclic(N, E) ==
    \A S \in (SUBSET N) \ {{}} : \E n \in S : \A e \in Inbound(E, n) : e.source \notin S

(* the topology --------------------------------------------------------------*)
\* TopologySpec.validate(): no cycle of forward edges, and every stage can be
\* reached from the input by them.
ValidTopology ==
    /\ Acyclic(Stages, Now(spec.edges))
    /\ \A S \in SUBSET Stages :
         /\ Entry \in S
         /\ \A e \in Now(spec.edges) : e.source \in S => e.target \in S
         => S = Stages

(* the plan ------------------------------------------------------------------*)
\* The stages whose output _outputs() resolves: the topology's output, what
\* feeds a stage that has a node, and what feeds a merge stage that is resolved.
Resolved ==
    {n \in Stages : \A S \in SUBSET Stages :
       (/\ spec.output \in S
        /\ \A e \in spec.edges : e.target \in S \/ e.target \notin spec.merges
                                    => e.source \in S)
       => n \in S}

\* A delayed cycle that passes through merge stages alone has no node to delay:
\* _merge_outputs() meets a stage that is active.
Raises == ~Acyclic(Resolved \cap spec.merges, spec.edges)

\* What an edge makes of the (node, delayed) pairs that carry its source's output.
Through(e, pairs) == {<<o[1], o[2] \/ e.delayed>> : o \in pairs}

\* _outputs(): the nodes that carry a stage's output, and whether it is delayed
\* on the way.  Pairs that are equal are one (dict.fromkeys).
Outputs ==
    LET out[n \in Resolved] ==
            IF n \notin spec.merges THEN {<<n, FALSE>>}
            ELSE (IF n = Entry THEN {<<Input, FALSE>>} ELSE {}) \cup
                 UNION {Through(e, out[e.source]) : e \in Inbound(spec.edges, n)}
    IN out

Arrivals(e) == Through(e, Outputs[e.source])

\* The edges from the carriers of an output to a node.
Links(pairs, n) ==
    {[source |-> o[1], target |-> n, delayed |-> o[2]] : o \in pairs}

NodeEdges == {e \in spec.edges : e.target \notin spec.merges}

InputLink ==
    IF Entry \in spec.merges THEN {} ELSE Links({<<Input, FALSE>>}, Entry)

\* Two mutants: a delay on the way through merge stages is forgotten, on an edge
\* to a stage or on the one to the output.
PlanForgetsDelay ==
    InputLink \cup
    (UNION {{[source |-> o[1], target |-> e.target, delayed |-> e.delayed] :
             o \in Outputs[e.source]} : e \in NodeEdges}) \cup
    Links(Outputs[spec.output], Output)
PlanForgetsOutputDelay ==
    InputLink \cup
    (UNION {Links(Arrivals(e), e.target) : e \in NodeEdges}) \cup
    Links({<<o[1], FALSE>> : o \in Outputs[spec.output]}, Output)

\* _collect_edges(); a delayed edge stands for its Delay node (_insert_delays).
Plan ==
    InputLink \cup
    (UNION {Links(Arrivals(e), e.target) : e \in NodeEdges}) \cup
    Links(Outputs[spec.output], Output)

NirNodes == (Stages \ spec.merges) \cup {Input, Output}

(* the rewriting -------------------------------------------------------------*)
Pooled == Pools \ spec.merges

\* _rewrite_one(): a pool keeps its name as a SumPool2d, with a Scale after it.
RewrittenNodes == NirNodes \cup {Scale(n) : n \in Pooled}

\* Mutant: edges out of a pool keep leaving from the pool.
RewireInternally(plan) ==
    plan \cup {[source |-> n, target |-> Scale(n), delayed |-> FALSE] : n \in Pooled}

\* _rewire(): edges out of a pool leave from its Scale.
Out(n) == IF n \in Pooled THEN Scale(n) ELSE n

Rewire(plan) ==
    {[e EXCEPT !.source = Out(@)] : e \in plan} \cup
    {[source |-> n, target |-> Scale(n), delayed |-> FALSE] : n \in Pooled}

(* running -------------------------------------------------------------------*)
\* check_graph(): the C loader takes a graph without dangling edges, where all
\* nodes but the input are fed and every cycle has a Delay.
CRuntimeLoads(run) ==
    LET N == DOMAIN run.nodes
    IN /\ \A e \in run.edges : e.source \in N /\ e.target \in N
       /\ \A n \in N \ {Input} : Inbound(run.edges, n) # {}
       /\ Acyclic(N, Now(run.edges))

Impulse == IF step = 0 THEN 1 ELSE 0

\* What a node makes of the sum of its inputs, in a graph with the sum pools P:
\* a pool of the plan averages, the substitute sums and its Scale divides.
NodeValue(n, sum, P) ==
    CASE n \in P -> 2 * sum
      [] n \in {Scale(m) : m \in P} -> sum \div 2
      [] OTHER -> sum

\* The values of a step: the first node takes the impulse, forward edges read
\* this step and delayed ones what late holds.
Settled(N, E, first, late, P) ==
    LET val[n \in N] ==
            NodeValue(n, (IF n = first THEN Impulse ELSE 0) +
                         Total([e \in Inbound(E, n) |->
                                  IF e.delayed THEN late[e] ELSE val[e.source]]), P)
    IN val

Late(E) == E \ Now(E)

\* StageModule._sweep(): delayed edges read what their source gave last.
Sweep ==
    Settled(Stages, spec.edges, Entry,
            [e \in Late(spec.edges) |-> stages[e.source]], {})

\* NirInterpreter._step() and _refresh(): nodes sum their inputs, from nodes and
\* Delays, in their order, and Delays take what their sources gave.
After(run, P) ==
    LET val == Settled(DOMAIN run.nodes, run.edges, Input, run.held, P)
    IN [run EXCEPT !.nodes = val, !.held = [e \in DOMAIN run.held |-> val[e.source]]]

AtRest(N, E) ==
    [edges |-> E, nodes |-> [n \in N |-> 0], held |-> [e \in Late(E) |-> 0]]
Nothing == [edges |-> {}, nodes |-> <<>>, held |-> <<>>]

(* actions -------------------------------------------------------------------*)
NirInit ==
    /\ spec \in [edges : {E \in SUBSET NirEdge(Stages) : Cardinality(E) <= MaxLinks},
                 merges : SUBSET Stages, output : Stages]
    /\ planned = "build"
    /\ stages = <<>> /\ reference = Nothing /\ target = Nothing
    /\ step = 0

Refused ==
    /\ planned = "build" /\ (~ValidTopology \/ Raises)
    /\ planned' = "refused"
    /\ UNCHANGED <<spec, step, stages, reference, target>>

Build ==
    /\ planned = "build" /\ ValidTopology /\ ~Raises
    /\ planned' = "run"
    /\ stages' = [s \in Stages |-> 0]
    /\ reference' = AtRest(NirNodes, Plan)
    /\ target' = AtRest(RewrittenNodes, Rewire(reference'.edges))
    /\ UNCHANGED <<spec, step>>

RunStep ==
    /\ planned = "run" /\ step < Steps
    /\ stages' = Sweep
    /\ reference' = After(reference, {})
    /\ target' = After(target, Pooled)
    /\ step' = step + 1
    /\ UNCHANGED <<spec, planned>>

NirNext == Refused \/ Build \/ RunStep

NirSpec == NirInit /\ [][NirNext]_nirVars

-----------------------------------------------------------------------------
NirTypeOK ==
    /\ planned \in {"build", "refused", "run"} /\ step \in 0..Steps
    /\ planned = "run" =>
         /\ stages \in [Stages -> Nat]
         /\ reference.nodes \in [NirNodes -> Nat]
         /\ target.nodes \in [RewrittenNodes -> Nat]

\* The planner's graph and the rewritten one can be run by the interpreter and
\* are loaded by the C runtime: every node is fed, and no cycle is left that a
\* Delay node does not break, nested merges and recurrence included.
PlanIsExecutable ==
    planned = "run" =>
        CRuntimeLoads(reference) /\ CRuntimeLoads(target)

\* Nothing arrives anywhere in two ways that the plan cannot tell apart: by two
\* edges alike, or delayed twice.
WaysAreDistinct ==
    \A n \in Resolved \cup (Stages \ spec.merges) : \A e \in Inbound(spec.edges, n) :
        /\ \A f \in Inbound(spec.edges, n) \ {e} : Arrivals(e) \cap Arrivals(f) = {}
        /\ e.delayed => \A o \in Outputs[e.source] : ~o[2]
        /\ n = Entry => <<Input, FALSE>> \notin Arrivals(e)

\* The NIR graph gives the values of the topology at every step, on every
\* stage that has a node and on the output, recurrence and nested merges
\* included, unless merge stages make two ways out of one node alike.
PlanAgrees ==
    planned = "run" /\ WaysAreDistinct =>
        /\ \A s \in Stages \ spec.merges : reference.nodes[s] = stages[s]
        /\ reference.nodes[Output] = stages[spec.output]

\* The rewritten graph gives what the plan gives at every step: a pool's value
\* at its Scale and every other node's under its own name, with pools in a row,
\* pools that feed themselves through a Delay and pools at the input or output.
RewriteAgrees ==
    planned = "run" =>
        \A n \in NirNodes :
            reference.nodes[n] = target.nodes[Out(n)]
=============================================================================
