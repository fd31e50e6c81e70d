------------------------------ MODULE MCLibrary ------------------------------
(* The hub cache, the registry, the serving core, the pipeline graph, the NIR  *)
(* plan and the message window for TLC.  They share no state and do not call   *)
(* one another, so every behaviour explored here is one of a single part, with *)
(* the others at rest in their initial states.                                 *)
EXTENDS HubStore, Registry, Serving, PipelineGraph, NirPlan, RateWindow, TLC

VARIABLE part    \* the component that runs

vars == <<part, hubVars, registryVars, servingVars, graphVars, nirVars, rateVars>>

\* The second publication has the first one's file name, and the pinned file
\* sorts before both.
MCUrlFile == [v \in 1..2 |-> 2]

\* The second model is also registered at prod, where no promotion has taken it.
MCRegistered ==
    [id : Models, stage : {Dev}] \cup {[id |-> "m2", stage |-> Prod]}

Symmetric ==
    Permutations(Procs) \cup Permutations(Admins) \cup Permutations(Threads)

\* The two parts with many initial states, when another part runs.
NoDocument ==
    /\ nodes = <<>> /\ edges = <<>> /\ phase = "validate"
    /\ degree = <<>> /\ ready = {} /\ remaining = {} /\ ordered = <<>>

NoTopology ==
    /\ spec = [edges |-> {}, merges |-> {}, output |-> Entry]
    /\ planned = "build" /\ step = 0
    /\ stages = <<>> /\ reference = Nothing /\ target = Nothing

Init ==
    /\ part \in {"hub", "registry", "serving", "graph", "nir", "rate"}
    /\ HubInit /\ RegistryInit /\ ServingInit /\ RateInit
    /\ IF part = "graph" THEN GraphInit ELSE NoDocument
    /\ IF part = "nir" THEN NirInit ELSE NoTopology

Next ==
    /\ UNCHANGED part
    /\ \/ /\ part = "hub" /\ HubNext
          /\ UNCHANGED <<registryVars, servingVars, graphVars, nirVars, rateVars>>
       \/ /\ part = "registry" /\ RegistryNext
          /\ UNCHANGED <<hubVars, servingVars, graphVars, nirVars, rateVars>>
       \/ /\ part = "serving" /\ ServingNext
          /\ UNCHANGED <<hubVars, registryVars, graphVars, nirVars, rateVars>>
       \/ /\ part = "graph" /\ GraphNext
          /\ UNCHANGED <<hubVars, registryVars, servingVars, nirVars, rateVars>>
       \/ /\ part = "nir" /\ NirNext
          /\ UNCHANGED <<hubVars, registryVars, servingVars, graphVars, rateVars>>
       \/ /\ part = "rate" /\ RateNext
          /\ UNCHANGED <<hubVars, registryVars, servingVars, graphVars, nirVars>>

Spec == Init /\ [][Next]_vars

\* Every part's state keeps its types.
TypeOK ==
    /\ HubTypeOK /\ RegistryTypeOK /\ ServingTypeOK
    /\ GraphTypeOK /\ NirTypeOK /\ RateTypeOK
=============================================================================
