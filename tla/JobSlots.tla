------------------------------ MODULE JobSlots ------------------------------
(***************************************************************************)
(* What the job cap promises, with no counter, thread or handler in sight: *)
(* jobs claim and free slots one at a time and never hold more than Cap.   *)
(* TrainingService, PipelineService and JobServer are each shown to        *)
(* implement it, with held taken from the jobs themselves and not from the *)
(* counter the code keeps.                                                 *)
(***************************************************************************)
EXTENDS Integers

CONSTANT Cap          \* the number of slots, at least one

VARIABLE held         \* the number of jobs that hold a slot

Init == held = 0

Claim == held < Cap /\ held' = held + 1

Free == held > 0 /\ held' = held - 1

Next == Claim \/ Free

Spec == Init /\ [][Next]_held
=============================================================================
