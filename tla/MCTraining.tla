----------------------------- MODULE MCTraining -----------------------------
(* Small instances of TrainingService for TLC.                             *)
EXTENDS TrainingService, TLC

Symmetry == Permutations(Session) \union Permutations(Job)
=============================================================================
