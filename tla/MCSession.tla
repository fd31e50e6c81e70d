----------------------------- MODULE MCSession -----------------------------
(* Small instances of SessionTasks for TLC.                                *)
EXTENDS SessionTasks, TLC

Symmetry == Permutations(Config) \union Permutations(Stream)
=============================================================================
