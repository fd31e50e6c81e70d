---------------------------- MODULE MCJobServer ----------------------------
(* Small instances of JobServer for TLC.                                   *)
EXTENDS JobServer, TLC

Symmetry == Permutations(Session) \union Permutations(Job) \union Permutations(Run)
=============================================================================
