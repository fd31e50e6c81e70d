----------------------------- MODULE MCPipeline -----------------------------
(* Small instances of PipelineService for TLC.                             *)
EXTENDS PipelineService, TLC

Symmetry == Permutations(Session) \union Permutations(Run)
=============================================================================
