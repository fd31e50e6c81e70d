-------------------------------- MODULE MCHub --------------------------------
(* One process that pulls a model while its publisher goes on. *)
EXTENDS HubStore

\* Every publication has the same file name.
MCUrlFile == [v \in 1..2 |-> 2]
=============================================================================
