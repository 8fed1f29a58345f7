------------------------------ MODULE MCMcpLock ------------------------------
(* Instances of McpLock for TLC.                                            *)
EXTENDS McpLock, TLC

Symmetry == Permutations(Workers)
=============================================================================
