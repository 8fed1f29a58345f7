---------------------------- MODULE MCWorkerPool ----------------------------
(* Instances of WorkerPool for TLC.                                        *)
EXTENDS WorkerPool, TLC

Symmetry == Permutations(Clients) \cup Permutations(Futures)
=============================================================================
