------------------------------ MODULE MCIdaLoop ------------------------------
(* Instances of IdaLoop for TLC.                                            *)
EXTENDS IdaLoop
=============================================================================
