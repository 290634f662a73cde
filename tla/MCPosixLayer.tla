---------------------------- MODULE MCPosixLayer ----------------------------
(* The instrumented layers for TLC: a behaviour uses one of the headers.   *)
EXTENDS PosixLayer, TLC

MCMaxCalls == [l \in Layers |-> IF l \in {"stdio"} THEN 3 ELSE 4]
MCSymmetry == Permutations(Threads)
=============================================================================
