--------------------- MODULE MCActivityMultiplexerQueue ---------------------
(* The queue with two producers and a ring of four slots.                  *)
EXTENDS ActivityMultiplexerQueue, TLC

CONSTANTS p1, p2

Symmetry == Permutations(Producers)
=============================================================================
