--------------------------- MODULE MCLowLevelAPI ---------------------------
(* Instances of LowLevelAPI for TLC.                                       *)
EXTENDS LowLevelAPI

CONSTANTS t1, t2, u1, u2

\* The layers are interchangeable.
LayerSymmetry == Permutations(Uids)
=============================================================================
