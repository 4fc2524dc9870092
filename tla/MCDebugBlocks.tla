--------------------------- MODULE MCDebugBlocks ---------------------------
(* Instances of DebugBlocks for TLC.                                       *)
EXTENDS DebugBlocks, TLC

CONSTANTS b1, b2, b3, b4, t1, t2

\* Addresses are only compared with each other.
AnyBlock == Permutations(Block)
=============================================================================
