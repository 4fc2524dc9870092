---------------------------- MODULE MCErrorSlot ----------------------------
(* Instances of ErrorSlot for TLC.                                         *)
EXTENDS ErrorSlot, TLC

CONSTANTS t1, t2, t3, e1, e2, e3, e4

\* Threads and addresses are only compared with each other.
AnyName == Permutations(Thread) \cup Permutations(Text)
=============================================================================
