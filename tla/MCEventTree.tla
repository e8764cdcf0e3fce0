---------------------------- MODULE MCEventTree ----------------------------
(* A small instance of EventTree: any queue may replace any other.         *)
EXTENDS EventTree, TLC

Symmetry == Permutations(Queues)
=============================================================================
