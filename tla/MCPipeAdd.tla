----------------------------- MODULE MCPipeAdd ------------------------------
(***************************************************************************)
(* Two or three threads add to a ring of three slots, of which two can be  *)
(* taken: more queues than it holds, so that it is full, wraps, and slots  *)
(* are used again.                                                         *)
(***************************************************************************)
EXTENDS PipeAdd, TLC

PipeSymmetry == Permutations(Threads) \cup Permutations(Queues)
=============================================================================
