----------------------------- MODULE MCEventRef -----------------------------
(* Events and handles are only told apart by their type and their place.   *)
EXTENDS EventRef, TLC

HandleSymmetry == Permutations(Handles)
=============================================================================
