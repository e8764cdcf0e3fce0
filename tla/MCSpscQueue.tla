---------------------------- MODULE MCSpscQueue ----------------------------
(* The ring on a small instance: three slots, so two items fit, and enough *)
(* writes for both positions to go round and meet in every alignment.      *)
EXTENDS SpscQueue
=============================================================================
