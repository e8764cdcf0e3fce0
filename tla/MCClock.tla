------------------------------ MODULE MCClock -------------------------------
(* Each clock with four times and two reminders, which it only tells apart. *)
EXTENDS Clock
=============================================================================
