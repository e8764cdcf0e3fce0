-------------------------- MODULE MCReminderQueue ---------------------------
(* An instance of the reminder queue: two reminders share time and          *)
(* callback, a third only the time; one may be given another time, once.    *)
EXTENDS ReminderQueue, TLC

CONSTANTS r1, r2, r3, r4

MCReminders  == {r1, r2, r3, r4}
MCTimeOf     == r1 :> 1 @@ r2 :> 1 @@ r3 :> 1 @@ r4 :> 2
MCCallbackOf == r1 :> 1 @@ r2 :> 1 @@ r3 :> 2 @@ r4 :> 1
MCTimes == {0, 4}

(* The nodes are only told apart by what they hold. *)
NodeSymmetry == Permutations(Nodes)
=============================================================================
