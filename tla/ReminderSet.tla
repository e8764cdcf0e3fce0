---------------------------- MODULE ReminderSet -----------------------------
(***************************************************************************)
(* What the reminder queue promises: a set of reminders, of which no two   *)
(* have the same time and callback, that gives out the earliest first.     *)
(* The answer of a push is anything: the function ends without one.  While *)
(* a reminder in it has been given another time the set is disordered:     *)
(* any reminder in it may be the next, one may be in it twice, and one may *)
(* not be found, until the set has been empty once.                        *)
(***************************************************************************)
EXTENDS Integers

CONSTANTS Reminders, NULL,
          TimeOf, CallbackOf,  (* functions of Reminders            *)
          Times                (* the times they may be given later *)

VARIABLES queued,     (* the reminders in the queue                        *)
          timestamp,  (* of each reminder                                  *)
          disorder,   (* whether one was given its time while in the queue *)
          out         (* the last call, and what it has returned           *)

vars == <<queued, timestamp, disorder, out>>

SameKey(r, s) == timestamp[r] = timestamp[s] /\ CallbackOf[r] = CallbackOf[s]

Precedes(r, s) ==
    \/ timestamp[r] < timestamp[s]
    \/ timestamp[r] = timestamp[s] /\ CallbackOf[r] < CallbackOf[s]

MayBeNext(r) == r \in queued /\ (disorder \/ \A s \in queued \ {r} : Precedes(r, s))

Returned(op, ok, item) == [op |-> op, ok |-> ok, item |-> item]

Settle == disorder' = (disorder /\ queued' # {})

Init == queued = {} /\ timestamp = TimeOf /\ disorder = FALSE /\ out = Returned("new", TRUE, NULL)

(* One with the same time and callback is not taken. *)
Push(r) ==
    /\ \E ok \in BOOLEAN : out' = Returned("push", ok, r)
    /\ IF disorder THEN queued' \in {queued, queued \cup {r}}
       ELSE queued' = IF \E s \in queued : SameKey(r, s) THEN queued ELSE queued \cup {r}
    /\ UNCHANGED <<timestamp, disorder>>

(* There is no memory. *)
PushFails(r) == out' = Returned("push", FALSE, r) /\ UNCHANGED <<queued, timestamp, disorder>>

Pop(r) ==
    /\ MayBeNext(r)
    /\ out' = Returned("pop", TRUE, r)
    /\ \/ queued' = queued \ {r}
       \/ disorder /\ UNCHANGED queued
    /\ Settle /\ UNCHANGED timestamp

Peek(r) ==
    /\ MayBeNext(r)
    /\ out' = Returned("peek", TRUE, r)
    /\ UNCHANGED <<queued, timestamp, disorder>>

(* Disordered or not, an empty set says so, and no other does. *)
PopNone ==
    /\ queued = {}
    /\ out' \in {Returned("pop", FALSE, NULL), Returned("peek", FALSE, NULL)}
    /\ UNCHANGED <<queued, timestamp, disorder>>

(* Whichever reminder has that time and callback is taken out. *)
Remove(r) ==
    /\ out' = Returned("remove", TRUE, r)
    /\ \E s \in queued : /\ SameKey(r, s)
                         /\ \/ queued' = queued \ {s}
                            \/ disorder /\ UNCHANGED queued
    /\ Settle /\ UNCHANGED timestamp

RemoveNone(r) ==
    /\ disorder \/ \A s \in queued : ~SameKey(r, s)
    /\ out' = Returned("remove", FALSE, r)
    /\ UNCHANGED <<queued, timestamp, disorder>>

Clear ==
    /\ queued' = {} /\ disorder' = FALSE /\ out' = Returned("clear", TRUE, NULL)
    /\ UNCHANGED timestamp

Retime(r, t) ==
    /\ timestamp' = [timestamp EXCEPT ![r] = t]
    /\ disorder' = (disorder \/ r \in queued)
    /\ UNCHANGED <<queued, out>>

Next == \/ \E r \in Reminders : \/ Push(r) \/ PushFails(r) \/ Pop(r) \/ Peek(r)
                                \/ Remove(r) \/ RemoveNone(r)
                                \/ \E t \in Times : Retime(r, t)
        \/ PopNone
        \/ Clear

Spec == Init /\ [][Next]_vars
=============================================================================
