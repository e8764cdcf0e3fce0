------------------------------ MODULE EventRef ------------------------------
(***************************************************************************)
(* The reference counts of events (qtl_event.h) and everything that drops  *)
(* a reference: the threads, event_queue_clear, event_tree_read and the    *)
(* bus.                                                                    *)
(*                                                                         *)
(* A handle is a pointer somebody is to call event_unref for once: in a    *)
(* thread, in a queue, in the loop of the bus that has just read it from   *)
(* data_pipe, or in bus->saved_event.  event_unref is an atomic            *)
(* subtraction and then, if it was the last reference, a free; a handle    *)
(* between the two is "freeing".  Three places stand for pointers that the *)
(* code has given up without event_unref: "closed" for a close event that  *)
(* event_tree_read has put a stop in the place of, "noted" for a stop that *)
(* the bus only took note of, "abandoned" for the saved event of a bus     *)
(* that is no more.  The model stops when it is corrupt: an event has been *)
(* freed to which another pointer remains.                                 *)
(***************************************************************************)
EXTENDS Integers, FiniteSets

CONSTANTS Events,   (* the addresses of events                              *)
          Stops,    (* those of type kOnSimulatorStop                       *)
          Closes,   (* those of type kOnQueueClosed                         *)
          Handles,  (* the pointers                                         *)
          Wrap,     (* the number of values of an atomic_ushort, 2^16       *)
          NULL

ASSUME EventRefAssumption ==
    /\ Stops \subseteq Events /\ Closes \subseteq Events /\ Stops \cap Closes = {}
    /\ NULL \notin Events
    /\ IsFiniteSet(Handles)
    /\ Wrap \in Nat /\ Wrap >= 2

VARIABLES live,       (* the events malloc has given and nobody has freed   *)
          ref,        (* e->ref, of each event                              *)
          at,         (* the event each handle points to                    *)
          place,      (* where each handle is                               *)
          corrupt,
          overloaded, (* history: an event has had more than Wrap references *)
          cleared     (* history: event_bus_clear freed an event that had   *)
                      (* another reference                                  *)

vars == <<live, ref, at, place, corrupt, overloaded, cleared>>

Places == {"thread", "queue", "read", "saved", "freeing", "closed", "noted", "abandoned"}

Pointers(e)   == {h \in Handles : at[h] = e}
References(e) == {h \in Pointers(e) : place[h] # "freeing"}

(* atomic_fetch_add and atomic_fetch_sub wrap. *)
Inc(c) == IF c = Wrap - 1 THEN 0 ELSE c + 1
Dec(c) == IF c = 0 THEN Wrap - 1 ELSE c - 1

(* Mutant: the subtraction answers the new count. *)
IsLastNever(c) == Dec(c) = 1

(* Mutant: the last two of the threads both free. *)
IsLastOrNext(c) == c <= 2

(* event_unref: the count before the subtraction. *)
IsLast(c) == c = 1

Init ==
    /\ live = {} /\ ref = [e \in Events |-> 0]
    /\ at = [h \in Handles |-> NULL] /\ place = [h \in Handles |-> "thread"]
    /\ corrupt = FALSE /\ overloaded = FALSE /\ cleared = FALSE

(* malloc and event_init. *)
New(h, e) ==
    /\ ~corrupt /\ at[h] = NULL /\ e \notin live
    /\ live' = live \cup {e}
    /\ ref' = [ref EXCEPT ![e] = 1]
    /\ at' = [at EXCEPT ![h] = e]
    /\ place' = [place EXCEPT ![h] = "thread"]
    /\ UNCHANGED <<corrupt, overloaded, cleared>>

(* Mutant: the count is not raised for an event that is in a queue. *)
RefOnlyOwn(g, h) ==
    /\ ~corrupt /\ at[h] = NULL /\ at[g] # NULL /\ place[g] \in {"thread", "queue"}
    /\ ref' = IF place[g] = "queue" THEN ref ELSE [ref EXCEPT ![at[g]] = Inc(@)]
    /\ at' = [at EXCEPT ![h] = at[g]]
    /\ place' = [place EXCEPT ![h] = "thread"]
    /\ overloaded' = (overloaded \/ Cardinality(References(at[g])) >= Wrap)
    /\ UNCHANGED <<live, corrupt, cleared>>

(* event_ref, through a pointer of one's own, or through one that          *)
(* event_queue_peek has shown.                                             *)
Ref(g, h) ==
    /\ ~corrupt /\ at[h] = NULL /\ at[g] # NULL /\ place[g] \in {"thread", "queue"}
    /\ ref' = [ref EXCEPT ![at[g]] = Inc(@)]
    /\ at' = [at EXCEPT ![h] = at[g]]
    /\ place' = [place EXCEPT ![h] = "thread"]
    /\ overloaded' = (overloaded \/ Cardinality(References(at[g])) >= Wrap)
    /\ UNCHANGED <<live, corrupt, cleared>>

(* event_unref, by a thread of its own or by event_queue_clear of what it  *)
(* has read: the subtraction, ...                                          *)
Unref(h) ==
    /\ ~corrupt /\ at[h] # NULL /\ place[h] \in {"thread", "queue"}
    /\ ref' = [ref EXCEPT ![at[h]] = Dec(@)]
    /\ IF IsLast(ref[at[h]])
       THEN place' = [place EXCEPT ![h] = "freeing"] /\ UNCHANGED at
       ELSE at' = [at EXCEPT ![h] = NULL] /\ place' = [place EXCEPT ![h] = "thread"]
    /\ UNCHANGED <<live, corrupt, overloaded, cleared>>

(* The event h points to is freed. *)
Release(h) ==
    /\ live' = live \ {at[h]}
    /\ at' = [at EXCEPT ![h] = NULL]
    /\ place' = [place EXCEPT ![h] = "thread"]
    /\ corrupt' = (Pointers(at[h]) # {h})
    /\ UNCHANGED <<ref, overloaded>>

(* ... and the free. *)
Free(h) ==
    /\ ~corrupt /\ at[h] # NULL /\ place[h] = "freeing"
    /\ Release(h)
    /\ UNCHANGED cleared

(* A pointer is handed on, or given up. *)
Move(h, from, to) ==
    /\ ~corrupt /\ at[h] # NULL /\ place[h] = from
    /\ place' = [place EXCEPT ![h] = to]
    /\ UNCHANGED <<live, ref, at, corrupt, overloaded, cleared>>

(* event_queue_push, and event_queue_pop for whoever asked. *)
Push(h) == Move(h, "thread", "queue")
Pop(h)  == Move(h, "queue", "thread")

(* The bus reads data_pipe only when it has no saved event. *)
CanRead == \A h \in Handles : place[h] \notin {"read", "saved"}

Read(h) == CanRead /\ Move(h, "queue", "read")

(* event_tree_read pops the close event of its last queue and, in the same *)
(* variable, answers a stop of its own, to the bus or to another reader.   *)
ReadLastClose(h, g, e, to) ==
    /\ ~corrupt /\ at[h] \in Closes /\ place[h] = "queue"
    /\ at[g] = NULL /\ e \in Stops \ live
    /\ to = "thread" \/ (to = "read" /\ CanRead)
    /\ live' = live \cup {e}
    /\ ref' = [ref EXCEPT ![e] = 1]
    /\ at' = [at EXCEPT ![g] = e]
    /\ place' = [place EXCEPT ![h] = "closed", ![g] = to]
    /\ UNCHANGED <<corrupt, overloaded, cleared>>

(* What the bus has read it keeps until nothing else is to be returned; in *)
(* simulation it takes note of a stop and forgets the pointer.             *)
Save(h)        == Move(h, "read", "saved")
ForgetStop(h)  == at[h] \in Stops /\ Move(h, "read", "noted")
ReturnSaved(h) == Move(h, "saved", "thread")

(* event_bus_free does not look at saved_event. *)
BusFree(h) == Move(h, "saved", "abandoned")

(* event_bus_clear frees the saved event, whatever its count. *)
BusClear(h) ==
    /\ ~corrupt /\ at[h] # NULL /\ place[h] = "saved"
    /\ Release(h)
    /\ cleared' = (cleared \/ Pointers(at[h]) # {h})

Next ==
    \/ \E h \in Handles, e \in Events : New(h, e)
    \/ \E g, h \in Handles : Ref(g, h)
    \/ \E h \in Handles : Unref(h)
    \/ \E h \in Handles : Free(h)
    \/ \E h \in Handles : Push(h)
    \/ \E h \in Handles : Pop(h)
    \/ \E h \in Handles : Read(h)
    \/ \E g, h \in Handles, e \in Events, to \in {"thread", "read"} : ReadLastClose(h, g, e, to)
    \/ \E h \in Handles : Save(h)
    \/ \E h \in Handles : ForgetStop(h)
    \/ \E h \in Handles : ReturnSaved(h)
    \/ \E h \in Handles : BusFree(h)
    \/ \E h \in Handles : BusClear(h)

Spec == Init /\ [][Next]_vars
-----------------------------------------------------------------------------
(* Properties. *)

TypeOK ==
    /\ live \subseteq Events
    /\ ref \in [Events -> 0 .. Wrap - 1]
    /\ at \in [Handles -> Events \cup {NULL}]
    /\ place \in [Handles -> Places]
    /\ corrupt \in BOOLEAN /\ overloaded \in BOOLEAN /\ cleared \in BOOLEAN

(* Of threads that drop their references at the same time exactly one      *)
(* frees the event, and only when nobody has a pointer to it, unless the   *)
(* event has had more than 2^16 references (qtl_event.h:59-70) or          *)
(* event_bus_clear frees its saved event under others (qtl_bus.c:212).     *)
(* 2^16 references themselves do no harm, though the count is then 0.      *)
CorruptNeedsCause == corrupt => overloaded \/ cleared

(* Until it is overloaded, the count is the number of references: an event *)
(* that is told to have a single one (qtl_event.h:72-74) has no other      *)
(* holder, and a pointer in a queue or in the bus keeps its event.         *)
CountIsReferences ==
    ~corrupt /\ ~overloaded =>
        \A e \in live : LET n == Cardinality(References(e))
                        IN  ref[e] = IF n = Wrap THEN 0 ELSE n

(* A pointer that somebody is still to release. *)
Held(h) == place[h] \notin {"closed", "noted", "abandoned"}

(* An event that nobody is left to free was given up by the code in one of *)
(* three places, of that event and no other kind: the close event whose    *)
(* pointer event_tree_read overwrites with its own stop (qtl_etree.c:      *)
(* 93-96), a stop that the bus takes note of in simulation (qtl_bus.c:     *)
(* 106-109), and the saved event of a bus that is freed (qtl_bus.c:66-81). *)
(* However the others drop their references, concurrently too, they leave  *)
(* no event behind.                                                        *)
LeaksNeedCause ==
    ~corrupt => \A e \in live :
        (\A h \in Pointers(e) : ~Held(h)) =>
            \E h \in Pointers(e) : \/ place[h] = "closed" /\ e \in Closes
                                   \/ place[h] = "noted" /\ e \in Stops
                                   \/ place[h] = "abandoned"
=============================================================================
