--------------------------- MODULE ReminderQueue ----------------------------
(***************************************************************************)
(* The reminder queue of qtl_rqueue.c: a red-black tree of nodes, each     *)
(* allocated by a push and pointing to a reminder of the user's.  The time *)
(* of a node is read from its reminder whenever nodes are compared.        *)
(***************************************************************************)
EXTENDS RedBlackTree

CONSTANTS Reminders,    (* the reminders of the user                        *)
          TimeOf,       (* the time each is first given                     *)
          CallbackOf,   (* its callback, an address                         *)
          MaxCallback,  (* the greatest address                             *)
          Times,        (* the times it may be given by event_set_time      *)
          MaxRetimes    (* bound of the model: how often that may happen    *)

ASSUME ReminderAssumption ==
    /\ MaxCallback \in Nat
    /\ TimeOf \in [Reminders -> Nat] /\ CallbackOf \in [Reminders -> 0 .. MaxCallback]
    /\ Times \subseteq Nat /\ MaxRetimes \in Nat
    /\ NULL \notin Reminders

VARIABLES
    tree,            (* q->tree                                             *)
    reminder_event,  (* of each node                                        *)
    heap,            (* the nodes malloc has given and nobody has freed     *)
    timestamp,       (* of each reminder                                    *)
    np,              (* local of reminder_queue_clear                       *)
    clearing,        (* whether its loop is running                         *)
    out,             (* the last call, and what it has returned             *)
    retimes,         (* bound: calls of event_set_time                      *)
    disorder         (* history: a reminder was retimed while in the queue, *)
                     (* and the queue has not been empty since              *)

memory == <<tree, reminder_event, heap>>
vars == <<memory, timestamp, np, clearing, out, retimes, disorder>>

(* Mutant: the callback is not compared. *)
TimeOnly(r) == timestamp[r]

(* rb_node_comp orders by time, then by callback. *)
Key(r) == timestamp[r] * (MaxCallback + 1) + CallbackOf[r]

RankWith(events) == [n \in Nodes |-> IF events[n] = NULL THEN 0 ELSE Key(events[n])]
Rank == RankWith(reminder_event)

Returned(op, ok, item) == [op |-> op, ok |-> ok, item |-> item]

(* Mutant: the node is not freed. *)
KeepMemory(n, t) == tree' = Forget(t, n) /\ UNCHANGED heap
                    /\ reminder_event' = [reminder_event EXCEPT ![n] = NULL]

(* n, no longer in t, is freed. *)
Free(n, t) ==
    /\ tree' = Forget(t, n)
    /\ heap' = heap \ {n}
    /\ reminder_event' = [reminder_event EXCEPT ![n] = NULL]

Queued(t) == {reminder_event[n] : n \in InTree(t)}
SettleDisorder(t) == disorder' = (disorder /\ t.root # NULL)

(* RB_INIT in reminder_queue_new. *)
Init ==
    /\ tree = RB_INIT
    /\ reminder_event = [n \in Nodes |-> NULL]
    /\ heap = {}
    /\ timestamp = TimeOf
    /\ np = NULL /\ clearing = FALSE
    /\ out = Returned("new", TRUE, NULL)
    /\ retimes = 0 /\ disorder = FALSE
-----------------------------------------------------------------------------
(* reminder_queue_push: the node is lost if RB_INSERT finds an equal one,  *)
(* and nothing is returned, so the caller reads any value.                 *)
Push(r, n) ==
    /\ ~clearing /\ n \notin heap
    /\ heap' = heap \cup {n}
    /\ reminder_event' = [reminder_event EXCEPT ![n] = r]
    /\ tree' = RB_INSERT(tree, RankWith(reminder_event'), n)
    /\ \E ok \in BOOLEAN : out' = Returned("push", ok, r)
    /\ UNCHANGED <<timestamp, np, clearing, retimes, disorder>>

(* malloc fails. *)
PushFails(r) ==
    /\ ~clearing
    /\ out' = Returned("nomem", FALSE, r)
    /\ UNCHANGED <<memory, timestamp, np, clearing, retimes, disorder>>

(* reminder_queue_pop *)
Pop ==
    /\ ~clearing
    /\ LET n == RB_MIN(tree)
       IN  IF n = NULL
           THEN out' = Returned("pop", FALSE, NULL) /\ UNCHANGED <<memory, disorder>>
           ELSE /\ out' = Returned("pop", TRUE, reminder_event[n])
                /\ Free(n, RB_REMOVE(tree, n))
                /\ SettleDisorder(RB_REMOVE(tree, n))
    /\ UNCHANGED <<timestamp, np, clearing, retimes>>

(* reminder_queue_peek *)
Peek ==
    /\ ~clearing
    /\ LET n == RB_MIN(tree)
       IN  out' = IF n = NULL THEN Returned("peek", FALSE, NULL)
                  ELSE Returned("peek", TRUE, reminder_event[n])
    /\ UNCHANGED <<memory, timestamp, np, clearing, retimes, disorder>>

(* reminder_queue_remove: the node found is taken out, and not freed. *)
Remove(r) ==
    /\ ~clearing
    /\ LET n == RB_FIND(tree, Rank, Key(r))
       IN  /\ out' = Returned("remove", n # NULL, r)
           /\ tree' = IF n = NULL THEN tree ELSE Forget(RB_REMOVE(tree, n), n)
           /\ SettleDisorder(tree')
    /\ UNCHANGED <<reminder_event, heap, timestamp, np, clearing, retimes>>

(* reminder_queue_clear: RB_FOREACH_SAFE takes the next node before this   *)
(* one is removed and freed.                                               *)
Clear ==
    /\ ~clearing
    /\ clearing' = TRUE
    /\ np' = RB_MIN(tree)
    /\ UNCHANGED <<memory, timestamp, out, retimes, disorder>>

(* Mutant: the next node is looked up from the freed one. *)
ClearStepUnsafe ==
    /\ clearing /\ np # NULL
    /\ Free(np, RB_REMOVE(tree, np))
    /\ np' = RB_NEXT(tree', np)
    /\ UNCHANGED <<timestamp, clearing, out, retimes, disorder>>

ClearStep ==
    /\ clearing /\ np # NULL
    /\ np' = RB_NEXT(tree, np)
    /\ Free(np, RB_REMOVE(tree, np))
    /\ UNCHANGED <<timestamp, clearing, out, retimes, disorder>>

ClearEnd ==
    /\ clearing /\ np = NULL
    /\ clearing' = FALSE
    /\ out' = Returned("clear", TRUE, NULL)
    /\ SettleDisorder(tree)
    /\ UNCHANGED <<memory, timestamp, np, retimes>>

(* event_set_time on a reminder, which the queue knows nothing of. *)
Retime(r, t) ==
    /\ ~clearing /\ retimes < MaxRetimes /\ t # timestamp[r]
    /\ timestamp' = [timestamp EXCEPT ![r] = t]
    /\ retimes' = retimes + 1
    /\ disorder' = (disorder \/ r \in Queued(tree))
    /\ UNCHANGED <<memory, np, clearing, out>>
-----------------------------------------------------------------------------
Next ==
    \/ \E r \in Reminders, n \in Nodes : Push(r, n)
    \/ \E r \in Reminders : PushFails(r)
    \/ Pop
    \/ Peek
    \/ \E r \in Reminders : Remove(r)
    \/ Clear
    \/ ClearStep
    \/ ClearEnd
    \/ \E r \in Reminders, t \in Times : Retime(r, t)

Spec == Init /\ [][Next]_vars
-----------------------------------------------------------------------------
(* Properties. *)

TypeOK ==
    /\ tree \in Trees
    /\ reminder_event \in [Nodes -> Reminders \cup {NULL}]
    /\ heap \subseteq Nodes
    /\ timestamp \in [Reminders -> Nat]
    /\ np \in Links /\ clearing \in BOOLEAN
    /\ out \in [op : {"new", "push", "nomem", "pop", "peek", "remove", "clear"}, ok : BOOLEAN,
                item : Reminders \cup {NULL}]
    /\ out.item = NULL => ~out.ok \/ out.op \in {"new", "clear"}
    /\ retimes \in 0 .. MaxRetimes /\ disorder \in BOOLEAN

(* The tree only leads to nodes that are allocated, also between two turns *)
(* of the loop that frees them (qtl_rqueue.c:98-105), and every pointer    *)
(* back agrees, even if the order is lost because a reminder was retimed.  *)
NothingDangles ==
    /\ TypeOK
    /\ InTree(tree) \subseteq heap
    /\ \A n \in InTree(tree) : reminder_event[n] # NULL
    /\ LinksAgree(tree)
    /\ clearing => np = RB_MIN(tree)

(* The tree is in order as long as no reminder in it is given another time *)
(* (event_set_time, qtl_event.h:51-53), and again once it has been empty.  *)
OrderUnlessRetimed == ~disorder => InOrder(tree, Rank)

(* The conditions of the head comment of adt_tree.h (53-61) hold whenever  *)
(* a call returns, and between two turns of the loop of clear, however the *)
(* nodes came and went and whatever a change of time did to their order:   *)
(* no red node under a red one, and as many black nodes on the way to      *)
(* every leaf.                                                             *)
Balanced == IsBalanced(tree)

Stranded == heap \ InTree(tree)

(* Memory is lost in two ways only: a push of a reminder with the time and *)
(* callback of one in the queue (65-71), and a remove that finds its node  *)
(* (112-114).  Each loses one node, and none is ever found again.          *)
LeaksOnlyThere ==
    [][Stranded' # Stranded =>
          /\ out'.op \in {"push", "remove"}
          /\ Stranded \subseteq Stranded'
          /\ Cardinality(Stranded') = Cardinality(Stranded) + 1
          /\ out'.op = "push" => RB_FIND(tree, Rank, Key(out'.item)) # NULL]_vars

(* The queue implements the set of reminders: what is pushed, popped and   *)
(* removed, and what every call returns, is right through every rebalance, *)
(* and right again once a queue that a change of time has disordered has   *)
(* been emptied.  Only the answer of a push is anything: "if queue is      *)
(* full, push will return false" (qtl_rqueue.h:30), and it returns nothing *)
(* when it is not (qtl_rqueue.c:65-71).  Clearing takes effect when it     *)
(* begins, as nobody can look in between.                                  *)
Set == INSTANCE ReminderSet WITH
           queued <- IF clearing THEN {} ELSE Queued(tree),
           disorder <- disorder /\ ~clearing,
           out <- IF clearing THEN Returned("clear", TRUE, NULL)
                  ELSE IF out.op = "nomem" THEN Returned("push", FALSE, out.item) ELSE out
ImplementsSet == Set!Spec
=============================================================================
