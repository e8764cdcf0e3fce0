----------------------------- MODULE EventTree -----------------------------
(***************************************************************************)
(* The event tree of qtl_etree.c, which merges the events of many queues   *)
(* into one stream: an unbalanced search tree of queue nodes, keyed by the *)
(* time of each queue's head event.  Nodes with the same key form a list   *)
(* of which only the newest hangs in the tree: prev leads from it to the   *)
(* older ones, next back, and its head is the oldest, the next to be read. *)
(* A queue that a read emptied is kept aside in tree->last and blocks the  *)
(* reads until it has an event again.                                      *)
(*                                                                         *)
(* One thread owns the tree; producers push to the queues at any time.     *)
(* Each queue is the FIFO that SpscQueue is shown to implement, and a push *)
(* is the moment its event becomes visible to the owner.  A node is known  *)
(* by its queue, which is not added again before the tree has forgotten    *)
(* it.  The build is one with NDEBUG, which compiles the assertions out:   *)
(* with them, the one at qtl_etree.c:68 stops the program at its first     *)
(* read (AssertionHolds).                                                  *)
(***************************************************************************)
EXTENDS Integers, Sequences, SequencesExt, FiniteSets

CONSTANTS Queues,     (* the event queues                                   *)
          Times,      (* the timestamps of their events                     *)
          NULL,       (* the null pointer                                   *)
          Wild,       (* a pointer value that was never assigned            *)
          Fresh,      (* the pointer values malloc'ed memory may hold       *)
          FreshTimes, (* the timestamps malloc'ed memory may hold           *)
          Room,       (* how many events a queue holds                      *)
          MaxEvents,  (* bound of the model: events pushed to each queue    *)
          Stop        (* the simulation stop event                          *)

Events(q) == [queue : {q}, time : Times, closed : BOOLEAN]

ASSUME EventTreeAssumption ==
    /\ Times \subseteq Nat /\ FreshTimes \subseteq Nat /\ MaxEvents \in Nat
    /\ Room \in Nat \ {0}
    /\ NULL \in Fresh /\ Fresh \subseteq {NULL, Wild}
    /\ {NULL, Wild} \cap Queues = {} /\ NULL # Wild /\ Stop # NULL
    /\ IsFiniteSet(Queues) /\ \A q \in Queues : Stop \notin Events(q)

VARIABLES
    contents,  (* the events in each queue, oldest first                     *)
    sent,      (* how many events were pushed to each queue, its close too   *)
    ended,     (* the queues whose producer has pushed the close             *)
    node,      (* the tree_node_t of each queue                              *)
    root,      (* tree->root                                                 *)
    last,      (* tree->last                                                 *)
    readable,  (* is_empty has answered false since the last read            *)
    returned,  (* what event_tree_read last returned                         *)
    accepted,  (* history: the queues event_tree_add returned true for       *)
    drained,   (* history: the queues whose close event was read             *)
    unkeyed,   (* history: a node in the tree that was never given its key   *)
    crashed    (* the program has followed NULL or a wild pointer            *)

queueVars == <<contents, sent, ended>>
treeVars  == <<node, root, last>>
history   == <<accepted, drained, unkeyed>>
vars == <<queueVars, treeVars, readable, returned, history, crashed>>

Pointers == Queues \cup {NULL, Wild}
Node == [timestamp : Nat, left : Pointers, right : Pointers,
         next : Pointers, prev : Pointers, head : Queues]

IsNode(p) == p \in Queues
Nodes == 0 .. Cardinality(Queues)  (* no walk is longer than the tree has nodes *)
-----------------------------------------------------------------------------
(* event_queue_is_empty and event_queue_peek_time. *)
IsEmptyQueue(q) == contents[q] = <<>>
PeekTime(q) == Head(contents[q]).time

(* The tree a call works on: the nodes, the root, and whether the call is  *)
(* still sane, not having followed a pointer that leads nowhere.           *)
Tree(n, r) == [node |-> n, root |-> r, sane |-> TRUE]
Lost(t) == [t EXCEPT !.sane = FALSE]

(* A queue without a node; leaked nodes, which nothing reaches, are blank. *)
Blank(q) == [timestamp |-> 0, left |-> NULL, right |-> NULL,
             next |-> NULL, prev |-> NULL, head |-> q]

(* What node_new fills in, the rest being what the memory held. *)
NewNodes(q) == [timestamp : FreshTimes, left : Fresh, right : Fresh,
                next : Fresh, prev : Fresh, head : {q}]

(* Mutant: the comparison is reversed. *)
SideReversed(n, p, t) == IF t < n[p].timestamp THEN "right" ELSE "left"

(* Smaller keys to the left, larger ones to the right. *)
Side(n, p, t) == IF t > n[p].timestamp THEN "right" ELSE "left"

(* The current node and its parent in a loop that goes down a tree.        *)
Places == [at : Pointers, parent : Pointers]
Top(r) == [at |-> r, parent |-> NULL]

(* A turn of the loop of event_tree_rebalance for key t: it goes down,     *)
(* unless it has found the key or nothing is there.                        *)
Descend(n, t) ==
    [s \in Places |->
        IF IsNode(s.at) /\ n[s.at].timestamp # t /\ n[s.at][Side(n, s.at, t)] # NULL
        THEN [at |-> n[s.at][Side(n, s.at, t)], parent |-> s.at]
        ELSE s]

(* ... the loop after so many turns, and at its end. *)
Descent(n, r, t) ==
    LET after[d \in Nodes] == IF d = 0 THEN Top(r) ELSE Descend(n, t)[after[d - 1]]
    IN  after
Found(n, r, t) == Descent(n, r, t)[Cardinality(Queues)]

(* Mutant: the older node is not told of the newer one. *)
LinkOneWay(n, item, current) ==
    [n EXCEPT ![item] = [timestamp |-> @.timestamp, next |-> @.next,
                         prev |-> current,            head |-> n[current].head,
                         right |-> n[current].right,  left |-> n[current].left]]

(* The newest node of a key is linked behind the one before it. *)
Link(n, item, current) ==
    [n EXCEPT ![current].next = item,
              ![item] = [timestamp |-> @.timestamp, next |-> @.next,
                         prev |-> current,            head |-> n[current].head,
                         right |-> n[current].right,  left |-> n[current].left]]

(* ... and takes its place in the tree. *)
Supersede(n, r, item, current, parent) ==
    IF parent = NULL
    THEN Tree(Link(n, item, current), item)
    ELSE Tree([Link(n, item, current) EXCEPT
                   ![parent][Side(n, parent, n[item].timestamp)] = item], r)

(* Mutant: the key of the event before is kept. *)
ResetLinks(n, item, t) ==
    [n EXCEPT ![item] = [timestamp |-> @.timestamp, left |-> NULL, right |-> NULL,
                         next |-> NULL, prev |-> NULL, head |-> item]]

(* item alone, with the time of its queue's head event for a key. *)
Reset(n, item, t) ==
    [n EXCEPT ![item] = [timestamp |-> t, left |-> NULL, right |-> NULL,
                         next |-> NULL, prev |-> NULL, head |-> item]]

(* event_tree_rebalance for a queue whose head event has time t. *)
Rebalance(n, r, item, t) ==
    LET m       == Reset(n, item, t)
        found   == Found(m, r, t)
        current == found.at
    IN  IF r = NULL
        THEN Tree(m, item)
        ELSE IF ~IsNode(current)
        THEN Lost(Tree(m, r))
        ELSE IF m[current].timestamp = t
        THEN Supersede(m, r, item, current, found.parent)
        ELSE Tree([m EXCEPT ![current][Side(m, current, t)] = item], r)

(* A turn of the loop of event_tree_read. *)
GoLeft(n) ==
    [s \in Places |->
        IF IsNode(s.at) /\ n[s.at].left # NULL
        THEN [at |-> n[s.at].left, parent |-> s.at]
        ELSE s]

(* ... the loop after so many turns, and the leftmost node that it finds. *)
LeftDescent(n, r) ==
    LET after[d \in Nodes] == IF d = 0 THEN Top(r) ELSE GoLeft(n)[after[d - 1]]
    IN  after
Leftmost == LeftDescent(node, root)[Cardinality(Queues)]

(* What event_tree_read takes out of the tree, and the tree without it. *)
Taken(q, t) == [queue |-> q, node |-> t.node, root |-> t.root, sane |-> t.sane]

(* Mutant: the newest of its key is served first. *)
UnlistNewest(current) ==
    LET older == node[current].prev
    IN  Taken(current,
              IF root = current
              THEN Tree([node EXCEPT ![older].left = NULL, ![older].right = node[current].right], older)
              ELSE Tree([node EXCEPT ![older].left = NULL, ![older].right = node[current].right,
                                     ![Leftmost.parent].left = older], root))

(* The oldest node leaves the list of current ... *)
Unlist(current) ==
    LET oldest == node[current].head
        second == node[oldest].next
    IN  Taken(oldest,
              IF IsNode(second)
              THEN Tree([node EXCEPT ![second].prev = NULL, ![current].head = second], root)
              ELSE Lost(Tree(node, root)))

(* Mutant: the nodes to the right of the one taken out are forgotten. *)
UnhangAll(current, parent) ==
    LET cut == [node EXCEPT ![current].right = NULL]
    IN  Taken(current,
              IF parent = NULL
              THEN Tree(cut, node[current].right)
              ELSE Tree([cut EXCEPT ![parent].left = NULL], root))

(* ... or current itself leaves the tree, if it is alone. *)
Unhang(current, parent) ==
    LET cut == [node EXCEPT ![current].right = NULL]
    IN  Taken(current,
              IF parent = NULL
              THEN Tree(cut, node[current].right)
              ELSE Tree([cut EXCEPT ![parent].left = node[current].right], root))

TakeOut ==
    LET current == Leftmost.at
    IN  IF ~IsNode(current)
        THEN Taken(NULL, Lost(Tree(node, root)))
        ELSE IF node[current].prev # NULL
        THEN Unlist(current)
        ELSE Unhang(current, Leftmost.parent)

Commit(t) ==
    /\ node' = t.node
    /\ root' = t.root
    /\ crashed' = ~t.sane

(* A queue that leaves or is given a key is not unkeyed any more. *)
Keyed(q) == unkeyed' = IF unkeyed = q THEN NULL ELSE unkeyed

Init ==
    /\ contents = [q \in Queues |-> <<>>]
    /\ sent = [q \in Queues |-> 0] /\ ended = {}
    /\ node = [q \in Queues |-> Blank(q)]
    /\ root = NULL /\ last = NULL
    /\ readable = FALSE /\ returned = NULL
    /\ accepted = {} /\ drained = {} /\ unkeyed = NULL
    /\ crashed = FALSE
-----------------------------------------------------------------------------
(* A producer pushes an event; its close is the last it pushes. *)
Push(q) ==
    /\ ~crashed /\ q \notin ended
    /\ Len(contents[q]) < Room
    /\ sent[q] < MaxEvents
    /\ \E t \in Times :
          contents' = [contents EXCEPT ![q] = Append(@, [queue |-> q, time |-> t, closed |-> FALSE])]
    /\ sent' = [sent EXCEPT ![q] = @ + 1]
    /\ UNCHANGED <<ended, treeVars, readable, returned, history, crashed>>

Close(q) ==
    /\ ~crashed /\ q \notin ended
    /\ Len(contents[q]) < Room
    /\ \E t \in Times :
          contents' = [contents EXCEPT ![q] = Append(@, [queue |-> q, time |-> t, closed |-> TRUE])]
    /\ ended' = ended \cup {q}
    /\ UNCHANGED <<sent, treeVars, readable, returned, history, crashed>>

(* event_tree_add of a queue that is empty returns false and forgets it.   *)
AddRefused(q) ==
    /\ ~crashed /\ q \notin accepted
    /\ IsEmptyQueue(q)
    /\ UNCHANGED vars

(* ... of the first: the node becomes the root just as node_new left it.   *)
AddFirst(q) ==
    /\ ~crashed /\ q \notin accepted
    /\ ~IsEmptyQueue(q) /\ root = NULL
    /\ \E new \in NewNodes(q) : node' = [node EXCEPT ![q] = new]
    /\ root' = q
    /\ accepted' = accepted \cup {q}
    /\ unkeyed' = q
    /\ UNCHANGED <<queueVars, last, readable, returned, drained, crashed>>

(* ... of any other. *)
AddNext(q) ==
    /\ ~crashed /\ q \notin accepted
    /\ ~IsEmptyQueue(q) /\ root # NULL
    /\ Commit(Rebalance(node, root, q, PeekTime(q)))
    /\ accepted' = accepted \cup {q}
    /\ UNCHANGED <<queueVars, last, readable, returned, drained, unkeyed>>

(* event_tree_is_empty answers true: there is no queue, or the one the     *)
(* last read emptied is still empty.                                       *)
IsEmptyTrue ==
    /\ ~crashed
    /\ IF last = NULL THEN root = NULL ELSE IsEmptyQueue(last)
    /\ readable' = FALSE
    /\ UNCHANGED <<queueVars, treeVars, returned, history, crashed>>

(* Mutant: a queue kept aside does not block the others. *)
IsEmptyFalseUnblocked ==
    /\ ~crashed
    /\ root # NULL
    /\ readable' = TRUE
    /\ UNCHANGED <<queueVars, treeVars, returned, history, crashed>>

(* ... false, with no queue kept aside ... *)
IsEmptyFalse ==
    /\ ~crashed
    /\ last = NULL /\ root # NULL
    /\ readable' = TRUE
    /\ UNCHANGED <<queueVars, treeVars, returned, history, crashed>>

(* ... or false, after putting the queue kept aside back in the tree.      *)
IsEmptyResume ==
    /\ ~crashed
    /\ last # NULL /\ ~IsEmptyQueue(last)
    /\ Commit(Rebalance(node, root, last, PeekTime(last)))
    /\ last' = NULL
    /\ readable' = TRUE
    /\ UNCHANGED <<queueVars, returned, history>>

(* event_tree_read pops e off queue q.  The caller has been told that the  *)
(* tree is not empty; HeadsPresent shows that the pop cannot fail.         *)
Pop(q, e) ==
    /\ ~crashed /\ readable
    /\ TakeOut.sane /\ q = TakeOut.queue
    /\ ~IsEmptyQueue(q) /\ e = Head(contents[q])
    /\ contents' = [contents EXCEPT ![q] = Tail(@)]
    /\ readable' = FALSE
    /\ Keyed(q)
    /\ UNCHANGED <<sent, ended, accepted>>

(* A close event: the node is dropped.  The very last one is replaced by   *)
(* the simulation stop event.                                              *)
ReadClosed(q) ==
    \E e \in Events(q) :
        /\ Pop(q, e) /\ e.closed
        /\ Commit(Tree(TakeOut.node, TakeOut.root))
        /\ returned' = IF TakeOut.root = NULL THEN Stop ELSE e
        /\ drained' = drained \cup {q}
        /\ UNCHANGED last

(* Mutant: the queue an event leaves empty is not kept aside. *)
ReadLastForgets(q) ==
    \E e \in Events(q) :
        /\ Pop(q, e) /\ ~e.closed
        /\ Len(contents[q]) = 1
        /\ Commit(Tree(TakeOut.node, TakeOut.root))
        /\ returned' = e
        /\ UNCHANGED <<last, drained>>

(* An event that leaves its queue empty: the queue is kept aside. *)
ReadLast(q) ==
    \E e \in Events(q) :
        /\ Pop(q, e) /\ ~e.closed
        /\ Len(contents[q]) = 1
        /\ Commit(Tree(TakeOut.node, TakeOut.root))
        /\ last' = q
        /\ returned' = e
        /\ UNCHANGED drained

(* An event with more behind it: the queue goes back in with its new key.  *)
ReadMore(q) ==
    \E e \in Events(q) :
        /\ Pop(q, e) /\ ~e.closed
        /\ Len(contents[q]) > 1
        /\ Commit(Rebalance(TakeOut.node, TakeOut.root, q, contents[q][2].time))
        /\ returned' = e
        /\ UNCHANGED <<last, drained>>

(* The descent follows a pointer that leads nowhere. *)
ReadCrash ==
    /\ ~crashed /\ readable
    /\ ~TakeOut.sane
    /\ crashed' = TRUE
    /\ UNCHANGED <<queueVars, treeVars, readable, returned, history>>

(* event_tree_clear forgets every queue, with whatever is left in it. *)
Clear ==
    /\ ~crashed
    /\ root' = NULL /\ last' = NULL
    /\ node' = [q \in Queues |-> Blank(q)]
    /\ readable' = FALSE
    /\ accepted' = drained /\ unkeyed' = NULL
    /\ UNCHANGED <<queueVars, returned, drained, crashed>>
-----------------------------------------------------------------------------
Read(q) == ReadClosed(q) \/ ReadLast(q) \/ ReadMore(q)

Next ==
    \/ \E q \in Queues : Push(q)
    \/ \E q \in Queues : Close(q)
    \/ \E q \in Queues : AddRefused(q)
    \/ \E q \in Queues : AddFirst(q)
    \/ \E q \in Queues : AddNext(q)
    \/ IsEmptyTrue
    \/ IsEmptyFalse
    \/ IsEmptyResume
    \/ \E q \in Queues : ReadClosed(q)
    \/ \E q \in Queues : ReadLast(q)
    \/ \E q \in Queues : ReadMore(q)
    \/ ReadCrash
    \/ Clear

Spec == Init /\ [][Next]_vars

(* The owner keeps asking and reading; every producer closes its queue.    *)
FairSpec ==
    /\ Spec
    /\ WF_vars(IsEmptyFalse \/ IsEmptyResume)
    /\ WF_vars(\E q \in Queues : Read(q))
    /\ \A q \in Queues : WF_vars(Close(q))
-----------------------------------------------------------------------------
(* Properties. *)

(* The queues of the node list that hangs at p, oldest first. *)
Longer(n, p) ==
    [list \in Seq(Queues) |->
        IF Last(list) # p /\ IsNode(n[Last(list)].next) THEN Append(list, n[Last(list)].next)
                                                       ELSE list]
Listing(n, p) ==
    LET list[d \in Nodes] == IF d = 0 THEN <<n[p].head>> ELSE Longer(n, p)[list[d - 1]]
    IN  list
Group(n, p) == Listing(n, p)[Cardinality(Queues)]

(* The tree from left to right: the order in which its queues are served.  *)
Deeper(n, below) ==
        [p \in Pointers |->
            IF IsNode(p) THEN below[n[p].left] \o Group(n, p) \o below[n[p].right] ELSE <<>>]
Walk(n) ==
    LET down[d \in Nodes] ==
            IF d = 0 THEN [p \in Pointers |-> <<>>] ELSE Deeper(n, down[d - 1])
    IN  down
OrderOf(n, r) == Walk(n)[Cardinality(Queues)][r]

InOrder == OrderOf(node, root)

InTree == ToSet(InOrder)

TypeOK ==
    /\ DOMAIN contents = Queues
    /\ \A q \in Queues : contents[q] \in Seq(Events(q))
    /\ sent \in [Queues -> 0 .. MaxEvents] /\ ended \subseteq Queues
    /\ node \in [Queues -> Node]
    /\ root \in Pointers /\ last \in Queues \cup {NULL}
    /\ readable \in BOOLEAN
    /\ returned \in {NULL, Stop} \cup UNION {Events(q) : q \in Queues}
    /\ accepted \subseteq Queues /\ drained \subseteq Queues
    /\ unkeyed \in Queues \cup {NULL} /\ crashed \in BOOLEAN

(* No queue is lost or served twice: each one accepted is in the tree, at  *)
(* one place, or kept aside, until its close event has been read, through  *)
(* every relinking of equal keys and every removal (qtl_etree.c:75-88).    *)
NoQueueLost ==
    /\ TypeOK
    /\ Len(InOrder) = Cardinality(InTree)
    /\ last \notin InTree
    /\ accepted = InTree \cup drained \cup ({last} \ {NULL})
    /\ InTree \cap drained = {}

(* Every queue in the tree has an event, and its node's key is that        *)
(* event's time, unless it was the first of an empty tree: the pop of      *)
(* qtl_etree.c:90 never fails and the key is never stale.                  *)
HeadsPresent ==
    \A q \in InTree :
        /\ ~IsEmptyQueue(q)
        /\ q = unkeyed \/ node[q].timestamp = PeekTime(q)

(* The tree merges as EventMerge promises: the smallest key first, and     *)
(* queues of equal keys in the order they were given it.                   *)
Line(n, list) == [i \in DOMAIN list |-> [queue |-> list[i], key |-> n[list[i]].timestamp]]
Merge == INSTANCE EventMerge WITH line <- Line(node, InOrder)
ImplementsMerge == Merge!Spec

(* An event handed out is no later than what any other queue has to offer, *)
(* once the node of its queue and theirs have been given their keys.       *)
DeliversOldest ==
    [][\A q \in Queues \ {unkeyed} :
          ~IsEmptyQueue(q) /\ contents'[q] = Tail(contents[q]) =>
              \A other \in (InTree \cup {last}) \ {unkeyed, NULL} :
                  /\ ~IsEmptyQueue(other)
                  /\ Head(contents[q]).time <= PeekTime(other)]_vars

(* The stop event is handed out only when every queue accepted so far has  *)
(* been drained: no event is still waiting behind it, not even in a queue  *)
(* kept aside (qtl_etree.c:93-96).                                         *)
StopMeansDone ==
    [][drained' # drained /\ returned' = Stop => drained' = accepted]_vars

(* The assertion of event_tree_read, "Can not read from a tree with empty  *)
(* queue" (qtl_etree.c:68), whenever is_empty has just said that it can.   *)
AssertionHolds == readable => last # NULL

(* A field that was never assigned is still in use. *)
Tainted ==
    \/ root = Wild
    \/ \E q \in InTree : Wild \in {node[q].left, node[q].right, node[q].next, node[q].prev}

(* No queue accepted waits for ever, unless the tree is cleared or garbage *)
(* gets hold of it: the ones kept aside hold it up only until their        *)
(* producers push again.                                                   *)
EveryQueueDrained ==
    \A q \in Queues :
        (q \in accepted) ~> (q \in drained \/ q \notin accepted \/ Tainted \/ crashed)

(* Garbage that no node holds any more has left no trace: a tree without   *)
(* it is sound, whatever the memory of its nodes held before.              *)
SoundUnlessTainted == ~Tainted => NoQueueLost /\ HeadsPresent

(* Following a bad pointer needs one that the memory of a node happened to *)
(* hold: the tree makes none itself, and never follows NULL.               *)
CrashNeedsGarbage == [][crashed' /\ ~crashed => Tainted]_vars
=============================================================================
