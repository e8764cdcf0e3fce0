---------------------------- MODULE MCContainers ----------------------------
(***************************************************************************)
(* Any sequence of calls on one of the containers of adt_tree.h and        *)
(* adt_heap.h: a red-black tree, a splay tree, or a heap, of a few nodes.  *)
(* In the trees each node has a rank of its own, with keys in between that *)
(* no node has; in the heap two nodes are equal.                           *)
(***************************************************************************)
EXTENDS Integers, FiniteSets

CONSTANTS RBNodes, SplayNodes, HeapNodes  (* how many nodes *)

NULL == 0

RB    == INSTANCE RedBlackTree WITH Nodes <- 1 .. RBNodes
Splay == INSTANCE SplayTree WITH Nodes <- 1 .. SplayNodes, Scratch <- SplayNodes + 1
Shape == INSTANCE RedBlackTree WITH Nodes <- 1 .. SplayNodes
Heap  == INSTANCE BinaryHeap WITH Nodes <- 1 .. HeapNodes

VARIABLES kind,
          memory,   (* of the nodes                                 *)
          members   (* history: the nodes inserted and not taken out *)

vars == <<kind, memory, members>>

Nodes == CASE kind = "redblack" -> 1 .. RBNodes
           [] kind = "splay"    -> 1 .. SplayNodes
           [] kind = "heap"     -> 1 .. HeapNodes

Rank == [n \in Nodes |-> 2 * n]
Keys == 1 .. 2 * Cardinality(Nodes) + 1
key  == [n \in 1 .. HeapNodes |-> IF n = 1 THEN 2 ELSE n]

Init ==
    /\ members = {}
    /\ \/ kind = "redblack" /\ memory = RB!RB_INIT
       \/ kind = "splay"    /\ memory = Splay!SPLAY_INIT
       \/ kind = "heap"     /\ memory = Heap!heap_init

(* The scratch node is gone with the call, and so is a node with its owner. *)
Tidy(t, gone) ==
    [t EXCEPT !.child = [s \in Shape!Sides |->
        [n \in 1 .. SplayNodes + 1 |-> IF n \in gone THEN NULL ELSE t.child[s][n]]]]
Scratch == SplayNodes + 1

InsertRB(n) ==
    /\ kind = "redblack" /\ n \notin members
    /\ memory' = RB!RB_INSERT(memory, Rank, n)
    /\ members' = members \cup {n} /\ UNCHANGED kind

(* The owner of a node that is taken out may free it. *)
RemoveRB(n) ==
    /\ kind = "redblack" /\ n \in members
    /\ memory' = RB!Forget(RB!RB_REMOVE(memory, n), n)
    /\ members' = members \ {n} /\ UNCHANGED kind

InsertSplay(n) ==
    /\ kind = "splay" /\ n \notin members
    /\ memory' = Tidy(Splay!SPLAY_INSERT(memory, Rank, n), {Scratch})
    /\ members' = members \cup {n} /\ UNCHANGED kind

(* Also of a node that is not in the tree. *)
RemoveSplay(n) ==
    /\ kind = "splay"
    /\ memory' = Tidy(Splay!SPLAY_REMOVE(memory, Rank, n), {Scratch, n})
    /\ members' = members \ {n} /\ UNCHANGED kind

Find(k) ==
    /\ kind = "splay"
    /\ memory' = Tidy(Splay!SPLAY_FIND(memory, Rank, k), {Scratch})
    /\ UNCHANGED <<kind, members>>

ForgetHeap(h, n) == IF n = NULL THEN h ELSE Heap!Fields(h, n, NULL, NULL, NULL)

InsertHeap(n) ==
    /\ kind = "heap" /\ n \notin members
    /\ memory' = Heap!heap_insert(memory, key, n)
    /\ members' = members \cup {n} /\ UNCHANGED kind

RemoveHeap(n) ==
    /\ kind = "heap" /\ n \in members
    /\ memory' = ForgetHeap(Heap!heap_remove(memory, key, n), n)
    /\ members' = members \ {n} /\ UNCHANGED kind

Dequeue ==
    /\ kind = "heap"
    /\ memory' = ForgetHeap(Heap!heap_dequeue(memory, key), memory.min)
    /\ members' = members \ {memory.min} /\ UNCHANGED kind

Next == \/ \E n \in Nodes : InsertRB(n)
        \/ \E n \in Nodes : RemoveRB(n)
        \/ \E n \in Nodes : InsertSplay(n)
        \/ \E n \in Nodes : RemoveSplay(n)
        \/ \E k \in Keys : Find(k)
        \/ \E n \in Nodes : InsertHeap(n)
        \/ \E n \in Nodes : RemoveHeap(n)
        \/ Dequeue

Spec == Init /\ [][Next]_vars
-----------------------------------------------------------------------------
(* Properties. *)

RECURSIVE Climb(_)
Climb(S) == LET T == S \cup {memory.parent[n] : n \in S \ {NULL}}
            IN  IF T = S THEN S ELSE Climb(T)

(* The path from the root to n, and its black nodes. *)
PathTo(n)     == Climb({n}) \ {NULL}
BlackNodes(n) == {m \in PathTo(n) : ~memory.red[m]}

(* As many black nodes on the way to every leaf, no red node under a red   *)
(* one, and hence a height of at most 2 lg(n + 1).                         *)
RedBlackConditions ==
    /\ \A n \in members :
          RB!IsRed(memory, n) => memory.parent[n] # NULL /\ ~memory.red[memory.parent[n]]
    /\ LET ends == {n \in members : \E s \in RB!Sides : memory.child[s][n] = NULL}
       IN  \A m, n \in ends : Cardinality(BlackNodes(m)) = Cardinality(BlackNodes(n))
    /\ \A n \in members : 2 ^ Cardinality(PathTo(n)) <= (Cardinality(members) + 1) ^ 2

(* However rotations or searches have reshaped it, a tree is a search tree *)
(* of the nodes inserted and not yet removed (adt_tree.h:163-242); in the  *)
(* red-black tree every link to a parent is right, too (407-595), and the  *)
(* conditions of the head comment hold, with the height they bound (53-61).*)
SearchTree ==
    /\ kind = "redblack" => /\ RB!InTree(memory) = members
                            /\ RB!LinksAgree(memory)
                            /\ RB!InOrder(memory, Rank)
                            /\ RedBlackConditions
    /\ kind = "splay" => /\ Shape!InTree(memory) = members
                         /\ Shape!InOrder(memory, Rank)

Below(k) == {n \in members : Rank[n] < k}
Above(k) == {n \in members : Rank[n] > k}
Highest(S) == IF S = {} THEN NULL ELSE CHOOSE n \in S : \A m \in S : m <= n
Lowest(S)  == IF S = {} THEN NULL ELSE CHOOSE n \in S : \A m \in S : m >= n

(* A splay ends at the node of the key, or at one of the two between which *)
(* it would lie ("moves the requested node to the root", 41-43): insertion *)
(* and removal split the tree there (164-207).                             *)
RootIsNear ==
    kind = "splay" /\ members # {} => \A k \in Keys :
        LET root == Splay!SPLAY_FIND(memory, Rank, k).root
        IN  \/ root # NULL /\ Rank[root] = k
            \/ /\ \A n \in members : Rank[n] # k
               /\ root # NULL /\ root \in {Highest(Below(k)), Lowest(Above(k))}

(* Every walk agrees with the order of the ranks: from any node to the     *)
(* next and the previous, to both ends, and to any key whether a node has  *)
(* it or not (629-724).  SPLAY_FOREACH meets every node in order although  *)
(* each of its steps reshapes the tree (139-151, 287-295).                 *)
WalksInOrder ==
    /\ kind = "redblack" =>
          /\ RB!RB_MIN(memory) = Lowest(members) /\ RB!RB_MAX(memory) = Highest(members)
          /\ \A n \in members : /\ RB!RB_NEXT(memory, n) = Lowest(Above(Rank[n]))
                                /\ RB!RB_PREV(memory, n) = Highest(Below(Rank[n]))
          /\ \A k \in Keys :
                /\ RB!RB_NFIND(memory, Rank, k) = Lowest(Above(k - 1))
                /\ RB!RB_FIND(memory, Rank, k) = Lowest({n \in members : Rank[n] = k})
    /\ kind = "splay" =>
          /\ Splay!SPLAY_MIN(memory, Rank).root = Lowest(members)
          /\ Splay!SPLAY_MAX(memory, Rank).root = Highest(members)
          /\ \A n \in members :
                LET next == Splay!SPLAY_NEXT(memory, Rank, n)
                IN  next.node = Lowest(Above(Rank[n])) /\ Shape!InTree(next.tree) = members

(* The tree of a heap is complete (adt_heap.h:33-35): its nelts places,    *)
(* counted row by row from the root, hold the nodes inserted and not taken *)
(* out, each once, nothing hangs below the last, and each knows its parent *)
(* after any swaps (71-104).  So the next insertion and the next removal,  *)
(* which find their place by the count alone, find it.  And no node is     *)
(* less than its parent, nor than the root (33), also when one has been    *)
(* taken out of the middle and the last one, of another branch, is less    *)
(* than the new parent (231-236).                                          *)
HeapSound ==
    kind = "heap" =>
        LET at == [i \in 1 .. memory.nelts |-> Heap!Follow(memory, Heap!Path(i))]
            Place(i) == IF i \in 1 .. memory.nelts THEN at[i] ELSE NULL
        IN  /\ memory.nelts = Cardinality(members)
            /\ {at[i] : i \in 1 .. memory.nelts} = members
            /\ memory.min = Place(1)
            /\ \A i \in 1 .. memory.nelts :
                  /\ memory.left[at[i]] = Place(2 * i) /\ memory.right[at[i]] = Place(2 * i + 1)
                  /\ memory.parent[at[i]] = Place(i \div 2)
            /\ \A n \in members :
                  /\ memory.parent[n] # NULL => ~Heap!less_than(key, n, memory.parent[n])
                  /\ ~Heap!less_than(key, n, memory.min)
=============================================================================
