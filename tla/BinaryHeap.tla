----------------------------- MODULE BinaryHeap -----------------------------
(***************************************************************************)
(* The binary min heap of adt_heap.h.  A heap is the memory of its nodes:  *)
(* the root, min, the number of elements, and the three pointers of each   *)
(* node.  less_than compares the keys of the nodes; keys may be equal.     *)
(***************************************************************************)
EXTENDS Integers, Sequences

LOCAL INSTANCE SequencesExt  (* its Remove is not ours *)

CONSTANTS Nodes,  (* the addresses of nodes *)
          NULL    (* which is none of them      *)

heap_init == [min |-> NULL, nelts |-> 0,
              left |-> [n \in Nodes |-> NULL], right |-> [n \in Nodes |-> NULL],
              parent |-> [n \in Nodes |-> NULL]]

less_than(key, a, b) == key[a] < key[b]

(* The fields of a node, and the assignments under "if (node != NULL)".    *)
Fields(h, n, left, right, parent) ==
    [h EXCEPT !.left[n] = left, !.right[n] = right, !.parent[n] = parent]
SetParent(h, n, par) == IF n = NULL THEN h ELSE [h EXCEPT !.parent[n] = par]

(* Where old hung, below its parent par or at the root, hangs new. *)
Hang(h, par, old, new) ==
    IF par = NULL THEN [h EXCEPT !.min = new]
    ELSE IF h.left[par] = old THEN [h EXCEPT !.left[par] = new]
    ELSE [h EXCEPT !.right[par] = new]

(* heap_node_swap: child and its parent change places. *)
heap_node_swap(h, par, child) ==
    LET onLeft  == h.left[par] = child
        sibling == IF onLeft THEN h.right[par] ELSE h.left[par]
        up == Fields(h, child, IF onLeft THEN par ELSE sibling,
                     IF onLeft THEN sibling ELSE par, h.parent[par])
        down == SetParent(Fields(up, par, h.left[child], h.right[child], child), sibling, child)
        told == SetParent(SetParent(down, h.left[child], par), h.right[child], par)
    IN  Hang(told, h.parent[par], par, child)

(* The way from the root to the n-th place, row by row: the binary digits  *)
(* of n after the first, 1 for the right.                                  *)
RECURSIVE Path(_)
Path(n) == IF n < 2 THEN <<>> ELSE Append(Path(n \div 2), n % 2)

(* The node to which a way leads from the root. *)
Follow(h, way) == FoldLeft(LAMBDA n, bit : IF bit = 1 THEN h.right[n] ELSE h.left[n], h.min, way)

(* Puts n, a node or NULL, at the end of a way. *)
Put(h, way, n) ==
    IF way = <<>> THEN [h EXCEPT !.min = n]
    ELSE IF Last(way) = 1 THEN [h EXCEPT !.right[Follow(h, Front(way))] = n]
    ELSE [h EXCEPT !.left[Follow(h, Front(way))] = n]

(* The walks towards the root, ... *)
RECURSIVE WalkUp(_, _, _)
WalkUp(h, key, n) ==
    IF h.parent[n] # NULL /\ less_than(key, n, h.parent[n])
    THEN WalkUp(heap_node_swap(h, h.parent[n], n), key, n)
    ELSE h

(* The smallest of a node and its children. *)
Smallest(h, key, n) ==
    LET l == IF h.left[n] # NULL /\ less_than(key, h.left[n], n) THEN h.left[n] ELSE n
    IN  IF h.right[n] # NULL /\ less_than(key, h.right[n], l) THEN h.right[n] ELSE l

(* ... and away from it. *)
RECURSIVE WalkDown(_, _, _)
WalkDown(h, key, n) ==
    IF Smallest(h, key, n) = n THEN h
    ELSE WalkDown(heap_node_swap(h, n, Smallest(h, key, n)), key, n)

(* heap_insert: at the left-most free place of the bottom row. *)
heap_insert(h, key, n) ==
    LET way == Path(1 + h.nelts)
        par == IF way = <<>> THEN NULL ELSE Follow(h, Front(way))
        new == [Put(Fields(h, n, NULL, NULL, par), way, n) EXCEPT !.nelts = @ + 1]
    IN  WalkUp(new, key, n)

(* child gets the pointers and the place of n. *)
TakeOver(h, n, child) ==
    LET fields == Fields(h, child, h.left[n], h.right[n], h.parent[n])
        told   == SetParent(SetParent(fields, h.left[n], child), h.right[n], child)
    IN  Hang(told, h.parent[n], n, child)

(* Mutant: the replacement only walks down. *)
SettleDown(h, key, n) == WalkDown(h, key, n)

(* The replacement finds its place: it need not be the largest of all, so  *)
(* it may also belong further up.                                          *)
Settle(h, key, n) == WalkUp(WalkDown(h, key, n), key, n)

(* heap_remove: the last node of the bottom row takes the place of n.      *)
heap_remove(h, key, n) ==
    LET way   == Path(h.nelts)
        child == Follow(h, way)
        cut   == [Put(h, way, NULL) EXCEPT !.nelts = @ - 1]
    IN  IF h.nelts = 0 THEN h
        ELSE IF child = n THEN cut
        ELSE Settle(TakeOver(cut, n, child), key, child)

heap_dequeue(h, key) == heap_remove(h, key, h.min)
=============================================================================
