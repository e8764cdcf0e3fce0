----------------------------- MODULE SplayTree ------------------------------
(***************************************************************************)
(* The splay tree of adt_tree.h: a search tree in which every operation    *)
(* first brings the node it is about, or a neighbour, to the root.  A tree *)
(* is its root and the children of the nodes; Scratch is the node on the   *)
(* stack of SPLAY, with which the parts of the tree are held meanwhile.    *)
(* The macros write out each case for the left and for the right; here the *)
(* side is a parameter.                                                    *)
(***************************************************************************)
EXTENDS Integers

CONSTANTS Nodes, NULL, Scratch  (* which are different *)

LOCAL INSTANCE RedBlackTree

SPLAY_INIT == [root  |-> NULL,
               child |-> [s \in Sides |-> [n \in Nodes \cup {Scratch} |-> NULL]]]

SPLAY_EMPTY(t) == t.root = NULL

(* SPLAY_ROTATE_RIGHT for the left, SPLAY_ROTATE_LEFT for the right: the   *)
(* child n of the root on side s comes up.                                 *)
SPLAY_ROTATE(t, n, s) ==
    LET moved == [t EXCEPT !.child[s][t.root] = t.child[Other(s)][n]]
    IN  [moved EXCEPT !.child[Other(s)][n] = t.root, !.root = n]

(* SPLAY_LINKLEFT for the left, SPLAY_LINKRIGHT for the right: the root is *)
(* set aside below end, and its child comes up.                            *)
SPLAY_LINK(t, end, s) ==
    LET linked == [t EXCEPT !.child[s][end] = t.root]
    IN  [linked EXCEPT !.root = linked.child[s][t.root]]

(* SPLAY_ASSEMBLE: ends are those of the smaller and of the greater part.  *)
SPLAY_ASSEMBLE(t, ends) ==
    LET t1 == [t EXCEPT !.child["right"][ends["left"]] = t.child["left"][t.root]]
        t2 == [t1 EXCEPT !.child["left"][ends["right"]] = t1.child["right"][t.root]]
        t3 == [t2 EXCEPT !.child["left"][t.root] = t2.child["right"][Scratch]]
    IN  [t3 EXCEPT !.child["right"][t.root] = t3.child["left"][Scratch]]

Toward(rank, k, n) == IF k < rank[n] THEN "left" ELSE "right"

(* The loop of SPLAY, two levels down at a time where the way is straight. *)
RECURSIVE Descend(_, _, _, _)
Descend(t, rank, k, ends) ==
    LET s   == Toward(rank, k, t.root)
        tmp == t.child[s][t.root]
        straight == k # rank[tmp] /\ Toward(rank, k, tmp) = s
        up  == IF straight THEN SPLAY_ROTATE(t, tmp, s) ELSE t
    IN  IF k = rank[t.root] \/ tmp = NULL THEN SPLAY_ASSEMBLE(t, ends)
        ELSE IF straight /\ up.child[s][up.root] = NULL THEN SPLAY_ASSEMBLE(up, ends)
        ELSE Descend(SPLAY_LINK(up, ends[Other(s)], s), rank, k, [ends EXCEPT ![Other(s)] = up.root])

(* SPLAY, for the key k of its argument. *)
SPLAY(t, rank, k) ==
    LET clear == [t EXCEPT !.child["left"][Scratch] = NULL, !.child["right"][Scratch] = NULL]
    IN  Descend(clear, rank, k, [s \in Sides |-> Scratch])

(* SPLAY_MINMAX: a key before or behind all others. *)
SPLAY_MINMAX(t, rank, s) ==
    LET ranks == {rank[n] : n \in Nodes}
    IN  SPLAY(t, rank, IF s = "left" THEN (CHOOSE r \in ranks : \A q \in ranks : r <= q) - 1
                                     ELSE (CHOOSE r \in ranks : \A q \in ranks : r >= q) + 1)

(* SPLAY_MIN and SPLAY_MAX leave the node they return at the root.         *)
SPLAY_MIN(t, rank) == IF SPLAY_EMPTY(t) THEN t ELSE SPLAY_MINMAX(t, rank, "left")
SPLAY_MAX(t, rank) == IF SPLAY_EMPTY(t) THEN t ELSE SPLAY_MINMAX(t, rank, "right")

(* SPLAY_FIND: the node with key k, if there is one, is then at the root.  *)
SPLAY_FIND(t, rank, k) == IF SPLAY_EMPTY(t) THEN t ELSE SPLAY(t, rank, k)

(* SPLAY_NEXT reshapes the tree, and returns the node after n. *)
SPLAY_NEXT(t, rank, n) ==
    LET up == SPLAY(t, rank, rank[n])
        right == up.child["right"][n]
    IN  [tree |-> up, node |-> IF right = NULL THEN NULL ELSE Furthest(up, right, "left")]

(* The root, and all beyond it, go below n; what lies on side s of it too. *)
Split(t, n, s) ==
    LET o == Other(s)
    IN  [t EXCEPT !.child[s][n] = t.child[s][t.root], !.child[o][n] = t.root,
                  !.child[s][t.root] = NULL, !.root = n]

(* SPLAY_INSERT: n comes between the root and the part on its own side. *)
SPLAY_INSERT(t, rank, n) ==
    LET up == SPLAY(t, rank, rank[n])
    IN  IF SPLAY_EMPTY(t)
        THEN [t EXCEPT !.child["left"][n] = NULL, !.child["right"][n] = NULL, !.root = n]
        ELSE IF rank[n] = rank[up.root] THEN up
        ELSE Split(up, n, Toward(rank, rank[n], up.root))

(* Mutant: the left part is not splayed before the right one is hung on.   *)
RaisedNot(t, rank, k) == t

(* The greatest node of the part that is left comes up. *)
Raised(t, rank, k) == SPLAY(t, rank, k)

(* SPLAY_REMOVE of the node with the key of n. *)
SPLAY_REMOVE(t, rank, n) ==
    LET up    == SPLAY(t, rank, rank[n])
        left  == up.child["left"][up.root]
        right == up.child["right"][up.root]
        top   == Raised([up EXCEPT !.root = left], rank, rank[n])
    IN  IF SPLAY_EMPTY(t) THEN t
        ELSE IF rank[n] # rank[up.root] THEN up
        ELSE IF left = NULL THEN [up EXCEPT !.root = right]
        ELSE [top EXCEPT !.child["right"][top.root] = right]
=============================================================================
