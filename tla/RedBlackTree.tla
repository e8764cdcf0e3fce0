---------------------------- MODULE RedBlackTree ----------------------------
(***************************************************************************)
(* The red-black tree of adt_tree.h, as the reminder queue expands it.  A  *)
(* tree is the memory of its nodes: a root, and for each node its child on *)
(* either side, its parent and its colour.  The macros write out each case *)
(* for the left and for the right; here the side is a parameter.  The      *)
(* comparison function is given by the rank of each node.                  *)
(***************************************************************************)
EXTENDS Integers, FiniteSets

CONSTANTS Nodes,  (* the addresses of nodes *)
          NULL

ASSUME NodeAssumption == IsFiniteSet(Nodes) /\ NULL \notin Nodes

Sides == {"left", "right"}
Other(s) == IF s = "left" THEN "right" ELSE "left"

Links == Nodes \cup {NULL}
Trees == [root : Links, child : [Sides -> [Nodes -> Links]],
          parent : [Nodes -> Links], red : [Nodes -> BOOLEAN]]

(* A loop from x, with a turn for every node there is: as each loop here   *)
(* goes up or down one tree, more are not needed.  Where the loop has      *)
(* ended, a turn changes nothing.                                          *)
After(turn, x) ==
    LET state[d \in 0 .. Cardinality(Nodes)] == IF d = 0 THEN x ELSE turn[state[d - 1]]
    IN  state[Cardinality(Nodes)]

(* The fields of a node nobody has set, as far as anyone may look at them. *)
RB_INIT == [root   |-> NULL,
            child  |-> [s \in Sides |-> [n \in Nodes |-> NULL]],
            parent |-> [n \in Nodes |-> NULL],
            red    |-> [n \in Nodes |-> FALSE]]

IsRed(t, n) == n # NULL /\ t.red[n]

(* The assignments the macros make under "if (node)". *)
Paint(t, n, red)     == IF n = NULL THEN t ELSE [t EXCEPT !.red[n] = red]
SetParent(t, n, par) == IF n = NULL THEN t ELSE [t EXCEPT !.parent[n] = par]

(* Hangs c on side s of n. *)
SetChild(t, s, n, c) == [t EXCEPT !.child[s][n] = c]

RB_SET(t, n, par) ==
    LET bare == SetChild(SetChild(t, "left", n, NULL), "right", n, NULL)
    IN  Paint(SetParent(bare, n, par), n, TRUE)

(* Takes the memory of n back: nothing may be read from it any more. *)
Forget(t, n) == Paint(RB_SET(t, n, NULL), n, FALSE)

RB_SET_BLACKRED(t, black, red) == Paint(Paint(t, black, FALSE), red, TRUE)

SideOf(t, par, n) == IF t.child["left"][par] = n THEN "left" ELSE "right"

(* Makes new what hangs where n does, below the parent of n or at the root *)
(* (one of the two may be no node).                                        *)
Hang(t, n, par, new) ==
    IF par = NULL THEN [t EXCEPT !.root = new]
    ELSE SetChild(t, SideOf(t, par, n), par, new)

(* Mutant: the inner grandchild is not told of its new parent. *)
RotateNoParent(t, n, s) ==
    LET up    == t.child[Other(s)][n]
        inner == t.child[s][up]
        moved == SetChild(t, Other(s), n, inner)
        hung  == Hang(SetParent(moved, up, t.parent[n]), n, t.parent[n], up)
    IN  SetParent(SetChild(hung, s, up, n), n, up)

(* RB_ROTATE_LEFT and RB_ROTATE_RIGHT: n goes down to side s, and its      *)
(* child on the other side comes up.                                       *)
Rotate(t, n, s) ==
    LET up    == t.child[Other(s)][n]
        inner == t.child[s][up]
        moved == SetParent(SetChild(t, Other(s), n, inner), inner, n)
        hung  == Hang(SetParent(moved, up, t.parent[n]), n, t.parent[n], up)
    IN  SetParent(SetChild(hung, s, up, n), n, up)
-----------------------------------------------------------------------------
(* Insertion. *)

BlackRoot(t) == Paint(t, t.root, FALSE)

(* A turn of the loop: n is red, and its parent may be red too. *)
InsertTurn(t, n) ==
    LET par   == t.parent[n]
        gpar  == t.parent[par]
        s     == SideOf(t, gpar, par)
        uncle == t.child[Other(s)][gpar]
        inner == t.child[Other(s)][par] = n
        outer == IF inner THEN Rotate(t, par, s) ELSE t
        top   == IF inner THEN n ELSE par
    IN  IF ~IsRed(t, par) THEN [tree |-> t, node |-> n]
        ELSE IF IsRed(t, uncle)
        THEN [tree |-> RB_SET_BLACKRED(Paint(t, uncle, FALSE), par, gpar), node |-> gpar]
        ELSE [tree |-> Rotate(RB_SET_BLACKRED(outer, top, gpar), gpar, Other(s)),
              node |-> IF inner THEN par ELSE n]

RB_INSERT_COLOR(t, n) ==
    LET turn == [x \in [tree : Trees, node : Nodes] |-> InsertTurn(x.tree, x.node)]
    IN  BlackRoot(After(turn, [tree |-> t, node |-> n]).tree)

(* The node at which the way down from n to rank k ends: the one of that   *)
(* rank, or the last one before NULL.                                      *)
WayTo(t, rank, k, n) ==
    LET Down(m) == IF rank[m] = k THEN NULL
                   ELSE t.child[IF k < rank[m] THEN "left" ELSE "right"][m]
    IN  After([m \in Nodes |-> IF Down(m) = NULL THEN m ELSE Down(m)], n)

(* RB_FIND *)
RB_FIND(t, rank, k) ==
    IF t.root = NULL THEN NULL
    ELSE LET n == WayTo(t, rank, k, t.root) IN IF rank[n] = k THEN n ELSE NULL

(* Mutant: a node of equal rank goes to the right instead of being found. *)
InsertEqualToo(t, rank, n) ==
    IF t.root = NULL THEN BlackRoot([t EXCEPT !.root = n])
    ELSE LET par == WayTo(t, rank, rank[n], t.root)
             s   == IF rank[n] < rank[par] THEN "left" ELSE "right"
         IN  RB_INSERT_COLOR(SetChild(RB_SET(t, n, par), s, par, n), n)

(* RB_INSERT: nothing is done when a node of that rank is found. *)
RB_INSERT(t, rank, n) ==
    IF t.root = NULL
    THEN RB_INSERT_COLOR([RB_SET(t, n, NULL) EXCEPT !.root = n], n)
    ELSE LET par == WayTo(t, rank, rank[n], t.root)
             s   == IF rank[n] < rank[par] THEN "left" ELSE "right"
         IN  IF rank[par] = rank[n] THEN t
             ELSE RB_INSERT_COLOR(SetChild(RB_SET(t, n, par), s, par, n), n)
-----------------------------------------------------------------------------
(* Removal. *)

(* Mutant: the far child of the sibling is not painted. *)
LeaveFar(t, n) == t

PaintFar(t, n) == Paint(t, n, FALSE)

(* A red sibling makes way for one of its children, which is black. *)
BlackSibling(t, par, s) ==
    LET sib == t.child[Other(s)][par]
    IN  IF t.red[sib] THEN Rotate(RB_SET_BLACKRED(t, sib, par), par, s) ELSE t

(* The near child of the sibling, red, gets on top of it. *)
RedFar(t, par, s) ==
    LET sib == t.child[Other(s)][par]
    IN  Rotate(Paint(Paint(t, t.child[s][sib], FALSE), sib, TRUE), sib, Other(s))

(* The sibling gets on top of par, which makes up for the black node. *)
Mend(t, par, s) ==
    LET sib   == t.child[Other(s)][par]
        level == Paint(Paint(t, sib, t.red[par]), par, FALSE)
    IN  Rotate(PaintFar(level, level.child[Other(s)][sib]), par, s)

(* A turn of the loop: the subtree n of par, NULL if it is empty, is one   *)
(* black node short.                                                       *)
RemoveTurn(t, par, n) ==
    LET s      == SideOf(t, par, n)
        t1     == BlackSibling(t, par, s)
        sib    == t1.child[Other(s)][par]
        far    == t1.child[Other(s)][sib]
        t2     == IF IsRed(t1, far) THEN t1 ELSE RedFar(t1, par, s)
        mended == Mend(t2, par, s)
    IN  IF IsRed(t, n) \/ n = t.root THEN [tree |-> t, par |-> par, node |-> n]
        ELSE IF ~IsRed(t1, t1.child[s][sib]) /\ ~IsRed(t1, far)
        THEN [tree |-> Paint(t1, sib, TRUE), par |-> t1.parent[par], node |-> par]
        ELSE [tree |-> mended, par |-> NULL, node |-> mended.root]

RB_REMOVE_COLOR(t, par, n) ==
    LET turn == [x \in [tree : Trees, par : Links, node : Links] |->
                    RemoveTurn(x.tree, x.par, x.node)]
        last == After(turn, [tree |-> t, par |-> par, node |-> n])
    IN  Paint(last.tree, last.node, FALSE)

(* The node furthest to side s below n. *)
Furthest(t, n, s) ==
    After([m \in Nodes |-> IF t.child[s][m] = NULL THEN m ELSE t.child[s][m]], n)

(* Takes out a node that has at most one child. *)
Splice(t, n) ==
    LET child == IF t.child["left"][n] = NULL THEN t.child["right"][n] ELSE t.child["left"][n]
    IN  Hang(SetParent(t, child, t.parent[n]), n, t.parent[n], child)

(* n gets the fields of old, and takes its place between its neighbours. *)
TakeOver(t, old, n) ==
    LET sides  == SetChild(SetChild(t, "left", n, t.child["left"][old]),
                           "right", n, t.child["right"][old])
        fields == Paint(SetParent(sides, n, t.parent[old]), n, t.red[old])
        hung   == Hang(fields, old, t.parent[old], n)
    IN  SetParent(SetParent(hung, t.child["left"][old], n), t.child["right"][old], n)

(* RB_REMOVE: a node with two children gives its place to its successor.   *)
RB_REMOVE(t, n) ==
    LET two    == \A s \in Sides : t.child[s][n] # NULL
        out    == IF two THEN Furthest(t, t.child["right"][n], "left") ELSE n
        child  == IF t.child["left"][out] = NULL THEN t.child["right"][out] ELSE t.child["left"][out]
        par    == IF two /\ t.parent[out] = n THEN out ELSE t.parent[out]
        linked == IF two THEN TakeOver(Splice(t, out), n, out) ELSE Splice(t, out)
    IN  IF t.red[out] THEN linked ELSE RB_REMOVE_COLOR(linked, par, child)
-----------------------------------------------------------------------------
(* Walks. *)

(* A turn of RB_NFIND, at node with the result res so far. *)
NFindTurn(t, rank, k, n, res) ==
    IF n = NULL \/ res = n THEN [node |-> n, res |-> res]
    ELSE IF k < rank[n] THEN [node |-> t.child["left"][n], res |-> n]
    ELSE IF k > rank[n] THEN [node |-> t.child["right"][n], res |-> res]
    ELSE [node |-> n, res |-> n]

(* RB_NFIND: the first node whose rank is not below k. *)
RB_NFIND(t, rank, k) ==
    LET turn == [x \in [node : Links, res : Links] |-> NFindTurn(t, rank, k, x.node, x.res)]
    IN  After(turn, [node |-> t.root, res |-> NULL]).res

(* Mutant: the way up ends at the parent. *)
UpOnce(t, n, s) == t.parent[n]

(* The first node up from n that is reached from another side than s.      *)
UpFrom(t, n, s) ==
    LET Done(m) == t.parent[m] = NULL \/ t.child[s][t.parent[m]] # m
    IN  t.parent[After([m \in Nodes |-> IF Done(m) THEN m ELSE t.parent[m]], n)]

(* RB_NEXT for the right, RB_PREV for the left. *)
Neighbour(t, n, s) ==
    IF t.child[s][n] # NULL THEN Furthest(t, t.child[s][n], Other(s)) ELSE UpFrom(t, n, s)

RB_NEXT(t, n) == Neighbour(t, n, "right")
RB_PREV(t, n) == Neighbour(t, n, "left")

(* RB_MINMAX *)
RB_MINMAX(t, s) == IF t.root = NULL THEN NULL ELSE Furthest(t, t.root, s)
RB_MIN(t) == RB_MINMAX(t, "left")
RB_MAX(t) == RB_MINMAX(t, "right")
-----------------------------------------------------------------------------
(* The conditions of the head comment of adt_tree.h, for any tree.         *)

(* The nodes below n, n included. *)
Below(t, n) ==
    LET Reached(S) == S \cup {t.child[e[1]][e[2]] : e \in Sides \X (S \ {NULL})}
    IN  After([S \in SUBSET Links |-> Reached(S)], {n}) \ {NULL}
InTree(t)   == Below(t, t.root)

(* One parent each, and each child known to its parent. *)
LinksAgree(t) ==
    /\ t.root # NULL => t.parent[t.root] = NULL
    /\ \A n \in InTree(t) :
          /\ \A s \in Sides : t.child[s][n] # NULL => t.parent[t.child[s][n]] = n
          /\ t.child["left"][n] # NULL => t.child["left"][n] # t.child["right"][n]

InOrder(t, rank) ==
    \A n \in InTree(t) :
        /\ \A m \in Below(t, t.child["left"][n]) : rank[m] < rank[n]
        /\ \A m \in Below(t, t.child["right"][n]) : rank[m] > rank[n]

(* The black nodes on the way from the root to n. *)
BlackAbove(t, n) == {m \in InTree(t) : ~t.red[m] /\ n \in Below(t, m)}

(* No red node under a red one or at the top, and as many black nodes on   *)
(* the way to every place that is free.                                    *)
IsBalanced(t) ==
    /\ \A n \in InTree(t) : t.red[n] => t.parent[n] # NULL /\ ~t.red[t.parent[n]]
    /\ LET ends == {n \in InTree(t) : \E s \in Sides : t.child[s][n] = NULL}
       IN  \A m, n \in ends : Cardinality(BlackAbove(t, m)) = Cardinality(BlackAbove(t, n))
=============================================================================
