------------------------- MODULE ReminderQueueProofs --------------------------
(***************************************************************************)
(* The reminder queue of qtl_rqueue.c is sound for any number of nodes and *)
(* reminders: through every rotation of adt_tree.h its tree is a           *)
(* red-black tree of allocated nodes, in order but for a change of time,   *)
(* it leaks where two calls forget a node and nowhere else, and each call  *)
(* answers as a set of reminders would.                                    *)
(*                                                                         *)
(* A tree is described by what its pointers do not say: T, its nodes; B,   *)
(* the nodes below each; h, the black height of each; and R, the ranks it  *)
(* is in order by.  One of these is a rank of no reminder, given to each   *)
(* node by its place: it stays when a change of time disorders the tree,   *)
(* and with it everything that is proved of the walks.  A loop is the      *)
(* sequence of its states, which settles as each turn brings it closer to  *)
(* an end; what a turn may leave undone, two red nodes or a missing black  *)
(* one, is an invariant of its own (Fixing, Short).                        *)
(***************************************************************************)
EXTENDS ReminderQueue, FiniteSetTheorems, WellFoundedInduction, TLAPS
-----------------------------------------------------------------------------
(* Loops. *)

(* A set of numbers has a smallest one. *)
LEMMA SmallestOf ==
  ASSUME NEW N \in Nat, NEW B \in SUBSET (0 .. N), B # {}
  PROVE  \E m \in B : \A k \in B : m <= k
<1> DEFINE F == {1 .. k : k \in B}
<1>1. IsWellFoundedOn(StrictSubsetOrdering(1 .. N), FiniteSubsetsOf(1 .. N))
  BY FS_StrictSubsetOrderingWellFounded
<1>2. F \subseteq FiniteSubsetsOf(1 .. N)
  <2>1. \A k \in B : 1 .. k \in FiniteSubsetsOf(1 .. N)
    <3>1. TAKE k \in B
    <3>2. IsFiniteSet(1 .. k) BY FS_Interval
    <3>3. 1 .. k \subseteq 1 .. N OBVIOUS
    <3> QED BY <3>2, <3>3 DEF FiniteSubsetsOf
  <2> QED BY <2>1
<1>3. F # {} OBVIOUS
<1>4. PICK f \in F : \A g \in F : ~(<<g, f>> \in StrictSubsetOrdering(1 .. N))
  <2> HIDE DEF F
  <2> QED BY <1>1, <1>2, <1>3, WFMin
<1>5. PICK m \in B : f = 1 .. m BY <1>4
<1>6. \A k \in B : m <= k
  <2>1. TAKE k \in B
  <2>2. SUFFICES ASSUME k < m PROVE FALSE OBVIOUS
  <2>3. 1 .. k \subseteq 1 .. m /\ m \in 1 .. m /\ m \notin 1 .. k BY <2>2
  <2>4. 1 .. k \subseteq 1 .. N /\ 1 .. m \subseteq 1 .. N OBVIOUS
  <2>5. <<1 .. k, 1 .. m>> \in StrictSubsetOrdering(1 .. N)
    BY <2>3, <2>4 DEF StrictSubsetOrdering
  <2> QED BY <2>5, <1>4, <1>5
<1> QED BY <1>6

(* What holds at first and is kept by every turn holds after each of N. *)
LEMMA TurnByTurn ==
  ASSUME NEW N \in Nat, NEW G, 0 \in G,
         \A d \in Nat : d < N /\ d \in G => d + 1 \in G
  PROVE  \A d \in 0 .. N : d \in G
<1> DEFINE B == {d \in 0 .. N : d \notin G}
<1>1. SUFFICES ASSUME B # {} PROVE FALSE OBVIOUS
<1>2. PICK m \in B : \A k \in B : m <= k
  <2>1. B \in SUBSET (0 .. N) OBVIOUS
  <2> HIDE DEF B
  <2> QED BY <1>1, <2>1, SmallestOf
<1>3. m # 0 BY <1>2
<1>4. m - 1 \in Nat /\ m - 1 < N BY <1>2, <1>3
<1>5. m - 1 \in G BY <1>2, <1>4
<1>6. (m - 1) + 1 \in G BY <1>4, <1>5
<1> QED BY <1>2, <1>6

(* The states h of a loop over k turns, all in S. *)
Runs(h, k, S, turn, first) ==
    /\ h \in [0 .. k -> S]
    /\ h[0] = first
    /\ \A d \in Nat : d < k => h[d + 1] = turn[h[d]]

(* A loop has a state after each turn ... *)
LEMMA StatesOfALoop ==
  ASSUME NEW N \in Nat, NEW S, NEW turn, \A x \in S : turn[x] \in S, NEW first \in S
  PROVE  \E h : Runs(h, N, S, turn, first)
<1> DEFINE G == {k \in 0 .. N : \E h : Runs(h, k, S, turn, first)}
<1>1. 0 \in G
  <2>1. Runs([d \in 0 .. 0 |-> first], 0, S, turn, first) BY DEF Runs
  <2> QED BY <2>1
<1>2. ASSUME NEW k \in Nat, k < N, k \in G
      PROVE  k + 1 \in G
  <2>1. PICK h : Runs(h, k, S, turn, first) BY <1>2
  <2> DEFINE more == [d \in 0 .. k + 1 |-> IF d <= k THEN h[d] ELSE turn[h[k]]]
  <2>2. h[k] \in S /\ turn[h[k]] \in S BY <2>1 DEF Runs
  <2>3. more \in [0 .. k + 1 -> S] BY <2>1, <2>2 DEF Runs
  <2>4. more[0] = first BY <2>1 DEF Runs
  <2>5. ASSUME NEW d \in Nat, d < k + 1
        PROVE  more[d + 1] = turn[more[d]]
    <3>1. more[d] = h[d] BY <2>5
    <3>2. CASE d < k BY <3>1, <3>2, <2>1 DEF Runs
    <3>3. CASE d = k BY <3>1, <3>3
    <3> QED BY <3>2, <3>3, <2>5
  <2>6. Runs(more, k + 1, S, turn, first) BY <2>3, <2>4, <2>5 DEF Runs
  <2>7. k + 1 \in 0 .. N BY <1>2
  <2> QED BY <2>6, <2>7
<1>3. N \in G
  <2> HIDE DEF G
  <2>1. \A d \in 0 .. N : d \in G BY <1>1, <1>2, TurnByTurn
  <2> QED BY <2>1
<1> QED BY <1>3

(* The number of turns After makes. *)
NodeCount == Cardinality(Nodes)

LEMMA NodeCountIs == NodeCount \in Nat
BY NodeAssumption, FS_CardinalityType DEF NodeCount

(* ... and the last of them is what the loop leads to. *)
LEMMA AfterIs ==
  ASSUME NEW S, NEW turn, \A x \in S : turn[x] \in S, NEW first \in S
  PROVE  \E h : Runs(h, NodeCount, S, turn, first) /\ After(turn, first) = h[NodeCount]
<1>0. NodeCount \in Nat BY NodeCountIs
<1> DEFINE IsLoop(h) ==
       h = [d \in 0 .. NodeCount |-> IF d = 0 THEN first ELSE turn[h[d - 1]]]
<1>1. PICK h : Runs(h, NodeCount, S, turn, first) BY <1>0, StatesOfALoop
<1>2. IsLoop(h)
  <2>1. \A d \in 0 .. NodeCount : h[d] = IF d = 0 THEN first ELSE turn[h[d - 1]]
    <3>1. TAKE d \in 0 .. NodeCount
    <3>2. CASE d = 0 BY <3>2, <1>1 DEF Runs
    <3>3. CASE d # 0
      <4>1. d - 1 \in Nat /\ d - 1 < NodeCount BY <3>3, <1>0
      <4>2. h[(d - 1) + 1] = turn[h[d - 1]] BY <4>1, <1>1 DEF Runs
      <4> QED BY <4>2, <3>3, <1>0
    <3> QED BY <3>2, <3>3
  <2>2. h \in [0 .. NodeCount -> S] BY <1>1 DEF Runs
  <2> QED BY <2>1, <2>2
<1> DEFINE f == CHOOSE x : IsLoop(x)
<1>3. IsLoop(f)
  <2> HIDE DEF IsLoop
  <2> QED BY <1>2
<1>4. After(turn, first) = f[NodeCount] BY DEF After, NodeCount
<1> HIDE DEF f
<1>5. \A e \in 0 .. NodeCount : f[e] = IF e = 0 THEN first ELSE turn[f[e - 1]] BY <1>3
<1>6. f[0] = first
  <2>1. 0 \in 0 .. NodeCount BY <1>0
  <2> QED BY <2>1, <1>5
<1>7. ASSUME NEW d \in Nat, d < NodeCount
      PROVE  f[d + 1] = turn[f[d]]
  <2>1. d + 1 \in 0 .. NodeCount /\ d + 1 # 0 /\ (d + 1) - 1 = d BY <1>7, <1>0
  <2> QED BY <2>1, <1>5
<1>8. \A d \in 0 .. NodeCount : f[d] \in S
  <2> DEFINE G == {d \in 0 .. NodeCount : f[d] \in S}
  <2>1. 0 \in G BY <1>6, <1>0
  <2>2. ASSUME NEW d \in Nat, d < NodeCount, d \in G
        PROVE  d + 1 \in G
    <3>1. f[d] \in S /\ f[d + 1] = turn[f[d]] BY <2>2, <1>7
    <3>2. d + 1 \in 0 .. NodeCount BY <2>2, <1>0
    <3> QED BY <3>1, <3>2
  <2> HIDE DEF G
  <2>3. \A d \in 0 .. NodeCount : d \in G BY <2>1, <2>2, <1>0, TurnByTurn
  <2> QED BY <2>3 DEF G
<1>9. f \in [0 .. NodeCount -> S] BY <1>3, <1>8
<1>10. Runs(f, NodeCount, S, turn, first) BY <1>6, <1>7, <1>9 DEF Runs
<1> QED BY <1>4, <1>10

(* A loop whose every turn either changes nothing or comes nearer to zero  *)
(* has come to rest if it was no further away than there are nodes, and    *)
(* what it keeps is true there.                                            *)
LEMMA AfterSettles ==
  ASSUME NEW S, NEW turn, NEW first \in S, NEW size \in [S -> Nat], size[first] <= NodeCount,
         \A x \in S : turn[x] \in S /\ (turn[x] = x \/ size[turn[x]] < size[x])
  PROVE  After(turn, first) \in S /\ turn[After(turn, first)] = After(turn, first)
<1>0. NodeCount \in Nat BY NodeCountIs
<1>1. PICK f : Runs(f, NodeCount, S, turn, first) /\ After(turn, first) = f[NodeCount]
  BY AfterIs
<1> DEFINE G == {d \in 0 .. NodeCount : turn[f[d]] = f[d] \/ size[f[d]] + d <= NodeCount}
<1>2. 0 \in G BY <1>0, <1>1 DEF Runs
<1>3. ASSUME NEW d \in Nat, d < NodeCount, d \in G
      PROVE  d + 1 \in G
  <2>1. d + 1 \in 0 .. NodeCount /\ d \in 0 .. NodeCount BY <1>3, <1>0
  <2>2. f[d + 1] = turn[f[d]] /\ f[d] \in S /\ f[d + 1] \in S BY <2>1, <1>1, <1>3 DEF Runs
  <2>3. size[f[d]] \in Nat /\ size[f[d + 1]] \in Nat BY <2>2
  <2>4. CASE turn[f[d]] = f[d] BY <2>4, <2>1, <2>2
  <2>5. CASE turn[f[d]] # f[d]
    <3>1. size[f[d]] + d <= NodeCount BY <2>5, <1>3
    <3>2. size[f[d + 1]] < size[f[d]] BY <2>5, <2>2
    <3>3. size[f[d + 1]] + (d + 1) <= NodeCount BY <3>1, <3>2, <2>3, <1>0
    <3> QED BY <3>3, <2>1
  <2> QED BY <2>4, <2>5
<1>4. NodeCount \in G
  <2> HIDE DEF G
  <2>1. \A d \in 0 .. NodeCount : d \in G BY <1>0, <1>2, <1>3, TurnByTurn
  <2> QED BY <2>1, <1>0
<1>5. f[NodeCount] \in S BY <1>0, <1>1 DEF Runs
<1>6. ASSUME turn[f[NodeCount]] # f[NodeCount]
      PROVE  FALSE
  <2>1. size[f[NodeCount]] + NodeCount <= NodeCount BY <1>4, <1>6
  <2>2. size[f[NodeCount]] \in Nat /\ size[turn[f[NodeCount]]] \in Nat BY <1>5
  <2>3. size[turn[f[NodeCount]]] < size[f[NodeCount]] BY <1>5, <1>6
  <2> QED BY <2>1, <2>2, <2>3, <1>0
<1> QED BY <1>1, <1>5, <1>6

(* Loops whose turns do the same lead to the same. *)
LEMMA AfterAgrees ==
  ASSUME NEW S, NEW turn, NEW turn2, NEW first \in S,
         \A x \in S : turn[x] \in S /\ turn2[x] = turn[x]
  PROVE  After(turn, first) = After(turn2, first)
<1>0. NodeCount \in Nat BY NodeCountIs
<1>1. PICK f : Runs(f, NodeCount, S, turn, first) /\ After(turn, first) = f[NodeCount]
  BY AfterIs
<1>2. PICK h : Runs(h, NodeCount, S, turn2, first) /\ After(turn2, first) = h[NodeCount]
  BY AfterIs
<1> DEFINE G == {d \in 0 .. NodeCount : f[d] = h[d]}
<1>3. 0 \in G BY <1>0, <1>1, <1>2 DEF Runs
<1>4. ASSUME NEW d \in Nat, d < NodeCount, d \in G
      PROVE  d + 1 \in G
  <2>1. d + 1 \in 0 .. NodeCount /\ d \in 0 .. NodeCount BY <1>4, <1>0
  <2>2. f[d + 1] = turn[f[d]] /\ f[d] \in S BY <2>1, <1>1, <1>4 DEF Runs
  <2>3. h[d + 1] = turn2[h[d]] BY <1>2, <1>4 DEF Runs
  <2> QED BY <1>4, <2>1, <2>2, <2>3
<1>5. NodeCount \in G
  <2> HIDE DEF G
  <2>1. \A d \in 0 .. NodeCount : d \in G BY <1>0, <1>3, <1>4, TurnByTurn
  <2> QED BY <2>1, <1>0
<1> QED BY <1>1, <1>2, <1>5

-----------------------------------------------------------------------------
(* Trees. *)

(* The nodes below a link, as B knows them. *)
Under(B, n) == IF n = NULL THEN {} ELSE B[n]

(* Whether m belongs on side s of n. *)
Before(rank, s, m, n) == IF s = "left" THEN rank[m] < rank[n] ELSE rank[n] < rank[m]

Typed(t, B, T, R) == /\ t \in Trees /\ T \subseteq Nodes /\ B \in [Nodes -> SUBSET Nodes]
                     /\ R \subseteq [Nodes -> Int]

Rooted(t, B, T) == /\ T = Under(B, t.root)
                   /\ t.root # NULL => t.root \in T /\ t.parent[t.root] = NULL

(* Below a node are itself and, apart from each other, those below either  *)
(* child; and below any of them no others.                                 *)
Branching(t, B, T) ==
    \A n \in T :
        /\ \A s \in Sides :
              /\ B[n] = {n} \cup Under(B, t.child[s][n]) \cup Under(B, t.child[Other(s)][n])
              /\ n \notin Under(B, t.child[s][n])
              /\ Under(B, t.child[s][n]) \cap Under(B, t.child[Other(s)][n]) = {}
        /\ \A m \in B[n] : m \in T /\ B[m] \subseteq B[n]

(* Each child knows its parent, and each node but the root is a child. *)
Linked(t, T) ==
    /\ \A n \in T, s \in Sides :
          t.child[s][n] # NULL => t.child[s][n] \in T /\ t.parent[t.child[s][n]] = n
    /\ \A n \in T : n # t.root =>
          t.parent[n] \in T /\ \E s \in Sides : t.child[s][t.parent[n]] = n

Ordered(t, B, T, R) ==
    \A rank \in R, n \in T, s \in Sides : \A m \in Under(B, t.child[s][n]) : Before(rank, s, m, n)

(* t is a tree of the nodes T, B are those below each, and it is in order  *)
(* for all ranks of R.                                                     *)
Tree(t, B, T, R) ==
    Typed(t, B, T, R) /\ Rooted(t, B, T) /\ Branching(t, B, T) /\ Linked(t, T)
    /\ Ordered(t, B, T, R)

LEMMA TwoSides ==
  \A s \in Sides : /\ Other(s) \in Sides /\ Other(s) # s /\ Other(Other(s)) = s
                   /\ \A r \in Sides : r = s \/ r = Other(s)
BY DEF Sides, Other

(* Sets of nodes are finite, and one that loses a node is smaller. *)
LEMMA NodesFinite ==
  ASSUME NEW A \in SUBSET Nodes
  PROVE  IsFiniteSet(A) /\ Cardinality(A) \in Nat /\ Cardinality(A) <= NodeCount
BY NodeAssumption, FS_Subset, FS_CardinalityType DEF NodeCount

LEMMA FewerNodes ==
  ASSUME NEW A \in SUBSET Nodes, NEW C \in SUBSET A, NEW x \in A, x \notin C
  PROVE  Cardinality(C) < Cardinality(A)
<1>1. IsFiniteSet(A) BY NodesFinite
<1>2. C # A OBVIOUS
<1>3. Cardinality(C) <= Cardinality(A) /\ (Cardinality(C) = Cardinality(A) => C = A)
  BY <1>1, FS_Subset
<1>4. C \in SUBSET Nodes OBVIOUS
<1>5. Cardinality(C) \in Nat /\ Cardinality(A) \in Nat BY <1>4, NodesFinite
<1> QED BY <1>2, <1>3, <1>5

(* Of some nodes, one has the fewest below it. *)
LEMMA FewestBelow ==
  ASSUME NEW B \in [Nodes -> SUBSET Nodes], NEW X \in SUBSET Nodes, X # {}
  PROVE  \E x \in X : \A y \in X : ~(Cardinality(B[y]) < Cardinality(B[x]))
<1> DEFINE sizes == {Cardinality(B[x]) : x \in X}
<1>1. NodeCount \in Nat BY NodeCountIs
<1>2. \A x \in X : Cardinality(B[x]) \in 0 .. NodeCount
  <2>1. TAKE x \in X
  <2>2. B[x] \in SUBSET Nodes OBVIOUS
  <2> QED BY <2>2, <1>1, NodesFinite
<1>3. sizes \in SUBSET (0 .. NodeCount) BY <1>2
<1>4. sizes # {} OBVIOUS
<1>5. PICK k \in sizes : \A j \in sizes : k <= j
  <2> HIDE DEF sizes
  <2> QED BY <1>1, <1>3, <1>4, SmallestOf
<1>6. PICK x \in X : k = Cardinality(B[x]) BY <1>5
<1>7. \A y \in X : k <= Cardinality(B[y]) BY <1>5
<1>8. \A y \in X : Cardinality(B[y]) \in Int BY <1>2
<1> QED BY <1>6, <1>7, <1>8

(* What a child is. *)
LEMMA ChildIs ==
  ASSUME NEW t, NEW B, NEW T, NEW R, Tree(t, B, T, R), NEW n \in T, NEW s \in Sides,
         t.child[s][n] # NULL
  PROVE  /\ t.child[s][n] \in T /\ t.child[s][n] \in B[n] /\ t.child[s][n] # n
         /\ t.child[s][n] \in B[t.child[s][n]]
         /\ t.parent[t.child[s][n]] = n /\ t.child[s][n] # t.child[Other(s)][n]
         /\ t.child[s][n] # t.root
         /\ B[t.child[s][n]] \subseteq B[n] /\ n \notin B[t.child[s][n]]
         /\ Under(B, t.child[s][n]) = B[t.child[s][n]]
         /\ Cardinality(B[t.child[s][n]]) < Cardinality(B[n])
<1>1. PICK c : c = t.child[s][n] OBVIOUS
<1>2. c # NULL /\ Under(B, c) = B[c] BY <1>1 DEF Under
<1>3. c \in T /\ t.parent[c] = n BY <1>1, <1>2 DEF Tree, Linked
<1>4. n \in Nodes /\ c \in Nodes /\ B[c] \in SUBSET Nodes /\ B[n] \in SUBSET Nodes
  BY <1>3 DEF Tree, Typed
<1>5. /\ B[n] = {n} \cup B[c] \cup Under(B, t.child[Other(s)][n])
      /\ n \notin B[c] /\ B[c] \cap Under(B, t.child[Other(s)][n]) = {}
  BY <1>1, <1>2 DEF Tree, Branching
<1>6. c \in B[c] BY <1>3, TwoSides DEF Tree, Branching
<1>7. c # t.child[Other(s)][n] BY <1>2, <1>5, <1>6
<1>8. Cardinality(B[c]) < Cardinality(B[n]) BY <1>4, <1>5, FewerNodes
<1>9. c # t.root BY <1>2, <1>3, <1>4, NodeAssumption DEF Tree, Rooted
<1> QED BY <1>1, <1>2, <1>3, <1>5, <1>6, <1>7, <1>8, <1>9

(* What is below a node is what is below a child, or the node. *)
LEMMA BelowIs ==
  ASSUME NEW t, NEW B, NEW T, NEW R, Tree(t, B, T, R), NEW n \in T
  PROVE  /\ n \in B[n] /\ B[n] \subseteq T
         /\ \A m \in B[n] : m = n \/ \E s \in Sides : t.child[s][n] # NULL /\ m \in B[t.child[s][n]]
<1>1. /\ "left" \in Sides /\ Other("left") = "right" /\ "right" \in Sides BY DEF Sides, Other
<1>2. B[n] = {n} \cup Under(B, t.child["left"][n]) \cup Under(B, t.child["right"][n])
  BY <1>1 DEF Tree, Branching
<1>3. B[n] \subseteq T BY DEF Tree, Branching
<1> QED BY <1>1, <1>2, <1>3 DEF Under

(* A node outside is on one side of all that is below another one. *)
LEMMA OneSide ==
  ASSUME NEW t, NEW B, NEW T, NEW R, Tree(t, B, T, R), NEW a \in T, NEW m \in T, m \notin B[a]
  PROVE  \/ \A rank \in R : \A x \in B[a] : rank[x] < rank[m]
         \/ \A rank \in R : \A x \in B[a] : rank[m] < rank[x]
<1> DEFINE X == {c \in T : a \in B[c] /\ m \in B[c]}
<1>1. t.root \in X BY NodeAssumption DEF Tree, Rooted, Under
<1>2. PICK c \in X : \A y \in X : ~(Cardinality(B[y]) < Cardinality(B[c]))
  <2>1. X \in SUBSET Nodes /\ B \in [Nodes -> SUBSET Nodes] /\ X # {} BY <1>1 DEF Tree, Typed
  <2> HIDE DEF X
  <2> QED BY <2>1, FewestBelow
<1>3. \A s \in Sides : t.child[s][c] # NULL => t.child[s][c] \notin X
  BY <1>2, ChildIs
<1>4. c # a BY <1>2
<1>5. PICK s \in Sides : t.child[s][c] # NULL /\ a \in B[t.child[s][c]] BY <1>2, <1>4, BelowIs
<1>6. PICK d : d = t.child[s][c] OBVIOUS
<1>7. d \in T /\ a \in B[d] /\ B[a] \subseteq B[d] /\ Under(B, d) = B[d]
  <2>1. d \in T /\ a \in B[d] /\ Under(B, d) = B[d] BY <1>2, <1>5, <1>6, ChildIs
  <2> QED BY <2>1 DEF Tree, Branching
<1>8. m \notin B[d] BY <1>3, <1>5, <1>6, <1>7
<1>9. \A rank \in R : \A x \in B[a] : Before(rank, s, x, c)
  BY <1>2, <1>6, <1>7 DEF Tree, Ordered
<1>10. CASE m = c
  BY <1>9, <1>10 DEF Before, Sides
<1>11. CASE m # c
  <2>1. PICK r \in Sides : t.child[r][c] # NULL /\ m \in B[t.child[r][c]] BY <1>2, <1>11, BelowIs
  <2>2. r = Other(s) BY <2>1, <1>6, <1>8, TwoSides
  <2>3. Under(B, t.child[r][c]) = B[t.child[r][c]] BY <2>1 DEF Under
  <2>4. \A rank \in R : Before(rank, r, m, c)
    BY <1>2, <2>1, <2>3 DEF Tree, Ordered
  <2>5. /\ R \subseteq [Nodes -> Int] /\ m \in Nodes /\ c \in Nodes /\ B[a] \subseteq Nodes
    BY <1>2 DEF Tree, Typed
  <2>6. CASE s = "left"
    <3>1. r = "right" BY <2>6, <2>2 DEF Other
    <3>2. \A rank \in R : \A x \in B[a] : rank[x] < rank[m]
      <4>1. TAKE rank \in R
      <4>2. TAKE x \in B[a]
      <4>3. rank[x] \in Int /\ rank[m] \in Int /\ rank[c] \in Int BY <2>5
      <4>4. rank[x] < rank[c] /\ rank[c] < rank[m] BY <1>9, <2>4, <2>6, <3>1 DEF Before
      <4> QED BY <4>3, <4>4
    <3> QED BY <3>2
  <2>7. CASE s = "right"
    <3>1. r = "left" BY <2>7, <2>2 DEF Other
    <3>2. \A rank \in R : \A x \in B[a] : rank[m] < rank[x]
      <4>1. TAKE rank \in R
      <4>2. TAKE x \in B[a]
      <4>3. rank[x] \in Int /\ rank[m] \in Int /\ rank[c] \in Int BY <2>5
      <4>4. rank[c] < rank[x] /\ rank[m] < rank[c] BY <1>9, <2>4, <2>7, <3>1 DEF Before
      <4> QED BY <4>3, <4>4
    <3> QED BY <3>2
  <2> QED BY <2>6, <2>7 DEF Sides
<1> QED BY <1>10, <1>11

(* No two nodes have the same rank. *)
LEMMA RanksDiffer ==
  ASSUME NEW t, NEW B, NEW T, NEW R, Tree(t, B, T, R), NEW m \in T, NEW n \in T, m # n,
         NEW rank \in R
  PROVE  rank[m] # rank[n]
<1>1. rank[m] \in Int /\ rank[n] \in Int BY DEF Tree, Typed
<1>2. CASE m \notin B[n]
  <2>1. n \in B[n] BY BelowIs
  <2>2. rank[n] < rank[m] \/ rank[m] < rank[n] BY <1>2, <2>1, OneSide
  <2> QED BY <1>1, <2>2
<1>3. CASE m \in B[n]
  <2>1. PICK s \in Sides : t.child[s][n] # NULL /\ m \in B[t.child[s][n]] BY <1>3, BelowIs
  <2>2. Before(rank, s, m, n) BY <2>1 DEF Tree, Ordered, Under
  <2> QED BY <1>1, <2>2 DEF Before
<1> QED BY <1>2, <1>3

-----------------------------------------------------------------------------
(* The first node and the next. *)

(* Which side of x a node is on, it can only be on one, and beyond it is   *)
(* the same side.                                                          *)
LEMMA BeforeIs ==
  ASSUME NEW rank \in [Nodes -> Int], NEW s \in Sides, NEW x \in Nodes, NEW y \in Nodes,
         NEW z \in Nodes
  PROVE  /\ Before(rank, s, x, y) <=> Before(rank, Other(s), y, x)
         /\ ~(Before(rank, s, x, y) /\ Before(rank, s, y, x))
         /\ Before(rank, s, x, y) /\ Before(rank, s, y, z) => Before(rank, s, x, z)
<1>1. rank[x] \in Int /\ rank[y] \in Int /\ rank[z] \in Int OBVIOUS
<1>2. CASE s = "left"
  <2>1. Other(s) = "right" BY <1>2 DEF Other
  <2> QED BY <1>1, <1>2, <2>1 DEF Before
<1>3. CASE s = "right"
  <2>1. Other(s) = "left" BY <1>3 DEF Other
  <2> QED BY <1>1, <1>3, <2>1 DEF Before
<1> QED BY <1>2, <1>3 DEF Sides

(* Furthest goes to the end on side s of what is below n. *)
LEMMA FurthestIs ==
  ASSUME NEW t, NEW B, NEW T, NEW R, Tree(t, B, T, R), NEW n \in T, NEW s \in Sides
  PROVE  /\ Furthest(t, n, s) \in B[n] /\ t.child[s][Furthest(t, n, s)] = NULL
         /\ \A rank \in R, m \in B[n] :
               m # Furthest(t, n, s) => Before(rank, s, Furthest(t, n, s), m)
<1> DEFINE S == {m \in B[n] : \A rank \in R : \A x \in B[n] \ B[m] : \A y \in B[m] :
                                 Before(rank, s, y, x)}
<1> DEFINE turn == [m \in Nodes |-> IF t.child[s][m] = NULL THEN m ELSE t.child[s][m]]
<1> DEFINE size == [m \in S |-> Cardinality(B[m])]
<1>1. /\ B \in [Nodes -> SUBSET Nodes] /\ T \subseteq Nodes /\ R \subseteq [Nodes -> Int]
      /\ n \in B[n] /\ B[n] \subseteq T
  BY BelowIs DEF Tree, Typed
<1>2. n \in S BY <1>1
<1>3. size \in [S -> Nat] /\ size[n] <= NodeCount
  <2>1. \A m \in S : Cardinality(B[m]) \in Nat /\ Cardinality(B[m]) <= NodeCount
    <3>1. TAKE m \in S
    <3>2. B[m] \in SUBSET Nodes BY ZenonT(30), <1>1
    <3> QED BY <3>2, NodesFinite
  <2> QED BY <1>2, <2>1
<1>4. ASSUME NEW m \in S
      PROVE  turn[m] \in S /\ (turn[m] = m \/ size[turn[m]] < size[m])
  <2>1. m \in T /\ m \in Nodes BY <1>1
  <2>2. CASE t.child[s][m] = NULL BY <2>1, <2>2
  <2>3. CASE t.child[s][m] # NULL
    <3>1. PICK c : c = t.child[s][m] OBVIOUS
    <3>2. turn[m] = c BY <2>1, <2>3, <3>1
    <3>3. /\ c \in T /\ c \in B[m] /\ B[c] \subseteq B[m] /\ Under(B, c) = B[c]
          /\ Cardinality(B[c]) < Cardinality(B[m])
      BY <2>1, <2>3, <3>1, ChildIs
    <3>4. c \in B[n]
      <4>1. B[m] \subseteq B[n] BY DEF Tree, Branching
      <4> QED BY <4>1, <3>3
    <3>5. ASSUME NEW rank \in R, NEW x \in B[n] \ B[c], NEW y \in B[c]
          PROVE  Before(rank, s, y, x)
      <4>1. CASE x \notin B[m] BY <4>1, <3>3, <3>5
      <4>2. CASE x \in B[m]
        <5>1. rank \in [Nodes -> Int] /\ x \in Nodes /\ y \in Nodes BY <1>1, <3>3
        <5>2. Before(rank, s, y, m) BY <2>1, <3>1, <3>3 DEF Tree, Ordered
        <5>3. CASE x = m BY <5>2, <5>3
        <5>4. CASE x # m
          <6>1. PICK r \in Sides : t.child[r][m] # NULL /\ x \in B[t.child[r][m]]
            BY <2>1, <4>2, <5>4, BelowIs
          <6>2. r = Other(s) BY <6>1, <3>1, TwoSides
          <6>3. Before(rank, r, x, m) BY <2>1, <6>1 DEF Tree, Ordered, Under
          <6>4. Other(r) = s BY <6>2, TwoSides
          <6>5. Before(rank, s, m, x) BY <6>3, <6>4, <5>1, <2>1, BeforeIs
          <6> QED BY <5>1, <5>2, <6>5, <2>1, BeforeIs
        <5> QED BY <5>3, <5>4
      <4> QED BY <4>1, <4>2
    <3>6. c \in S BY <3>4, <3>5
    <3> QED BY <3>2, <3>3, <3>6
  <2> QED BY <2>2, <2>3
<1>5. Furthest(t, n, s) = After(turn, n) BY DEF Furthest
<1>6. After(turn, n) \in S /\ turn[After(turn, n)] = After(turn, n)
  <2> HIDE DEF S, turn, size
  <2> QED BY <1>2, <1>3, <1>4, AfterSettles
<1>7. PICK f : f = Furthest(t, n, s) BY Zenon
<1>8. f \in S /\ turn[f] = f BY <1>5, <1>6, <1>7
<1>9. f \in T /\ f \in Nodes /\ f \in B[n] BY <1>1, <1>8
<1>10. t.child[s][f] = NULL
  <2>1. SUFFICES ASSUME t.child[s][f] # NULL PROVE FALSE OBVIOUS
  <2>2. t.child[s][f] = f BY <1>8, <1>9, <2>1
  <2> QED BY <1>9, <2>1, <2>2, ChildIs
<1>11. ASSUME NEW rank \in R, NEW m \in B[n], m # f
       PROVE  Before(rank, s, f, m)
  <2>1. f \in B[f] BY <1>9, BelowIs
  <2>2. CASE m \notin B[f] BY <1>8, <2>1, <2>2
  <2>3. CASE m \in B[f]
    <3>1. PICK r \in Sides : t.child[r][f] # NULL /\ m \in B[t.child[r][f]]
      BY <1>9, <1>11, <2>3, BelowIs
    <3>2. r = Other(s) /\ Other(r) = s BY <3>1, <1>10, TwoSides
    <3>3. Before(rank, r, m, f) BY <1>9, <3>1 DEF Tree, Ordered, Under
    <3>4. rank \in [Nodes -> Int] /\ m \in Nodes BY <1>1
    <3> QED BY <3>2, <3>3, <3>4, <1>9, BeforeIs
  <2> QED BY <2>2, <2>3
<1> QED BY <1>7, <1>9, <1>10, <1>11

(* RB_MIN is before all others. *)
IsMin(n, T, R) == n \in T /\ \A rank \in R, m \in T : m # n => rank[n] < rank[m]

(* RB_MIN is the first node, and NULL only in the empty tree. *)
LEMMA MinIs ==
  ASSUME NEW t, NEW B, NEW T, NEW R, Tree(t, B, T, R)
  PROVE  /\ t.root = NULL <=> T = {}
         /\ T = {} => RB_MIN(t) = NULL
         /\ T # {} => IsMin(RB_MIN(t), T, R) /\ t.child["left"][RB_MIN(t)] = NULL
<1>1. CASE t.root = NULL
  <2>1. T = {} BY <1>1 DEF Tree, Rooted, Under
  <2>2. RB_MIN(t) = NULL BY <1>1 DEF RB_MIN, RB_MINMAX
  <2> QED BY <1>1, <2>1, <2>2
<1>2. CASE t.root # NULL
  <2>1. t.root \in T /\ T = B[t.root] BY <1>2 DEF Tree, Rooted, Under
  <2>2. RB_MIN(t) = Furthest(t, t.root, "left") BY <1>2 DEF RB_MIN, RB_MINMAX
  <2>3. "left" \in Sides BY DEF Sides
  <2>4. PICK f : f = RB_MIN(t) OBVIOUS
  <2>5. /\ f \in T /\ t.child["left"][f] = NULL
        /\ \A rank \in R, m \in T : m # f => Before(rank, "left", f, m)
    BY <2>1, <2>2, <2>3, <2>4, FurthestIs
  <2>6. IsMin(f, T, R) BY <2>5 DEF Before, IsMin
  <2> QED BY <1>2, <2>1, <2>4, <2>5, <2>6
<1> QED BY <1>1, <1>2

(* Only one node is before all others, by any of the ranks. *)
LEMMA MinUnique ==
  ASSUME NEW T, NEW R, NEW Q, NEW m, NEW n, IsMin(m, T, R), IsMin(n, T, Q),
         NEW rank \in R \cap Q, rank \in [T -> Int]
  PROVE  m = n
<1>1. m \in T /\ n \in T /\ rank[m] \in Int /\ rank[n] \in Int BY DEF IsMin
<1>2. m # n => rank[m] < rank[n] /\ rank[n] < rank[m] BY <1>1 DEF IsMin
<1> QED BY <1>1, <1>2

(* RB_NEXT of the first node is the first of the others. *)
LEMMA NextOfMin ==
  ASSUME NEW t, NEW B, NEW T, NEW R, Tree(t, B, T, R), R # {}, NEW n, n = RB_MIN(t), T # {}
  PROVE  /\ T = {n} => RB_NEXT(t, n) = NULL
         /\ T # {n} => IsMin(RB_NEXT(t, n), T \ {n}, R)
<1>1. IsMin(n, T, R) /\ n \in T /\ t.child["left"][n] = NULL BY MinIs DEF IsMin
<1>2. "left" \in Sides /\ "right" \in Sides /\ Other("right") = "left" /\ Other("left") = "right"
  BY DEF Sides, Other
<1>3. /\ T \subseteq Nodes /\ n \in Nodes
      /\ \A rank \in R, x \in T : rank[x] \in Int
  BY <1>1 DEF Tree, Typed
<1>4. PICK r \in R : TRUE OBVIOUS
<1>5. PICK c : c = t.child["right"][n] OBVIOUS
<1>6. B[n] = {n} \cup Under(B, c)
  <2>1. Under(B, t.child["left"][n]) = {} BY <1>1 DEF Under
  <2> QED BY <1>1, <1>2, <1>5, <2>1 DEF Tree, Branching
<1>7. \A m \in T : m \notin B[n] => \A rank \in R : \A x \in B[n] : rank[x] < rank[m]
  <2>1. SUFFICES ASSUME NEW m \in T, m \notin B[n]
                 PROVE  \A rank \in R : \A x \in B[n] : rank[x] < rank[m]
    OBVIOUS
  <2>2. n \in B[n] BY <1>1, BelowIs
  <2>3. r[n] < r[m] BY <1>1, <1>4, <2>1, <2>2 DEF IsMin
  <2>4. ~(r[m] < r[n]) BY <1>1, <1>3, <1>4, <2>3
  <2> QED BY <1>1, <1>4, <2>1, <2>2, <2>4, OneSide
<1>8. CASE c # NULL
  <2>1. c \in T /\ B[c] \subseteq B[n] /\ n \notin B[c] /\ Under(B, c) = B[c]
    BY <1>1, <1>2, <1>5, <1>8, ChildIs
  <2>2. RB_NEXT(t, n) = Furthest(t, c, "left")
    BY <1>2, <1>5, <1>8 DEF RB_NEXT, Neighbour
  <2>3. PICK f : f = Furthest(t, c, "left") OBVIOUS
  <2>4. f \in B[c] /\ \A rank \in R, m \in B[c] : m # f => Before(rank, "left", f, m)
    BY <1>2, <2>1, <2>3, FurthestIs
  <2>5. B[c] \subseteq T BY <2>1, BelowIs
  <2>6. f \in T \ {n} BY <2>1, <2>4, <2>5
  <2>7. ASSUME NEW rank \in R, NEW m \in T \ {n}, m # f
        PROVE  rank[f] < rank[m]
    <3>1. CASE m \in B[c] BY <2>4, <2>7, <3>1 DEF Before
    <3>2. CASE m \notin B[c]
      <4>1. m \notin B[n] BY <1>6, <2>1, <3>2
      <4> QED BY <1>7, <2>1, <2>4, <4>1
    <3> QED BY <3>1, <3>2
  <2>8. IsMin(f, T \ {n}, R) BY <2>6, <2>7 DEF IsMin
  <2> QED BY <2>2, <2>3, <2>6, <2>8
<1>9. CASE c = NULL
  <2>1. B[n] = {n} BY <1>6, <1>9 DEF Under
  <2>2. RB_NEXT(t, n) = UpFrom(t, n, "right") BY <1>5, <1>9 DEF RB_NEXT, Neighbour
  <2>3. PICK p : p = t.parent[n] OBVIOUS
  <2>4. CASE n = t.root
    <3>1. p = NULL /\ T = {n}
      BY <1>3, <2>1, <2>3, <2>4, NodeAssumption DEF Tree, Rooted, Under
    <3>2. UpFrom(t, n, "right") = NULL
      <4> DEFINE Done(m) == t.parent[m] = NULL \/ t.child["right"][t.parent[m]] # m
      <4> DEFINE turn == [m \in Nodes |-> IF Done(m) THEN m ELSE t.parent[m]]
      <4> DEFINE size == [m \in {n} |-> 0]
      <4>1. turn[n] = n BY <1>3, <2>3, <3>1
      <4>2. /\ size \in [{n} -> Nat] /\ size[n] <= NodeCount
            /\ \A m \in {n} : turn[m] \in {n} /\ (turn[m] = m \/ size[turn[m]] < size[m])
        BY <4>1, NodeCountIs
      <4>3. After(turn, n) \in {n}
        <5> HIDE DEF turn, size
        <5> QED BY <4>2, AfterSettles
      <4> QED BY <2>3, <3>1, <4>3 DEF UpFrom
    <3> QED BY <2>2, <3>1, <3>2
  <2>5. CASE n # t.root
    <3>1. PICK s \in Sides : p \in T /\ t.child[s][p] = n
      BY <1>1, <2>3, <2>5 DEF Tree, Linked
    <3>2. n # NULL /\ p # NULL BY <1>3, <3>1, NodeAssumption
    <3>3. n \in B[p] /\ p # n /\ Under(B, n) = B[n]
      BY <3>1, <3>2, ChildIs
    <3>4. r[n] < r[p] /\ r[n] \in Int /\ r[p] \in Int BY <1>1, <1>3, <1>4, <3>1, <3>3 DEF IsMin
    <3>5. Before(r, s, n, p)
      <4>1. n \in Under(B, t.child[s][p]) BY <3>1, <3>3, <2>1
      <4> QED BY <3>1, <4>1, <1>4 DEF Tree, Ordered
    <3>6. s = "left" BY <3>4, <3>5 DEF Before
    <3>7. t.child["right"][p] # n BY <1>2, <3>1, <3>2, <3>6, ChildIs
    <3>8. UpFrom(t, n, "right") = p
      <4> DEFINE Done(m) == t.parent[m] = NULL \/ t.child["right"][t.parent[m]] # m
      <4> DEFINE turn == [m \in Nodes |-> IF Done(m) THEN m ELSE t.parent[m]]
      <4> DEFINE size == [m \in {n} |-> 0]
      <4>1. turn[n] = n BY <1>3, <2>3, <3>7
      <4>2. /\ size \in [{n} -> Nat] /\ size[n] <= NodeCount
            /\ \A m \in {n} : turn[m] \in {n} /\ (turn[m] = m \/ size[turn[m]] < size[m])
        BY <4>1, NodeCountIs
      <4>3. After(turn, n) \in {n}
        <5> HIDE DEF turn, size
        <5> QED BY <4>2, AfterSettles
      <4> QED BY <2>3, <4>3 DEF UpFrom
    <3>9. ASSUME NEW rank \in R, NEW m \in T \ {n}, m # p
          PROVE  rank[p] < rank[m]
      <4>1. CASE m \in B[p]
        <5>1. PICK u \in Sides : t.child[u][p] # NULL /\ m \in B[t.child[u][p]]
          BY <3>1, <3>9, <4>1, BelowIs
        <5>2. u # "left"
          <6>1. ASSUME u = "left" PROVE FALSE
            <7>1. m \in B[n] BY <5>1, <6>1, <3>1, <3>6
            <7> QED BY <7>1, <2>1
          <6> QED BY <6>1
        <5>3. u = "right" BY <5>2 DEF Sides
        <5>4. Before(rank, u, m, p) BY <3>1, <5>1 DEF Tree, Ordered, Under
        <5> QED BY <5>3, <5>4 DEF Before
      <4>2. CASE m \notin B[p]
        <5>1. r[n] < r[m] /\ r[m] \in Int BY <1>1, <1>3, <1>4 DEF IsMin
        <5>2. ~(r[m] < r[n]) BY <5>1, <3>4
        <5>3. p \in B[p] BY <3>1, BelowIs
        <5> QED BY <1>4, <3>1, <3>3, <4>2, <5>2, <5>3, OneSide
      <4> QED BY <4>1, <4>2
    <3>10. IsMin(p, T \ {n}, R) BY <3>1, <3>3, <3>9 DEF IsMin
    <3> QED BY <2>2, <3>1, <3>3, <3>8, <3>10
  <2> QED BY <2>4, <2>5
<1> QED BY <1>8, <1>9

(* What the model gathers below a node is what B knows. *)
LEMMA BelowUnder ==
  ASSUME NEW t, NEW B, NEW T, NEW R, Tree(t, B, T, R), NEW n \in T \cup {NULL}
  PROVE  Below(t, n) = Under(B, n)
<1> DEFINE Reached(A) == A \cup {t.child[e[1]][e[2]] : e \in Sides \X (A \ {NULL})}
<1> DEFINE turn == [A \in SUBSET Links |-> Reached(A)]
<1> DEFINE S == {A \in SUBSET Links : n \in A /\ A \subseteq Under(B, n) \cup {NULL}}
<1> DEFINE size == [A \in S |-> NodeCount + 1 - Cardinality(A)]
<1>1. /\ B \in [Nodes -> SUBSET Nodes] /\ T \subseteq Nodes
      /\ IsFiniteSet(Links) /\ Cardinality(Links) = NodeCount + 1 /\ NodeCount \in Nat
  <2>1. B \in [Nodes -> SUBSET Nodes] /\ T \subseteq Nodes BY DEF Tree, Typed
  <2>2. IsFiniteSet(Links) BY NodeAssumption, FS_AddElement DEF Links
  <2>3. Cardinality(Links) = NodeCount + 1
    BY NodeAssumption, FS_AddElement DEF Links, NodeCount
  <2> QED BY <2>1, <2>2, <2>3, NodeCountIs
<1>2. \A A \in SUBSET Links : Cardinality(A) \in Nat /\ Cardinality(A) <= NodeCount + 1
                              /\ IsFiniteSet(A)
  BY <1>1, FS_Subset, FS_CardinalityType
<1>3. Under(B, n) \subseteq T
  BY BelowIs DEF Under
<1>4. \A x \in Under(B, n), s \in Sides : t.child[s][x] \in Under(B, n) \cup {NULL}
  <2>1. SUFFICES ASSUME NEW x \in Under(B, n), NEW s \in Sides, t.child[s][x] # NULL
                 PROVE  t.child[s][x] \in Under(B, n)
    OBVIOUS
  <2>2. n \in T /\ Under(B, n) = B[n] /\ x \in T BY <1>3 DEF Under
  <2>3. t.child[s][x] \in B[x] BY <2>1, <2>2, ChildIs
  <2>4. B[x] \subseteq B[n] BY <2>2 DEF Tree, Branching
  <2> QED BY <2>2, <2>3, <2>4
<1>5. {n} \in S
  <2>1. n \in Under(B, n) \cup {NULL} BY BelowIs DEF Under
  <2>2. n \in Links BY <1>1 DEF Links
  <2> QED BY <2>1, <2>2
<1>6. size \in [S -> Nat] /\ size[{n}] <= NodeCount
  <2>1. \A A \in S : NodeCount + 1 - Cardinality(A) \in Nat BY <1>1, <1>2
  <2>2. Cardinality({n}) = 1 BY FS_Singleton
  <2>3. size[{n}] = NodeCount + 1 - 1 BY <1>5, <2>2
  <2> QED BY <2>1, <2>3, <1>1
<1>7. ASSUME NEW A \in S
      PROVE  turn[A] \in S /\ (turn[A] = A \/ size[turn[A]] < size[A])
  <2>1. PICK C : C = Reached(A) OBVIOUS
  <2>2. turn[A] = C BY <2>1
  <2>3. C \in S
    <3>1. \A e \in Sides \X (A \ {NULL}) : t.child[e[1]][e[2]] \in Under(B, n) \cup {NULL}
      <4>1. TAKE e \in Sides \X (A \ {NULL})
      <4>2. e[1] \in Sides /\ e[2] \in Under(B, n) OBVIOUS
      <4> QED BY <4>2, <1>4
    <3>2. C \subseteq Under(B, n) \cup {NULL} BY <2>1, <3>1
    <3>3. C \subseteq Links BY <3>2, <1>1, <1>3 DEF Links
    <3> QED BY <2>1, <3>2, <3>3
  <2>4. CASE C # A
    <3>1. A \subseteq C BY <2>1
    <3>2. IsFiniteSet(C) /\ Cardinality(C) \in Nat /\ Cardinality(A) \in Nat BY <1>2, <2>3
    <3>3. Cardinality(A) <= Cardinality(C) /\ Cardinality(A) # Cardinality(C)
      BY <2>4, <3>1, <3>2, FS_Subset
    <3>4. size[C] = NodeCount + 1 - Cardinality(C) /\ size[A] = NodeCount + 1 - Cardinality(A)
      BY <2>3
    <3>5. size[C] < size[A] BY <3>2, <3>3, <3>4, <1>1
    <3> QED BY <2>2, <2>3, <3>5
  <2> QED BY <2>2, <2>3, <2>4
<1>8. Below(t, n) = After(turn, {n}) \ {NULL} BY DEF Below
<1>9. After(turn, {n}) \in S /\ turn[After(turn, {n})] = After(turn, {n})
  <2> HIDE DEF S, turn, size
  <2> QED BY <1>5, <1>6, <1>7, AfterSettles
<1>10. PICK A : A = After(turn, {n}) OBVIOUS
<1>11. A \in S /\ Reached(A) = A BY Zenon, <1>9, <1>10
<1>12. \A x \in A \ {NULL}, s \in Sides : t.child[s][x] \in A
  <2>1. TAKE x \in A \ {NULL}, s \in Sides
  <2>2. <<s, x>> \in Sides \X (A \ {NULL}) OBVIOUS
  <2>3. t.child[<<s, x>>[1]][<<s, x>>[2]] \in Reached(A) BY <2>2
  <2> QED BY <2>3, <1>11
<1>13. Under(B, n) \subseteq A
  <2>1. SUFFICES ASSUME NEW m \in Under(B, n), m \notin A PROVE FALSE OBVIOUS
  <2>2. n \in T /\ Under(B, n) = B[n] /\ n # NULL BY <1>1, NodeAssumption DEF Under
  <2> DEFINE X == {x \in A \ {NULL} : m \in B[x]}
  <2>3. n \in X BY <2>1, <2>2, <1>11
  <2>4. X \subseteq T BY <1>3, <1>11
  <2>5. PICK x \in X : \A y \in X : ~(Cardinality(B[y]) < Cardinality(B[x]))
    <3>1. X \in SUBSET Nodes /\ X # {} BY <2>3, <2>4, <1>1
    <3> HIDE DEF X
    <3> QED BY <3>1, <1>1, FewestBelow
  <2>6. x \in T /\ m # x /\ m \in B[x] BY <2>1, <2>4, <2>5
  <2>7. PICK s \in Sides : t.child[s][x] # NULL /\ m \in B[t.child[s][x]] BY <2>6, BelowIs
  <2>8. t.child[s][x] \in X BY <1>12, <2>5, <2>7
  <2>9. Cardinality(B[t.child[s][x]]) < Cardinality(B[x]) BY <2>6, <2>7, ChildIs
  <2> QED BY <2>5, <2>8, <2>9
<1>14. NULL \notin Under(B, n) BY <1>1, <1>3, NodeAssumption
<1>15. A \subseteq Under(B, n) \cup {NULL} BY <1>11
<1>16. A \ {NULL} = Under(B, n) BY <1>13, <1>14, <1>15
<1> QED
  <2> HIDE DEF turn
  <2> QED BY <1>8, <1>10, <1>16

(* The nodes the walk of the properties reaches are those of the tree. *)
LEMMA InTreeIs ==
  ASSUME NEW t, NEW B, NEW T, NEW R, Tree(t, B, T, R)
  PROVE  InTree(t) = T
<1>1. t.root \in T \cup {NULL} /\ Under(B, t.root) = T BY DEF Tree, Rooted
<1> QED BY <1>1, BelowUnder DEF InTree

(* The model's own conditions hold of a tree. *)
LEMMA TreeIsSound ==
  ASSUME NEW t, NEW B, NEW T, NEW R, Tree(t, B, T, R)
  PROVE  LinksAgree(t) /\ \A rank \in R : InOrder(t, rank)
<1>1. InTree(t) = T BY InTreeIs
<1>2. "left" \in Sides /\ "right" \in Sides /\ Other("right") = "left" /\ Other("left") = "right"
  BY DEF Sides, Other
<1>3. LinksAgree(t)
  <2>1. t.root # NULL => t.parent[t.root] = NULL BY DEF Tree, Rooted
  <2>2. \A n \in T, s \in Sides : t.child[s][n] # NULL => t.parent[t.child[s][n]] = n
    BY DEF Tree, Linked
  <2>3. \A n \in T : t.child["left"][n] # NULL => t.child["left"][n] # t.child["right"][n]
    BY <1>2, ChildIs
  <2> QED BY <1>1, <2>1, <2>2, <2>3 DEF LinksAgree
<1>4. \A n \in T, s \in Sides : Below(t, t.child[s][n]) = Under(B, t.child[s][n])
  <2>1. TAKE n \in T, s \in Sides
  <2>2. t.child[s][n] \in T \cup {NULL} BY DEF Tree, Linked
  <2> QED BY <2>2, BelowUnder
<1>5. ASSUME NEW rank \in R PROVE InOrder(t, rank)
  <2>1. \A n \in T, s \in Sides : \A m \in Below(t, t.child[s][n]) : Before(rank, s, m, n)
    BY <1>4, <1>5 DEF Tree, Ordered
  <2>2. \A n \in T : \A m \in Below(t, t.child["left"][n]) : rank[m] < rank[n]
    BY <1>2, <2>1 DEF Before
  <2>3. \A n \in T : \A m \in Below(t, t.child["right"][n]) : rank[m] > rank[n]
    <3>1. TAKE n \in T
    <3>2. TAKE m \in Below(t, t.child["right"][n])
    <3>3. Before(rank, "right", m, n) BY <1>2, <2>1
    <3>4. m \in Under(B, t.child["right"][n]) BY <1>2, <1>4
    <3>5. m \in B[n] BY <3>4, <1>2 DEF Tree, Branching
    <3>6. m \in T BY <3>5, BelowIs
    <3>7. rank[m] \in Int /\ rank[n] \in Int BY <3>6, <1>5 DEF Tree, Typed
    <3> QED BY <3>3, <3>7 DEF Before
  <2> QED BY <1>1, <2>2, <2>3 DEF InOrder
<1> QED BY <1>3, <1>5

-----------------------------------------------------------------------------
(* The way down. *)

(* The side of n on which rank k is looked for. *)
Toward(rank, k, n) == IF k < rank[n] THEN "left" ELSE "right"

(* The way down ends at a node of that rank, or where one would hang; and  *)
(* what is not below there has another rank, on the same side of k.        *)
WayEnds(t, B, T, R, rank, k, p) ==
    /\ p \in T
    /\ rank[p] = k \/ t.child[Toward(rank, k, p)][p] = NULL
    /\ rank \in R => \A a \in T \ B[p] : rank[a] # k /\ (rank[a] < k <=> rank[a] < rank[p])

(* WayTo ends at the node of that rank, or at the place where it belongs. *)
LEMMA WayIs ==
  ASSUME NEW t, NEW B, NEW T, NEW R, Tree(t, B, T, R), t.root # NULL,
         NEW rank \in [Nodes -> Int], NEW k \in Int
  PROVE  WayEnds(t, B, T, R, rank, k, WayTo(t, rank, k, t.root))
<1> DEFINE S == {m \in T : rank \in R => \A a \in T \ B[m] :
                              rank[a] # k /\ (rank[a] < k <=> rank[a] < rank[m])}
<1> DEFINE Down(m) == IF rank[m] = k THEN NULL ELSE t.child[Toward(rank, k, m)][m]
<1> DEFINE turn == [m \in Nodes |-> IF Down(m) = NULL THEN m ELSE Down(m)]
<1> DEFINE size == [m \in S |-> Cardinality(B[m])]
<1>1. /\ B \in [Nodes -> SUBSET Nodes] /\ T \subseteq Nodes /\ R \subseteq [Nodes -> Int]
  BY DEF Tree, Typed
<1>2. t.root \in S
  <2>1. t.root \in T /\ T = B[t.root] BY DEF Tree, Rooted, Under
  <2> QED BY <2>1
<1>3. size \in [S -> Nat] /\ size[t.root] <= NodeCount
  <2>1. \A m \in S : Cardinality(B[m]) \in Nat /\ Cardinality(B[m]) <= NodeCount
    <3>1. TAKE m \in S
    <3>2. B[m] \in SUBSET Nodes BY ZenonT(30), <1>1
    <3> QED BY <3>2, NodesFinite
  <2> QED BY <1>2, <2>1
<1>4. ASSUME NEW m \in S
      PROVE  turn[m] \in S /\ (turn[m] = m \/ size[turn[m]] < size[m])
  <2>1. m \in T /\ m \in Nodes BY <1>1
  <2>2. CASE Down(m) = NULL BY <2>1, <2>2
  <2>3. CASE Down(m) # NULL
    <3>1. PICK s : s = Toward(rank, k, m) OBVIOUS
    <3>2. PICK c : c = t.child[s][m] OBVIOUS
    <3>3. s \in Sides /\ rank[m] # k /\ c # NULL /\ turn[m] = c
      BY <2>1, <2>3, <3>1, <3>2 DEF Toward, Sides
    <3>4. /\ c \in T /\ c \in B[m] /\ B[c] \subseteq B[m] /\ Under(B, c) = B[c]
          /\ Cardinality(B[c]) < Cardinality(B[m]) /\ c \in B[c]
      BY <2>1, <3>2, <3>3, ChildIs
    <3>5. ASSUME rank \in R, NEW a \in T \ B[c]
          PROVE  rank[a] # k /\ (rank[a] < k <=> rank[a] < rank[c])
      <4>1. rank[a] \in Int /\ rank[m] \in Int /\ rank[c] \in Int BY <1>1, <2>1, <3>4, <3>5
      <4>2. Before(rank, s, c, m) BY <2>1, <3>2, <3>3, <3>4, <3>5 DEF Tree, Ordered
      <4>3. s = "left" => k < rank[m] /\ rank[c] < rank[m] BY <3>1, <4>2 DEF Before, Toward
      <4>4. s = "right" => rank[m] < k /\ rank[m] < rank[c]
        BY <3>1, <3>3, <4>1, <4>2 DEF Before, Toward
      <4>5. CASE a = m BY <4>1, <4>3, <4>4, <4>5, <3>3 DEF Sides
      <4>6. CASE a \in B[m] /\ a # m
        <5>1. PICK r \in Sides : t.child[r][m] # NULL /\ a \in B[t.child[r][m]]
          BY <2>1, <4>6, BelowIs
        <5>2. r = Other(s) BY <5>1, <3>2, <3>3, <3>5, TwoSides
        <5>3. Before(rank, r, a, m) BY <2>1, <3>5, <5>1 DEF Tree, Ordered, Under
        <5>4. s = "left" => rank[m] < rank[a] BY <5>2, <5>3 DEF Before, Other
        <5>5. s = "right" => rank[a] < rank[m] BY <5>2, <5>3 DEF Before, Other
        <5> QED BY <3>3, <4>1, <4>3, <4>4, <5>4, <5>5 DEF Sides
      <4>7. CASE a \notin B[m]
        <5>1. rank[a] # k /\ (rank[a] < k <=> rank[a] < rank[m]) BY <3>5, <4>7
        <5>2. m \in B[m] BY <2>1, BelowIs
        <5>3. \/ rank[m] < rank[a] /\ rank[c] < rank[a]
              \/ rank[a] < rank[m] /\ rank[a] < rank[c]
          BY <2>1, <3>4, <3>5, <4>7, <5>2, OneSide
        <5> QED BY <4>1, <5>1, <5>3
      <4> QED BY <4>5, <4>6, <4>7
    <3>6. c \in S BY <3>4, <3>5
    <3> QED BY <3>3, <3>4, <3>6
  <2> QED BY ZenonT(30), <2>2, <2>3
<1>5. WayTo(t, rank, k, t.root) = After(turn, t.root) BY DEF WayTo, Toward
<1>6. After(turn, t.root) \in S /\ turn[After(turn, t.root)] = After(turn, t.root)
  <2> HIDE DEF S, turn, size
  <2> QED BY <1>2, <1>3, <1>4, AfterSettles
<1>7. PICK p : p = WayTo(t, rank, k, t.root) OBVIOUS
<1>8. p \in S /\ turn[p] = p BY Zenon, <1>5, <1>6, <1>7
<1>9. p \in T /\ p \in Nodes BY <1>1, <1>8
<1>10. rank[p] = k \/ t.child[Toward(rank, k, p)][p] = NULL
  <2>1. SUFFICES ASSUME rank[p] # k, t.child[Toward(rank, k, p)][p] # NULL PROVE FALSE OBVIOUS
  <2>2. PICK s : s = Toward(rank, k, p) OBVIOUS
  <2>3. s \in Sides BY <2>2 DEF Toward, Sides
  <2>4. t.child[s][p] = p BY <1>8, <1>9, <2>1, <2>2
  <2> QED BY <1>9, <2>1, <2>2, <2>3, <2>4, ChildIs
<1>11. WayEnds(t, B, T, R, rank, k, p)
  BY <1>8, <1>10 DEF WayEnds
<1> QED BY <1>7, <1>11

(* The way only depends on the ranks of the nodes in the tree. *)
LEMMA WayAgrees ==
  ASSUME NEW t, NEW B, NEW T, NEW R, Tree(t, B, T, R), t.root # NULL,
         NEW rank, NEW rank2, \A m \in T : rank2[m] = rank[m], NEW k
  PROVE  WayTo(t, rank, k, t.root) = WayTo(t, rank2, k, t.root)
<1> DEFINE Down(ra, m) == IF ra[m] = k THEN NULL ELSE t.child[Toward(ra, k, m)][m]
<1> DEFINE turn == [m \in Nodes |-> IF Down(rank, m) = NULL THEN m ELSE Down(rank, m)]
<1> DEFINE turn2 == [m \in Nodes |-> IF Down(rank2, m) = NULL THEN m ELSE Down(rank2, m)]
<1>1. t.root \in T /\ T \subseteq Nodes BY DEF Tree, Rooted, Typed
<1>2. \A m \in T : turn[m] \in T /\ turn2[m] = turn[m]
  <2>1. TAKE m \in T
  <2>2. Toward(rank2, k, m) = Toward(rank, k, m) /\ rank2[m] = rank[m] BY DEF Toward
  <2>3. Toward(rank, k, m) \in Sides BY DEF Toward, Sides
  <2>4. t.child[Toward(rank, k, m)][m] # NULL => t.child[Toward(rank, k, m)][m] \in T
    BY <2>3, ChildIs
  <2> QED BY <1>1, <2>2, <2>4
<1>3. /\ WayTo(t, rank, k, t.root) = After(turn, t.root)
      /\ WayTo(t, rank2, k, t.root) = After(turn2, t.root)
  BY DEF WayTo, Toward
<1>4. After(turn, t.root) = After(turn2, t.root)
  <2> HIDE DEF turn, turn2
  <2> QED BY <1>1, <1>2, AfterAgrees
<1> QED BY <1>3, <1>4

(* RB_FIND finds nothing but a node of that rank, and in a tree in order   *)
(* one that is there.                                                      *)
LEMMA FindIs ==
  ASSUME NEW t, NEW B, NEW T, NEW R, Tree(t, B, T, R), NEW rank \in [Nodes -> Int], NEW k \in Int
  PROVE  /\ RB_FIND(t, rank, k) # NULL =>
               RB_FIND(t, rank, k) \in T /\ rank[RB_FIND(t, rank, k)] = k
         /\ RB_FIND(t, rank, k) = NULL /\ rank \in R => \A m \in T : rank[m] # k
<1>1. CASE t.root = NULL
  <2>1. T = {} /\ RB_FIND(t, rank, k) = NULL BY <1>1 DEF Tree, Rooted, Under, RB_FIND
  <2> QED BY <2>1
<1>2. CASE t.root # NULL
  <2>1. PICK p : p = WayTo(t, rank, k, t.root) OBVIOUS
  <2>2. WayEnds(t, B, T, R, rank, k, p) BY <1>2, <2>1, WayIs
  <2>3. RB_FIND(t, rank, k) = IF rank[p] = k THEN p ELSE NULL BY <1>2, <2>1 DEF RB_FIND
  <2>4. p \in T BY <2>2 DEF WayEnds
  <2>5. ASSUME rank[p] # k, rank \in R, NEW m \in T
        PROVE  rank[m] # k
    <3>1. CASE m \notin B[p] BY <2>2, <2>5, <3>1 DEF WayEnds
    <3>2. CASE m = p BY <2>5, <3>2
    <3>3. CASE m \in B[p] /\ m # p
      <4>1. PICK r \in Sides : t.child[r][p] # NULL /\ m \in B[t.child[r][p]]
        BY <2>4, <3>3, BelowIs
      <4>2. t.child[Toward(rank, k, p)][p] = NULL BY <2>2, <2>5 DEF WayEnds
      <4>3. Before(rank, r, m, p) BY <2>4, <2>5, <4>1 DEF Tree, Ordered, Under
      <4>4. rank[m] \in Int /\ rank[p] \in Int BY <2>4 DEF Tree, Typed
      <4>5. r # Toward(rank, k, p) BY <4>1, <4>2
      <4> QED BY <2>5, <4>3, <4>4, <4>5 DEF Before, Toward, Sides
    <3> QED BY <3>1, <3>2, <3>3
  <2>6. NULL \notin T BY NodeAssumption DEF Tree, Typed
  <2> QED BY <2>3, <2>4, <2>5, <2>6
<1> QED BY <1>1, <1>2

-----------------------------------------------------------------------------
(* Assignments and rotations. *)

(* u is t but for one field. *)
Painted(t, n, red, u) ==
    /\ u \in Trees /\ u.root = t.root /\ u.child = t.child /\ u.parent = t.parent
    /\ \A m \in Nodes : u.red[m] = IF m = n THEN red ELSE t.red[m]

(* u is t with another parent, or another child, of n. *)
Parented(t, n, par, u) ==
    /\ u \in Trees /\ u.root = t.root /\ u.child = t.child /\ u.red = t.red
    /\ \A m \in Nodes : u.parent[m] = IF m = n THEN par ELSE t.parent[m]

Childed(t, s, n, c, u) ==
    /\ u \in Trees /\ u.root = t.root /\ u.parent = t.parent /\ u.red = t.red
    /\ \A m \in Nodes, r \in Sides :
          u.child[r][m] = IF r = s /\ m = n THEN c ELSE t.child[r][m]

LEMMA PaintIs ==
  ASSUME NEW t \in Trees, NEW n \in Links, NEW red \in BOOLEAN
  PROVE  Painted(t, n, red, Paint(t, n, red))
BY NodeAssumption DEF Painted, Paint, Trees, Links

LEMMA SetParentIs ==
  ASSUME NEW t \in Trees, NEW n \in Links, NEW par \in Links
  PROVE  Parented(t, n, par, SetParent(t, n, par))
BY NodeAssumption DEF Parented, SetParent, Trees, Links

LEMMA SetChildIs ==
  ASSUME NEW t \in Trees, NEW s \in Sides, NEW n \in Nodes, NEW c \in Links
  PROVE  Childed(t, s, n, c, SetChild(t, s, n, c))
<1>1. PICK k : k = [t.child EXCEPT ![s] = [t.child[s] EXCEPT ![n] = c]] OBVIOUS
<1>2. t.child \in [Sides -> [Nodes -> Links]] BY DEF Trees
<1>3. k \in [Sides -> [Nodes -> Links]] BY <1>1, <1>2
<1>4. \A m \in Nodes, r \in Sides : k[r][m] = IF r = s /\ m = n THEN c ELSE t.child[r][m]
  BY <1>1, <1>2
<1>5. SetChild(t, s, n, c) = [t EXCEPT !.child = k] BY <1>1, <1>2 DEF SetChild, Trees
<1>6. PICK u : u = SetChild(t, s, n, c) OBVIOUS
<1>7. /\ u \in Trees /\ u.root = t.root /\ u.parent = t.parent /\ u.red = t.red /\ u.child = k
  BY <1>3, <1>5, <1>6 DEF Trees
<1>8. Childed(t, s, n, c, u) BY <1>4, <1>7 DEF Childed
<1> QED BY <1>6, <1>8

LEMMA SideOfIs ==
  ASSUME NEW t, NEW par, NEW n
  PROVE  /\ SideOf(t, par, n) \in Sides
         /\ \A s \in Sides : t.child[s][par] = n /\ t.child[Other(s)][par] # n
                                => SideOf(t, par, n) = s
BY DEF SideOf, Sides, Other

(* u is t with new in the place of n. *)
Hung(t, n, par, new, u) ==
    /\ u \in Trees /\ u.parent = t.parent /\ u.red = t.red
    /\ u.root = IF par = NULL THEN new ELSE t.root
    /\ \A m \in Nodes, r \in Sides :
          u.child[r][m] = IF m = par /\ r = SideOf(t, par, n) THEN new ELSE t.child[r][m]

LEMMA HangIs ==
  ASSUME NEW t \in Trees, NEW n \in Links, NEW par \in Links, NEW new \in Links
  PROVE  Hung(t, n, par, new, Hang(t, n, par, new))
<1>1. CASE par = NULL
  <2>1. Hang(t, n, par, new) = [t EXCEPT !.root = new] BY <1>1 DEF Hang
  <2> QED BY <1>1, <2>1, NodeAssumption DEF Hung, Trees, Links
<1>2. CASE par # NULL
  <2>1. PICK s : s = SideOf(t, par, n) OBVIOUS
  <2>2. s \in Sides /\ par \in Nodes BY <1>2, <2>1, SideOfIs DEF Links
  <2>3. Hang(t, n, par, new) = SetChild(t, s, par, new) BY <1>2, <2>1 DEF Hang
  <2>4. PICK u : u = SetChild(t, s, par, new) OBVIOUS
  <2>5. Childed(t, s, par, new, u) BY <2>2, <2>4, SetChildIs
  <2>6. Hung(t, n, par, new, u) BY <1>2, <2>1, <2>5 DEF Hung, Childed
  <2> QED BY <2>3, <2>4, <2>6
<1> QED BY <1>1, <1>2

(* u is t after a rotation: up is on top of n, which now has inner. *)
Rotated(t, T, n, s, up, inner, u) ==
    /\ u \in Trees /\ u.red = t.red
    /\ u.root = IF t.root = n THEN up ELSE t.root
    /\ \A m \in T : u.parent[m] = IF m = up THEN t.parent[n]
                                  ELSE IF m = n THEN up
                                  ELSE IF m = inner THEN n ELSE t.parent[m]
    /\ \A m \in T, r \in Sides :
          u.child[r][m] = IF m = n /\ r = Other(s) THEN inner
                          ELSE IF m = up /\ r = s THEN n
                          ELSE IF t.child[r][m] = n THEN up ELSE t.child[r][m]

(* A node hangs on its parent, on one side of it, and on nothing else. *)
LEMMA ParentIs ==
  ASSUME NEW t, NEW B, NEW T, NEW R, Tree(t, B, T, R), NEW n \in T
  PROVE  /\ t.parent[n] = NULL <=> n = t.root
         /\ n # t.root => /\ t.parent[n] \in T
                          /\ t.child[SideOf(t, t.parent[n], n)][t.parent[n]] = n
         /\ \A m \in T, r \in Sides :
               t.child[r][m] = n => m = t.parent[n] /\ r = SideOf(t, t.parent[n], n) /\ m # n
<1>1. n # NULL /\ NULL \notin T BY NodeAssumption DEF Tree, Typed
<1>2. CASE n = t.root
  <2>1. t.parent[n] = NULL BY <1>1, <1>2 DEF Tree, Rooted
  <2>2. \A m \in T, r \in Sides : t.child[r][m] # n BY <1>1, <1>2, ChildIs
  <2> QED BY <1>2, <2>1, <2>2
<1>3. CASE n # t.root
  <2>1. PICK s \in Sides : t.parent[n] \in T /\ t.child[s][t.parent[n]] = n
    BY <1>3 DEF Tree, Linked
  <2>2. t.child[Other(s)][t.parent[n]] # n BY <1>1, <2>1, ChildIs
  <2>3. SideOf(t, t.parent[n], n) = s BY <2>1, <2>2, SideOfIs
  <2>4. ASSUME NEW m \in T, NEW r \in Sides, t.child[r][m] = n
        PROVE  m = t.parent[n] /\ r = SideOf(t, t.parent[n], n) /\ m # n
    <3>1. m = t.parent[n] /\ m # n BY <1>1, <2>4, ChildIs
    <3>2. r = s BY <2>1, <2>2, <2>4, <3>1, TwoSides
    <3> QED BY <2>3, <3>1, <3>2
  <2> QED BY <1>1, <1>3, <2>1, <2>3, <2>4
<1> QED BY <1>2, <1>3

(* The assignments of RB_ROTATE come to the links of Rotated. *)
LEMMA RotateIs ==
  ASSUME NEW t, NEW B, NEW T, NEW R, Tree(t, B, T, R), NEW n \in T, NEW s \in Sides,
         NEW up, up = t.child[Other(s)][n], up # NULL, NEW inner, inner = t.child[s][up]
  PROVE  Rotated(t, T, n, s, up, inner, Rotate(t, n, s))
<1>1. PICK o : o = Other(s) OBVIOUS
<1>2. o \in Sides /\ o # s /\ \A r \in Sides : r = s \/ r = o BY <1>1, TwoSides
<1>3. t \in Trees /\ T \subseteq Nodes /\ n \in Nodes /\ NULL \notin Nodes /\ n # NULL
  BY NodeAssumption DEF Tree, Typed
<1>4. up \in T /\ up \in Nodes /\ up # n /\ t.parent[up] = n BY <1>1, <1>2, <1>3, ChildIs
<1>5. inner \in Links /\ t.parent[n] \in Links /\ n \in Links /\ up \in Links
  BY <1>2, <1>3, <1>4 DEF Trees, Links
<1>6. PICK par : par = t.parent[n] OBVIOUS
<1>7. par # n /\ par # up
  <2>1. CASE par = NULL BY <1>3, <1>4, <2>1
  <2>2. CASE par # NULL
    <3>1. PICK r \in Sides : par \in T /\ t.child[r][par] = n
      BY <1>6, <2>2, ParentIs, SideOfIs
    <3>2. n \in B[par] /\ par \notin B[n] /\ Under(B, t.child[r][par]) = B[n]
      BY <1>3, <3>1, ChildIs
    <3>3. up \in B[n] /\ n \in B[n] BY <1>1, <1>2, <1>4, ChildIs, BelowIs
    <3> QED BY <3>2, <3>3
  <2> QED BY <2>1, <2>2
<1>8. PICK t1 : t1 = SetChild(t, o, n, inner) OBVIOUS
<1>9. Childed(t, o, n, inner, t1) BY <1>2, <1>3, <1>5, <1>8, SetChildIs
<1>10. PICK t2 : t2 = SetParent(t1, inner, n) OBVIOUS
<1>11. Parented(t1, inner, n, t2)
  <2>1. t1 \in Trees BY <1>9 DEF Childed
  <2> QED BY <1>5, <1>9, <1>10, <2>1, SetParentIs
<1>12. PICK t3 : t3 = SetParent(t2, up, par) OBVIOUS
<1>13. Parented(t2, up, par, t3)
  <2>1. t2 \in Trees BY <1>11 DEF Parented
  <2> QED BY <1>5, <1>6, <1>11, <1>12, <2>1, SetParentIs
<1>14. PICK t4 : t4 = Hang(t3, n, par, up) OBVIOUS
<1>15. Hung(t3, n, par, up, t4)
  <2>1. t3 \in Trees BY <1>13 DEF Parented
  <2> QED BY <1>5, <1>6, <1>13, <1>14, <2>1, HangIs
<1>16. PICK t5 : t5 = SetChild(t4, s, up, n) OBVIOUS
<1>17. Childed(t4, s, up, n, t5)
  <2>1. t4 \in Trees BY <1>15 DEF Hung
  <2> QED BY <1>4, <1>5, <1>15, <1>16, <2>1, SetChildIs
<1>18. PICK u : u = SetParent(t5, n, up) OBVIOUS
<1>19. Parented(t5, n, up, u)
  <2>1. t5 \in Trees BY <1>17 DEF Childed
  <2> QED BY <1>5, <1>17, <1>18, <2>1, SetParentIs
<1>20. Rotate(t, n, s) = u
  <2> DEFINE up0    == t.child[Other(s)][n]
             inner0 == t.child[s][up0]
             m1     == SetChild(t, Other(s), n, inner0)
             m2     == SetParent(m1, inner0, n)
             m3     == SetParent(m2, up0, t.parent[n])
             m4     == Hang(m3, n, t.parent[n], up0)
             m5     == SetChild(m4, s, up0, n)
  <2>1. Rotate(t, n, s) = SetParent(m5, n, up0) BY DEF Rotate
  <2>2. up0 = up OBVIOUS
  <2>3. inner0 = inner
    <3> HIDE DEF up0
    <3> QED BY <2>2
  <2> HIDE DEF up0, inner0
  <2>4. m1 = t1 BY <1>1, <1>8, <2>3
  <2> HIDE DEF m1
  <2>5. m2 = t2 BY <1>10, <2>3, <2>4
  <2> HIDE DEF m2
  <2>6. m3 = t3 BY <1>6, <1>12, <2>2, <2>5
  <2> HIDE DEF m3
  <2>7. m4 = t4 BY <1>6, <1>14, <2>2, <2>6
  <2> HIDE DEF m4
  <2>8. m5 = t5 BY <1>16, <2>2, <2>7
  <2> HIDE DEF m5
  <2> QED BY <1>18, <2>1, <2>2, <2>8
<1>21. par # NULL => par \in Nodes /\ SideOf(t3, par, n) = SideOf(t, par, n)
  <2>1. SUFFICES ASSUME par # NULL PROVE par \in Nodes /\ SideOf(t3, par, n) = SideOf(t, par, n)
    OBVIOUS
  <2>2. par \in Nodes BY <1>5, <1>6, <2>1 DEF Links
  <2>3. t3.child["left"][par] = t.child["left"][par]
    BY <1>7, <1>9, <1>11, <1>13, <2>2 DEF Sides, Childed, Parented
  <2> QED BY <2>2, <2>3 DEF SideOf
<1>22. u.root = IF t.root = n THEN up ELSE t.root
  BY <1>6, <1>9, <1>11, <1>13, <1>15, <1>17, <1>19, ParentIs DEF Childed, Parented, Hung
<1>23. ASSUME NEW m \in T
       PROVE  u.parent[m] = IF m = up THEN t.parent[n] ELSE IF m = n THEN up
                            ELSE IF m = inner THEN n ELSE t.parent[m]
  BY <1>3, <1>4, <1>6, <1>9, <1>11, <1>13, <1>15, <1>17, <1>19 DEF Childed, Parented, Hung
<1>24. ASSUME NEW m \in T, NEW r \in Sides
       PROVE  u.child[r][m] = IF m = n /\ r = o THEN inner
                              ELSE IF m = up /\ r = s THEN n
                              ELSE IF t.child[r][m] = n THEN up ELSE t.child[r][m]
  <2>1. m \in Nodes BY <1>3
  <2>2. CASE m = up /\ r = s BY <1>4, <1>17, <1>19, <2>1, <2>2 DEF Childed, Parented
  <2>3. CASE ~(m = up /\ r = s)
    <3>1. u.child[r][m] = IF m = par /\ r = SideOf(t3, par, n) THEN up ELSE t1.child[r][m]
      BY <1>11, <1>13, <1>15, <1>17, <1>19, <2>1, <2>3 DEF Childed, Parented, Hung
    <3>2. CASE m = n BY <1>7, <1>9, <2>1, <2>3, <3>1, <3>2, ParentIs DEF Childed
    <3>3. CASE m # n
      <4>1. t1.child[r][m] = t.child[r][m] BY <1>9, <2>1, <3>3 DEF Childed
      <4>2. CASE m = par /\ r = SideOf(t3, par, n)
        <5>1. t.child[r][m] = n BY <1>3, <1>6, <1>21, <2>1, <4>2, ParentIs
        <5> QED BY <2>3, <3>1, <3>3, <4>2, <5>1
      <4>3. CASE ~(m = par /\ r = SideOf(t3, par, n))
        <5>1. t.child[r][m] # n
          <6>1. ASSUME t.child[r][m] = n PROVE FALSE
            <7>1. m = par /\ r = SideOf(t, par, n) BY <1>6, <6>1, ParentIs
            <7> QED BY <1>3, <1>21, <2>1, <4>3, <7>1
          <6> QED BY <6>1
        <5> QED BY <2>3, <3>1, <3>3, <4>1, <4>3, <5>1
      <4> QED BY <4>2, <4>3
    <3> QED BY <3>2, <3>3
  <2> QED BY <2>2, <2>3
<1>25. u.red = t.red /\ u \in Trees
  BY <1>9, <1>11, <1>13, <1>15, <1>17, <1>19 DEF Childed, Parented, Hung
<1> QED BY <1>1, <1>20, <1>22, <1>23, <1>24, <1>25 DEF Rotated

(* What becomes of B when up comes up over n. *)
Turned(t, B, n, s, up, inner) ==
    [m \in Nodes |-> IF m = up THEN B[n]
                     ELSE IF m = n THEN {n} \cup Under(B, t.child[s][n]) \cup Under(B, inner)
                     ELSE B[m]]

(* Below a node, apart from itself, are only nodes whose parent is, too. *)
LEMMA ParentBelow ==
  ASSUME NEW t, NEW B, NEW T, NEW R, Tree(t, B, T, R), NEW x \in T, NEW m \in B[x], m # x
  PROVE  t.parent[m] \in B[x]
<1> DEFINE X == {c \in B[x] : m \in B[c] /\ m # c}
<1>1. B \in [Nodes -> SUBSET Nodes] /\ X \in SUBSET Nodes /\ x \in X
  BY BelowIs DEF Tree, Typed
<1>2. PICK c \in X : \A y \in X : ~(Cardinality(B[y]) < Cardinality(B[c]))
  <2> HIDE DEF X
  <2> QED BY <1>1, FewestBelow
<1>3. c \in T /\ B[c] \subseteq B[x] BY BelowIs DEF Tree, Branching
<1>4. PICK s \in Sides : t.child[s][c] # NULL /\ m \in B[t.child[s][c]] BY <1>2, <1>3, BelowIs
<1>5. PICK d : d = t.child[s][c] OBVIOUS
<1>6. d \in B[c] /\ t.parent[d] = c /\ Cardinality(B[d]) < Cardinality(B[c])
  BY <1>3, <1>4, <1>5, ChildIs
<1>7. d \notin X BY <1>2, <1>6
<1>8. d = m BY <1>3, <1>4, <1>5, <1>6, <1>7
<1> QED BY <1>2, <1>6, <1>8

(* A child by its name. *)
LEMMA AChild ==
  ASSUME NEW t, NEW B, NEW T, NEW R, Tree(t, B, T, R), NEW n \in T, NEW s \in Sides,
         NEW c, c = t.child[s][n], c # NULL
  PROVE  /\ c \in T /\ c \in Nodes /\ c \in B[n] /\ c # n /\ c \in B[c] /\ t.parent[c] = n
         /\ c # t.child[Other(s)][n] /\ c # t.root
         /\ B[c] \subseteq B[n] /\ n \notin B[c] /\ Under(B, c) = B[c]
         /\ Cardinality(B[c]) < Cardinality(B[n])
<1>1. T \subseteq Nodes BY DEF Tree, Typed
<1> QED BY <1>1, ChildIs

(* The same in one word. *)
ChildOf(t, B, T, n, s, c) ==
    /\ c \in T /\ c \in Nodes /\ c \in B[n] /\ c # n /\ c \in B[c] /\ t.parent[c] = n
    /\ c # t.child[Other(s)][n] /\ c # t.root
    /\ B[c] \subseteq B[n] /\ n \notin B[c] /\ Under(B, c) = B[c] /\ c \in Under(B, c)

LEMMA AChildOf ==
  ASSUME NEW t, NEW B, NEW T, NEW R, Tree(t, B, T, R), NEW n \in T, NEW s \in Sides,
         NEW c, c = t.child[s][n], c # NULL
  PROVE  ChildOf(t, B, T, n, s, c)
BY AChild DEF ChildOf

(* u has the same shape as t, whatever the colours. *)
SameShape(t, T, u) ==
    /\ u \in Trees /\ u.root = t.root
    /\ \A m \in T : u.parent[m] = t.parent[m] /\ \A s \in Sides : u.child[s][m] = t.child[s][m]

(* A tree is one by its links alone, whatever its colours. *)
LEMMA SameTree ==
  ASSUME NEW t, NEW B, NEW T, NEW R, Tree(t, B, T, R), NEW u, SameShape(t, T, u)
  PROVE  Tree(u, B, T, R)
<1>1. \A s \in Sides : Other(s) \in Sides BY TwoSides
<1>2. Typed(u, B, T, R) BY DEF Tree, Typed, SameShape
<1>3. Rooted(u, B, T) BY DEF Tree, Rooted, SameShape
<1>4. Branching(u, B, T)
  <2>1. ASSUME NEW m \in T, NEW s \in Sides
        PROVE  u.child[s][m] = t.child[s][m] /\ u.child[Other(s)][m] = t.child[Other(s)][m]
    BY <1>1 DEF SameShape
  <2>2. ASSUME NEW m \in T, NEW s \in Sides
        PROVE  /\ B[m] = {m} \cup Under(B, u.child[s][m]) \cup Under(B, u.child[Other(s)][m])
               /\ m \notin Under(B, u.child[s][m])
               /\ Under(B, u.child[s][m]) \cap Under(B, u.child[Other(s)][m]) = {}
    BY <2>1 DEF Tree, Branching
  <2>3. \A m \in T : \A x \in B[m] : x \in T /\ B[x] \subseteq B[m] BY DEF Tree, Branching
  <2> QED BY <2>2, <2>3 DEF Branching
<1>5. Linked(u, T)
  <2>1. \A m \in T, s \in Sides : u.child[s][m] # NULL =>
           u.child[s][m] \in T /\ u.parent[u.child[s][m]] = m
    BY DEF Tree, Linked, SameShape
  <2>2. ASSUME NEW m \in T, m # u.root
        PROVE  u.parent[m] \in T /\ \E s \in Sides : u.child[s][u.parent[m]] = m
    <3>1. m # t.root /\ u.parent[m] = t.parent[m] BY Zenon, <2>2 DEF SameShape
    <3>2. PICK s \in Sides : t.parent[m] \in T /\ t.child[s][t.parent[m]] = m
      BY Zenon, <3>1 DEF Tree, Linked
    <3>3. u.child[s][t.parent[m]] = m BY Zenon, <3>2 DEF SameShape
    <3> QED BY Zenon, <3>1, <3>2, <3>3
  <2> QED BY <2>1, <2>2 DEF Linked
<1>6. Ordered(u, B, T, R) BY DEF Tree, Ordered, SameShape
<1> QED BY <1>2, <1>3, <1>4, <1>5, <1>6 DEF Tree

(* A tree stays one when a child takes the place of its parent. *)
LEMMA RotatedTree ==
  ASSUME NEW t, NEW B, NEW T, NEW R, Tree(t, B, T, R), NEW n \in T, NEW s \in Sides,
         NEW up, up = t.child[Other(s)][n], up # NULL, NEW inner, inner = t.child[s][up],
         NEW u, Rotated(t, T, n, s, up, inner, u), NEW B2, B2 = Turned(t, B, n, s, up, inner)
  PROVE  Tree(u, B2, T, R)
<1>1. PICK o : o = Other(s) BY Zenon
<1>2. o \in Sides /\ o # s /\ Other(o) = s /\ \A r \in Sides : r = s \/ r = o BY <1>1, TwoSides
<1>3. /\ t \in Trees /\ T \subseteq Nodes /\ n \in Nodes /\ NULL \notin Nodes /\ n # NULL
      /\ B \in [Nodes -> SUBSET Nodes] /\ R \subseteq [Nodes -> Int] /\ u \in Trees
  BY NodeAssumption DEF Tree, Typed, Rotated
<1>4. up \in T /\ up \in Nodes /\ up # n /\ t.parent[up] = n /\ up # t.root /\ Under(B, up) = B[up]
  <2>1. up = t.child[o][n] BY <1>1
  <2>2. ChildOf(t, B, T, n, o, up) BY Zenon, <1>2, <2>1, AChildOf
  <2> QED BY Zenon, <2>2 DEF ChildOf
<1>5. PICK a : a = t.child[s][n] BY Zenon
<1>6. PICK b : b = t.child[o][up] BY Zenon
<1>7. PICK A : A = Under(B, a) BY Zenon
<1>8. PICK I : I = Under(B, inner) BY Zenon
<1>9. PICK O : O = Under(B, b) BY Zenon
<1>10. /\ B[n] = {n} \cup A \cup B[up] /\ n \notin A /\ n \notin B[up] /\ A \cap B[up] = {}
  BY <1>1, <1>2, <1>4, <1>5, <1>7 DEF Tree, Branching
<1>11. /\ B[up] = {up} \cup I \cup O /\ up \notin I /\ up \notin O /\ I \cap O = {}
  BY ZenonT(30), <1>1, <1>2, <1>4, <1>6, <1>8, <1>9 DEF Tree, Branching
<1>0. /\ a # NULL => ChildOf(t, B, T, n, s, a)
      /\ inner # NULL => ChildOf(t, B, T, up, s, inner)
      /\ b # NULL => ChildOf(t, B, T, up, o, b)
  <2>1. a # NULL => ChildOf(t, B, T, n, s, a) BY Zenon, <1>5, AChildOf
  <2>2. inner # NULL => ChildOf(t, B, T, up, s, inner) BY Zenon, <1>4, AChildOf
  <2>3. b # NULL => ChildOf(t, B, T, up, o, b) BY Zenon, <1>2, <1>4, <1>6, AChildOf
  <2> QED BY Zenon, <2>1, <2>2, <2>3
<1>12. \A x : x # NULL /\ x \in {a, inner, b} => x \in T /\ x \in Under(B, x) /\ Under(B, x) = B[x]
  <2>1. a # NULL => a \in T /\ a \in Under(B, a) /\ Under(B, a) = B[a]
    BY Zenon, <1>0 DEF ChildOf
  <2>2. inner # NULL => inner \in T /\ inner \in Under(B, inner) /\ Under(B, inner) = B[inner]
    BY Zenon, <1>0 DEF ChildOf
  <2>3. b # NULL => b \in T /\ b \in Under(B, b) /\ Under(B, b) = B[b]
    BY Zenon, <1>0 DEF ChildOf
  <2> QED BY Zenon, <2>1, <2>2, <2>3
<1>13. a \notin {n, up} /\ inner \notin {n, up} /\ b \notin {n, up}
  BY Zenon, <1>3, <1>4, <1>7, <1>8, <1>9, <1>10, <1>11, <1>12
<1>14. /\ B2 \in [Nodes -> SUBSET Nodes] /\ B2[up] = B[n] /\ B2[n] = {n} \cup A \cup I
       /\ \A m \in Nodes \ {n, up} : B2[m] = B[m]
  <2>1. A \subseteq Nodes /\ I \subseteq Nodes BY Zenon, <1>3, <1>4, <1>10, <1>11
  <2> QED BY Zenon, <1>3, <1>4, <1>5, <1>7, <1>8, <2>1 DEF Turned
<1>15. Under(B2, a) = A /\ Under(B2, inner) = I /\ Under(B2, b) = O
  BY ZenonT(30), <1>3, <1>7, <1>8, <1>9, <1>12, <1>13, <1>14 DEF Under
<1>16. /\ u.child[s][n] = a /\ u.child[o][n] = inner /\ u.child[s][up] = n /\ u.child[o][up] = b
       /\ \A m \in T, r \in Sides : m \notin {n, up} =>
             u.child[r][m] = IF t.child[r][m] = n THEN up ELSE t.child[r][m]
  BY <1>1, <1>2, <1>4, <1>5, <1>6, <1>13 DEF Rotated
<1>17. /\ u.root = IF t.root = n THEN up ELSE t.root
       /\ \A m \in T : u.parent[m] = IF m = up THEN t.parent[n] ELSE IF m = n THEN up
                                     ELSE IF m = inner THEN n ELSE t.parent[m]
  BY DEF Rotated
<1>18. ASSUME NEW m \in T, m \notin {n, up}, NEW r \in Sides
       PROVE  Under(B2, u.child[r][m]) = Under(B, t.child[r][m])
  <2>1. CASE t.child[r][m] = n
    BY Zenon, <1>3, <1>4, <1>14, <1>16, <1>18, <2>1 DEF Under
  <2>2. CASE t.child[r][m] # n
    <3>0. t.child[r][m] # NULL => ChildOf(t, B, T, m, r, t.child[r][m]) BY Zenon, AChildOf
    <3>1. t.child[r][m] # up BY Zenon, <1>3, <1>4, <1>18, <3>0 DEF ChildOf
    <3>2. t.child[r][m] # NULL => t.child[r][m] \in Nodes BY Zenon, <3>0 DEF ChildOf
    <3> QED BY ZenonT(30), <1>14, <1>16, <1>18, <2>2, <3>1, <3>2 DEF Under
  <2> QED BY Zenon, <2>1, <2>2
<1>19. Typed(u, B2, T, R) BY Zenon, <1>3, <1>14 DEF Typed
<1>20. Rooted(u, B2, T)
  <2>1. CASE t.root = n
    BY ZenonT(30), <1>3, <1>4, <1>14, <1>17, <2>1 DEF Tree, Rooted, Under
  <2>2. CASE t.root # n
    <3>1. t.root # NULL /\ t.root \in T /\ t.parent[t.root] = NULL /\ T = B[t.root]
      BY <1>3 DEF Tree, Rooted, Under
    <3>2. inner # NULL => inner # t.root BY Zenon, <1>0 DEF ChildOf
    <3>3. u.root = t.root /\ u.parent[t.root] = NULL BY Zenon, <1>4, <1>17, <2>2, <3>1, <3>2
    <3>4. B2[t.root] = B[t.root] BY Zenon, <1>3, <1>4, <1>14, <2>2, <3>1
    <3> QED BY Zenon, <3>1, <3>3, <3>4 DEF Rooted, Under
  <2> QED BY Zenon, <2>1, <2>2
<1>21. ASSUME NEW m \in T, NEW r \in Sides
       PROVE  /\ B2[m] = {m} \cup Under(B2, u.child[r][m]) \cup Under(B2, u.child[Other(r)][m])
              /\ m \notin Under(B2, u.child[r][m])
              /\ Under(B2, u.child[r][m]) \cap Under(B2, u.child[Other(r)][m]) = {}
  <2>0. (r = s /\ Other(r) = o) \/ (r = o /\ Other(r) = s) BY Zenon, <1>1, <1>2
  <2>1. CASE m = n
    <3>1. B2[m] = {m} \cup A \cup I /\ m \notin A /\ m \notin I /\ A \cap I = {}
      BY Zenon, <1>10, <1>11, <1>14, <2>1
    <3>2. Under(B2, u.child[s][m]) = A /\ Under(B2, u.child[o][m]) = I BY Zenon, <1>15, <1>16, <2>1
    <3> QED BY Zenon, <2>0, <3>1, <3>2
  <2>2. CASE m = up
    <3>1. Under(B2, u.child[s][m]) = {n} \cup A \cup I /\ Under(B2, u.child[o][m]) = O
      BY Zenon, <1>3, <1>14, <1>15, <1>16, <2>2 DEF Under
    <3>2. B2[m] = {m} \cup ({n} \cup A \cup I) \cup O
      <4>1. B2[m] = {n} \cup A \cup ({up} \cup I \cup O) BY Zenon, <1>10, <1>11, <1>14, <2>2
      <4> QED BY Zenon, <2>2, <4>1
    <3>3. m \notin {n} \cup A \cup I /\ m \notin O BY <1>4, <1>10, <1>11, <2>2
    <3>4. ({n} \cup A \cup I) \cap O = {} BY Zenon, <1>10, <1>11
    <3> QED BY ZenonT(30), <2>0, <3>1, <3>2, <3>3, <3>4
  <2>3. CASE m \notin {n, up}
    <3>1. Other(r) \in Sides BY Zenon, <1>2, <2>0
    <3>2. B2[m] = B[m] BY Zenon, <1>3, <1>14, <2>3
    <3>3. /\ Under(B2, u.child[r][m]) = Under(B, t.child[r][m])
          /\ Under(B2, u.child[Other(r)][m]) = Under(B, t.child[Other(r)][m])
      BY Zenon, <1>18, <2>3, <3>1
    <3> QED BY ZenonT(30), <3>2, <3>3 DEF Tree, Branching
  <2> QED BY Zenon, <2>1, <2>2, <2>3
<1>22. ASSUME NEW x \in T, NEW m \in B2[x]
       PROVE  m \in T /\ B2[m] \subseteq B2[x]
  <2>0. /\ B[n] \subseteq T /\ \A y \in B[n] : B[y] \subseteq B[n]
        /\ B2[n] \subseteq B[n] /\ up \in B[n] /\ n \in B[n]
    BY Zenon, <1>10, <1>11, <1>14 DEF Tree, Branching
  <2>1. CASE x = n
    <3>1. CASE m = n BY Zenon, <1>14, <2>0, <2>1, <3>1
    <3>2. CASE m # n
      <4>1. m \in A \/ m \in I BY Zenon, <1>14, <2>1, <3>2
      <4>2. m # up /\ m \in B[n] BY Zenon, <1>10, <1>11, <4>1
      <4>3. B2[m] = B[m] /\ m \in T BY Zenon, <1>3, <1>14, <2>0, <3>2, <4>2
      <4>4. B[m] \subseteq A \/ B[m] \subseteq I
        <5>1. m \in A => B[m] \subseteq A BY Zenon, <1>7, <1>12 DEF Tree, Branching, Under
        <5>2. m \in I => B[m] \subseteq I BY Zenon, <1>8, <1>12 DEF Tree, Branching, Under
        <5> QED BY Zenon, <4>1, <5>1, <5>2
      <4> QED BY Zenon, <1>14, <2>1, <4>3, <4>4
    <3> QED BY Zenon, <3>1, <3>2
  <2>2. CASE x = up
    <3>1. m \in B[n] BY Zenon, <1>14, <2>2
    <3>2. m \in T /\ B[m] \subseteq B[n] BY Zenon, <2>0, <3>1
    <3>3. B2[m] \subseteq B[n] BY Zenon, <1>3, <1>14, <2>0, <3>2
    <3> QED BY Zenon, <1>14, <2>2, <3>2, <3>3
  <2>3. CASE x \notin {n, up}
    <3>1. B2[x] = B[x] BY Zenon, <1>3, <1>14, <2>3
    <3>2. m \in T /\ B[m] \subseteq B[x] BY Zenon, <3>1 DEF Tree, Branching
    <3>3. CASE m = up
      <4>1. n \in B[x] BY <1>4, <2>3, <3>1, <3>3, ParentBelow
      <4>2. B[n] \subseteq B[x] BY Zenon, <4>1 DEF Tree, Branching
      <4> QED BY Zenon, <1>14, <3>1, <3>2, <3>3, <4>2
    <3>4. CASE m # up
      <4>1. B2[m] \subseteq B[m] BY Zenon, <1>3, <1>14, <2>0, <3>2, <3>4
      <4> QED BY Zenon, <3>1, <3>2, <4>1
    <3> QED BY Zenon, <3>3, <3>4
  <2> QED BY Zenon, <2>1, <2>2, <2>3
<1>23. Branching(u, B2, T) BY Zenon, <1>21, <1>22 DEF Branching
<1>24. ASSUME NEW m \in T, NEW r \in Sides, u.child[r][m] # NULL
       PROVE  u.child[r][m] \in T /\ u.parent[u.child[r][m]] = m
  <2>1. CASE m = n
    <3>1. CASE r = s
      <4>1. u.child[r][m] = a /\ a # inner
        <5>1. u.child[r][m] = a BY Zenon, <1>16, <2>1, <3>1
        <5>2. a \in A /\ (inner # NULL => inner \in I) BY <1>7, <1>8, <1>12, <1>24, <5>1
        <5>3. a # inner BY ZenonT(30), <1>10, <1>11, <1>24, <5>1, <5>2
        <5> QED BY <5>1, <5>3
      <4>2. a \in T /\ t.parent[a] = n BY Zenon, <1>0, <1>24, <4>1 DEF ChildOf
      <4> QED BY Zenon, <1>13, <1>17, <2>1, <4>1, <4>2
    <3>2. CASE r = o BY Zenon, <1>12, <1>13, <1>16, <1>17, <1>24, <2>1, <3>2
    <3> QED BY Zenon, <1>2, <3>1, <3>2
  <2>2. CASE m = up
    <3>1. CASE r = s BY ZenonT(30), <1>4, <1>16, <1>17, <2>2, <3>1
    <3>2. CASE r = o
      <4>1. u.child[r][m] = b BY Zenon, <1>16, <2>2, <3>2
      <4>2. b \in T /\ t.parent[b] = up BY Zenon, <1>0, <1>24, <4>1 DEF ChildOf
      <4>3. b # inner
        <5>1. b \in O /\ (inner # NULL => inner \in I) BY Zenon, <1>8, <1>9, <1>12, <1>24, <4>1
        <5> QED BY Zenon, <1>11, <1>24, <4>1, <5>1
      <4> QED BY Zenon, <1>13, <1>17, <2>2, <4>1, <4>2, <4>3
    <3> QED BY Zenon, <1>2, <3>1, <3>2
  <2>3. CASE m \notin {n, up}
    <3>1. CASE t.child[r][m] = n
      <4>1. u.child[r][m] = up /\ t.parent[n] = m
        <5>1. ChildOf(t, B, T, m, r, n) BY Zenon, <1>3, <3>1, AChildOf
        <5>2. u.child[r][m] = up BY Zenon, <1>16, <2>3, <3>1
        <5> QED BY Zenon, <5>1, <5>2 DEF ChildOf
      <4> QED BY ZenonT(30), <1>4, <1>17, <4>1
    <3>2. CASE t.child[r][m] # n
      <4>1. u.child[r][m] = t.child[r][m] BY Zenon, <1>16, <2>3, <3>2
      <4>2. PICK c : c = t.child[r][m] BY Zenon
      <4>3. c \in T /\ t.parent[c] = m
        <5>1. ChildOf(t, B, T, m, r, c) BY Zenon, <1>24, <4>1, <4>2, AChildOf
        <5> QED BY Zenon, <5>1 DEF ChildOf
      <4>4. c # up /\ c # inner
        <5>1. inner # NULL => t.parent[inner] = up BY Zenon, <1>0 DEF ChildOf
        <5> QED BY Zenon, <1>4, <1>24, <2>3, <4>1, <4>2, <4>3, <5>1
      <4>5. c # n BY Zenon, <3>2, <4>2
      <4> QED BY Zenon, <1>17, <4>1, <4>2, <4>3, <4>4, <4>5
    <3> QED BY Zenon, <3>1, <3>2
  <2> QED BY Zenon, <2>1, <2>2, <2>3
<1>25. ASSUME NEW m \in T, m # u.root
       PROVE  u.parent[m] \in T /\ \E r \in Sides : u.child[r][u.parent[m]] = m
  <2>1. CASE m = up
    <3>1. t.root # n BY Zenon, <1>17, <1>25, <2>1
    <3>2. PICK r \in Sides : t.parent[n] \in T /\ t.child[r][t.parent[n]] = n
      BY Zenon, <3>1 DEF Tree, Linked
    <3>0. ChildOf(t, B, T, t.parent[n], r, n) BY Zenon, <1>3, <3>2, AChildOf
    <3>3. t.parent[n] # n BY Zenon, <3>0 DEF ChildOf
    <3>4. t.parent[n] # up
      <4>1. ASSUME t.parent[n] = up PROVE FALSE
        <5>1. n \in B[up] BY Zenon, <3>0, <4>1 DEF ChildOf
        <5> QED BY Zenon, <1>10, <5>1
      <4> QED BY Zenon, <4>1
    <3>5. u.child[r][t.parent[n]] = up BY Zenon, <1>16, <3>2, <3>3, <3>4
    <3>6. u.parent[m] = t.parent[n] /\ t.parent[n] \in T BY Zenon, <1>17, <2>1, <3>2
    <3> QED BY Zenon, <3>2, <3>5, <3>6, <2>1
  <2>2. CASE m = n BY Zenon, <1>4, <1>16, <1>17, <2>2
  <2>3. CASE m = inner /\ m \notin {n, up} BY Zenon, <1>2, <1>16, <1>17, <2>3
  <2>4. CASE m # inner /\ m \notin {n, up}
    <3>1. m # t.root BY Zenon, <1>17, <1>25, <2>4
    <3>2. PICK r \in Sides : t.parent[m] \in T /\ t.child[r][t.parent[m]] = m
      BY Zenon, <3>1 DEF Tree, Linked
    <3>3. u.parent[m] = t.parent[m] BY ZenonT(30), <1>17, <2>4
    <3>4. CASE t.parent[m] = n
      <4>1. r = s BY ZenonT(30), <1>1, <1>2, <2>4, <3>2, <3>4
      <4> QED BY Zenon, <1>5, <1>16, <3>2, <3>3, <3>4, <4>1
    <3>5. CASE t.parent[m] = up
      <4>1. r = o BY Zenon, <1>1, <1>2, <2>4, <3>2, <3>5
      <4> QED BY ZenonT(30), <1>2, <1>6, <1>16, <3>2, <3>3, <3>5, <4>1
    <3>6. CASE t.parent[m] \notin {n, up} BY ZenonT(30), <1>16, <2>4, <3>2, <3>3, <3>6
    <3> QED BY Zenon, <3>4, <3>5, <3>6
  <2> QED BY Zenon, <2>1, <2>2, <2>3, <2>4
<1>26. Linked(u, T) BY <1>24, <1>25 DEF Linked
<1>27. ASSUME NEW rank \in R, NEW m \in T, NEW r \in Sides, NEW x \in Under(B2, u.child[r][m])
       PROVE  Before(rank, r, x, m)
  <2>1. /\ \A y \in A : Before(rank, s, y, n)
        /\ \A y \in B[up] : Before(rank, o, y, n)
        /\ \A y \in I : Before(rank, s, y, up)
        /\ \A y \in O : Before(rank, o, y, up)
    <3>1. \A y \in A : Before(rank, s, y, n) BY Zenon, <1>5, <1>7 DEF Tree, Ordered
    <3>2. \A y \in B[up] : Before(rank, o, y, n) BY Zenon, <1>1, <1>2, <1>4 DEF Tree, Ordered
    <3>3. \A y \in I : Before(rank, s, y, up) BY Zenon, <1>4, <1>8 DEF Tree, Ordered
    <3>4. \A y \in O : Before(rank, o, y, up) BY Zenon, <1>2, <1>4, <1>6, <1>9 DEF Tree, Ordered
    <3> QED BY Zenon, <3>1, <3>2, <3>3, <3>4
  <2>2. rank \in [Nodes -> Int] /\ A \subseteq Nodes /\ I \subseteq Nodes
    BY ZenonT(30), <1>3, <1>4, <1>10, <1>11
  <2>3. Before(rank, s, n, up)
    <3>1. Before(rank, o, up, n) BY Zenon, <1>11, <2>1
    <3> QED BY <1>2, <1>3, <1>4, <2>2, <3>1, BeforeIs
  <2>4. CASE m = n
    <3>1. CASE r = s
      <4>1. x \in A BY Zenon, <1>15, <1>16, <2>4, <3>1
      <4> QED BY ZenonT(30), <2>1, <2>4, <3>1, <4>1
    <3>2. CASE r = o
      <4>1. x \in I BY Zenon, <1>15, <1>16, <2>4, <3>2
      <4> QED BY ZenonT(30), <1>11, <2>1, <2>4, <3>2, <4>1
    <3> QED BY Zenon, <1>2, <3>1, <3>2
  <2>5. CASE m = up
    <3>1. CASE r = s
      <4>1. x = n \/ x \in A \/ x \in I BY Zenon, <1>3, <1>14, <1>16, <2>5, <3>1 DEF Under
      <4>2. x \in A => Before(rank, s, x, up)
        <5>1. SUFFICES ASSUME x \in A PROVE Before(rank, s, x, up) OBVIOUS
        <5>2. x \in Nodes /\ Before(rank, s, x, n) BY <2>1, <2>2, <5>1
        <5> QED BY <1>3, <1>4, <2>2, <2>3, <5>2, BeforeIs
      <4> QED BY Zenon, <2>1, <2>3, <2>5, <3>1, <4>1, <4>2
    <3>2. CASE r = o
      <4>1. x \in O BY Zenon, <1>15, <1>16, <2>5, <3>2
      <4> QED BY ZenonT(30), <2>1, <2>5, <3>2, <4>1
    <3> QED BY Zenon, <1>2, <3>1, <3>2
  <2>6. CASE m \notin {n, up}
    <3>1. x \in Under(B, t.child[r][m]) BY Zenon, <1>18, <2>6
    <3> QED BY Zenon, <3>1 DEF Tree, Ordered
  <2> QED BY Zenon, <2>4, <2>5, <2>6
<1>28. Ordered(u, B2, T, R) BY <1>27 DEF Ordered
<1> QED BY Zenon, <1>19, <1>20, <1>23, <1>26, <1>28 DEF Tree

(* A loop whose states come with numbers comes to rest if each turn either *)
(* changes nothing or has a lower number.                                  *)
LEMMA AfterCountsDown ==
  ASSUME NEW X, NEW K \in [X -> SUBSET Nat], NEW turn, NEW first \in X, NEW n \in K[first],
         n <= NodeCount,
         \A x \in X : \A k \in K[x] :
            turn[x] = x \/ (turn[x] \in X /\ \E j \in K[turn[x]] : j < k)
  PROVE  /\ After(turn, first) \in X /\ K[After(turn, first)] # {}
         /\ turn[After(turn, first)] = After(turn, first)
<1> DEFINE S == {x \in X : K[x] # {}}
           Numbers(x) == K[x]
           size == [x \in S |-> CHOOSE k \in Numbers(x) : \A j \in Numbers(x) : k <= j]
<1>1. ASSUME NEW x \in S
      PROVE  \E k \in Numbers(x) : \A j \in Numbers(x) : k <= j
  <2>1. PICK k \in Numbers(x) : TRUE OBVIOUS
  <2>2. Numbers(x) \cap (0 .. k) \in SUBSET (0 .. k) /\ k \in Numbers(x) \cap (0 .. k) BY <2>1
  <2>3. PICK m \in Numbers(x) \cap (0 .. k) : \A j \in Numbers(x) \cap (0 .. k) : m <= j
    <3>1. k \in Nat BY <2>1
    <3> HIDE DEF Numbers
    <3> QED BY <2>2, <3>1, SmallestOf
  <2>4. \A j \in Numbers(x) : m <= j BY <2>1, <2>3
  <2> QED BY <2>3, <2>4
<1>2. ASSUME NEW x \in S
      PROVE  size[x] \in Numbers(x) /\ \A j \in Numbers(x) : size[x] <= j
  BY <1>1
<1>3. size \in [S -> Nat]
  <2>1. \A x \in S : size[x] \in Nat BY <1>2
  <2> QED BY <2>1
<1>4. first \in S /\ size[first] <= NodeCount
  <2>1. first \in S /\ n \in Numbers(first) OBVIOUS
  <2>2. size[first] <= n /\ size[first] \in Nat BY <1>2, <2>1
  <2> HIDE DEF S, size, Numbers
  <2> QED BY <2>1, <2>2, NodeCountIs
<1>5. ASSUME NEW x \in S
      PROVE  turn[x] \in S /\ (turn[x] = x \/ size[turn[x]] < size[x])
  <2>1. size[x] \in Nat /\ size[x] \in K[x] /\ x \in X BY <1>2
  <2>2. CASE turn[x] = x BY <2>2
  <2>3. CASE turn[x] # x
    <3>1. PICK j \in K[turn[x]] : j < size[x] /\ turn[x] \in X BY <2>1, <2>3
    <3>2. turn[x] \in S /\ j \in Numbers(turn[x]) /\ j \in Nat BY <3>1
    <3>3. size[turn[x]] <= j /\ size[turn[x]] \in Nat BY Zenon, <1>2, <3>2
    <3> HIDE DEF size, Numbers, S
    <3> QED BY <2>1, <3>1, <3>2, <3>3
  <2> QED BY <2>2, <2>3
<1>6. After(turn, first) \in S /\ turn[After(turn, first)] = After(turn, first)
  <2> HIDE DEF S, size
  <2> QED BY <1>3, <1>4, <1>5, AfterSettles
<1> QED BY <1>6

-----------------------------------------------------------------------------
(* Black heights: h is one for each node, none is the height of no node.   *)
Height(h, n) == IF n = NULL THEN 0 ELSE h[n]
Weight(t, n) == IF t.red[n] THEN 0 ELSE 1

(* Either side of n is of the same black height, and n is as high as is due. *)
Even(t, h, n) == \A s \in Sides : h[n] = Height(h, t.child[s][n]) + Weight(t, n)

(* A red node under a red one. *)
RedPair(t, n, s) == t.red[n] /\ IsRed(t, t.child[s][n])

(* The conditions of a red-black tree. *)
RedBlack(t, B, T, R, h) ==
    /\ Tree(t, B, T, R)
    /\ h \in [Nodes -> Nat] /\ \A n \in T : Even(t, h, n)
    /\ \A n \in T, s \in Sides : ~RedPair(t, n, s)
    /\ ~IsRed(t, t.root)

(* Where everything hangs after a rotation. *)
LEMMA RotatedLinks ==
  ASSUME NEW t, NEW B, NEW T, NEW R, Tree(t, B, T, R), NEW n \in T, NEW s \in Sides,
         NEW up, up = t.child[Other(s)][n], up # NULL, NEW inner, inner = t.child[s][up],
         NEW u, Rotated(t, T, n, s, up, inner, u)
  PROVE  /\ up \in T /\ up # n
         /\ u.child[s][n] = t.child[s][n] /\ u.child[Other(s)][n] = inner
         /\ u.child[s][up] = n /\ u.child[Other(s)][up] = t.child[Other(s)][up]
         /\ \A m \in T, r \in Sides : m \notin {n, up} =>
               \/ t.child[r][m] = n /\ u.child[r][m] = up
               \/ t.child[r][m] \notin {n, up} /\ u.child[r][m] = t.child[r][m]
<1>1. PICK o : o = Other(s) OBVIOUS
<1>2. o \in Sides /\ o # s BY <1>1, TwoSides
<1>3. n # NULL BY NodeAssumption DEF Tree, Typed
<1>4. up \in T /\ up # n /\ t.parent[up] = n /\ n \notin B[up] BY <1>1, <1>2, AChild
<1>5. PICK a : a = t.child[s][n] OBVIOUS
<1>6. PICK b : b = t.child[o][up] OBVIOUS
<1>7. a # n BY <1>3, <1>5, AChild
<1>8. b # n
  <2>1. b # NULL => b \in B[up] BY <1>2, <1>4, <1>6, AChild
  <2> QED BY <1>3, <1>4, <2>1
<1>9. u.child[s][n] = a /\ u.child[o][n] = inner BY <1>1, <1>2, <1>4, <1>5, <1>7 DEF Rotated
<1>10. u.child[s][up] = n /\ u.child[o][up] = b BY <1>1, <1>2, <1>4, <1>6, <1>8 DEF Rotated
<1>11. ASSUME NEW m \in T, NEW r \in Sides, m \notin {n, up}
       PROVE  \/ t.child[r][m] = n /\ u.child[r][m] = up
              \/ t.child[r][m] \notin {n, up} /\ u.child[r][m] = t.child[r][m]
  <2>1. t.child[r][m] # up BY <1>4, <1>11, AChild
  <2>2. u.child[r][m] = IF t.child[r][m] = n THEN up ELSE t.child[r][m] BY <1>11 DEF Rotated
  <2> QED BY <2>1, <2>2
<1> QED BY Zenon, <1>1, <1>4, <1>5, <1>6, <1>9, <1>10, <1>11

(* The same in one word. *)
Relinked(child, T, n, s, up, far, inner, u) ==
    /\ u.child[s][n] = child[s][n] /\ u.child[Other(s)][n] = inner
    /\ u.child[s][up] = n /\ u.child[Other(s)][up] = far
    /\ \A m \in T, r \in Sides : m \notin {n, up} =>
          \/ child[r][m] = n /\ u.child[r][m] = up
          \/ child[r][m] \notin {n, up} /\ u.child[r][m] = child[r][m]

LEMMA RelinkedIs ==
  ASSUME NEW t, NEW B, NEW T, NEW R, Tree(t, B, T, R), NEW n \in T, NEW s \in Sides,
         NEW up, up = t.child[Other(s)][n], up # NULL, NEW inner, inner = t.child[s][up],
         NEW far, far = t.child[Other(s)][up],
         NEW u, Rotated(t, T, n, s, up, inner, u), NEW child, child = t.child
  PROVE  Relinked(child, T, n, s, up, far, inner, u)
<1>1. Relinked(t.child, T, n, s, up, far, inner, u) BY RotatedLinks DEF Relinked
<1> QED BY Zenon, <1>1

(* A rotation disturbs no heights but those of the two nodes. *)
LEMMA RotatedEven ==
  ASSUME NEW t, NEW B, NEW T, NEW R, Tree(t, B, T, R), NEW n \in T, NEW s \in Sides,
         NEW up, up = t.child[Other(s)][n], up # NULL, NEW inner, inner = t.child[s][up],
         NEW u, Rotated(t, T, n, s, up, inner, u),
         NEW h, NEW h2, h2[up] = h[n], \A m \in Nodes : m \notin {n, up} => h2[m] = h[m],
         NEW m \in T, m \notin {n, up}, Even(t, h, m)
  PROVE  Even(u, h2, m)
<1>1. T \subseteq Nodes /\ NULL \notin T BY NodeAssumption DEF Tree, Typed
<1>2. up \in T BY RotatedLinks
<1>3. ASSUME NEW r \in Sides
      PROVE  Height(h2, u.child[r][m]) = Height(h, t.child[r][m])
  <2>1. CASE t.child[r][m] = n /\ u.child[r][m] = up BY <1>1, <1>2, <2>1 DEF Height
  <2>2. CASE t.child[r][m] \notin {n, up} /\ u.child[r][m] = t.child[r][m]
    <3>1. t.child[r][m] # NULL => t.child[r][m] \in Nodes BY AChild
    <3> QED BY <2>2, <3>1 DEF Height
  <2> QED BY <2>1, <2>2, RotatedLinks
<1>4. u.red = t.red BY DEF Rotated
<1>5. h2[m] = h[m] BY <1>1
<1> QED BY <1>3, <1>4, <1>5 DEF Even, Weight

(* Rotating a tree. *)
LEMMA RotateTree ==
  ASSUME NEW t, NEW B, NEW T, NEW R, Tree(t, B, T, R), NEW n \in T, NEW s \in Sides,
         NEW up, up = t.child[Other(s)][n], up # NULL, NEW inner, inner = t.child[s][up],
         NEW u, u = Rotate(t, n, s)
  PROVE  /\ Rotated(t, T, n, s, up, inner, u)
         /\ Tree(u, Turned(t, B, n, s, up, inner), T, R)
<1>1. Rotated(t, T, n, s, up, inner, u) BY RotateIs
<1>2. PICK B2 : B2 = Turned(t, B, n, s, up, inner) OBVIOUS
<1>3. Tree(u, B2, T, R) BY ZenonT(30), <1>1, <1>2, RotatedTree
<1> QED BY <1>1, <1>2, <1>3

-----------------------------------------------------------------------------
(* Insertion: the turns of the loop. *)

(* While an insertion goes up: e is red, and nothing is wrong but that its *)
(* parent may be red, too.                                                 *)
Fixing(t, B, T, R, h, e) ==
    /\ Tree(t, B, T, R)
    /\ h \in [Nodes -> Nat] /\ \A n \in T : Even(t, h, n)
    /\ e \in T /\ t.red[e]
    /\ \A n \in T, s \in Sides : RedPair(t, n, s) => t.child[s][n] = e
    /\ IsRed(t, t.root) => t.root = e

(* e, its parent and its grandparent, when the parent is red. *)
Family(t, T, h, e, par, gpar, s) ==
    /\ {e, par, gpar} \subseteq T /\ e # par /\ e # gpar /\ par # gpar
    /\ par = t.parent[e] /\ gpar = t.parent[par] /\ s = SideOf(t, gpar, par) /\ s \in Sides
    /\ t.child[s][gpar] = par /\ \E r \in Sides : t.child[r][par] = e
    /\ t.red[e] /\ t.red[par] /\ ~t.red[gpar]
    /\ h[par] = h[e] /\ h[gpar] = h[par] + 1
    /\ Height(h, t.child[Other(s)][gpar]) = h[par]
    /\ t.root # par /\ t.root # e

(* Where a red node is under a red one, there is a black grandparent. *)
LEMMA FamilyIs ==
  ASSUME NEW t, NEW B, NEW T, NEW R, NEW h, NEW e, Fixing(t, B, T, R, h, e),
         IsRed(t, t.parent[e])
  PROVE  Family(t, T, h, e, t.parent[e], t.parent[t.parent[e]],
                SideOf(t, t.parent[t.parent[e]], t.parent[e]))
<1>1. PICK par : par = t.parent[e] OBVIOUS
<1>2. PICK gpar : gpar = t.parent[par] OBVIOUS
<1>3. PICK s : s = SideOf(t, gpar, par) OBVIOUS
<1>4. Tree(t, B, T, R) /\ T \subseteq Nodes /\ h \in [Nodes -> Nat] BY DEF Fixing, Tree, Typed
<1>5. e \in T /\ t.red[e] /\ par # NULL /\ t.red[par] BY <1>1 DEF Fixing, IsRed
<1>6. PICK r \in Sides : par \in T /\ t.child[r][par] = e
  <2>1. e # t.root BY <1>1, <1>4, <1>5, ParentIs
  <2> QED BY <1>1, <1>4, <1>5, <2>1, ParentIs, SideOfIs
<1>7. e # par /\ e # t.root
  <2>1. e # NULL BY NodeAssumption, <1>4, <1>5
  <2> QED BY <1>4, <1>6, <2>1, AChild
<1>8. par # t.root BY <1>5, <1>7 DEF Fixing, IsRed
<1>9. gpar \in T /\ t.child[s][gpar] = par /\ s \in Sides
  BY <1>2, <1>3, <1>4, <1>6, <1>8, ParentIs, SideOfIs
<1>10. par # gpar /\ e # gpar
  <2>1. par \in B[gpar] /\ gpar \notin B[par] /\ par # gpar BY <1>4, <1>5, <1>9, AChild
  <2>2. e \in B[par]
    <3>1. e # NULL BY NodeAssumption, <1>4, <1>5
    <3> QED BY <1>4, <1>6, <3>1, AChild
  <2> QED BY <2>1, <2>2
<1>11. ~t.red[gpar]
  <2>1. t.red[gpar] => RedPair(t, gpar, s) BY <1>5, <1>9 DEF RedPair, IsRed
  <2> QED BY <1>7, <1>9, <2>1 DEF Fixing
<1>12. h[par] = h[e] /\ h[gpar] = h[par] + 1 /\ Height(h, t.child[Other(s)][gpar]) = h[par]
  <2>1. e # NULL BY NodeAssumption, <1>4, <1>5
  <2>2. h[par] = Height(h, e) + 0 BY <1>5, <1>6 DEF Fixing, Even, Weight
  <2>3. /\ h[gpar] = Height(h, par) + 1
        /\ h[gpar] = Height(h, t.child[Other(s)][gpar]) + 1
    BY <1>9, <1>11, TwoSides DEF Fixing, Even, Weight
  <2>4. h[par] \in Nat /\ h[gpar] \in Nat /\ h[e] \in Nat BY <1>4, <1>5, <1>6, <1>9
  <2>5. Height(h, t.child[Other(s)][gpar]) \in Nat
    <3>1. PICK c : c = t.child[Other(s)][gpar] OBVIOUS
    <3>2. c # NULL => c \in Nodes BY <1>4, <1>9, <3>1, TwoSides, AChild
    <3> QED BY <1>4, <3>1, <3>2 DEF Height
  <2> QED BY <1>5, <2>1, <2>2, <2>3, <2>4, <2>5 DEF Height
<1> QED BY <1>1, <1>2, <1>3, <1>5, <1>6, <1>7, <1>8, <1>9, <1>10, <1>11, <1>12 DEF Family

(* The uncle is red: the red goes up to the grandparent. *)
LEMMA InsertRecolours ==
  ASSUME NEW t, NEW B, NEW T, NEW R, NEW h, NEW e, Fixing(t, B, T, R, h, e),
         NEW par, NEW gpar, NEW s, Family(t, T, h, e, par, gpar, s),
         NEW uncle, uncle = t.child[Other(s)][gpar], IsRed(t, uncle),
         NEW u, u = RB_SET_BLACKRED(Paint(t, uncle, FALSE), par, gpar)
  PROVE  /\ \E h2 : Fixing(u, B, T, R, h2, gpar)
         /\ Cardinality(B[e]) < Cardinality(B[gpar])
<1>1. /\ Tree(t, B, T, R) /\ T \subseteq Nodes /\ h \in [Nodes -> Nat] /\ t \in Trees
      /\ e \in T /\ t.red[e] /\ B \in [Nodes -> SUBSET Nodes]
  BY DEF Fixing, Tree, Typed
<1>2. /\ e \in T /\ par \in T /\ gpar \in T /\ e # par /\ e # gpar /\ par # gpar /\ s \in Sides
      /\ t.child[s][gpar] = par /\ t.red[par] /\ ~t.red[gpar]
      /\ h[gpar] = h[par] + 1 /\ Height(h, uncle) = h[par] /\ t.root # e /\ h[e] = h[par]
  BY Zenon DEF Family
<1>3. PICK o : o = Other(s) OBVIOUS
<1>4. o \in Sides /\ o # s /\ (\A r \in Sides : r = s \/ r = o) BY <1>2, <1>3, TwoSides
<1>5. uncle # NULL /\ t.red[uncle] BY DEF IsRed
<1>6. /\ uncle \in T /\ uncle \in Nodes /\ uncle # gpar /\ uncle # par
      /\ par # NULL /\ t.parent[par] = gpar /\ t.parent[uncle] = gpar
  <2>1. par # NULL BY NodeAssumption, <1>1, <1>2
  <2>2. uncle = t.child[o][gpar] BY <1>3
  <2> QED BY <1>1, <1>2, <1>3, <1>4, <1>5, <2>1, <2>2, AChild
<1>7. PICK t1 : t1 = Paint(t, uncle, FALSE) OBVIOUS
<1>8. Painted(t, uncle, FALSE, t1) BY <1>1, <1>6, <1>7, PaintIs DEF Links
<1>9. PICK t2 : t2 = Paint(t1, par, FALSE) OBVIOUS
<1>10. t1 \in Trees BY <1>8 DEF Painted
<1>11. Painted(t1, par, FALSE, t2) BY <1>1, <1>2, <1>9, <1>10, PaintIs DEF Links
<1>12. t2 \in Trees BY <1>11 DEF Painted
<1>13. u = Paint(t2, gpar, TRUE) BY <1>7, <1>9 DEF RB_SET_BLACKRED
<1>14. Painted(t2, gpar, TRUE, u) BY <1>1, <1>2, <1>12, <1>13, PaintIs DEF Links
<1>15. \A m \in Nodes : u.red[m] = IF m = gpar THEN TRUE
                                   ELSE IF m \in {par, uncle} THEN FALSE ELSE t.red[m]
  BY ZenonT(30), <1>8, <1>11, <1>14 DEF Painted
<1>16. u \in Trees /\ u.root = t.root /\ u.parent = t.parent /\ u.child = t.child
  BY <1>8, <1>11, <1>14 DEF Painted
<1>17. Tree(u, B, T, R)
  <2>1. SameShape(t, T, u) BY <1>16 DEF SameShape
  <2> QED BY <1>1, <2>1, SameTree
<1> DEFINE h2 == [m \in Nodes |-> IF m \in {par, uncle} THEN h[m] + 1 ELSE h[m]]
<1>18. h2 \in [Nodes -> Nat] BY <1>1
<1>19. ASSUME NEW m \in T, NEW r \in Sides
       PROVE  /\ m # gpar => Height(h2, t.child[r][m]) = Height(h, t.child[r][m])
              /\ m = gpar => Height(h2, t.child[r][m]) = h[par] + 1
  <2>1. CASE m = gpar
    <3>1. h[uncle] = h[par] BY <1>2, <1>5 DEF Height
    <3>2. r = s \/ r = o BY <1>4
    <3>3. t.child[r][m] = par \/ t.child[r][m] = uncle BY <1>2, <1>3, <2>1, <3>2
    <3> QED BY <1>1, <1>2, <1>5, <1>6, <2>1, <3>1, <3>3 DEF Height
  <2>2. CASE m # gpar
    <3>1. PICK c : c = t.child[r][m] OBVIOUS
    <3>2. c # NULL => c \in Nodes /\ t.parent[c] = m BY <1>1, <3>1, AChild
    <3>3. c # par /\ c # uncle BY <1>5, <1>6, <2>2, <3>2
    <3> QED BY <2>2, <3>1, <3>2, <3>3 DEF Height
  <2> QED BY <2>1, <2>2
<1>20. ASSUME NEW m \in T
       PROVE  Even(u, h2, m)
  <2>1. \A r \in Sides : h[m] = Height(h, t.child[r][m]) + Weight(t, m) BY DEF Fixing, Even
  <2>2. m \in Nodes BY <1>1
  <2>3. CASE m = gpar
    <3>1. \A r \in Sides : Height(h2, t.child[r][m]) = h[par] + 1 BY <1>19, <2>3
    <3>2. h2[m] = h[par] + 1 BY <1>2, <1>6, <2>2, <2>3
    <3>3. Weight(u, m) = 0 BY <1>15, <2>2, <2>3 DEF Weight
    <3>4. h[par] \in Nat BY <1>1, <1>2
    <3> HIDE DEF h2
    <3>5. ASSUME NEW r \in Sides PROVE h2[m] = Height(h2, t.child[r][m]) + Weight(u, m)
      <4>1. PICK k : k = Height(h2, t.child[r][m]) OBVIOUS
      <4>2. k = h[par] + 1 BY <3>1, <4>1
      <4>3. k \in Nat /\ k + 0 = k BY <3>4, <4>2
      <4> QED BY <3>2, <3>3, <4>1, <4>2, <4>3
    <3> QED BY <1>16, <3>5 DEF Even
  <2>4. CASE m \in {par, uncle}
    <3>1. m # gpar BY <1>2, <1>6, <2>4
    <3>2. Weight(t, m) = 0 /\ Weight(u, m) = 1 BY <1>2, <1>5, <1>15, <2>2, <2>4, <3>1 DEF Weight
    <3>3. \A r \in Sides : Height(h2, t.child[r][m]) = Height(h, t.child[r][m]) BY <1>19, <3>1
    <3>4. h2[m] = h[m] + 1 BY <2>2, <2>4
    <3>5. h[m] \in Nat BY <1>1, <2>2
    <3>6. \A r \in Sides : h[m] = Height(h, t.child[r][m])
      <4>1. TAKE r \in Sides
      <4>2. Height(h, t.child[r][m]) \in Int
        <5>1. PICK c : c = t.child[r][m] OBVIOUS
        <5>2. c # NULL => c \in Nodes BY <1>1, <5>1, AChild
        <5> QED BY <1>1, <5>1, <5>2 DEF Height
      <4> QED BY <2>1, <3>2, <3>5, <4>2
    <3> HIDE DEF h2
    <3> QED BY <1>16, <3>2, <3>3, <3>4, <3>6 DEF Even
  <2>5. CASE m \notin {gpar, par, uncle}
    <3>1. Weight(u, m) = Weight(t, m) BY <1>15, <2>2, <2>5 DEF Weight
    <3>2. \A r \in Sides : Height(h2, t.child[r][m]) = Height(h, t.child[r][m]) BY <1>19, <2>5
    <3>3. h2[m] = h[m] BY <2>2, <2>5
    <3> HIDE DEF h2
    <3> QED BY <1>16, <2>1, <3>1, <3>2, <3>3 DEF Even
  <2> QED BY <2>3, <2>4, <2>5
<1>21. ASSUME NEW m \in T, NEW r \in Sides, RedPair(u, m, r)
       PROVE  u.child[r][m] = gpar
  <2>1. PICK c : c = t.child[r][m] OBVIOUS
  <2>2. u.red[m] /\ c # NULL /\ u.red[c] BY <1>16, <1>21, <2>1 DEF RedPair, IsRed
  <2>3. c \in Nodes /\ t.parent[c] = m /\ m \in Nodes BY <1>1, <2>1, <2>2, AChild
  <2>4. ASSUME c # gpar PROVE FALSE
    <3>1. t.red[c] /\ c # par /\ c # uncle BY <1>15, <2>2, <2>3, <2>4
    <3>2. m # gpar
      <4>1. t.child[s][gpar] = par /\ t.child[o][gpar] = uncle BY <1>2, <1>3
      <4> QED BY <1>4, <2>1, <3>1, <4>1
    <3>3. t.red[m] /\ m # par BY <1>15, <2>2, <2>3, <3>2
    <3>4. RedPair(t, m, r) BY <2>1, <2>2, <3>1, <3>3 DEF RedPair, IsRed
    <3>5. c = e BY Zenon, <2>1, <3>4 DEF Fixing
    <3>6. t.parent[e] = par BY Zenon DEF Family
    <3> QED BY <2>3, <3>3, <3>5, <3>6
  <2> QED BY <1>16, <2>1, <2>4
<1>22. IsRed(u, u.root) => u.root = gpar
  <2>1. SUFFICES ASSUME t.root # NULL, u.red[t.root], t.root # gpar PROVE FALSE
    BY <1>16 DEF IsRed
  <2>2. t.root \in T BY <1>1, <2>1 DEF Tree, Rooted
  <2>3. t.red[t.root] BY <1>1, <1>15, <2>1, <2>2
  <2>4. t.root = e BY <2>1, <2>3 DEF Fixing, IsRed
  <2> QED BY <1>2, <2>4
<1>23. gpar \in T /\ u.red[gpar] BY <1>1, <1>2, <1>15
<1>24. Fixing(u, B, T, R, h2, gpar)
  <2> HIDE DEF h2
  <2> QED BY Zenon, <1>17, <1>18, <1>20, <1>21, <1>22, <1>23 DEF Fixing
<1>25. Cardinality(B[e]) < Cardinality(B[gpar])
  <2>1. PICK r \in Sides : t.child[r][par] = e BY Zenon DEF Family
  <2>2. e # NULL BY NodeAssumption, <1>1
  <2>3. B[e] \subseteq B[par] BY <1>1, <1>2, <2>1, <2>2, AChild
  <2>4. B[par] \subseteq B[gpar] /\ gpar \notin B[par] BY <1>1, <1>2, <1>6, AChild
  <2>5. gpar \in B[gpar] BY <1>1, <1>2, BelowIs
  <2>6. B[gpar] \in SUBSET Nodes /\ B[e] \in SUBSET B[gpar] /\ gpar \notin B[e]
    BY <1>1, <1>2, <2>3, <2>4
  <2> QED BY <2>5, <2>6, FewerNodes
<1> QED BY Zenon, <1>24, <1>25

(* What is only arithmetic. *)
LEMMA NextNat == \A k \in Nat : k + 1 \in Nat
OBVIOUS

(* Children are nodes of the tree, and their heights are numbers. *)
LEMMA HeightIs ==
  ASSUME NEW t, NEW B, NEW T, NEW R, Tree(t, B, T, R), NEW h \in [Nodes -> Nat],
         NEW n \in T, NEW s \in Sides
  PROVE  Height(h, t.child[s][n]) \in Nat
<1>1. PICK c : c = t.child[s][n] OBVIOUS
<1>2. c # NULL => c \in Nodes BY <1>1, AChild
<1> QED BY <1>1, <1>2 DEF Height

(* Under a red node is the height of the node, under a black one is less. *)
LEMMA EvenIs ==
  ASSUME NEW t, NEW B, NEW T, NEW R, Tree(t, B, T, R), NEW h \in [Nodes -> Nat],
         NEW n \in T, NEW s \in Sides, Even(t, h, n)
  PROVE  /\ Height(h, t.child[s][n]) \in Nat /\ h[n] \in Nat
         /\ t.red[n] => h[n] = Height(h, t.child[s][n])
         /\ ~t.red[n] => h[n] = Height(h, t.child[s][n]) + 1
<1>1. PICK k : k = Height(h, t.child[s][n]) OBVIOUS
<1>2. k \in Nat BY <1>1, HeightIs
<1>3. h[n] = k + Weight(t, n) BY <1>1 DEF Even
<1>4. h[n] \in Nat BY DEF Tree, Typed
<1> QED BY <1>1, <1>2, <1>3, <1>4 DEF Weight

(* What that makes of the children of a node k high, of either colour. *)
LEMMA BlackEven ==
  ASSUME NEW t, NEW B, NEW T, NEW R, Tree(t, B, T, R), NEW h \in [Nodes -> Nat],
         NEW n \in T, NEW s \in Sides, Even(t, h, n), NEW c, c = t.child[s][n],
         NEW k \in Nat, ~t.red[n], h[n] = k + 1
  PROVE  Height(h, c) = k
<1>1. Height(h, t.child[s][n]) \in Nat /\ h[n] = Height(h, t.child[s][n]) + 1
  BY EvenIs
<1> QED BY <1>1

LEMMA RedEven ==
  ASSUME NEW t, NEW B, NEW T, NEW R, Tree(t, B, T, R), NEW h \in [Nodes -> Nat],
         NEW n \in T, NEW s \in Sides, Even(t, h, n), NEW c, c = t.child[s][n],
         NEW k \in Nat, t.red[n], h[n] = k
  PROVE  Height(h, c) = k
<1>1. h[n] = Height(h, t.child[s][n]) BY EvenIs
<1> QED BY <1>1

(* The other way round: children k high make a node even. *)
LEMMA EvenBy ==
  ASSUME NEW t, NEW h, NEW n, NEW k \in Nat,
         \A s \in Sides : Height(h, t.child[s][n]) = k,
         t.red[n] => h[n] = k, ~t.red[n] => h[n] = k + 1
  PROVE  Even(t, h, n)
<1>1. h[n] = k + Weight(t, n) BY DEF Weight
<1> QED BY <1>1 DEF Even

(* u is t with one node black and another one red. *)
Recoloured(t, B, T, R, black, red, u) ==
    /\ SameShape(t, T, u) /\ Tree(u, B, T, R)
    /\ u.child = t.child /\ u.parent = t.parent /\ u.root = t.root
    /\ \A m \in T : u.red[m] <=> m = red \/ (m # black /\ t.red[m])

LEMMA BlackRedIs ==
  ASSUME NEW t, NEW B, NEW T, NEW R, Tree(t, B, T, R), NEW black \in T, NEW red \in T,
         black # red
  PROVE  Recoloured(t, B, T, R, black, red, RB_SET_BLACKRED(t, black, red))
<1> DEFINE u == RB_SET_BLACKRED(t, black, red)
<1>1. t \in Trees /\ T \subseteq Nodes BY DEF Tree, Typed
<1>2. PICK t1 : t1 = Paint(t, black, FALSE) OBVIOUS
<1>3. Painted(t, black, FALSE, t1) BY <1>1, <1>2, PaintIs DEF Links
<1>4. t1 \in Trees BY <1>3 DEF Painted
<1>5. u = Paint(t1, red, TRUE) BY <1>2 DEF RB_SET_BLACKRED
<1> HIDE DEF u
<1>6. Painted(t1, red, TRUE, u) BY <1>1, <1>4, <1>5, PaintIs DEF Links
<1>7. SameShape(t, T, u) BY <1>3, <1>6 DEF Painted, SameShape
<1>8. Tree(u, B, T, R) BY <1>7, SameTree
<1>9. Recoloured(t, B, T, R, black, red, u)
  BY <1>1, <1>3, <1>6, <1>7, <1>8 DEF Painted, Recoloured
<1> QED BY <1>9 DEF u

(* e is the inner grandchild: it changes places with its parent. *)
LEMMA InsertTurnsIn ==
  ASSUME NEW t, NEW B, NEW T, NEW R, NEW h, NEW e, Fixing(t, B, T, R, h, e),
         NEW par, NEW gpar, NEW s, Family(t, T, h, e, par, gpar, s),
         t.child[Other(s)][par] = e, NEW u, u = Rotate(t, par, s)
  PROVE  /\ \E B2 : Fixing(u, B2, T, R, h, par)
         /\ u.parent[par] = e /\ u.parent[e] = gpar /\ u.child[s][gpar] = e
         /\ u.child[Other(s)][gpar] = t.child[Other(s)][gpar]
         /\ u.child[s][e] = par /\ u.red = t.red
<1>1. /\ Tree(t, B, T, R) /\ T \subseteq Nodes /\ h \in [Nodes -> Nat] /\ NULL \notin T
      /\ \A n \in T : Even(t, h, n)
  BY NodeAssumption DEF Fixing, Tree, Typed
<1>2. /\ e \in T /\ par \in T /\ gpar \in T /\ e # par /\ e # gpar /\ par # gpar /\ s \in Sides
      /\ t.child[s][gpar] = par /\ t.red[par] /\ ~t.red[gpar] /\ t.red[e]
      /\ h[e] = h[par] /\ t.root # e /\ t.root # par /\ t.parent[par] = gpar
  BY DEF Family
<1>3. PICK o : o = Other(s) OBVIOUS
<1>4. o \in Sides /\ o # s /\ (\A r \in Sides : r = s \/ r = o) BY <1>2, <1>3, TwoSides
<1>5. PICK inner : inner = t.child[s][e] OBVIOUS
<1>6. e = t.child[Other(s)][par] /\ e # NULL BY <1>1, <1>2
<1>7. PICK B2 : B2 = Turned(t, B, par, s, e, inner) OBVIOUS
<1>8. Rotated(t, T, par, s, e, inner, u) /\ Tree(u, B2, T, R)
  BY <1>1, <1>2, <1>5, <1>6, <1>7, RotateTree
<1>9. u.red = t.red /\ u.root = t.root BY <1>2, <1>8 DEF Rotated
<1>10. /\ u.child[s][par] = t.child[s][par] /\ u.child[o][par] = inner
       /\ u.child[s][e] = par /\ u.child[o][e] = t.child[o][e]
       /\ \A m \in T, r \in Sides : m \notin {par, e} =>
             \/ t.child[r][m] = par /\ u.child[r][m] = e
             \/ t.child[r][m] \notin {par, e} /\ u.child[r][m] = t.child[r][m]
  BY <1>1, <1>2, <1>3, <1>5, <1>6, <1>8, RotatedLinks
<1>11. inner # e
  <2>1. inner # NULL => inner # e BY <1>1, <1>2, <1>5, AChild
  <2> QED BY <1>6, <2>1
<1>12. ASSUME NEW m \in T
       PROVE  Even(u, h, m)
  <2>1. CASE m \notin {par, e} BY <1>1, <1>2, <1>5, <1>6, <1>8, <2>1, RotatedEven
  <2>2. CASE m = par
    <3>1. Height(h, t.child[s][par]) = h[par] /\ h[par] \in Nat BY <1>1, <1>2, EvenIs
    <3>2. Height(h, inner) = h[par] BY <1>1, <1>2, <1>5, EvenIs
    <3>3. \A r \in Sides : Height(h, u.child[r][m]) = h[par] BY <1>4, <1>10, <2>2, <3>1, <3>2
    <3> QED BY <1>2, <1>9, <2>2, <3>1, <3>3, EvenBy
  <2>3. CASE m = e
    <3>1. Height(h, t.child[o][e]) = h[e] /\ h[e] \in Nat BY <1>1, <1>2, <1>4, EvenIs
    <3>2. Height(h, par) = h[e] BY <1>1, <1>2 DEF Height
    <3>3. \A r \in Sides : Height(h, u.child[r][m]) = h[e] BY <1>4, <1>10, <2>3, <3>1, <3>2
    <3> QED BY <1>2, <1>9, <2>3, <3>1, <3>3, EvenBy
  <2> QED BY <2>1, <2>2, <2>3
<1>13. \A m \in T, r \in Sides : t.red[m] /\ IsRed(t, t.child[r][m]) => t.child[r][m] = e
  BY DEF Fixing, RedPair
<1>14. ASSUME NEW m \in T, NEW r \in Sides, RedPair(u, m, r)
       PROVE  u.child[r][m] = par
  <2>1. t.red[m] /\ IsRed(t, u.child[r][m]) BY <1>9, <1>14 DEF RedPair, IsRed
  <2>2. CASE m = par
    <3>1. CASE r = s
      <4>1. t.child[s][par] = e BY <1>2, <1>10, <1>13, <2>1, <2>2, <3>1
      <4>2. e # t.child[Other(s)][par] BY <1>1, <1>2, <1>6, <4>1, AChild
      <4> QED BY <1>6, <4>2
    <3>2. CASE r = o
      <4>1. IsRed(t, t.child[s][e]) BY <1>5, <1>10, <2>1, <2>2, <3>2
      <4>2. t.child[s][e] = e BY <1>2, <1>13, <4>1
      <4> QED BY <1>5, <1>11, <4>2
    <3> QED BY <1>4, <3>1, <3>2
  <2>3. CASE m = e
    <3>1. CASE r = s BY <1>10, <2>3, <3>1
    <3>2. CASE r = o
      <4>1. PICK c : c = t.child[o][e] OBVIOUS
      <4>2. c = e BY <1>2, <1>4, <1>10, <1>13, <2>1, <2>3, <3>2, <4>1
      <4>3. c # NULL => c # e BY <1>1, <1>2, <1>4, <4>1, AChild
      <4> QED BY <1>6, <4>2, <4>3
    <3> QED BY <1>4, <3>1, <3>2
  <2>4. CASE m \notin {par, e}
    <3>1. CASE t.child[r][m] = par
      <4>1. par # NULL BY <1>1, <1>2
      <4>2. t.parent[par] = m BY <1>1, <3>1, <4>1, AChild
      <4> QED BY <1>2, <2>1, <4>2
    <3>2. CASE t.child[r][m] \notin {par, e} /\ u.child[r][m] = t.child[r][m]
      BY <1>13, <2>1, <3>2
    <3> QED BY <1>10, <2>4, <3>1, <3>2
  <2> QED BY <2>2, <2>3, <2>4
<1>15. IsRed(u, u.root) => u.root = par
  <2>1. IsRed(t, t.root) => t.root = e BY DEF Fixing
  <2> QED BY <1>2, <1>9, <2>1 DEF IsRed
<1>16. Fixing(u, B2, T, R, h, par) BY <1>1, <1>2, <1>8, <1>9, <1>12, <1>14, <1>15 DEF Fixing
<1>17. u.parent[par] = e /\ u.parent[e] = gpar BY <1>2, <1>8 DEF Rotated
<1>18. u.child[s][gpar] = e BY <1>2, <1>10
<1>19. u.child[o][gpar] = t.child[o][gpar]
  <2>1. t.child[o][gpar] # par
    <3>1. par # NULL BY <1>1, <1>2
    <3>2. par = t.child[s][gpar] BY <1>2
    <3> QED BY <1>1, <1>2, <1>3, <3>1, <3>2, AChild
  <2> QED BY <1>2, <1>4, <1>10, <2>1
<1> QED BY <1>3, <1>9, <1>10, <1>16, <1>17, <1>18, <1>19

(* e is the outer grandchild: its parent takes the place of the           *)
(* grandparent, and the tree is red-black but for the colour of the root.  *)
LEMMA InsertTurnsOver ==
  ASSUME NEW t, NEW B, NEW T, NEW R, NEW h, NEW e, Fixing(t, B, T, R, h, e),
         NEW par, NEW gpar, NEW s, Family(t, T, h, e, par, gpar, s),
         t.child[s][par] = e, ~IsRed(t, t.child[Other(s)][gpar]),
         NEW u, u = Rotate(RB_SET_BLACKRED(t, par, gpar), gpar, Other(s))
  PROVE  /\ \E B2, h2 : Fixing(u, B2, T, R, h2, e)
         /\ ~IsRed(u, u.parent[e])
<1>1. /\ Tree(t, B, T, R) /\ T \subseteq Nodes /\ h \in [Nodes -> Nat] /\ NULL \notin T
      /\ \A n \in T : Even(t, h, n)
  BY Zenon, NodeAssumption DEF Fixing, Tree, Typed
<1>2. /\ e \in T /\ par \in T /\ gpar \in T /\ e # par /\ e # gpar /\ par # gpar /\ s \in Sides
      /\ t.child[s][gpar] = par /\ t.red[par] /\ ~t.red[gpar] /\ t.red[e]
      /\ h[e] = h[par] /\ h[gpar] = h[par] + 1 /\ Height(h, t.child[Other(s)][gpar]) = h[par]
      /\ t.root # e /\ t.root # par /\ t.parent[par] = gpar /\ t.parent[e] = par
  BY DEF Family
<1>3. PICK o : o = Other(s) OBVIOUS
<1>4. o \in Sides /\ o # s /\ Other(o) = s /\ (\A r \in Sides : r = s \/ r = o)
  BY <1>2, <1>3, TwoSides
<1>5. PICK t1 : t1 = RB_SET_BLACKRED(t, par, gpar) OBVIOUS
<1>6. /\ Tree(t1, B, T, R) /\ t1.child = t.child /\ t1.parent = t.parent /\ t1.root = t.root
      /\ \A m \in T : t1.red[m] <=> m = gpar \/ (m # par /\ t.red[m])
  <2>1. Recoloured(t, B, T, R, par, gpar, t1) BY <1>1, <1>2, <1>5, BlackRedIs
  <2> QED BY <2>1 DEF Recoloured
<1>7. PICK inner : inner = t.child[o][par] OBVIOUS
<1>8. PICK uncle : uncle = t.child[o][gpar] OBVIOUS
<1>9. par = t1.child[Other(o)][gpar] /\ par # NULL /\ inner = t1.child[o][par]
  BY <1>1, <1>2, <1>4, <1>6, <1>7
<1>10. u = Rotate(t1, gpar, o) BY <1>3, <1>5
<1>11. PICK B2 : B2 = Turned(t1, B, gpar, o, par, inner) OBVIOUS
<1>12. Rotated(t1, T, gpar, o, par, inner, u) /\ Tree(u, B2, T, R)
  BY <1>2, <1>4, <1>6, <1>9, <1>10, <1>11, RotateTree
<1>13. u.red = t1.red /\ u.root = IF t.root = gpar THEN par ELSE t.root BY <1>6, <1>12 DEF Rotated
<1>14. /\ u.child[o][gpar] = uncle /\ u.child[s][gpar] = inner
       /\ u.child[o][par] = gpar /\ u.child[s][par] = e
       /\ \A m \in T, r \in Sides : m \notin {gpar, par} =>
             \/ t.child[r][m] = gpar /\ u.child[r][m] = par
             \/ t.child[r][m] \notin {gpar, par} /\ u.child[r][m] = t.child[r][m]
  <2>1. /\ u.child[o][gpar] = t1.child[o][gpar] /\ u.child[Other(o)][gpar] = inner
        /\ u.child[o][par] = gpar /\ u.child[Other(o)][par] = t1.child[Other(o)][par]
        /\ \A m \in T, r \in Sides : m \notin {gpar, par} =>
              \/ t1.child[r][m] = gpar /\ u.child[r][m] = par
              \/ t1.child[r][m] \notin {gpar, par} /\ u.child[r][m] = t1.child[r][m]
    BY <1>2, <1>4, <1>6, <1>9, <1>12, RotatedLinks
  <2> QED BY <1>4, <1>6, <1>8, <2>1
<1>15. /\ uncle \notin {par, gpar} /\ inner \notin {par, gpar, e}
       /\ uncle # NULL => uncle \in T
       /\ inner # NULL => inner \in T
  <2>1. uncle # NULL => uncle \in T /\ uncle # gpar /\ uncle # t.child[Other(o)][gpar]
    BY <1>1, <1>2, <1>4, <1>8, AChild
  <2>2. inner # NULL => /\ inner \in T /\ inner # par /\ inner # t.child[Other(o)][par]
                        /\ inner \in B[par]
    BY <1>1, <1>2, <1>4, <1>7, AChild
  <2>3. gpar \notin B[par] BY <1>1, <1>2, <1>9, AChild
  <2> QED BY <1>1, <1>2, <1>4, <2>1, <2>2, <2>3
<1>16. ~IsRed(t, uncle) BY <1>3, <1>8
<1> DEFINE h2 == [m \in Nodes |-> IF m = par THEN h[gpar] ELSE IF m = gpar THEN h[par] ELSE h[m]]
<1>17. /\ h2 \in [Nodes -> Nat] /\ h2[par] = h[gpar] /\ h2[gpar] = h[par] /\ h[par] \in Nat
       /\ \A m \in Nodes : m \notin {gpar, par} => h2[m] = h[m]
  BY <1>1, <1>2
<1>18. ASSUME NEW m \in T
       PROVE  Even(u, h2, m)
  <2> HIDE DEF h2
  <2>1. CASE m \notin {gpar, par}
    <3>1. t1.red[m] <=> t.red[m] BY <1>6, <2>1
    <3>2. Even(t1, h, m) BY <1>1, <1>6, <3>1 DEF Even, Weight
    <3> QED BY <1>2, <1>4, <1>6, <1>9, <1>12, <1>17, <2>1, <3>2, RotatedEven
  <2>2. CASE m = gpar
    <3>1. Height(h2, uncle) = h[par]
      <4>1. Height(h, uncle) = h[par] BY <1>2, <1>3, <1>8
      <4> QED BY <1>1, <1>15, <1>17, <4>1 DEF Height
    <3>2. Height(h2, inner) = h[par]
      <4>1. Height(h, inner) = h[par] BY <1>1, <1>2, <1>4, <1>7, EvenIs
      <4> QED BY <1>1, <1>15, <1>17, <4>1 DEF Height
    <3>3. \A r \in Sides : Height(h2, u.child[r][m]) = h[par] BY <1>4, <1>14, <2>2, <3>1, <3>2
    <3>4. u.red[m] /\ h2[m] = h[par] BY <1>2, <1>6, <1>13, <1>17, <2>2
    <3> QED BY <1>17, <3>3, <3>4, EvenBy
  <2>3. CASE m = par
    <3>1. Height(h2, gpar) = h[par] BY <1>1, <1>2, <1>17 DEF Height
    <3>2. Height(h2, e) = h[par] BY <1>1, <1>2, <1>17 DEF Height
    <3>3. \A r \in Sides : Height(h2, u.child[r][m]) = h[par] BY <1>4, <1>14, <2>3, <3>1, <3>2
    <3>4. ~u.red[m] /\ h2[m] = h[par] + 1 BY <1>2, <1>6, <1>13, <1>17, <2>3
    <3> QED BY <1>17, <3>3, <3>4, EvenBy
  <2> QED BY <2>1, <2>2, <2>3
<1>19. \A m \in T, r \in Sides : t.red[m] /\ IsRed(t, t.child[r][m]) => t.child[r][m] = e
  BY DEF Fixing, RedPair
<1>20. ASSUME NEW m \in T, NEW r \in Sides, RedPair(u, m, r)
       PROVE  FALSE
  <2>1. t1.red[m] /\ u.child[r][m] # NULL /\ t1.red[u.child[r][m]]
    BY <1>13, <1>20 DEF RedPair, IsRed
  <2>2. CASE m = gpar
    <3>1. CASE r = o
      <4>1. uncle # NULL /\ t1.red[uncle] BY <1>14, <2>1, <2>2, <3>1
      <4>2. t.red[uncle] BY <1>6, <1>15, <4>1
      <4> QED BY <1>16, <4>1, <4>2 DEF IsRed
    <3>2. CASE r = s
      <4>1. inner # NULL /\ t1.red[inner] BY <1>14, <2>1, <2>2, <3>2
      <4>2. t.red[inner] BY <1>6, <1>15, <4>1
      <4>3. inner = e BY <1>2, <1>4, <1>7, <1>19, <4>1, <4>2 DEF IsRed
      <4> QED BY <1>15, <4>3
    <3> QED BY <1>4, <3>1, <3>2
  <2>3. CASE m = par BY <1>2, <1>6, <2>1, <2>3
  <2>4. CASE m \notin {gpar, par}
    <3>1. u.child[r][m] # par BY <1>2, <1>6, <2>1
    <3>2. PICK c : c = t.child[r][m] OBVIOUS
    <3>3. c \notin {gpar, par} /\ u.child[r][m] = c BY <1>14, <2>4, <3>1, <3>2
    <3>4. c \in T /\ t.parent[c] = m BY <1>1, <2>1, <3>2, <3>3, AChild
    <3>5. t.red[m] /\ t.red[c] BY <1>6, <2>1, <2>4, <3>3, <3>4
    <3>6. c = e BY <1>1, <1>19, <3>2, <3>4, <3>5 DEF IsRed
    <3> QED BY <1>2, <2>4, <3>4, <3>6
  <2> QED BY <2>2, <2>3, <2>4
<1>21. ~IsRed(u, u.root)
  <2>1. CASE t.root = gpar BY <1>2, <1>6, <1>13, <2>1 DEF IsRed
  <2>2. CASE t.root # gpar
    <3>1. t.root # NULL => t.root \in T BY <1>1 DEF Tree, Rooted
    <3>2. ~IsRed(t, t.root) BY <1>2 DEF Fixing
    <3> QED BY <1>2, <1>6, <1>13, <2>2, <3>1, <3>2 DEF IsRed
  <2> QED BY <2>1, <2>2
<1>22. u.red[e] BY <1>2, <1>6, <1>13
<1>23. Fixing(u, B2, T, R, h2, e)
  <2> HIDE DEF h2
  <2> QED BY <1>2, <1>12, <1>17, <1>18, <1>20, <1>21, <1>22 DEF Fixing
<1>24. ~IsRed(u, u.parent[e])
  <2>1. u.parent[e] = par BY <1>2, <1>6, <1>12, <1>15 DEF Rotated
  <2> QED BY <1>2, <1>6, <1>13, <2>1 DEF IsRed
<1> QED BY <1>23, <1>24

(* A turn of the loop of RB_INSERT_COLOR leaves one red pair at most,      *)
(* further up.                                                             *)
LEMMA InsertTurnIs ==
  ASSUME NEW t, NEW B, NEW T, NEW R, NEW h, NEW e, Fixing(t, B, T, R, h, e),
         NEW x, x = InsertTurn(t, e)
  PROVE  /\ ~IsRed(t, t.parent[e]) => x = [tree |-> t, node |-> e]
         /\ IsRed(t, t.parent[e]) =>
               \E B2, h2 : /\ Fixing(x.tree, B2, T, R, h2, x.node)
                           /\ IsRed(x.tree, x.tree.parent[x.node]) =>
                                 B2 = B /\ Cardinality(B[e]) < Cardinality(B[x.node])
<1>1. CASE ~IsRed(t, t.parent[e]) BY <1>1 DEF InsertTurn
<1>2. CASE IsRed(t, t.parent[e])
  <2>1. PICK par : par = t.parent[e] OBVIOUS
  <2>2. PICK gpar : gpar = t.parent[par] OBVIOUS
  <2>3. PICK s : s = SideOf(t, gpar, par) OBVIOUS
  <2>4. PICK uncle : uncle = t.child[Other(s)][gpar] OBVIOUS
  <2>5. Family(t, T, h, e, par, gpar, s) BY <1>2, <2>1, <2>2, <2>3, FamilyIs
  <2>6. s \in Sides /\ Other(s) \in Sides /\ Other(s) # s BY <2>5, TwoSides DEF Family
  <2>7. CASE IsRed(t, uncle)
    <3>1. PICK u : u = RB_SET_BLACKRED(Paint(t, uncle, FALSE), par, gpar) BY Zenon
    <3>2. x = [tree |-> u, node |-> gpar]
      BY Zenon, <1>2, <2>1, <2>2, <2>3, <2>4, <2>7, <3>1 DEF InsertTurn
    <3>3. (\E h2 : Fixing(u, B, T, R, h2, gpar)) /\ Cardinality(B[e]) < Cardinality(B[gpar])
      BY <2>4, <2>5, <2>7, <3>1, InsertRecolours
    <3>4. x.tree = u /\ x.node = gpar BY <3>2
    <3> QED BY <1>2, <3>3, <3>4
  <2>8. CASE ~IsRed(t, uncle) /\ t.child[Other(s)][par] = e
    <3>1. PICK u1 : u1 = Rotate(t, par, s) OBVIOUS
    <3>2. PICK u : u = Rotate(RB_SET_BLACKRED(u1, e, gpar), gpar, Other(s)) BY Zenon
    <3>3. x = [tree |-> u, node |-> par]
      BY ZenonT(30), <1>2, <2>1, <2>2, <2>3, <2>4, <2>8, <3>1, <3>2 DEF InsertTurn
    <3>4. /\ \E B2 : Fixing(u1, B2, T, R, h, par)
          /\ u1.parent[par] = e /\ u1.parent[e] = gpar /\ u1.child[s][gpar] = e
          /\ u1.child[Other(s)][gpar] = t.child[Other(s)][gpar]
          /\ u1.child[s][e] = par /\ u1.red = t.red
      BY <2>5, <2>8, <3>1, InsertTurnsIn
    <3>5. PICK B2 : Fixing(u1, B2, T, R, h, par) BY <3>4
    <3>6. Tree(u1, B2, T, R) /\ gpar \in T /\ e \in T /\ e # NULL /\ t.red[e]
      BY <2>5, <3>5, NodeAssumption DEF Family, Fixing, Tree, Typed
    <3>7. e # u1.child[Other(s)][gpar] BY <2>6, <3>4, <3>6, AChild
    <3>8. SideOf(u1, gpar, e) = s BY <2>6, <3>4, <3>7, SideOfIs
    <3>9. IsRed(u1, e) BY <3>4, <3>6 DEF IsRed
    <3>10. Family(u1, T, h, par, e, gpar, s)
      <4>1. IsRed(u1, u1.parent[par]) BY <3>4, <3>9
      <4>2. Family(u1, T, h, par, u1.parent[par], u1.parent[u1.parent[par]],
                   SideOf(u1, u1.parent[u1.parent[par]], u1.parent[par]))
        BY <3>5, <4>1, FamilyIs
      <4> QED BY <3>4, <3>8, <4>2
    <3>11. ~IsRed(u1, u1.child[Other(s)][gpar]) BY <2>4, <2>8, <3>4 DEF IsRed
    <3>12. (\E B3, h3 : Fixing(u, B3, T, R, h3, par)) /\ ~IsRed(u, u.parent[par])
      BY <3>2, <3>4, <3>5, <3>10, <3>11, InsertTurnsOver
    <3>13. x.tree = u /\ x.node = par BY <3>3
    <3> QED BY <1>2, <3>12, <3>13
  <2>9. CASE ~IsRed(t, uncle) /\ t.child[Other(s)][par] # e
    <3>1. PICK u : u = Rotate(RB_SET_BLACKRED(t, par, gpar), gpar, Other(s)) BY Zenon
    <3>2. x = [tree |-> u, node |-> e]
      BY ZenonT(30), <1>2, <2>1, <2>2, <2>3, <2>4, <2>9, <3>1 DEF InsertTurn
    <3>3. t.child[s][par] = e BY <2>5, <2>6, <2>9, TwoSides DEF Family
    <3>4. (\E B3, h3 : Fixing(u, B3, T, R, h3, e)) /\ ~IsRed(u, u.parent[e])
      BY <2>4, <2>5, <2>9, <3>1, <3>3, InsertTurnsOver
    <3>5. x.tree = u /\ x.node = e BY <3>2
    <3> QED BY <1>2, <3>4, <3>5
  <2> QED BY Zenon, <2>7, <2>8, <2>9
<1> QED BY Zenon, <1>1, <1>2

(* When the loop has ended, and the root is painted black, the tree is     *)
(* red-black.                                                              *)
LEMMA BlackRootIs ==
  ASSUME NEW t, NEW B, NEW T, NEW R, NEW h, NEW e, Fixing(t, B, T, R, h, e),
         ~IsRed(t, t.parent[e]), NEW u, u = BlackRoot(t)
  PROVE  \E h2 : RedBlack(u, B, T, R, h2)
<1>1. /\ Tree(t, B, T, R) /\ T \subseteq Nodes /\ h \in [Nodes -> Nat] /\ t \in Trees
      /\ e \in T /\ \A n \in T : Even(t, h, n)
  BY DEF Fixing, Tree, Typed
<1>2. PICK top : top = t.root OBVIOUS
<1>3. top \in T /\ top # NULL /\ top \in Nodes
  BY <1>1, <1>2, NodeAssumption DEF Tree, Rooted, Under
<1>4. Painted(t, top, FALSE, u) BY <1>1, <1>2, <1>3, PaintIs DEF BlackRoot, Links
<1>5. /\ SameShape(t, T, u) /\ u.child = t.child /\ u.root = t.root
      /\ \A m \in T : u.red[m] <=> m # top /\ t.red[m]
  BY <1>1, <1>4 DEF Painted, SameShape
<1>6. Tree(u, B, T, R) BY <1>1, <1>5, SameTree
<1> DEFINE h2 == [m \in Nodes |-> IF m = top /\ t.red[m] THEN h[m] + 1 ELSE h[m]]
<1>7. h2 \in [Nodes -> Nat] /\ \A m \in Nodes : m # top => h2[m] = h[m] BY <1>1
<1>8. ASSUME NEW m \in T PROVE Even(u, h2, m)
  <2>1. ASSUME NEW r \in Sides
        PROVE  Height(h2, u.child[r][m]) = Height(h, t.child[r][m])
    <3>1. PICK c : c = t.child[r][m] OBVIOUS
    <3>2. c # NULL => c \in Nodes /\ c # top BY <1>1, <1>2, <3>1, AChild
    <3> HIDE DEF h2
    <3> QED BY <1>5, <1>7, <3>1, <3>2 DEF Height
  <2>2. CASE m = top /\ t.red[m]
    <3>1. \A r \in Sides : Height(h, t.child[r][m]) = h[m] /\ h[m] \in Nat
      BY <1>1, <2>2, EvenIs
    <3>2. \A r \in Sides : Height(h2, u.child[r][m]) = h[m] BY <2>1, <3>1
    <3>3. h2[m] = h[m] + 1 /\ ~u.red[m] /\ h[m] \in Nat BY <1>1, <1>3, <1>5, <2>2
    <3> HIDE DEF h2
    <3> QED BY <3>2, <3>3, EvenBy
  <2>3. CASE ~(m = top /\ t.red[m])
    <3>1. h2[m] = h[m] /\ (u.red[m] <=> t.red[m]) BY <1>1, <1>5, <2>3
    <3>2. Even(t, h, m) BY <1>1
    <3> HIDE DEF h2
    <3> QED BY <2>1, <3>1, <3>2 DEF Even, Weight
  <2> QED BY <2>2, <2>3
<1>9. ASSUME NEW m \in T, NEW r \in Sides, RedPair(u, m, r)
      PROVE  FALSE
  <2>1. PICK c : c = t.child[r][m] OBVIOUS
  <2>2. u.red[m] /\ c # NULL /\ u.red[c] BY <1>5, <1>9, <2>1 DEF RedPair, IsRed
  <2>3. c \in T /\ t.parent[c] = m BY <1>1, <2>1, <2>2, AChild
  <2>4. t.red[m] /\ t.red[c] BY <1>5, <2>2, <2>3
  <2>5. c = e BY <2>1, <2>2, <2>4 DEF Fixing, RedPair, IsRed
  <2>6. m # NULL BY <1>1, NodeAssumption
  <2> QED BY <2>3, <2>4, <2>5, <2>6 DEF IsRed
<1>10. ~IsRed(u, u.root) BY <1>2, <1>3, <1>5 DEF IsRed
<1>11. RedBlack(u, B, T, R, h2)
  <2> HIDE DEF h2
  <2> QED BY <1>6, <1>7, <1>8, <1>9, <1>10 DEF RedBlack
<1> QED BY <1>11

(* The number that goes down with each turn of the loop. *)
InsertAt(T, R, x, k) ==
    \E B, h : /\ Fixing(x.tree, B, T, R, h, x.node)
              /\ k = IF IsRed(x.tree, x.tree.parent[x.node])
                     THEN 1 + Cardinality(T) - Cardinality(B[x.node]) ELSE 0

(* It is at most the number of nodes. *)
LEMMA InsertAtIs ==
  ASSUME NEW t, NEW B, NEW T, NEW R, NEW h, NEW e, Fixing(t, B, T, R, h, e)
  PROVE  /\ t \in Trees /\ e \in Nodes
         /\ Cardinality(T) \in Nat /\ Cardinality(B[e]) \in Nat /\ Cardinality(B[e]) >= 1
         /\ Cardinality(B[e]) <= Cardinality(T) /\ Cardinality(T) <= NodeCount
<1>1. /\ Tree(t, B, T, R) /\ T \in SUBSET Nodes /\ t \in Trees /\ e \in T
      /\ B \in [Nodes -> SUBSET Nodes]
  BY DEF Fixing, Tree, Typed
<1>2. e \in B[e] /\ B[e] \subseteq T BY <1>1, BelowIs
<1>3. IsFiniteSet(T) /\ Cardinality(T) \in Nat /\ Cardinality(T) <= NodeCount BY <1>1, NodesFinite
<1>4. Cardinality(B[e]) <= Cardinality(T) BY <1>2, <1>3, FS_Subset
<1>5. IsFiniteSet(B[e]) /\ Cardinality(B[e]) \in Nat BY <1>2, <1>3, FS_Subset, FS_CardinalityType
<1>6. Cardinality(B[e]) # 0 BY <1>2, <1>5, FS_EmptySet
<1> QED BY <1>1, <1>3, <1>4, <1>5, <1>6

(* RB_INSERT_COLOR makes a red-black tree, as there are more turns than    *)
(* to do.                                                                  *)
LEMMA InsertColorIs ==
  ASSUME NEW t, NEW B, NEW T, NEW R, NEW h, NEW e, Fixing(t, B, T, R, h, e)
  PROVE  \E B2, h2 : RedBlack(RB_INSERT_COLOR(t, e), B2, T, R, h2)
<1> DEFINE X    == [tree : Trees, node : Nodes]
           turn == [x \in X |-> InsertTurn(x.tree, x.node)]
           K    == [x \in X |-> {k \in Nat : InsertAt(T, R, x, k)}]
<1>1. PICK first : first = [tree |-> t, node |-> e] OBVIOUS
<1>2. first \in X /\ \E k \in K[first] : k <= NodeCount
  <2>1. /\ t \in Trees /\ e \in Nodes /\ first.tree = t /\ first.node = e
        /\ Cardinality(T) \in Nat /\ Cardinality(B[e]) \in Nat /\ Cardinality(B[e]) >= 1
        /\ Cardinality(B[e]) <= Cardinality(T) /\ Cardinality(T) <= NodeCount
    BY <1>1, InsertAtIs
  <2>2. first \in X BY <1>1, <2>1
  <2>3. PICK k : k = IF IsRed(t, t.parent[e]) THEN 1 + Cardinality(T) - Cardinality(B[e]) ELSE 0
    OBVIOUS
  <2>4. k \in Nat /\ k <= NodeCount BY <2>1, <2>3, NodeCountIs
  <2>5. InsertAt(T, R, first, k) BY <2>1, <2>3 DEF InsertAt
  <2> QED BY <2>2, <2>4, <2>5
<1>3. ASSUME NEW x \in X, NEW j \in K[x]
      PROVE  turn[x] = x \/ (turn[x] \in X /\ \E i \in K[turn[x]] : i < j)
  <2>1. InsertAt(T, R, x, j) OBVIOUS
  <2>2. PICK C, g : /\ Fixing(x.tree, C, T, R, g, x.node)
                    /\ j = IF IsRed(x.tree, x.tree.parent[x.node])
                           THEN 1 + Cardinality(T) - Cardinality(C[x.node]) ELSE 0
    BY <2>1 DEF InsertAt
  <2>3. PICK y : y = InsertTurn(x.tree, x.node) OBVIOUS
  <2>4. turn[x] = y BY <2>3
  <2>5. CASE ~IsRed(x.tree, x.tree.parent[x.node])
    <3>1. y = [tree |-> x.tree, node |-> x.node] BY <2>2, <2>3, <2>5, InsertTurnIs
    <3>2. x = [tree |-> x.tree, node |-> x.node] OBVIOUS
    <3> QED BY <2>4, <3>1, <3>2
  <2>6. CASE IsRed(x.tree, x.tree.parent[x.node])
    <3>1. PICK C2, g2 : /\ Fixing(y.tree, C2, T, R, g2, y.node)
                        /\ IsRed(y.tree, y.tree.parent[y.node]) =>
                              C2 = C /\ Cardinality(C[x.node]) < Cardinality(C[y.node])
      BY <2>2, <2>3, <2>6, InsertTurnIs
    <3>2. PICK i : i = IF IsRed(y.tree, y.tree.parent[y.node])
                       THEN 1 + Cardinality(T) - Cardinality(C2[y.node]) ELSE 0 OBVIOUS
    <3>3. /\ y.tree \in Trees /\ y.node \in Nodes
          /\ Cardinality(T) \in Nat /\ Cardinality(C2[y.node]) \in Nat
          /\ Cardinality(C2[y.node]) <= Cardinality(T)
      BY <3>1, InsertAtIs
    <3>4. Cardinality(C[x.node]) \in Nat /\ Cardinality(C[x.node]) <= Cardinality(T)
      BY <2>2, InsertAtIs
    <3>5. i \in Nat /\ i < j BY <2>2, <2>6, <3>1, <3>2, <3>3, <3>4
    <3>6. InsertAt(T, R, y, i) BY <3>1, <3>2 DEF InsertAt
    <3>7. y \in X
      <4>1. y = [tree |-> y.tree, node |-> y.node] BY Zenon, <2>3 DEF InsertTurn
      <4> QED BY Zenon, <3>3, <4>1
    <3> QED BY <2>4, <3>5, <3>6, <3>7
  <2> QED BY <2>5, <2>6
<1>4. PICK last : last = After(turn, first) OBVIOUS
<1>5. last \in X /\ K[last] # {} /\ turn[last] = last
  <2>1. K \in [X -> SUBSET Nat] OBVIOUS
  <2> HIDE DEF K, turn, X
  <2> QED BY <1>2, <1>3, <1>4, <2>1, AfterCountsDown
<1>6. PICK j \in K[last] : TRUE BY <1>5
<1>7. last \in X /\ InsertAt(T, R, last, j) BY <1>5, <1>6
<1>8. PICK C, g : /\ Fixing(last.tree, C, T, R, g, last.node)
                  /\ j = IF IsRed(last.tree, last.tree.parent[last.node])
                         THEN 1 + Cardinality(T) - Cardinality(C[last.node]) ELSE 0
  BY <1>7 DEF InsertAt
<1>9. ~IsRed(last.tree, last.tree.parent[last.node])
  <2>1. SUFFICES ASSUME IsRed(last.tree, last.tree.parent[last.node]) PROVE FALSE OBVIOUS
  <2>2. InsertTurn(last.tree, last.node) = last BY <1>5, <1>7
  <2>3. PICK y : y = InsertTurn(last.tree, last.node) OBVIOUS
  <2>4. \E B2, h2 : /\ Fixing(y.tree, B2, T, R, h2, y.node)
                    /\ IsRed(y.tree, y.tree.parent[y.node]) =>
                          B2 = C /\ Cardinality(C[last.node]) < Cardinality(C[y.node])
    BY <1>8, <2>1, <2>3, InsertTurnIs
  <2>5. y = last BY <2>2, <2>3
  <2>6. Cardinality(C[last.node]) < Cardinality(C[last.node]) BY <2>1, <2>4, <2>5
  <2>7. Cardinality(C[last.node]) \in Nat BY <1>8, InsertAtIs
  <2> QED BY <2>6, <2>7
<1>10. \E h2 : RedBlack(BlackRoot(last.tree), C, T, R, h2) BY <1>8, <1>9, BlackRootIs
<1>11. RB_INSERT_COLOR(t, e) = BlackRoot(last.tree) BY <1>1, <1>4 DEF RB_INSERT_COLOR
<1> QED BY <1>10, <1>11

-----------------------------------------------------------------------------
(* Insertion: the new leaf. *)

(* Ranks that agree on the nodes of a tree order it alike. *)
LEMMA SameOrder ==
  ASSUME NEW t, NEW B, NEW T, NEW R, Tree(t, B, T, R), NEW Q \in SUBSET [Nodes -> Int],
         \A q \in Q : \E r \in R : \A x, y \in T : q[x] < q[y] <=> r[x] < r[y]
  PROVE  Tree(t, B, T, Q)
<1>1. Typed(t, B, T, Q) BY DEF Tree, Typed
<1>2. ASSUME NEW q \in Q, NEW n \in T, NEW s \in Sides, NEW m \in Under(B, t.child[s][n])
      PROVE  Before(q, s, m, n)
  <2>1. PICK r \in R : \A x, y \in T : q[x] < q[y] <=> r[x] < r[y] OBVIOUS
  <2>2. Before(r, s, m, n) BY DEF Tree, Ordered
  <2>3. m \in T
    <3>1. PICK c : c = t.child[s][n] OBVIOUS
    <3>2. c # NULL /\ m \in B[c] BY <3>1 DEF Under
    <3> QED BY <3>1, <3>2, AChild, BelowIs
  <2> QED BY <2>1, <2>2, <2>3 DEF Before
<1>3. Ordered(t, B, T, Q) BY <1>2 DEF Ordered
<1> QED BY <1>1, <1>3 DEF Tree

(* u is t with the new leaf n on side s of par. *)
Attached(t, T, s, par, n, u) ==
    /\ u \in Trees /\ u.root = t.root
    /\ u.parent[n] = par /\ u.red[n] /\ \A r \in Sides : u.child[r][n] = NULL
    /\ \A m \in T : u.parent[m] = t.parent[m] /\ (u.red[m] <=> t.red[m])
    /\ \A m \in T, r \in Sides :
          u.child[r][m] = IF m = par /\ r = s THEN n ELSE t.child[r][m]

(* q puts n where it hangs. *)
Placed(t, B, T, s, par, n, q) ==
    /\ Before(q, s, n, par)
    /\ \A a \in T, r \in Sides :
          a # par /\ par \in Under(B, t.child[r][a]) => Before(q, r, n, a)

(* The nodes below each, once n hangs on par. *)
WithLeaf(B, par, n) ==
    [m \in Nodes |-> IF m = n THEN {n} ELSE IF par \in B[m] THEN B[m] \cup {n} ELSE B[m]]

(* A tree with a new leaf is a tree, in order for ranks that suit the leaf. *)
LEMMA AttachedTree ==
  ASSUME NEW t, NEW B, NEW T, NEW R, Tree(t, B, T, R), NEW par \in T, NEW s \in Sides,
         t.child[s][par] = NULL, NEW n \in Nodes, n \notin T, NEW u, Attached(t, T, s, par, n, u),
         NEW Q \in SUBSET [Nodes -> Int],
         \A q \in Q : /\ Placed(t, B, T, s, par, n, q)
                      /\ \E r \in R : \A x, y \in T : q[x] < q[y] <=> r[x] < r[y]
  PROVE  Tree(u, WithLeaf(B, par, n), T \cup {n}, Q)
<1>1. PICK B2 : B2 = WithLeaf(B, par, n) OBVIOUS
<1>2. PICK T2 : T2 = T \cup {n} OBVIOUS
<1>3. /\ T \subseteq Nodes /\ NULL \notin Nodes /\ B \in [Nodes -> SUBSET Nodes]
      /\ u \in Trees /\ n # NULL /\ par # n
  BY NodeAssumption DEF Tree, Typed, Attached
<1>4. /\ B2 \in [Nodes -> SUBSET Nodes] /\ B2[n] = {n}
      /\ \A m \in T : B2[m] = IF par \in B[m] THEN B[m] \cup {n} ELSE B[m]
  BY <1>1, <1>3 DEF WithLeaf
<1>5. /\ u.root = t.root /\ u.parent[n] = par /\ \A r \in Sides : u.child[r][n] = NULL
      /\ \A m \in T : u.parent[m] = t.parent[m]
      /\ \A m \in T, r \in Sides :
            u.child[r][m] = IF m = par /\ r = s THEN n ELSE t.child[r][m]
  BY DEF Attached
<1>6. ASSUME NEW m \in T, NEW r \in Sides, ~(m = par /\ r = s)
      PROVE  /\ u.child[r][m] = t.child[r][m]
             /\ Under(B2, u.child[r][m]) = IF par \in Under(B, t.child[r][m])
                                           THEN Under(B, t.child[r][m]) \cup {n}
                                           ELSE Under(B, t.child[r][m])
  <2>1. PICK c : c = t.child[r][m] OBVIOUS
  <2>2. u.child[r][m] = c BY <1>5, <1>6, <2>1
  <2>3. c # NULL => c \in T BY <2>1, AChild
  <2> QED BY <1>4, <2>1, <2>2, <2>3 DEF Under
<1>7. \A m \in T : m \in B[m] /\ B[m] \subseteq T /\ \A x \in B[m] : B[x] \subseteq B[m]
  BY BelowIs DEF Tree, Branching
<1>8. \A m \in T, r \in Sides :
         /\ B[m] = {m} \cup Under(B, t.child[r][m]) \cup Under(B, t.child[Other(r)][m])
         /\ m \notin Under(B, t.child[r][m])
         /\ Under(B, t.child[r][m]) \cap Under(B, t.child[Other(r)][m]) = {}
  BY DEF Tree, Branching
<1>9. Typed(u, B2, T2, Q) BY <1>2, <1>3, <1>4 DEF Typed
<1>10. Rooted(u, B2, T2)
  <2>1. t.root # NULL /\ t.root \in T /\ T = B[t.root] /\ t.parent[t.root] = NULL
    BY DEF Tree, Rooted, Under
  <2> QED BY <1>2, <1>4, <1>5, <2>1 DEF Rooted, Under
<1>11. ASSUME NEW m \in T2, NEW r \in Sides
       PROVE  /\ B2[m] = {m} \cup Under(B2, u.child[r][m]) \cup Under(B2, u.child[Other(r)][m])
              /\ m \notin Under(B2, u.child[r][m])
              /\ Under(B2, u.child[r][m]) \cap Under(B2, u.child[Other(r)][m]) = {}
  <2>0. Other(r) \in Sides /\ r # Other(r) /\ Other(Other(r)) = r /\ (r = s \/ Other(r) = s)
    BY TwoSides
  <2>1. CASE m = n BY <1>4, <1>5, <2>0, <2>1 DEF Under
  <2>2. CASE m = par
    <3>1. PICK o : o = Other(s) OBVIOUS
    <3>2. o \in Sides /\ o # s /\ ((r = s /\ Other(r) = o) \/ (r = o /\ Other(r) = s))
      BY <3>1, TwoSides
    <3>3. Under(B2, u.child[s][m]) = {n} BY <1>3, <1>4, <1>5, <2>2 DEF Under
    <3>4. par \notin Under(B, t.child[o][m]) /\ B[m] = {m} \cup Under(B, t.child[o][m])
      <4>1. Under(B, t.child[s][m]) = {} BY <2>2 DEF Under
      <4> QED BY <1>8, <2>2, <3>1, <3>2, <4>1
    <3>5. Under(B2, u.child[o][m]) = Under(B, t.child[o][m]) BY <1>6, <2>2, <3>2, <3>4
    <3>6. B2[m] = B[m] \cup {n} BY <1>4, <1>7, <2>2
    <3>7. n \notin Under(B, t.child[o][m]) BY <1>7, <2>2, <3>4
    <3> QED BY <1>3, <2>2, <3>2, <3>3, <3>4, <3>5, <3>6, <3>7
  <2>3. CASE m \in T /\ m # par
    <3>1. PICK C : C = Under(B, t.child[r][m]) OBVIOUS
    <3>2. PICK D : D = Under(B, t.child[Other(r)][m]) OBVIOUS
    <3>3. B[m] = {m} \cup C \cup D /\ m \notin C /\ C \cap D = {} BY <1>8, <2>3, <3>1, <3>2
    <3>4. /\ Under(B2, u.child[r][m]) = IF par \in C THEN C \cup {n} ELSE C
          /\ Under(B2, u.child[Other(r)][m]) = IF par \in D THEN D \cup {n} ELSE D
      BY <1>6, <2>0, <2>3, <3>1, <3>2
    <3>5. B2[m] = IF par \in B[m] THEN B[m] \cup {n} ELSE B[m] BY <1>4, <2>3
    <3>6. n \notin C /\ n \notin D /\ n # m BY <1>7, <2>3, <3>3
    <3> QED BY <2>3, <3>3, <3>4, <3>5, <3>6
  <2> QED BY <1>2, <2>1, <2>2, <2>3
<1>12. ASSUME NEW m \in T2, NEW x \in B2[m]
       PROVE  x \in T2 /\ B2[x] \subseteq B2[m]
  <2>1. CASE m = n BY <1>2, <1>4, <2>1
  <2>2. CASE m \in T /\ x = n
    <3>1. n \notin B[m] BY <1>7, <2>2
    <3> QED BY <1>2, <1>4, <2>2, <3>1
  <2>3. CASE m \in T /\ x # n
    <3>1. x \in B[m] BY <1>4, <2>3
    <3>2. x \in T /\ B[x] \subseteq B[m] BY <1>7, <2>3, <3>1
    <3> QED BY <1>2, <1>4, <2>3, <3>2
  <2> QED BY <1>2, <2>1, <2>2, <2>3
<1>13. Branching(u, B2, T2) BY <1>11, <1>12 DEF Branching
<1>14. ASSUME NEW m \in T2, NEW r \in Sides, u.child[r][m] # NULL
       PROVE  u.child[r][m] \in T2 /\ u.parent[u.child[r][m]] = m
  <2>1. m \in T BY <1>2, <1>5, <1>14
  <2>2. CASE m = par /\ r = s BY <1>2, <1>5, <2>1, <2>2
  <2>3. CASE ~(m = par /\ r = s)
    <3>1. PICK c : c = t.child[r][m] OBVIOUS
    <3>2. u.child[r][m] = c BY <1>5, <2>1, <2>3, <3>1
    <3>3. c \in T /\ t.parent[c] = m BY <1>14, <2>1, <3>1, <3>2, AChild
    <3> QED BY <1>2, <1>5, <3>2, <3>3
  <2> QED BY <2>2, <2>3
<1>15. ASSUME NEW m \in T2, m # u.root
       PROVE  u.parent[m] \in T2 /\ \E r \in Sides : u.child[r][u.parent[m]] = m
  <2>1. CASE m = n BY <1>2, <1>5, <2>1
  <2>2. CASE m \in T
    <3>1. PICK r \in Sides : t.parent[m] \in T /\ t.child[r][t.parent[m]] = m
      BY <1>5, <1>15, <2>2 DEF Tree, Linked
    <3>2. m # NULL BY <1>3, <2>2
    <3>3. ~(t.parent[m] = par /\ r = s) BY <3>1, <3>2
    <3> QED BY <1>2, <1>5, <2>2, <3>1, <3>3
  <2> QED BY <1>2, <2>1, <2>2
<1>16. Linked(u, T2) BY <1>14, <1>15 DEF Linked
<1>17. ASSUME NEW q \in Q, NEW m \in T2, NEW r \in Sides, NEW x \in Under(B2, u.child[r][m])
       PROVE  Before(q, r, x, m)
  <2>1. m \in T BY <1>2, <1>5 DEF Under
  <2>2. CASE m = par /\ r = s
    <3>1. x = n BY <1>3, <1>4, <1>5, <2>2 DEF Under
    <3> QED BY <2>2, <3>1 DEF Placed
  <2>3. CASE ~(m = par /\ r = s) /\ x = n
    <3>1. PICK C : C = Under(B, t.child[r][m]) OBVIOUS
    <3>2. C \subseteq T BY <1>7, <1>8, <2>1, <3>1
    <3>3. par \in C BY <1>6, <2>1, <2>3, <3>1, <3>2
    <3>4. m # par BY <1>8, <2>1, <3>1, <3>3
    <3> QED BY <2>1, <2>3, <3>1, <3>3, <3>4 DEF Placed
  <2>4. CASE ~(m = par /\ r = s) /\ x # n
    <3>1. x \in Under(B, t.child[r][m]) BY <1>6, <2>1, <2>4
    <3>2. x \in T BY <1>7, <1>8, <2>1, <3>1
    <3>3. PICK rank \in R : \A y, z \in T : q[y] < q[z] <=> rank[y] < rank[z] OBVIOUS
    <3>4. Before(rank, r, x, m) BY <2>1, <3>1 DEF Tree, Ordered
    <3> QED BY <2>1, <3>2, <3>3, <3>4 DEF Before
  <2> QED BY <2>2, <2>3, <2>4
<1>18. Ordered(u, B2, T2, Q) BY <1>17 DEF Ordered
<1> QED BY <1>1, <1>2, <1>9, <1>10, <1>13, <1>16, <1>18 DEF Tree

(* u is t with the fields of n set. *)
SetTo(t, n, par, red, u) ==
    /\ u \in Trees /\ u.root = t.root
    /\ u.parent[n] = par /\ (u.red[n] <=> red) /\ \A r \in Sides : u.child[r][n] = NULL
    /\ \A m \in Nodes : m # n =>
          /\ u.parent[m] = t.parent[m] /\ (u.red[m] <=> t.red[m])
          /\ \A r \in Sides : u.child[r][m] = t.child[r][m]

(* The assignments of RB_SET, and of what frees a node. *)
LEMMA RbSetIs ==
  ASSUME NEW t \in Trees, NEW n \in Nodes, NEW par \in Links
  PROVE  SetTo(t, n, par, TRUE, RB_SET(t, n, par))
<1>1. PICK t1 : t1 = SetChild(t, "left", n, NULL) OBVIOUS
<1>2. NULL \in Links /\ n \in Links /\ "left" \in Sides /\ "right" \in Sides BY DEF Links, Sides
<1>3. Childed(t, "left", n, NULL, t1) BY <1>1, <1>2, SetChildIs
<1>4. PICK t2 : t2 = SetChild(t1, "right", n, NULL) OBVIOUS
<1>5. t1 \in Trees BY <1>3 DEF Childed
<1>6. Childed(t1, "right", n, NULL, t2) BY <1>2, <1>4, <1>5, SetChildIs
<1>7. PICK t3 : t3 = SetParent(t2, n, par) OBVIOUS
<1>8. t2 \in Trees BY <1>6 DEF Childed
<1>9. Parented(t2, n, par, t3) BY <1>2, <1>7, <1>8, SetParentIs
<1>10. PICK u : u = Paint(t3, n, TRUE) OBVIOUS
<1>11. t3 \in Trees BY <1>9 DEF Parented
<1>12. Painted(t3, n, TRUE, u) BY <1>2, <1>10, <1>11, PaintIs
<1>13. u = RB_SET(t, n, par) BY <1>1, <1>4, <1>7, <1>10 DEF RB_SET
<1>14. \A m \in Nodes, r \in Sides : u.child[r][m] = IF m = n THEN NULL ELSE t.child[r][m]
  <2>1. TAKE m \in Nodes, r \in Sides
  <2>2. u.child[r][m] = t2.child[r][m] BY <1>9, <1>12 DEF Parented, Painted
  <2>3. t2.child[r][m] = IF r = "right" /\ m = n THEN NULL ELSE t1.child[r][m]
    BY <1>6 DEF Childed
  <2>4. t1.child[r][m] = IF r = "left" /\ m = n THEN NULL ELSE t.child[r][m] BY <1>3 DEF Childed
  <2> QED BY <2>2, <2>3, <2>4 DEF Sides
<1>15. u \in Trees /\ u.root = t.root
  BY <1>3, <1>6, <1>9, <1>12 DEF Childed, Parented, Painted
<1>16. \A m \in Nodes : u.parent[m] = IF m = n THEN par ELSE t.parent[m]
  BY <1>3, <1>6, <1>9, <1>12 DEF Childed, Parented, Painted
<1>17. \A m \in Nodes : u.red[m] <=> m = n \/ t.red[m]
  <2>1. t3.red = t.red BY <1>3, <1>6, <1>9 DEF Childed, Parented
  <2>2. \A m \in Nodes : u.red[m] <=> m = n \/ t3.red[m] BY <1>12 DEF Painted
  <2> QED BY <2>1, <2>2
<1>18. SetTo(t, n, par, TRUE, u) BY <1>14, <1>15, <1>16, <1>17 DEF SetTo
<1> QED BY <1>13, <1>18

LEMMA ForgetIs ==
  ASSUME NEW t \in Trees, NEW n \in Nodes
  PROVE  SetTo(t, n, NULL, FALSE, Forget(t, n))
<1>1. NULL \in Links /\ n \in Links BY DEF Links
<1>2. PICK t1 : t1 = RB_SET(t, n, NULL) OBVIOUS
<1>3. SetTo(t, n, NULL, TRUE, t1) BY <1>1, <1>2, RbSetIs
<1>4. PICK u : u = Paint(t1, n, FALSE) OBVIOUS
<1>5. t1 \in Trees BY <1>3 DEF SetTo
<1>6. Painted(t1, n, FALSE, u) BY <1>1, <1>4, <1>5, PaintIs
<1>7. \A m \in Nodes : u.red[m] <=> m # n /\ t1.red[m] BY <1>6 DEF Painted
<1>8. u \in Trees /\ u.root = t1.root /\ u.parent = t1.parent /\ u.child = t1.child
  BY <1>6 DEF Painted
<1>9. SetTo(t, n, NULL, FALSE, u) BY <1>3, <1>7, <1>8 DEF SetTo
<1> QED BY <1>2, <1>4, <1>9 DEF Forget

LEMMA AttachIs ==
  ASSUME NEW t \in Trees, NEW T \in SUBSET Nodes, NEW par \in T, NEW s \in Sides,
         NEW n \in Nodes, n \notin T, NEW u, u = SetChild(RB_SET(t, n, par), s, par, n)
  PROVE  Attached(t, T, s, par, n, u)
<1>1. PICK t1 : t1 = RB_SET(t, n, par) OBVIOUS
<1>2. SetTo(t, n, par, TRUE, t1) BY <1>1, RbSetIs DEF Links
<1>3. t1 \in Trees BY <1>2 DEF SetTo
<1>4. Childed(t1, s, par, n, u) BY <1>1, <1>3, SetChildIs DEF Links
<1>5. \A m \in T : m # n /\ m \in Nodes OBVIOUS
<1>6. \A r \in Sides : u.child[r][n] = NULL BY <1>2, <1>4 DEF SetTo, Childed
<1>7. \A m \in T, r \in Sides : u.child[r][m] = IF m = par /\ r = s THEN n ELSE t.child[r][m]
  BY <1>2, <1>4, <1>5 DEF SetTo, Childed
<1>8. \A m \in T : u.parent[m] = t.parent[m] /\ (u.red[m] <=> t.red[m])
  BY <1>2, <1>4, <1>5 DEF SetTo, Childed
<1>9. u \in Trees /\ u.root = t.root /\ u.parent[n] = par /\ u.red[n]
  BY <1>2, <1>4 DEF SetTo, Childed
<1> QED BY <1>6, <1>7, <1>8, <1>9 DEF Attached

(* A red leaf disturbs nothing but, if its parent is red, the colours. *)
LEMMA AttachedFixing ==
  ASSUME NEW t, NEW B, NEW T, NEW R, NEW h, RedBlack(t, B, T, R, h), NEW par \in T,
         NEW s \in Sides, t.child[s][par] = NULL, NEW n \in Nodes, n \notin T,
         NEW u, Attached(t, T, s, par, n, u), NEW Q, Tree(u, WithLeaf(B, par, n), T \cup {n}, Q)
  PROVE  \E B2, h2 : Fixing(u, B2, T \cup {n}, Q, h2, n)
<1>1. /\ Tree(t, B, T, R) /\ T \subseteq Nodes /\ h \in [Nodes -> Nat] /\ NULL \notin Nodes
      /\ \A m \in T : Even(t, h, m)
  BY NodeAssumption DEF RedBlack, Tree, Typed
<1> DEFINE h2 == [m \in Nodes |-> IF m = n THEN 0 ELSE h[m]]
<1>2. h2 \in [Nodes -> Nat] /\ h2[n] = 0 /\ \A m \in T : h2[m] = h[m] BY <1>1
<1> HIDE DEF h2
<1>3. ASSUME NEW m \in T \cup {n} PROVE Even(u, h2, m)
  <2>1. CASE m = n
    <3>1. \A r \in Sides : Height(h2, u.child[r][m]) = 0 BY <2>1 DEF Attached, Height
    <3>2. u.red[m] /\ h2[m] = 0 BY <1>2, <2>1 DEF Attached
    <3> QED BY <3>1, <3>2, EvenBy
  <2>2. CASE m \in T
    <3>1. ASSUME NEW r \in Sides
          PROVE  Height(h2, u.child[r][m]) = Height(h, t.child[r][m])
      <4>1. PICK c : c = t.child[r][m] OBVIOUS
      <4>2. c # NULL => c \in T BY <1>1, <2>2, <4>1, AChild
      <4>3. CASE m = par /\ r = s
        <5>1. u.child[r][m] = n /\ n # NULL /\ c = NULL BY <1>1, <2>2, <4>1, <4>3 DEF Attached
        <5> QED BY <1>2, <4>1, <5>1 DEF Height
      <4>4. CASE ~(m = par /\ r = s)
        <5>1. u.child[r][m] = c BY <2>2, <4>1, <4>4 DEF Attached
        <5> QED BY <1>2, <4>1, <4>2, <5>1 DEF Height
      <4> QED BY <4>3, <4>4
    <3>2. u.red[m] <=> t.red[m] BY <2>2 DEF Attached
    <3>3. Even(t, h, m) BY <1>1, <2>2
    <3> QED BY <1>2, <2>2, <3>1, <3>2, <3>3 DEF Even, Weight
  <2> QED BY <2>1, <2>2
<1>4. ASSUME NEW m \in T \cup {n}, NEW r \in Sides, RedPair(u, m, r), u.child[r][m] # n
      PROVE  FALSE
  <2>1. m \in T /\ u.child[r][m] = t.child[r][m]
    BY <1>4 DEF Attached, RedPair, IsRed
  <2>2. PICK c : c = t.child[r][m] OBVIOUS
  <2>3. c # NULL /\ u.red[m] /\ u.red[c] BY <1>4, <2>1, <2>2 DEF RedPair, IsRed
  <2>4. c \in T BY <1>1, <2>1, <2>2, <2>3, AChild
  <2>5. t.red[m] /\ t.red[c] BY <2>1, <2>3, <2>4 DEF Attached
  <2> QED BY <2>1, <2>2, <2>3, <2>5 DEF RedBlack, RedPair, IsRed
<1>5. ~IsRed(u, u.root)
  <2>1. t.root # NULL => t.root \in T BY <1>1 DEF Tree, Rooted
  <2> QED BY <2>1 DEF Attached, RedBlack, IsRed
<1>6. u.red[n] BY DEF Attached
<1>7. Fixing(u, WithLeaf(B, par, n), T \cup {n}, Q, h2, n)
  BY <1>2, <1>3, <1>4, <1>5, <1>6 DEF Fixing
<1> QED BY <1>7

(* The first node. *)
LEMMA FirstFixing ==
  ASSUME NEW t \in Trees, NEW n \in Nodes, NEW u, u = [RB_SET(t, n, NULL) EXCEPT !.root = n],
         NEW Q \in SUBSET [Nodes -> Int]
  PROVE  \E B2, h2 : Fixing(u, B2, {n}, Q, h2, n)
<1>1. PICK t1 : t1 = RB_SET(t, n, NULL) OBVIOUS
<1>2. SetTo(t, n, NULL, TRUE, t1) BY <1>1, RbSetIs DEF Links
<1>3. t1 \in Trees BY <1>2 DEF SetTo
<1>4. /\ u \in Trees /\ u.root = n /\ u.parent = t1.parent /\ u.red = t1.red /\ u.child = t1.child
  BY <1>1, <1>3 DEF Trees, Links
<1>5. u.parent[n] = NULL /\ u.red[n] /\ (\A r \in Sides : u.child[r][n] = NULL) /\ n # NULL
  BY <1>2, <1>4, NodeAssumption DEF SetTo
<1> DEFINE B2 == [m \in Nodes |-> {n}]
           h2 == [m \in Nodes |-> 0]
<1>6. B2 \in [Nodes -> SUBSET Nodes] /\ B2[n] = {n} /\ h2 \in [Nodes -> Nat] /\ h2[n] = 0 OBVIOUS
<1> HIDE DEF B2, h2
<1>7. Tree(u, B2, {n}, Q)
  <2>1. Typed(u, B2, {n}, Q) BY <1>4, <1>6 DEF Typed
  <2>2. Rooted(u, B2, {n}) BY <1>4, <1>5, <1>6 DEF Rooted, Under
  <2>3. Branching(u, B2, {n})
    <3>1. \A s \in Sides : /\ Under(B2, u.child[s][n]) = {}
                           /\ Under(B2, u.child[Other(s)][n]) = {}
      BY <1>5, TwoSides DEF Under
    <3> QED BY <1>6, <3>1 DEF Branching
  <2>4. Linked(u, {n}) BY <1>4, <1>5 DEF Linked
  <2>5. Ordered(u, B2, {n}, Q) BY <1>5 DEF Ordered, Under
  <2> QED BY <2>1, <2>2, <2>3, <2>4, <2>5 DEF Tree
<1>8. Even(u, h2, n)
  <2>1. \A r \in Sides : Height(h2, u.child[r][n]) = 0 BY <1>5 DEF Height
  <2> QED BY <1>5, <1>6, <2>1, EvenBy
<1>9. \A s \in Sides : ~RedPair(u, n, s) BY <1>5 DEF RedPair, IsRed
<1>10. Fixing(u, B2, {n}, Q, h2, n) BY <1>4, <1>5, <1>6, <1>7, <1>8, <1>9 DEF Fixing
<1> QED BY <1>10

(* A rank for the new leaf, between those of its neighbours. *)
Doubled(g, s, par, n) ==
    [m \in Nodes |-> IF m = n THEN IF s = "left" THEN 2 * g[par] - 1 ELSE 2 * g[par] + 1
                     ELSE 2 * g[m]]

(* A rank with room between any two nodes has room for the new one. *)
LEMMA DoubledIs ==
  ASSUME NEW t, NEW B, NEW T, NEW R, Tree(t, B, T, R), NEW g \in R, NEW par \in T,
         NEW s \in Sides, NEW n \in Nodes, n \notin T, NEW q, q = Doubled(g, s, par, n)
  PROVE  /\ q \in [Nodes -> Int] /\ Placed(t, B, T, s, par, n, q)
         /\ \A x, y \in T : q[x] < q[y] <=> g[x] < g[y]
<1>1. g \in [Nodes -> Int] /\ T \subseteq Nodes /\ par \in Nodes BY DEF Tree, Typed
<1>2. q \in [Nodes -> Int] BY <1>1 DEF Doubled
<1>3. /\ \A x \in T : q[x] = 2 * g[x]
      /\ q[n] = IF s = "left" THEN 2 * g[par] - 1 ELSE 2 * g[par] + 1
  BY <1>1 DEF Doubled
<1>4. \A x \in T : g[x] \in Int BY <1>1
<1>5. \A x, y \in T : q[x] < q[y] <=> g[x] < g[y] BY <1>3, <1>4
<1>6. Before(q, s, n, par)
  <2>1. q[par] = 2 * g[par] /\ g[par] \in Int BY <1>3, <1>4
  <2> QED BY <1>3, <2>1 DEF Before
<1>7. ASSUME NEW a \in T, NEW r \in Sides, par \in Under(B, t.child[r][a])
      PROVE  Before(q, r, n, a)
  <2>1. Before(g, r, par, a) BY <1>7 DEF Tree, Ordered
  <2>2. q[a] = 2 * g[a] /\ g[par] \in Int /\ g[a] \in Int BY <1>3, <1>4
  <2> QED BY <1>3, <2>1, <2>2 DEF Before
<1>8. Placed(t, B, T, s, par, n, q) BY <1>6, <1>7 DEF Placed
<1> QED BY <1>2, <1>5, <1>8

(* The way down ends where the new leaf belongs. *)
LEMMA WayPlaces ==
  ASSUME NEW t, NEW B, NEW T, NEW R, Tree(t, B, T, R), NEW rank \in R, NEW n \in Nodes,
         NEW par, WayEnds(t, B, T, R, rank, rank[n], par), rank[par] # rank[n],
         NEW s, s = Toward(rank, rank[n], par)
  PROVE  Placed(t, B, T, s, par, n, rank)
<1>1. /\ rank \in [Nodes -> Int] /\ T \subseteq Nodes /\ par \in T
  BY DEF Tree, Typed, WayEnds
<1>2. rank[n] \in Int /\ rank[par] \in Int /\ \A a \in T : rank[a] \in Int BY <1>1
<1>3. Before(rank, s, n, par) BY <1>2 DEF Before, Toward
<1>4. ASSUME NEW a \in T, NEW r \in Sides, par \in Under(B, t.child[r][a])
      PROVE  Before(rank, r, n, a)
  <2>1. PICK c : c = t.child[r][a] OBVIOUS
  <2>2. c # NULL /\ par \in B[c] BY <1>4, <2>1 DEF Under
  <2>3. c \in T /\ a \notin B[c] BY <2>1, <2>2, AChild
  <2>4. a \notin B[par] BY <2>2, <2>3 DEF Tree, Branching
  <2>5. rank[a] # rank[n] /\ (rank[a] < rank[n] <=> rank[a] < rank[par])
    BY <2>4 DEF WayEnds
  <2>6. Before(rank, r, par, a) BY <1>4 DEF Tree, Ordered
  <2> QED BY <1>2, <2>5, <2>6 DEF Before
<1> QED BY <1>3, <1>4 DEF Placed

(* RB_INSERT adds the node, unless one of its rank is found. *)
Inserted(T, R, n, rank, u) ==
    \E B2, h2, g2 : /\ g2 \in [Nodes -> Int]
                    /\ RedBlack(u, B2, T \cup {n}, {g2} \cup (R \cap {rank}), h2)

(* RB_INSERT finds a node of that rank, or adds one to a red-black tree. *)
LEMMA InsertIs ==
  ASSUME NEW t, NEW B, NEW T, NEW R, NEW h, RedBlack(t, B, T, R, h), NEW n \in Nodes, n \notin T,
         NEW rank \in [Nodes -> Int], NEW g \in R, NEW u, u = RB_INSERT(t, rank, n)
  PROVE  \/ RB_FIND(t, rank, rank[n]) # NULL /\ u = t
         \/ RB_FIND(t, rank, rank[n]) = NULL /\ Inserted(T, R, n, rank, u)
<1>1. /\ Tree(t, B, T, R) /\ t \in Trees /\ T \in SUBSET Nodes /\ R \subseteq [Nodes -> Int]
      /\ rank[n] \in Int /\ g \in [Nodes -> Int]
  BY DEF RedBlack, Tree, Typed
<1>2. CASE t.root = NULL
  <2>1. T = {} BY <1>1, <1>2 DEF Tree, Rooted, Under
  <2>2. PICK v : v = [RB_SET(t, n, NULL) EXCEPT !.root = n] OBVIOUS
  <2>3. u = RB_INSERT_COLOR(v, n) BY <1>2, <2>2 DEF RB_INSERT
  <2>4. PICK Q : Q = {g} \cup (R \cap {rank}) OBVIOUS
  <2>5. Q \in SUBSET [Nodes -> Int] BY <1>1, <2>4
  <2>6. PICK B1, h1 : Fixing(v, B1, {n}, Q, h1, n) BY <1>1, <2>2, <2>5, FirstFixing
  <2>7. PICK B2, h2 : RedBlack(u, B2, {n}, Q, h2) BY <2>3, <2>6, InsertColorIs
  <2>8. Inserted(T, R, n, rank, u)
    <3>1. PICK T2 : T2 = {n} OBVIOUS
    <3>2. T2 = T \cup {n} BY <2>1, <3>1
    <3>3. RedBlack(u, B2, T2, Q, h2) BY <2>7, <3>1
    <3> QED BY <1>1, <2>4, <3>2, <3>3 DEF Inserted
  <2>9. RB_FIND(t, rank, rank[n]) = NULL BY <1>2 DEF RB_FIND
  <2> QED BY <2>8, <2>9
<1>3. CASE t.root # NULL
  <2>1. PICK par : par = WayTo(t, rank, rank[n], t.root) OBVIOUS
  <2>2. WayEnds(t, B, T, R, rank, rank[n], par) BY <1>1, <1>3, <2>1, WayIs
  <2>3. par \in T /\ par # NULL BY <1>1, <2>2, NodeAssumption DEF WayEnds
  <2>4. CASE rank[par] = rank[n]
    <3>1. u = t BY <1>3, <2>1, <2>4 DEF RB_INSERT
    <3>2. RB_FIND(t, rank, rank[n]) = par BY <1>3, <2>1, <2>4 DEF RB_FIND
    <3> QED BY <2>3, <3>1, <3>2
  <2>5. CASE rank[par] # rank[n]
    <3>1. PICK s : s = Toward(rank, rank[n], par) OBVIOUS
    <3>2. s \in Sides /\ t.child[s][par] = NULL BY <2>2, <2>5, <3>1 DEF WayEnds, Toward, Sides
    <3>3. PICK v : v = SetChild(RB_SET(t, n, par), s, par, n) OBVIOUS
    <3>4. u = RB_INSERT_COLOR(v, n)
      <4>1. s = IF rank[n] < rank[par] THEN "left" ELSE "right" BY <3>1 DEF Toward
      <4> QED BY <1>3, <2>1, <2>5, <3>3, <4>1 DEF RB_INSERT
    <3>5. Attached(t, T, s, par, n, v) BY <1>1, <2>3, <3>2, <3>3, AttachIs
    <3>6. PICK g2 : g2 = Doubled(g, s, par, n) OBVIOUS
    <3>7. /\ g2 \in [Nodes -> Int] /\ Placed(t, B, T, s, par, n, g2)
          /\ \A x, y \in T : g2[x] < g2[y] <=> g[x] < g[y]
      BY <1>1, <2>3, <3>2, <3>6, DoubledIs
    <3>8. PICK Q : Q = {g2} \cup (R \cap {rank}) OBVIOUS
    <3>9. Q \in SUBSET [Nodes -> Int] BY <1>1, <3>7, <3>8
    <3>10. \A q \in Q : /\ Placed(t, B, T, s, par, n, q)
                        /\ \E r \in R : \A x, y \in T : q[x] < q[y] <=> r[x] < r[y]
      <4>1. SUFFICES ASSUME NEW q \in Q
                     PROVE  /\ Placed(t, B, T, s, par, n, q)
                            /\ \E r \in R : \A x, y \in T : q[x] < q[y] <=> r[x] < r[y]
        OBVIOUS
      <4>2. CASE q = g2 BY <3>7, <4>2
      <4>3. CASE q \in R /\ q = rank
        <5>1. Placed(t, B, T, s, par, n, rank) BY <1>1, <2>2, <2>5, <3>1, <4>3, WayPlaces
        <5> QED BY <4>3, <5>1
      <4> QED BY <3>8, <4>2, <4>3
    <3>11. Tree(v, WithLeaf(B, par, n), T \cup {n}, Q)
      BY <1>1, <2>3, <3>2, <3>5, <3>9, <3>10, AttachedTree
    <3>12. PICK B1, h1 : Fixing(v, B1, T \cup {n}, Q, h1, n)
      BY <2>3, <3>2, <3>5, <3>11, AttachedFixing
    <3>13. PICK T2 : T2 = T \cup {n} OBVIOUS
    <3>14. PICK B2, h2 : RedBlack(u, B2, T2, Q, h2) BY <3>4, <3>12, <3>13, InsertColorIs
    <3>15. Inserted(T, R, n, rank, u) BY <3>7, <3>8, <3>13, <3>14 DEF Inserted
    <3>16. RB_FIND(t, rank, rank[n]) = NULL BY <1>3, <2>1, <2>5 DEF RB_FIND
    <3> QED BY <3>15, <3>16
  <2> QED BY <2>4, <2>5
<1> QED BY <1>2, <1>3

-----------------------------------------------------------------------------
(* Removal: a node is taken out. *)

(* u is t without x, whose only child, c or none, hangs in its place. *)
Spliced(t, T, x, c, u) ==
    /\ u \in Trees /\ u.red = t.red
    /\ u.root = IF t.root = x THEN c ELSE t.root
    /\ \A m \in T \ {x} : u.parent[m] = IF m = c THEN t.parent[x] ELSE t.parent[m]
    /\ \A m \in T \ {x}, r \in Sides :
          u.child[r][m] = IF t.child[r][m] = x THEN c ELSE t.child[r][m]

LEMMA SpliceIs ==
  ASSUME NEW t, NEW B, NEW T, NEW R, Tree(t, B, T, R), NEW x \in T, NEW s \in Sides,
         t.child[Other(s)][x] = NULL, NEW c, c = t.child[s][x], NEW u, u = Splice(t, x)
  PROVE  Spliced(t, T, x, c, u)
<1>1. /\ t \in Trees /\ T \subseteq Nodes /\ x \in Nodes /\ NULL \notin Nodes /\ x # NULL
  BY NodeAssumption DEF Tree, Typed
<1>2. PICK par : par = t.parent[x] OBVIOUS
<1>3. c \in Links /\ par \in Links /\ x \in Links BY <1>1, <1>2 DEF Trees, Links
<1>4. c = IF t.child["left"][x] = NULL THEN t.child["right"][x] ELSE t.child["left"][x]
  BY DEF Sides, Other
<1>5. PICK t1 : t1 = SetParent(t, c, par) OBVIOUS
<1>6. Parented(t, c, par, t1) BY <1>1, <1>3, <1>5, SetParentIs
<1>7. t1 \in Trees BY <1>6 DEF Parented
<1>8. u = Hang(t1, x, par, c) BY <1>2, <1>4, <1>5 DEF Splice
<1>9. Hung(t1, x, par, c, u) BY <1>3, <1>7, <1>8, HangIs
<1>10. SideOf(t1, par, x) = SideOf(t, par, x) BY <1>6 DEF Parented, SideOf
<1>11. /\ par = NULL <=> x = t.root
       /\ x # t.root => par \in T /\ t.child[SideOf(t, par, x)][par] = x
       /\ \A m \in T, r \in Sides :
             t.child[r][m] = x => m = par /\ r = SideOf(t, par, x) /\ m # x
  BY <1>2, ParentIs
<1>12. u.root = IF t.root = x THEN c ELSE t.root BY <1>6, <1>9, <1>11 DEF Parented, Hung
<1>13. ASSUME NEW m \in T \ {x}, NEW r \in Sides
       PROVE  u.child[r][m] = IF t.child[r][m] = x THEN c ELSE t.child[r][m]
  <2>1. m \in Nodes BY <1>1
  <2>2. u.child[r][m] = IF m = par /\ r = SideOf(t, par, x) THEN c ELSE t.child[r][m]
    BY <1>6, <1>9, <1>10, <2>1 DEF Parented, Hung
  <2>3. m = par /\ r = SideOf(t, par, x) => t.child[r][m] = x BY <1>1, <1>11, <2>1
  <2> QED BY <1>11, <2>2, <2>3
<1>14. \A m \in T \ {x} : u.parent[m] = IF m = c THEN t.parent[x] ELSE t.parent[m]
  BY <1>1, <1>2, <1>6, <1>9 DEF Parented, Hung
<1>15. u \in Trees /\ u.red = t.red BY <1>6, <1>9 DEF Parented, Hung
<1> QED BY <1>12, <1>13, <1>14, <1>15 DEF Spliced

(* The nodes below each, without x. *)
Without(B, x) == [m \in Nodes |-> B[m] \ {x}]

(* A tree without a node that has at most one child is a tree. *)
LEMMA SplicedTree ==
  ASSUME NEW t, NEW B, NEW T, NEW R, Tree(t, B, T, R), NEW x \in T, NEW s \in Sides,
         t.child[Other(s)][x] = NULL, NEW c, c = t.child[s][x],
         NEW u, Spliced(t, T, x, c, u)
  PROVE  Tree(u, Without(B, x), T \ {x}, R)
<1>1. PICK B2 : B2 = Without(B, x) OBVIOUS
<1>2. PICK T2 : T2 = T \ {x} OBVIOUS
<1>3. /\ T \subseteq Nodes /\ NULL \notin Nodes /\ B \in [Nodes -> SUBSET Nodes]
      /\ u \in Trees /\ x # NULL /\ R \subseteq [Nodes -> Int]
  BY NodeAssumption DEF Tree, Typed, Spliced
<1>4. B2 \in [Nodes -> SUBSET Nodes] /\ \A m \in Nodes : B2[m] = B[m] \ {x}
  BY <1>1, <1>3 DEF Without
<1>5. /\ u.root = IF t.root = x THEN c ELSE t.root
      /\ \A m \in T2 : u.parent[m] = IF m = c THEN t.parent[x] ELSE t.parent[m]
      /\ \A m \in T2, r \in Sides :
            u.child[r][m] = IF t.child[r][m] = x THEN c ELSE t.child[r][m]
  BY <1>2 DEF Spliced
<1>6. /\ c # NULL => c \in T2 /\ t.parent[c] = x /\ c # t.root /\ c # x
      /\ B[x] \ {x} = Under(B, c) /\ x \notin Under(B, c)
  <2>1. c # NULL => c \in T2 /\ t.parent[c] = x /\ c # t.root /\ c # x BY <1>2, AChild
  <2>2. Under(B, t.child[Other(s)][x]) = {} BY DEF Under
  <2>3. B[x] = {x} \cup Under(B, c) \cup Under(B, t.child[Other(s)][x]) /\ x \notin Under(B, c)
    BY DEF Tree, Branching
  <2> QED BY <2>1, <2>2, <2>3
<1>7. Under(B2, c) = Under(B, c) BY <1>2, <1>3, <1>4, <1>6 DEF Under
<1>8. ASSUME NEW m \in T2, NEW r \in Sides
      PROVE  Under(B2, u.child[r][m]) = Under(B, t.child[r][m]) \ {x}
  <2>1. CASE t.child[r][m] = x
    <3>1. u.child[r][m] = c /\ Under(B, x) = B[x] BY <1>3, <1>5, <2>1 DEF Under
    <3> QED BY <1>6, <1>7, <2>1, <3>1
  <2>2. CASE t.child[r][m] # x
    <3>1. PICK d : d = t.child[r][m] OBVIOUS
    <3>2. u.child[r][m] = d BY <1>5, <2>2, <3>1
    <3>3. d # NULL => d \in Nodes BY <1>2, <3>1, AChild
    <3> QED BY <1>4, <3>1, <3>2, <3>3 DEF Under
  <2> QED BY <2>1, <2>2
<1>9. Typed(u, B2, T2, R) BY <1>2, <1>3, <1>4 DEF Typed
<1>10. T = Under(B, t.root) /\ (t.root # NULL => t.root \in T /\ t.parent[t.root] = NULL)
  BY DEF Tree, Rooted
<1>11. Rooted(u, B2, T2)
  <2>1. CASE t.root = x
    <3>1. T2 = Under(B2, u.root) BY <1>2, <1>3, <1>5, <1>6, <1>7, <1>10, <2>1 DEF Under
    <3>2. c # NULL => c \in T2 /\ u.parent[c] = NULL BY <1>3, <1>5, <1>6, <1>10, <2>1
    <3> QED BY <1>5, <2>1, <3>1, <3>2 DEF Rooted
  <2>2. CASE t.root # x
    <3>1. t.root # NULL /\ t.root \in T2 /\ t.root \in Nodes BY <1>2, <1>3, <1>10, <2>2 DEF Under
    <3>2. T2 = Under(B2, t.root) BY <1>2, <1>4, <1>10, <3>1 DEF Under
    <3>3. u.parent[t.root] = NULL BY <1>5, <1>6, <1>10, <3>1
    <3> QED BY <1>5, <2>2, <3>1, <3>2, <3>3 DEF Rooted
  <2> QED BY <2>1, <2>2
<1>12. ASSUME NEW m \in T2, NEW r \in Sides
       PROVE  /\ B2[m] = {m} \cup Under(B2, u.child[r][m]) \cup Under(B2, u.child[Other(r)][m])
              /\ m \notin Under(B2, u.child[r][m])
              /\ Under(B2, u.child[r][m]) \cap Under(B2, u.child[Other(r)][m]) = {}
  <2>1. PICK C : C = Under(B, t.child[r][m]) OBVIOUS
  <2>2. PICK D : D = Under(B, t.child[Other(r)][m]) OBVIOUS
  <2>3. B[m] = {m} \cup C \cup D /\ m \notin C /\ C \cap D = {}
    BY <1>2, <2>1, <2>2 DEF Tree, Branching
  <2>4. Under(B2, u.child[r][m]) = C \ {x} /\ Under(B2, u.child[Other(r)][m]) = D \ {x}
    BY <1>8, <2>1, <2>2, TwoSides
  <2>5. B2[m] = B[m] \ {x} /\ m # x BY <1>2, <1>3, <1>4
  <2> QED BY <2>3, <2>4, <2>5
<1>13. ASSUME NEW m \in T2, NEW y \in B2[m]
       PROVE  y \in T2 /\ B2[y] \subseteq B2[m]
  <2>1. m \in T /\ y \in B[m] /\ y # x /\ B2[m] = B[m] \ {x} BY <1>2, <1>3, <1>4
  <2>2. y \in T /\ B[y] \subseteq B[m] BY <2>1 DEF Tree, Branching
  <2> QED BY <1>2, <1>3, <1>4, <2>1, <2>2
<1>14. Branching(u, B2, T2) BY <1>12, <1>13 DEF Branching
<1>15. ASSUME NEW m \in T2, NEW r \in Sides, u.child[r][m] # NULL
       PROVE  u.child[r][m] \in T2 /\ u.parent[u.child[r][m]] = m
  <2>1. PICK d : d = t.child[r][m] OBVIOUS
  <2>2. CASE d = x
    <3>1. m \in T /\ x = t.child[r][m] BY <1>2, <2>1, <2>2
    <3>2. t.parent[x] = m BY <1>3, <3>1, AChild
    <3>3. u.child[r][m] = c BY <1>5, <3>1
    <3> QED BY <1>5, <1>6, <1>15, <3>2, <3>3
  <2>3. CASE d # x
    <3>1. u.child[r][m] = d BY <1>5, <2>1, <2>3
    <3>2. d \in T /\ t.parent[d] = m BY <1>2, <1>15, <2>1, <3>1, AChild
    <3>3. d # c BY <1>2, <1>6, <1>15, <3>1, <3>2
    <3> QED BY <1>2, <1>5, <2>3, <3>1, <3>2, <3>3
  <2> QED BY <2>2, <2>3
<1>16. ASSUME NEW m \in T2, m # u.root
       PROVE  u.parent[m] \in T2 /\ \E r \in Sides : u.child[r][u.parent[m]] = m
  <2>1. CASE m = c
    <3>1. t.root # x BY <1>5, <1>16, <2>1
    <3>2. PICK r \in Sides : t.parent[x] \in T /\ t.child[r][t.parent[x]] = x
      BY <3>1 DEF Tree, Linked
    <3>3. t.parent[x] # x BY <1>3, <3>2, AChild
    <3> QED BY <1>2, <1>5, <2>1, <3>2, <3>3
  <2>2. CASE m # c
    <3>1. m \in T /\ m # t.root BY <1>2, <1>5, <1>16
    <3>2. PICK r \in Sides : t.parent[m] \in T /\ t.child[r][t.parent[m]] = m
      BY <3>1 DEF Tree, Linked
    <3>3. t.parent[m] # x
      <4>1. m # NULL BY <1>3, <3>1
      <4>2. t.parent[m] = x => r = s BY <3>2, <4>1, TwoSides
      <4> QED BY <2>2, <3>2, <4>2
    <3> QED BY <1>2, <1>5, <2>2, <3>2, <3>3
  <2> QED BY <2>1, <2>2
<1>17. Linked(u, T2) BY <1>15, <1>16 DEF Linked
<1>18. ASSUME NEW q \in R, NEW m \in T2, NEW r \in Sides, NEW y \in Under(B2, u.child[r][m])
       PROVE  Before(q, r, y, m)
  <2>1. y \in Under(B, t.child[r][m]) BY <1>8
  <2> QED BY <1>2, <2>1 DEF Tree, Ordered
<1>19. Ordered(u, B2, T2, R) BY <1>18 DEF Ordered
<1> QED BY <1>1, <1>2, <1>9, <1>11, <1>14, <1>17, <1>19 DEF Tree

(* u is t with n, which was outside, in the place of old. *)
TakenOver(t, T, old, n, u) ==
    /\ u \in Trees
    /\ u.root = IF t.root = old THEN n ELSE t.root
    /\ \A m \in (T \ {old}) \cup {n} :
          /\ u.parent[m] = IF m = n THEN t.parent[old]
                           ELSE IF \E s \in Sides : t.child[s][old] = m THEN n ELSE t.parent[m]
          /\ u.red[m] <=> IF m = n THEN t.red[old] ELSE t.red[m]
    /\ \A m \in (T \ {old}) \cup {n}, r \in Sides :
          u.child[r][m] = IF m = n THEN t.child[r][old]
                          ELSE IF t.child[r][m] = old THEN n ELSE t.child[r][m]

LEMMA TakeOverIs ==
  ASSUME NEW t, NEW B, NEW T, NEW R, Tree(t, B, T, R), NEW old \in T, NEW n \in Nodes, n \notin T,
         NEW u, u = TakeOver(t, old, n)
  PROVE  TakenOver(t, T, old, n, u)
<1>1. /\ t \in Trees /\ T \subseteq Nodes /\ old \in Nodes /\ NULL \notin Nodes /\ n # NULL
      /\ n # old /\ old # NULL
  BY NodeAssumption DEF Tree, Typed
<1>2. PICK a : a = t.child["left"][old] OBVIOUS
<1>3. PICK b : b = t.child["right"][old] OBVIOUS
<1>4. PICK par : par = t.parent[old] OBVIOUS
<1>5. /\ a \in Links /\ b \in Links /\ par \in Links /\ n \in Links /\ old \in Links
      /\ "left" \in Sides /\ "right" \in Sides /\ t.red[old] \in BOOLEAN
  BY <1>1, <1>2, <1>3, <1>4 DEF Trees, Links, Sides
<1>6. /\ a # NULL => a \in T /\ a # old
      /\ b # NULL => b \in T /\ b # old
  BY <1>2, <1>3, <1>5, AChild
<1>7. PICK t1 : t1 = SetChild(t, "left", n, a) OBVIOUS
<1>8. Childed(t, "left", n, a, t1) BY <1>1, <1>5, <1>7, SetChildIs
<1>9. PICK t2 : t2 = SetChild(t1, "right", n, b) OBVIOUS
<1>10. t1 \in Trees BY <1>8 DEF Childed
<1>11. Childed(t1, "right", n, b, t2) BY <1>1, <1>5, <1>9, <1>10, SetChildIs
<1>12. t2 \in Trees BY <1>11 DEF Childed
<1>13. PICK t3 : t3 = SetParent(t2, n, par) OBVIOUS
<1>14. Parented(t2, n, par, t3) BY <1>5, <1>12, <1>13, SetParentIs
<1>15. t3 \in Trees BY <1>14 DEF Parented
<1>16. PICK t4 : t4 = Paint(t3, n, t.red[old]) OBVIOUS
<1>17. Painted(t3, n, t.red[old], t4)
  <2>1. PICK red \in BOOLEAN : red = t.red[old] BY <1>5
  <2>2. Painted(t3, n, red, Paint(t3, n, red)) BY <1>5, <1>15, PaintIs
  <2> QED BY <1>16, <2>1, <2>2
<1>18. t4 \in Trees BY <1>17 DEF Painted
<1>19. PICK t5 : t5 = Hang(t4, old, par, n) OBVIOUS
<1>20. Hung(t4, old, par, n, t5) BY <1>5, <1>18, <1>19, HangIs
<1>21. t5 \in Trees BY <1>20 DEF Hung
<1>22. PICK t6 : t6 = SetParent(t5, a, n) OBVIOUS
<1>23. Parented(t5, a, n, t6) BY <1>5, <1>21, <1>22, SetParentIs
<1>24. t6 \in Trees BY <1>23 DEF Parented
<1>25. Parented(t6, b, n, u)
  <2>1. u = SetParent(t6, b, n)
    BY <1>2, <1>3, <1>4, <1>7, <1>9, <1>13, <1>16, <1>19, <1>22 DEF TakeOver
  <2> QED BY <1>5, <1>24, <2>1, SetParentIs
<1>26. /\ par = NULL <=> old = t.root
       /\ old # t.root => par \in T /\ t.child[SideOf(t, par, old)][par] = old
       /\ \A m \in T, r \in Sides :
             t.child[r][m] = old => m = par /\ r = SideOf(t, par, old) /\ m # old
  BY <1>4, ParentIs
<1>27. \A m \in Nodes, r \in Sides :
          t4.child[r][m] = IF m = n THEN t.child[r][old] ELSE t.child[r][m]
  <2>1. TAKE m \in Nodes, r \in Sides
  <2>2. t4.child[r][m] = t2.child[r][m] BY <1>14, <1>17 DEF Parented, Painted
  <2>3. t2.child[r][m] = IF r = "right" /\ m = n THEN b ELSE t1.child[r][m]
    BY <1>11 DEF Childed
  <2>4. t1.child[r][m] = IF r = "left" /\ m = n THEN a ELSE t.child[r][m] BY <1>8 DEF Childed
  <2> QED BY <1>2, <1>3, <2>2, <2>3, <2>4 DEF Sides
<1>28. par # NULL => par \in T /\ par # n /\ SideOf(t4, par, old) = SideOf(t, par, old)
  <2>1. SUFFICES ASSUME par # NULL
                 PROVE  par \in T /\ par # n /\ SideOf(t4, par, old) = SideOf(t, par, old)
    OBVIOUS
  <2>2. par \in T /\ par # n /\ par \in Nodes BY <1>1, <1>26, <2>1
  <2>3. t4.child["left"][par] = t.child["left"][par] BY <1>5, <1>27, <2>2
  <2> QED BY <2>2, <2>3 DEF SideOf
<1>29. u.root = IF t.root = old THEN n ELSE t.root
  <2>1. u.root = t5.root BY <1>23, <1>25 DEF Parented
  <2>2. t5.root = IF par = NULL THEN n ELSE t4.root BY <1>20 DEF Hung
  <2>3. t4.root = t.root BY <1>8, <1>11, <1>14, <1>17 DEF Childed, Parented, Painted
  <2> QED BY <1>26, <2>1, <2>2, <2>3
<1>30. ASSUME NEW m \in (T \ {old}) \cup {n}, NEW r \in Sides
       PROVE  u.child[r][m] = IF m = n THEN t.child[r][old]
                              ELSE IF t.child[r][m] = old THEN n ELSE t.child[r][m]
  <2>1. m \in Nodes BY <1>1
  <2>2. u.child[r][m] = IF m = par /\ r = SideOf(t4, par, old) THEN n ELSE t4.child[r][m]
    BY <1>20, <1>23, <1>25, <2>1 DEF Parented, Hung
  <2>3. t4.child[r][m] = IF m = n THEN t.child[r][old] ELSE t.child[r][m] BY <1>27, <2>1
  <2>4. CASE m = n
    <3>1. m # par BY <1>1, <1>28, <2>4
    <3> QED BY <2>2, <2>3, <2>4, <3>1
  <2>5. CASE m # n
    <3>1. m \in T BY <2>5
    <3>2. m = par /\ r = SideOf(t4, par, old) <=> t.child[r][m] = old
      BY <1>1, <1>26, <1>28, <2>1, <3>1
    <3> QED BY <2>2, <2>3, <2>5, <3>2
  <2> QED BY <2>4, <2>5
<1>31. ASSUME NEW m \in (T \ {old}) \cup {n}
       PROVE  u.parent[m] = IF m = n THEN t.parent[old]
                            ELSE IF \E s \in Sides : t.child[s][old] = m THEN n ELSE t.parent[m]
  <2>1. m \in Nodes /\ m # NULL BY <1>1
  <2>2. u.parent[m] = IF m = b THEN n ELSE IF m = a THEN n ELSE t5.parent[m]
    BY <1>23, <1>25, <2>1 DEF Parented
  <2>3. t5.parent[m] = IF m = n THEN par ELSE t.parent[m]
    <3>1. t5.parent[m] = t3.parent[m] BY <1>17, <1>20 DEF Painted, Hung
    <3>2. t3.parent[m] = IF m = n THEN par ELSE t2.parent[m] BY <1>14, <2>1 DEF Parented
    <3>3. t2.parent = t.parent BY <1>8, <1>11 DEF Childed
    <3> QED BY <3>1, <3>2, <3>3
  <2>4. (\E s \in Sides : t.child[s][old] = m) <=> m = a \/ m = b BY <1>2, <1>3 DEF Sides
  <2>5. n # a /\ n # b BY <1>1, <1>6
  <2> QED BY <1>4, <2>2, <2>3, <2>4, <2>5
<1>32. ASSUME NEW m \in (T \ {old}) \cup {n}
       PROVE  u.red[m] <=> IF m = n THEN t.red[old] ELSE t.red[m]
  <2>1. m \in Nodes BY <1>1
  <2>2. u.red = t4.red BY <1>20, <1>23, <1>25 DEF Parented, Hung
  <2>3. t3.red = t.red BY <1>8, <1>11, <1>14 DEF Childed, Parented
  <2>4. t4.red[m] = IF m = n THEN t.red[old] ELSE t3.red[m] BY <1>17, <2>1 DEF Painted
  <2> QED BY <2>2, <2>3, <2>4
<1>33. u \in Trees BY <1>25 DEF Parented
<1> QED BY <1>29, <1>30, <1>31, <1>32, <1>33 DEF TakenOver

(* S with n for old. *)
Swap(S, old, n) == IF old \in S THEN (S \ {old}) \cup {n} ELSE S

(* The nodes below each, with n for old. *)
Swapped(B, old, n) ==
    [m \in Nodes |-> Swap(B[IF m = n THEN old ELSE m], old, n)]

(* q knows no difference between old and n. *)
SamePlace(T, old, n, q) ==
    \A m \in T \ {old} : (q[m] < q[old] <=> q[m] < q[n]) /\ (q[old] < q[m] <=> q[n] < q[m])

(* A tree with n in the place of old is a tree, if no rank can tell. *)
LEMMA TakenOverTree ==
  ASSUME NEW t, NEW B, NEW T, NEW R, Tree(t, B, T, R), NEW old \in T, NEW n \in Nodes, n \notin T,
         NEW u, TakenOver(t, T, old, n, u), \A q \in R : SamePlace(T, old, n, q)
  PROVE  Tree(u, Swapped(B, old, n), (T \ {old}) \cup {n}, R)
<1>1. PICK B2 : B2 = Swapped(B, old, n) OBVIOUS
<1>2. PICK T2 : T2 = (T \ {old}) \cup {n} OBVIOUS
<1>3. /\ T \subseteq Nodes /\ NULL \notin Nodes /\ B \in [Nodes -> SUBSET Nodes]
      /\ u \in Trees /\ n # NULL /\ n # old /\ old # NULL /\ R \subseteq [Nodes -> Int]
      /\ T2 \subseteq Nodes
  BY <1>2, NodeAssumption DEF Tree, Typed, TakenOver
<1> DEFINE Back(m) == IF m = n THEN old ELSE m
           Fwd(c) == IF c = old THEN n ELSE c
<1>4. B2 \in [Nodes -> SUBSET Nodes] /\ \A m \in Nodes : B2[m] = Swap(B[Back(m)], old, n)
  BY <1>1, <1>3 DEF Swapped, Swap
<1>5. /\ u.root = Fwd(t.root)
      /\ \A m \in T2 : u.parent[m] = IF m = n THEN t.parent[old]
                                     ELSE IF \E s \in Sides : t.child[s][old] = m THEN n
                                     ELSE t.parent[m]
  BY <1>2 DEF TakenOver
<1>6. \A m \in T2, r \in Sides : u.child[r][m] = Fwd(t.child[r][Back(m)])
  <2>1. TAKE m \in T2, r \in Sides
  <2>2. u.child[r][m] = IF m = n THEN t.child[r][old]
                        ELSE IF t.child[r][m] = old THEN n ELSE t.child[r][m]
    BY <1>2 DEF TakenOver
  <2>3. t.child[r][old] # old BY <1>3, AChild
  <2> QED BY <2>2, <2>3
<1>7. \A m \in T2 : Back(m) \in T /\ Fwd(Back(m)) = m BY <1>2, <1>3
<1>8. \A m \in T : Fwd(m) \in T2 /\ Back(Fwd(m)) = m /\ m # n BY <1>2, <1>3
<1>9. \A m \in T : B[m] \subseteq T /\ m \in B[m] /\ \A y \in B[m] : y \in T /\ B[y] \subseteq B[m]
  BY BelowIs DEF Tree, Branching
<1>10. ASSUME NEW m \in T2, NEW r \in Sides
       PROVE  Under(B2, u.child[r][m]) = Swap(Under(B, t.child[r][Back(m)]), old, n)
  <2>1. PICK k : k = Back(m) OBVIOUS
  <2>2. PICK d : d = t.child[r][k] OBVIOUS
  <2>3. k \in T /\ u.child[r][m] = Fwd(d) BY <1>6, <1>7, <2>1, <2>2
  <2>4. CASE d = NULL BY <1>3, <2>1, <2>2, <2>3, <2>4 DEF Under, Swap
  <2>5. CASE d # NULL
    <3>1. d \in T BY <2>2, <2>3, <2>5, AChild
    <3>2. Fwd(d) \in T2 /\ Back(Fwd(d)) = d /\ Fwd(d) # NULL /\ Fwd(d) \in Nodes BY <1>3, <1>8, <3>1
    <3> HIDE DEF Back, Fwd
    <3>3. B2[Fwd(d)] = Swap(B[d], old, n) BY <1>4, <3>2
    <3> QED BY <2>1, <2>2, <2>3, <2>5, <3>2, <3>3 DEF Under
  <2> QED BY <2>4, <2>5
<1>11. Typed(u, B2, T2, R) BY <1>2, <1>3, <1>4 DEF Typed
<1>12. T = Under(B, t.root) /\ (t.root # NULL => t.root \in T /\ t.parent[t.root] = NULL)
  BY DEF Tree, Rooted
<1>13. Rooted(u, B2, T2)
  <2>1. t.root # NULL /\ t.root \in T /\ T = B[t.root] /\ t.parent[t.root] = NULL
    BY <1>12 DEF Under
  <2>2. u.root \in T2 /\ Back(u.root) = t.root /\ u.root # NULL BY <1>3, <1>5, <1>8, <2>1
  <2>3. B2[u.root] = Swap(B[t.root], old, n)
    <3> HIDE DEF Back, Fwd
    <3> QED BY <1>3, <1>4, <2>2
  <2>4. T2 = Under(B2, u.root) BY <1>2, <2>1, <2>2, <2>3 DEF Swap, Under
  <2>5. u.parent[u.root] = NULL
    <3>1. CASE t.root = old BY <1>2, <1>5, <2>1, <3>1
    <3>2. CASE t.root # old
      <4>1. u.root = t.root /\ t.root # n BY <1>5, <1>8, <2>1, <3>2
      <4>2. \A s \in Sides : t.child[s][old] # t.root BY <2>1, AChild
      <4> QED BY <1>5, <2>1, <2>2, <4>1, <4>2
    <3> QED BY <3>1, <3>2
  <2> QED BY <2>2, <2>4, <2>5 DEF Rooted
<1>14. ASSUME NEW m \in T2, NEW r \in Sides
       PROVE  /\ B2[m] = {m} \cup Under(B2, u.child[r][m]) \cup Under(B2, u.child[Other(r)][m])
              /\ m \notin Under(B2, u.child[r][m])
              /\ Under(B2, u.child[r][m]) \cap Under(B2, u.child[Other(r)][m]) = {}
  <2>1. PICK k : k = Back(m) OBVIOUS
  <2>2. PICK C : C = Under(B, t.child[r][k]) OBVIOUS
  <2>3. PICK D : D = Under(B, t.child[Other(r)][k]) OBVIOUS
  <2>4. k \in T /\ m = Fwd(k) BY <1>7, <2>1
  <2>5. B[k] = {k} \cup C \cup D /\ k \notin C /\ C \cap D = {}
    BY <2>2, <2>3, <2>4 DEF Tree, Branching
  <2>6. C \subseteq T /\ D \subseteq T /\ n \notin T BY <1>9, <2>4, <2>5
  <2>7. /\ Under(B2, u.child[r][m]) = Swap(C, old, n)
        /\ Under(B2, u.child[Other(r)][m]) = Swap(D, old, n)
    BY <1>10, <2>1, <2>2, <2>3, TwoSides
  <2>8. B2[m] = Swap(B[k], old, n) BY <1>3, <1>4, <2>1
  <2>9. k \notin D
    <3>1. Other(r) \in Sides BY TwoSides
    <3> QED BY <2>3, <2>4, <3>1 DEF Tree, Branching
  <2>10. Swap(B[k], old, n) = {m} \cup Swap(C, old, n) \cup Swap(D, old, n)
    <3>1. CASE k = old BY <1>3, <2>4, <2>5, <2>6, <2>9, <3>1 DEF Swap
    <3>2. CASE k # old BY <1>3, <2>4, <2>5, <2>6, <2>9, <3>2 DEF Swap
    <3> QED BY <3>1, <3>2
  <2>11. m \notin Swap(C, old, n) BY <1>3, <2>4, <2>5, <2>6 DEF Swap
  <2>12. Swap(C, old, n) \cap Swap(D, old, n) = {} BY <2>5, <2>6 DEF Swap
  <2> QED BY <2>7, <2>8, <2>10, <2>11, <2>12
<1>15. ASSUME NEW m \in T2, NEW y \in B2[m]
       PROVE  y \in T2 /\ B2[y] \subseteq B2[m]
  <2>1. PICK k : k = Back(m) OBVIOUS
  <2>2. k \in T /\ B2[m] = Swap(B[k], old, n) BY <1>3, <1>4, <1>7, <2>1
  <2>3. PICK z : z = Back(y) OBVIOUS
  <2>4. z \in B[k] /\ y = Fwd(z)
    <3>1. n \notin B[k] BY <1>9, <2>2
    <3> QED BY <1>3, <2>2, <2>3, <3>1 DEF Swap
  <2>5. z \in T /\ B[z] \subseteq B[k] BY <1>9, <2>2, <2>4
  <2>6. y \in T2 BY <1>8, <2>4, <2>5
  <2>7. B2[y] = Swap(B[z], old, n) BY <1>3, <1>4, <2>3, <2>6
  <2>8. Swap(B[z], old, n) \subseteq Swap(B[k], old, n) BY <2>5 DEF Swap
  <2> QED BY <2>2, <2>6, <2>7, <2>8
<1>16. Branching(u, B2, T2) BY <1>14, <1>15 DEF Branching
<1>17. ASSUME NEW m \in T2, NEW r \in Sides, u.child[r][m] # NULL
       PROVE  u.child[r][m] \in T2 /\ u.parent[u.child[r][m]] = m
  <2>1. PICK k : k = Back(m) OBVIOUS
  <2>2. PICK d : d = t.child[r][k] OBVIOUS
  <2>3. k \in T /\ u.child[r][m] = Fwd(d) /\ m = Fwd(k) BY <1>6, <1>7, <2>1, <2>2
  <2>4. d # NULL BY <1>3, <1>17, <2>3
  <2>5. d \in T /\ t.parent[d] = k BY <2>2, <2>3, <2>4, AChild
  <2>6. Fwd(d) \in T2 /\ d # n BY <1>8, <2>5
  <2>7. CASE d = old
    <3>1. d # k BY <2>2, <2>3, <2>4, AChild
    <3> QED BY <1>2, <1>5, <2>3, <2>5, <2>7, <3>1
  <2>8. CASE d # old
    <3>1. CASE k = old
      <4>1. \E s \in Sides : t.child[s][old] = d BY <2>2, <3>1
      <4> QED BY <1>5, <2>3, <2>6, <2>8, <3>1, <4>1
    <3>2. CASE k # old
      <4>1. ~\E s \in Sides : t.child[s][old] = d BY <2>4, <2>5, <3>2, AChild
      <4> QED BY <1>5, <2>3, <2>5, <2>6, <2>8, <3>2, <4>1
    <3> QED BY <3>1, <3>2
  <2> QED BY <2>7, <2>8
<1>18. ASSUME NEW m \in T2, m # u.root
       PROVE  u.parent[m] \in T2 /\ \E r \in Sides : u.child[r][u.parent[m]] = m
  <2>1. PICK k : k = Back(m) OBVIOUS
  <2>2. k \in T /\ m = Fwd(k) BY <1>7, <2>1
  <2>3. k # t.root BY <1>5, <1>18, <2>2
  <2>4. PICK r \in Sides : t.parent[k] \in T /\ t.child[r][t.parent[k]] = k
    BY <2>2, <2>3 DEF Tree, Linked
  <2>5. PICK p : p = t.parent[k] OBVIOUS
  <2>6. Fwd(p) \in T2 /\ Back(Fwd(p)) = p BY <1>8, <2>4, <2>5
  <2>7. u.child[r][Fwd(p)] = m
    <3>1. u.child[r][Fwd(p)] = Fwd(t.child[r][p])
      <4> HIDE DEF Back, Fwd
      <4> QED BY <1>6, <2>6
    <3> QED BY <2>2, <2>4, <2>5, <3>1
  <2>8. u.child[r][Fwd(p)] # NULL BY <1>3, <2>7
  <2>9. u.parent[m] = Fwd(p)
    <3> HIDE DEF Fwd, Back
    <3> QED BY <1>17, <2>6, <2>7, <2>8
  <2> QED BY <2>6, <2>7, <2>9
<1>19. Linked(u, T2) BY <1>17, <1>18 DEF Linked
<1>20. ASSUME NEW q \in R, NEW m \in T2, NEW r \in Sides, NEW y \in Under(B2, u.child[r][m])
       PROVE  Before(q, r, y, m)
  <2>1. PICK k : k = Back(m) OBVIOUS
  <2>2. PICK C : C = Under(B, t.child[r][k]) OBVIOUS
  <2>3. k \in T /\ m = Fwd(k) /\ y \in Swap(C, old, n) BY <1>7, <1>10, <2>1, <2>2
  <2>4. C \subseteq B[k] /\ k \notin C /\ \A z \in C : Before(q, r, z, k)
    BY <2>2, <2>3 DEF Tree, Branching, Ordered
  <2>5. C \subseteq T BY <1>9, <2>3, <2>4
  <2>6. PICK z : z \in C /\ y = Fwd(z) BY <1>3, <2>3, <2>5 DEF Swap
  <2>7. z \in T /\ z # k /\ Before(q, r, z, k) BY <2>4, <2>5, <2>6
  <2>8. SamePlace(T, old, n, q) OBVIOUS
  <2>9. CASE z = old
    <3>1. k \in T \ {old} /\ m = k /\ y = n BY <2>3, <2>6, <2>7, <2>9
    <3> QED BY <2>7, <2>8, <2>9, <3>1 DEF SamePlace, Before
  <2>10. CASE k = old
    <3>1. z \in T \ {old} /\ m = n /\ y = z BY <2>3, <2>6, <2>7, <2>10
    <3> QED BY <2>7, <2>8, <2>10, <3>1 DEF SamePlace, Before
  <2>11. CASE z # old /\ k # old BY <2>3, <2>6, <2>7, <2>11
  <2> QED BY <2>9, <2>10, <2>11
<1>21. Ordered(u, B2, T2, R) BY Zenon, <1>20 DEF Ordered
<1> QED BY <1>1, <1>2, <1>11, <1>13, <1>16, <1>19, <1>21 DEF Tree

-----------------------------------------------------------------------------
(* Removal: the turns of the loop. *)

(* While a removal goes up: nothing is wrong but that side s of p, where n *)
(* hangs, is one black node short.                                         *)
Lacking(t, B, T, R, h, p, s, n) ==
    /\ Tree(t, B, T, R) /\ h \in [Nodes -> Nat]
    /\ p \in T /\ s \in Sides /\ t.child[s][p] = n /\ ~IsRed(t, n)
    /\ Height(h, t.child[Other(s)][p]) = Height(h, n) + 1
    /\ h[p] = Height(h, t.child[Other(s)][p]) + Weight(t, p)
    /\ \A m \in T : m # p => Even(t, h, m)
    /\ \A m \in T, r \in Sides : ~RedPair(t, m, r)
    /\ ~IsRed(t, t.root)

(* p, n and the sibling of n with its children. *)
Kin(t, T, h, p, s, n, o, sib, near, far) ==
    /\ o = Other(s) /\ s = Other(o) /\ o \in Sides /\ s \in Sides /\ o # s
    /\ \A r \in Sides : r = s \/ r = o
    /\ p \in T /\ sib \in T /\ p # sib /\ p # NULL /\ sib # NULL /\ sib # t.root
    /\ t.child[s][p] = n /\ t.child[o][p] = sib
    /\ t.child[s][sib] = near /\ t.child[o][sib] = far
    /\ n \notin {p, sib, near, far} \ {NULL} /\ near \notin {p, sib}
    /\ far \notin {p, sib} /\ (far # NULL => near # far)
    /\ (n # NULL => n \in T) /\ (near # NULL => near \in T) /\ (far # NULL => far \in T)
    /\ t.parent[sib] = p /\ \A r \in Sides, m \in T : t.child[r][m] = sib => m = p
    /\ \A r \in Sides, m \in T : t.child[r][m] = far /\ far # NULL => m = sib
    /\ \A r \in Sides, m \in T : t.child[r][m] = near /\ near # NULL => m = sib
    /\ near # NULL => near # t.root
    /\ far # NULL => far # t.root
    /\ Height(h, n) \in Nat /\ h[sib] = Height(h, n) + 1
    /\ h[p] = h[sib] + Weight(t, p) /\ Even(t, h, sib)

(* A subtree that is short of a black node has a sibling that has some. *)
LEMMA KinIs ==
  ASSUME NEW t, NEW B, NEW T, NEW R, NEW h, NEW p, NEW s, NEW n, Lacking(t, B, T, R, h, p, s, n),
         NEW o, o = Other(s), NEW sib, sib = t.child[o][p], NEW near, near = t.child[s][sib],
         NEW far, far = t.child[o][sib]
  PROVE  Kin(t, T, h, p, s, n, o, sib, near, far)
<1>1. /\ Tree(t, B, T, R) /\ h \in [Nodes -> Nat] /\ p \in T /\ s \in Sides /\ n = t.child[s][p]
      /\ T \subseteq Nodes /\ NULL \notin Nodes
  BY NodeAssumption DEF Lacking, Tree, Typed
<1>2. o \in Sides /\ s = Other(o) /\ o # s /\ \A r \in Sides : r = s \/ r = o BY <1>1, TwoSides
<1>3. Height(h, n) \in Nat BY <1>1, HeightIs
<1>4. Height(h, sib) = Height(h, n) + 1 /\ h[p] = Height(h, sib) + Weight(t, p) BY DEF Lacking
<1>5. sib # NULL BY <1>3, <1>4 DEF Height
<1>6. /\ sib \in T /\ sib \in B[p] /\ sib # p /\ t.parent[sib] = p /\ sib # t.root
      /\ p \notin B[sib] /\ Under(B, sib) = B[sib] /\ sib \in B[sib]
  BY <1>1, <1>2, <1>5, AChild
<1>7. n # NULL => n \in T /\ n # p /\ t.parent[n] = p BY <1>1, AChild
<1>8. near # NULL => /\ near \in T /\ near # sib /\ t.parent[near] = sib /\ near \in B[sib]
                     /\ near # t.root
  BY <1>1, <1>6, AChild
<1>9. far # NULL => /\ far \in T /\ far # sib /\ t.parent[far] = sib /\ far \in B[sib]
                    /\ far # t.root /\ far # t.child[Other(o)][sib]
  BY <1>1, <1>2, <1>6, AChild
<1>10. n # sib
  <2>1. sib # t.child[Other(o)][p] BY <1>1, <1>2, <1>5, AChild
  <2> QED BY <1>1, <1>2, <2>1
<1>11. \A r \in Sides, m \in T : t.child[r][m] # NULL => t.parent[t.child[r][m]] = m
  BY ZenonT(30), <1>1 DEF Tree, Linked
<1>12. n \notin {p, sib, near, far} \ {NULL} /\ near \notin {p, sib} /\ far \notin {p, sib}
       /\ (far # NULL => near # far)
  <2>1. n \notin {p, sib} \ {NULL} BY Zenon, <1>7, <1>10
  <2>2. n # NULL => n # near /\ n # far BY Zenon, <1>6, <1>7, <1>8, <1>9
  <2>3. near # p /\ far # p BY Zenon, <1>1, <1>6, <1>8, <1>9
  <2>4. near # sib /\ far # sib BY Zenon, <1>1, <1>6, <1>8, <1>9
  <2>5. far # NULL => near # far BY Zenon, <1>2, <1>9
  <2> QED BY Zenon, <2>1, <2>2, <2>3, <2>4, <2>5
<1>13. Even(t, h, sib) BY <1>6 DEF Lacking
<1>14. h[sib] = Height(h, n) + 1 /\ h[p] = h[sib] + Weight(t, p)
  <2>1. Height(h, sib) = h[sib] BY ZenonT(30), <1>5 DEF Height
  <2> QED BY Zenon, <1>4, <2>1
<1>15. /\ \A r \in Sides, m \in T : t.child[r][m] = sib => m = p
       /\ \A r \in Sides, m \in T : t.child[r][m] = far /\ far # NULL => m = sib
       /\ \A r \in Sides, m \in T : t.child[r][m] = near /\ near # NULL => m = sib
  BY <1>5, <1>6, <1>8, <1>9, <1>11
<1>16. p # NULL BY <1>1
<1> QED
  BY Zenon, <1>1, <1>2, <1>3, <1>5, <1>6, <1>7, <1>8, <1>9, <1>12, <1>13, <1>14, <1>15,
     <1>16 DEF Kin

(* A red sibling gives way to its near child, and p becomes red. *)
LEMMA BlackSiblingIs ==
  ASSUME NEW t, NEW B, NEW T, NEW R, NEW h, NEW p, NEW s, NEW n, Lacking(t, B, T, R, h, p, s, n),
         NEW sib, sib = t.child[Other(s)][p], t.red[sib], NEW u, u = BlackSibling(t, p, s)
  PROVE  /\ \E B2, h2 : Lacking(u, B2, T, R, h2, p, s, n)
         /\ ~u.red[u.child[Other(s)][p]] /\ u.red[p]
<1>1. PICK o : o = Other(s) OBVIOUS
<1>2. PICK near : near = t.child[s][sib] OBVIOUS
<1>3. PICK far : far = t.child[o][sib] OBVIOUS
<1>4. Kin(t, T, h, p, s, n, o, sib, near, far) BY <1>1, <1>2, <1>3, KinIs
<1>5. /\ Tree(t, B, T, R) /\ h \in [Nodes -> Nat] /\ T \subseteq Nodes /\ NULL \notin Nodes
  BY NodeAssumption DEF Lacking, Tree, Typed
<1>6. /\ o \in Sides /\ s \in Sides /\ o # s /\ (\A r \in Sides : r = s \/ r = o)
      /\ p \in T /\ sib \in T /\ p # sib /\ p # NULL /\ sib # NULL /\ sib # t.root
      /\ t.child[s][p] = n /\ t.child[o][p] = sib
      /\ t.child[s][sib] = near /\ t.child[o][sib] = far
      /\ n \notin {p, sib} /\ near \notin {p, sib} /\ far \notin {p, sib}
      /\ (n # NULL => n \in T) /\ (near # NULL => near \in T) /\ (far # NULL => far \in T)
      /\ Height(h, n) \in Nat /\ h[sib] = Height(h, n) + 1 /\ h[p] = h[sib] + Weight(t, p)
      /\ Even(t, h, sib)
  BY <1>4 DEF Kin
<1>7. \A m \in T, r \in Sides : ~(t.red[m] /\ IsRed(t, t.child[r][m]))
  BY DEF Lacking, RedPair
<1>8. ~t.red[p] /\ ~IsRed(t, near) /\ ~IsRed(t, far) BY <1>6, <1>7 DEF IsRed
<1>9. PICK t1 : t1 = RB_SET_BLACKRED(t, sib, p) OBVIOUS
<1>10. Recoloured(t, B, T, R, sib, p, t1) BY <1>5, <1>6, <1>9, BlackRedIs
<1>11. /\ Tree(t1, B, T, R) /\ t1.child = t.child /\ t1.parent = t.parent /\ t1.root = t.root
       /\ \A m \in T : t1.red[m] <=> m = p \/ (m # sib /\ t.red[m])
  BY <1>10 DEF Recoloured
<1>12. u = Rotate(t1, p, s) BY <1>1, <1>6, <1>9 DEF BlackSibling
<1>13. sib = t1.child[Other(s)][p] /\ near = t1.child[s][sib] BY <1>1, <1>6, <1>11
<1>14. PICK B2 : B2 = Turned(t1, B, p, s, sib, near) BY Zenon
<1>15. Rotated(t1, T, p, s, sib, near, u) /\ Tree(u, B2, T, R)
  BY <1>6, <1>11, <1>12, <1>13, <1>14, RotateTree
<1>16. u.red = t1.red /\ u.root = IF t.root = p THEN sib ELSE t.root
  BY ZenonT(30), <1>11, <1>15 DEF Rotated
<1>17. /\ u.child[s][p] = n /\ u.child[o][p] = near
       /\ u.child[s][sib] = p /\ u.child[o][sib] = far
       /\ \A m \in T, r \in Sides : m \notin {p, sib} =>
             \/ t.child[r][m] = p /\ u.child[r][m] = sib
             \/ t.child[r][m] \notin {p, sib} /\ u.child[r][m] = t.child[r][m]
  <2>1. far = t1.child[Other(s)][sib] BY Zenon, <1>1, <1>6, <1>11
  <2>2. Relinked(t.child, T, p, s, sib, far, near, u)
    BY Zenon, <1>6, <1>11, <1>13, <1>15, <2>1, RelinkedIs
  <2> QED BY Zenon, <1>1, <1>6, <2>2 DEF Relinked
<1> DEFINE h2 == [m \in Nodes |-> IF m = sib THEN h[p] ELSE IF m = p THEN h[sib] ELSE h[m]]
<1>18. /\ h2 \in [Nodes -> Nat] /\ h2[sib] = h[p] /\ h2[p] = h[sib]
       /\ \A m \in Nodes : m \notin {p, sib} => h2[m] = h[m]
  BY <1>5, <1>6
<1> HIDE DEF h2
<1>19. PICK k \in Nat : k = Height(h, n) BY <1>6
<1>20. h[sib] = k + 1 /\ h[p] = k + 2
  <2>1. h[sib] = k + 1 BY <1>6, <1>19
  <2>2. Weight(t, p) = 1 BY <1>8 DEF Weight
  <2> QED BY <1>6, <1>19, <2>1, <2>2
<1>21. Height(h, near) = k + 1 /\ Height(h, far) = k + 1
  <2>1. h[sib] = Height(h, t.child[s][sib]) BY <1>5, <1>6, EvenIs
  <2>2. h[sib] = Height(h, t.child[o][sib]) BY <1>5, <1>6, EvenIs
  <2> QED BY <1>6, <1>20, <2>1, <2>2
<1>22. Height(h2, near) = k + 1 /\ Height(h2, far) = k + 1 /\ Height(h2, n) = k
  BY <1>5, <1>6, <1>18, <1>19, <1>21 DEF Height
<1>23. ASSUME NEW m \in T, m # p PROVE Even(u, h2, m)
  <2>1. CASE m = sib
    <3>1. Height(h2, p) = k + 1 BY <1>6, <1>18, <1>20 DEF Height
    <3>2. \A r \in Sides : Height(h2, u.child[r][m]) = k + 1 BY <1>6, <1>17, <1>22, <2>1, <3>1
    <3>3. ~u.red[m] /\ h2[m] = (k + 1) + 1 BY <1>6, <1>11, <1>16, <1>18, <1>20, <2>1
    <3>4. k + 1 \in Nat BY Zenon, NextNat
    <3> QED BY <3>2, <3>3, <3>4, EvenBy
  <2>2. CASE m # sib
    <3>1. t1.red[m] <=> t.red[m] BY <1>11, <1>23, <2>2
    <3>2. Even(t, h, m) BY <1>23 DEF Lacking
    <3>3. Even(t1, h, m) BY <1>11, <3>1, <3>2 DEF Even, Weight
    <3> QED BY <1>6, <1>11, <1>13, <1>15, <1>18, <1>23, <2>2, <3>3, RotatedEven
  <2> QED BY <2>1, <2>2
<1>24. ASSUME NEW m \in T, NEW r \in Sides, RedPair(u, m, r) PROVE FALSE
  <2>1. PICK c : c = u.child[r][m] OBVIOUS
  <2>2. t1.red[m] /\ c # NULL /\ t1.red[c] BY <1>16, <1>24, <2>1 DEF RedPair, IsRed
  <2>3. CASE m = p
    <3>1. c = n \/ c = near BY <1>6, <1>17, <2>1, <2>3
    <3>2. c \in T /\ c \notin {p, sib} BY <1>6, <2>2, <3>1
    <3>3. t.red[c] BY <1>11, <2>2, <3>2
    <3>4. ~IsRed(t, n) BY DEF Lacking
    <3> QED BY <1>8, <2>2, <3>1, <3>3, <3>4 DEF IsRed
  <2>4. CASE m = sib BY <1>6, <1>11, <2>2, <2>4
  <2>5. CASE m \notin {p, sib}
    <3>1. c # sib BY <1>6, <1>11, <2>2
    <3>2. c \notin {p, sib} /\ c = t.child[r][m] BY <1>17, <2>1, <2>5, <3>1
    <3>3. c \in T BY <1>5, <2>2, <3>2, AChild
    <3>4. t.red[m] /\ t.red[c] BY <1>11, <2>2, <2>5, <3>2, <3>3
    <3> QED BY <1>7, <2>2, <3>2, <3>4 DEF IsRed
  <2> QED BY <2>3, <2>4, <2>5
<1>25. ~IsRed(u, u.root)
  <2>1. t.root # NULL => t.root \in T BY <1>5 DEF Tree, Rooted
  <2>2. ~IsRed(t, t.root) BY DEF Lacking
  <2> QED BY <1>6, <1>11, <1>16, <2>1, <2>2 DEF IsRed
<1>26. ~IsRed(u, n)
  <2>1. ~IsRed(t, n) BY DEF Lacking
  <2> QED BY <1>6, <1>11, <1>16, <2>1 DEF IsRed
<1>27. u.red[p] /\ ~u.red[near]
  <2>1. near # NULL BY <1>21 DEF Height
  <2> QED BY <1>6, <1>8, <1>11, <1>16, <2>1 DEF IsRed
<1>28. h2[p] = Height(h2, u.child[o][p]) + Weight(u, p)
  <2>1. Weight(u, p) = 0 BY <1>27 DEF Weight
  <2> QED BY <1>17, <1>18, <1>20, <1>22, <2>1
<1>29. Height(h2, u.child[o][p]) = Height(h2, n) + 1 BY Zenon, <1>17, <1>22
<1>30. Lacking(u, B2, T, R, h2, p, s, n)
  BY <1>1, <1>6, <1>15, <1>17, <1>18, <1>23, <1>24, <1>25, <1>26, <1>28, <1>29 DEF Lacking
<1> QED BY <1>1, <1>17, <1>27, <1>30

(* At the start of a turn: the subtree n of p is one black node short, or  *)
(* n is red, which may be all that is wrong.                               *)
Short(t, B, T, R, h, p, n) ==
    /\ Tree(t, B, T, R) /\ h \in [Nodes -> Nat]
    /\ p = NULL => n = t.root
    /\ p # NULL =>
          /\ p \in T
          /\ \E s \in Sides : /\ t.child[s][p] = n
                              /\ Height(h, t.child[Other(s)][p]) = Height(h, n) + 1
                              /\ h[p] = Height(h, t.child[Other(s)][p]) + Weight(t, p)
    /\ \A m \in T : m # p => Even(t, h, m)
    /\ \A m \in T, s \in Sides : RedPair(t, m, s) => m = n \/ t.child[s][m] = n
    /\ IsRed(t, t.root) => t.root = n

(* A black sibling with no red child becomes red, and the shortage goes up. *)
LEMMA BothBlackIs ==
  ASSUME NEW t, NEW B, NEW T, NEW R, NEW h, NEW p, NEW s, NEW n, Lacking(t, B, T, R, h, p, s, n),
         NEW sib, sib = t.child[Other(s)][p], ~t.red[sib],
         ~IsRed(t, t.child[s][sib]), ~IsRed(t, t.child[Other(s)][sib]),
         NEW u, u = Paint(t, sib, TRUE), NEW q, q = t.parent[p]
  PROVE  \E h2 : Short(u, B, T, R, h2, q, p)
<1>1. PICK o : o = Other(s) OBVIOUS
<1>2. PICK near : near = t.child[s][sib] OBVIOUS
<1>3. PICK far : far = t.child[o][sib] OBVIOUS
<1>4. Kin(t, T, h, p, s, n, o, sib, near, far) BY <1>1, <1>2, <1>3, KinIs
<1>5. /\ Tree(t, B, T, R) /\ h \in [Nodes -> Nat] /\ T \subseteq Nodes /\ NULL \notin Nodes
      /\ t \in Trees
  BY NodeAssumption DEF Lacking, Tree, Typed
<1>6. /\ o \in Sides /\ s \in Sides /\ o # s /\ (\A r \in Sides : r = s \/ r = o)
      /\ p \in T /\ sib \in T /\ p # sib /\ p # NULL /\ sib # NULL /\ sib # t.root
      /\ t.child[s][p] = n /\ t.child[o][p] = sib
      /\ t.child[s][sib] = near /\ t.child[o][sib] = far
      /\ n \notin {p, sib} /\ near \notin {p, sib} /\ far \notin {p, sib}
      /\ (n # NULL => n \in T) /\ (near # NULL => near \in T) /\ (far # NULL => far \in T)
      /\ Height(h, n) \in Nat /\ h[sib] = Height(h, n) + 1 /\ h[p] = h[sib] + Weight(t, p)
      /\ Even(t, h, sib) /\ \A r \in Sides, m \in T : t.child[r][m] = sib => m = p
  BY <1>4 DEF Kin
<1>7. sib \in Nodes BY <1>5, <1>6
<1>8. Painted(t, sib, TRUE, u) BY <1>5, <1>7, PaintIs DEF Links
<1>9. /\ SameShape(t, T, u) /\ u.child = t.child /\ u.root = t.root /\ u.parent = t.parent
      /\ \A m \in T : u.red[m] <=> m = sib \/ t.red[m]
  BY <1>5, <1>8 DEF Painted, SameShape
<1>10. Tree(u, B, T, R) BY <1>5, <1>9, SameTree
<1>11. PICK k \in Nat : k = Height(h, n) BY <1>6
<1>12. PICK w \in {0, 1} : w = Weight(t, p) BY DEF Weight
<1> DEFINE h2 == [m \in Nodes |-> IF m = sib THEN k ELSE IF m = p THEN k + w ELSE h[m]]
<1>13. /\ h2 \in [Nodes -> Nat] /\ h2[sib] = k /\ h2[p] = k + w
       /\ \A m \in Nodes : m \notin {p, sib} => h2[m] = h[m]
  <2>1. k + w \in Nat OBVIOUS
  <2> QED BY <1>5, <1>6, <2>1
<1> HIDE DEF h2
<1>14. h[sib] = k + 1 /\ h[p] = (k + 1) + w BY <1>6, <1>11, <1>12
<1>15. Height(h, near) = k /\ Height(h, far) = k
  <2>1. h[sib] = Height(h, t.child[s][sib]) + 1 /\ Height(h, t.child[s][sib]) \in Nat
    BY <1>5, <1>6, EvenIs
  <2>2. h[sib] = Height(h, t.child[o][sib]) + 1 /\ Height(h, t.child[o][sib]) \in Nat
    BY <1>5, <1>6, EvenIs
  <2> QED BY <1>6, <1>14, <2>1, <2>2
<1>16. /\ Height(h2, near) = k /\ Height(h2, far) = k /\ Height(h2, n) = k
       /\ Height(h2, sib) = k /\ Height(h2, p) = k + w
  BY <1>5, <1>6, <1>11, <1>13, <1>15 DEF Height
<1>17. \A m \in T, r \in Sides : t.child[r][m] = p => m = q
  <2>1. TAKE m \in T, r \in Sides
  <2>2. t.child[r][m] = p => t.parent[p] = m BY <1>5, <1>6, AChild
  <2> QED BY <2>2
<1>18. q # sib
  <2>1. CASE p = t.root BY <1>5, <1>6, <2>1 DEF Tree, Rooted
  <2>2. CASE p # t.root
    <3>1. PICK r \in Sides : t.child[r][q] = p BY <1>6, <2>2, <1>5 DEF Tree, Linked
    <3> QED BY <1>6, <3>1
  <2> QED BY Zenon, <2>1, <2>2
<1>19. ASSUME NEW m \in T, m # q PROVE Even(u, h2, m)
  <2>1. CASE m = sib
    <3>1. \A r \in Sides : Height(h2, u.child[r][m]) = k BY <1>6, <1>9, <1>16, <2>1
    <3>2. u.red[m] /\ h2[m] = k BY <1>6, <1>9, <1>13, <2>1
    <3> QED BY <3>1, <3>2, EvenBy
  <2>2. CASE m = p
    <3>1. \A r \in Sides : Height(h2, u.child[r][m]) = k BY <1>6, <1>9, <1>16, <2>2
    <3>2. u.red[m] <=> t.red[p] BY <1>6, <1>9, <2>2
    <3>3. h2[m] = k + w /\ (t.red[p] => w = 0) /\ (~t.red[p] => w = 1)
      BY <1>12, <1>13, <2>2 DEF Weight
    <3>4. u.red[m] => h2[m] = k
      <4>1. CASE t.red[p]
        <5>1. w = 0 BY <3>3, <4>1
        <5> QED BY <3>3, <5>1
      <4>2. CASE ~t.red[p] BY <3>2, <4>2
      <4> QED BY <4>1, <4>2
    <3>5. ~u.red[m] => h2[m] = k + 1 BY <3>2, <3>3
    <3> QED BY <3>1, <3>4, <3>5, EvenBy
  <2>3. CASE m \notin {p, sib}
    <3>1. Even(t, h, m) BY <2>3 DEF Lacking
    <3>2. ASSUME NEW r \in Sides PROVE Height(h2, u.child[r][m]) = Height(h, t.child[r][m])
      <4>1. PICK c : c = t.child[r][m] OBVIOUS
      <4>2. c # p /\ c # sib BY <1>6, <1>17, <1>19, <2>3, <4>1
      <4>3. c # NULL => c \in Nodes BY <1>5, <4>1, AChild
      <4> QED BY <1>9, <1>13, <4>1, <4>2, <4>3 DEF Height
    <3>3. h2[m] = h[m] /\ (u.red[m] <=> t.red[m]) BY <1>5, <1>9, <1>13, <2>3
    <3> QED BY <3>1, <3>2, <3>3 DEF Even, Weight
  <2> QED BY <2>1, <2>2, <2>3
<1>20. q = NULL => p = u.root
  <2>1. p # t.root => q \in T BY <1>5, <1>6 DEF Tree, Linked
  <2> QED BY <1>5, <1>9, <2>1
<1>21. ASSUME q # NULL
       PROVE  /\ q \in T
              /\ \E r \in Sides : /\ u.child[r][q] = p
                                  /\ Height(h2, u.child[Other(r)][q]) = Height(h2, p) + 1
                                  /\ h2[q] = Height(h2, u.child[Other(r)][q]) + Weight(u, q)
  <2>1. p # t.root BY Zenon, <1>5, <1>6, <1>21 DEF Tree, Rooted
  <2>2. q \in T /\ \E r \in Sides : t.child[r][q] = p BY <1>5, <1>6, <2>1 DEF Tree, Linked
  <2>3. PICK r \in Sides : t.child[r][q] = p BY <2>2
  <2>4. q # p BY <1>5, <1>6, <2>2, <2>3, AChild
  <2>5. PICK c : c = t.child[Other(r)][q] OBVIOUS
  <2>6. Other(r) \in Sides BY TwoSides
  <2>7. c # p
    <3>1. p # t.child[Other(r)][q] BY <1>5, <1>6, <2>2, <2>3, AChild
    <3> QED BY <2>5, <3>1
  <2>8. c # sib BY <1>6, <2>2, <2>4, <2>5, <2>6
  <2>9. c # NULL => c \in Nodes BY <1>5, <2>2, <2>5, <2>6, AChild
  <2>10. Height(h2, c) = Height(h, c) BY <1>13, <2>7, <2>8, <2>9 DEF Height
  <2>11. Even(t, h, q) BY <2>2, <2>4 DEF Lacking
  <2>12. h[q] = Height(h, p) + Weight(t, q) /\ h[q] = Height(h, c) + Weight(t, q)
    BY <2>3, <2>5, <2>6, <2>11 DEF Even
  <2>13. Height(h, c) = Height(h, p)
    <3>1. Height(h, c) \in Nat /\ Height(h, p) \in Nat BY <1>5, <1>6, <2>9 DEF Height
    <3> QED BY <2>12, <3>1 DEF Weight
  <2>14. Height(h, p) = Height(h2, p) + 1 BY <1>6, <1>14, <1>16 DEF Height
  <2>15. h2[q] = h[q] /\ Weight(u, q) = Weight(t, q)
    <3>1. q \in Nodes /\ q \notin {p, sib} BY <1>5, <1>18, <2>2, <2>4
    <3> QED BY <1>9, <1>13, <2>2, <3>1 DEF Weight
  <2>16. u.child[r][q] = p /\ u.child[Other(r)][q] = c BY <1>9, <2>3, <2>5
  <2> QED BY Zenon, <2>2, <2>10, <2>12, <2>13, <2>14, <2>15, <2>16
<1>22. ASSUME NEW m \in T, NEW r \in Sides, RedPair(u, m, r)
       PROVE  m = p \/ u.child[r][m] = p
  <2>1. PICK c : c = t.child[r][m] OBVIOUS
  <2>2. u.red[m] /\ c # NULL /\ u.red[c] BY Zenon, <1>9, <1>22, <2>1 DEF RedPair, IsRed
  <2>3. c \in T BY <1>5, <2>1, <2>2, AChild
  <2>4. CASE c = sib BY <1>6, <2>1, <2>4
  <2>5. CASE m = sib
    <3>1. c = near \/ c = far BY Zenon, <1>6, <2>1, <2>5
    <3>2. t.red[c] BY Zenon, <1>6, <1>9, <2>2, <2>3, <3>1
    <3>3. ~IsRed(t, near) /\ ~IsRed(t, far) BY Zenon, <1>1, <1>2, <1>3
    <3> QED BY <2>2, <3>1, <3>2, <3>3 DEF IsRed
  <2>6. CASE m # sib /\ c # sib
    <3>1. t.red[m] /\ t.red[c] BY Zenon, <1>9, <2>2, <2>3, <2>6
    <3> QED BY Zenon, <2>1, <2>2, <3>1 DEF Lacking, RedPair, IsRed
  <2> QED BY <2>4, <2>5, <2>6
<1>23. ~IsRed(u, u.root)
  <2>1. t.root # NULL => t.root \in T BY <1>5 DEF Tree, Rooted
  <2>2. ~IsRed(t, t.root) BY Zenon DEF Lacking
  <2> QED BY Zenon, <1>6, <1>9, <2>1, <2>2 DEF IsRed
<1>24. Short(u, B, T, R, h2, q, p)
  BY Zenon, <1>10, <1>13, <1>19, <1>20, <1>21, <1>22, <1>23 DEF Short
<1> QED BY <1>24

(* Of a black sibling, a red near child takes the place, and it becomes    *)
(* the far child.                                                          *)
LEMMA RedFarIs ==
  ASSUME NEW t, NEW B, NEW T, NEW R, NEW h, NEW p, NEW s, NEW n, Lacking(t, B, T, R, h, p, s, n),
         NEW sib, sib = t.child[Other(s)][p], ~t.red[sib],
         IsRed(t, t.child[s][sib]), ~IsRed(t, t.child[Other(s)][sib]),
         NEW u, u = RedFar(t, p, s), NEW sib2, sib2 = u.child[Other(s)][p]
  PROVE  /\ \E B2, h2 : Lacking(u, B2, T, R, h2, p, s, n)
         /\ ~u.red[sib2] /\ IsRed(u, u.child[Other(s)][sib2])
<1>1. PICK o : o = Other(s) OBVIOUS
<1>2. PICK near : near = t.child[s][sib] OBVIOUS
<1>3. PICK far : far = t.child[o][sib] OBVIOUS
<1>4. Kin(t, T, h, p, s, n, o, sib, near, far) BY <1>1, <1>2, <1>3, KinIs
<1>5. /\ Tree(t, B, T, R) /\ h \in [Nodes -> Nat] /\ T \subseteq Nodes /\ NULL \notin Nodes
      /\ t \in Trees
  BY Zenon, NodeAssumption DEF Lacking, Tree, Typed
<1>6. /\ o \in Sides /\ s \in Sides /\ s = Other(o) /\ o # s /\ (\A r \in Sides : r = s \/ r = o)
      /\ p \in T /\ sib \in T /\ p # sib /\ p # NULL /\ sib # NULL /\ sib # t.root
      /\ t.child[s][p] = n /\ t.child[o][p] = sib
      /\ t.child[s][sib] = near /\ t.child[o][sib] = far
      /\ n \notin {p, sib, near, far} \ {NULL} /\ near \notin {p, sib} /\ far \notin {p, sib}
      /\ (far # NULL => near # far)
      /\ (n # NULL => n \in T) /\ (near # NULL => near \in T) /\ (far # NULL => far \in T)
      /\ Height(h, n) \in Nat /\ h[sib] = Height(h, n) + 1 /\ h[p] = h[sib] + Weight(t, p)
      /\ Even(t, h, sib) /\ \A r \in Sides, m \in T : t.child[r][m] = sib => m = p
  BY Zenon, <1>4 DEF Kin
<1>7. near # NULL /\ t.red[near] /\ near \in T /\ ~IsRed(t, far) /\ near # far
  BY Zenon, <1>1, <1>2, <1>3, <1>6 DEF IsRed
<1>8. near # t.root /\ n # near BY <1>4, <1>7 DEF Kin
<1>9. PICK t1 : t1 = RB_SET_BLACKRED(t, near, sib) BY Zenon
<1>10. Recoloured(t, B, T, R, near, sib, t1) BY <1>5, <1>6, <1>7, <1>9, BlackRedIs
<1>11. /\ Tree(t1, B, T, R) /\ t1.child = t.child /\ t1.parent = t.parent /\ t1.root = t.root
       /\ \A m \in T : t1.red[m] <=> m = sib \/ (m # near /\ t.red[m])
  BY Zenon, <1>10 DEF Recoloured
<1>12. u = Rotate(t1, sib, o)
  BY Zenon, <1>1, <1>6, <1>9 DEF RedFar, RB_SET_BLACKRED
<1>13. PICK inner : inner = t.child[o][near] BY Zenon
<1>14. near = t1.child[Other(o)][sib] /\ inner = t1.child[o][near] BY <1>6, <1>11, <1>13
<1>15. PICK B2 : B2 = Turned(t1, B, sib, o, near, inner) BY Zenon
<1>16. Rotated(t1, T, sib, o, near, inner, u) /\ Tree(u, B2, T, R)
  BY ZenonT(30), <1>6, <1>7, <1>11, <1>12, <1>14, <1>15, RotateTree
<1>17. u.red = t1.red /\ u.root = t.root
  <2>1. u.red = t1.red /\ u.root = IF t1.root = sib THEN near ELSE t1.root
    BY Zenon, <1>16 DEF Rotated
  <2> QED BY Zenon, <1>6, <1>11, <2>1
<1>18. PICK outer : outer = t.child[s][near] BY Zenon
<1>19. /\ u.child[o][sib] = far /\ u.child[s][sib] = inner
       /\ u.child[o][near] = sib /\ u.child[s][near] = outer
       /\ \A m \in T, r \in Sides : m \notin {sib, near} =>
             \/ t.child[r][m] = sib /\ u.child[r][m] = near
             \/ t.child[r][m] \notin {sib, near} /\ u.child[r][m] = t.child[r][m]
  <2>1. s = Other(o) /\ outer = t1.child[Other(o)][near] BY Zenon, <1>6, <1>11, <1>18
  <2>2. Relinked(t.child, T, sib, o, near, outer, inner, u)
    BY Zenon, <1>6, <1>7, <1>11, <1>14, <1>16, <2>1, RelinkedIs
  <2> QED BY Zenon, <1>6, <2>1, <2>2 DEF Relinked
<1>20. u.child[s][p] = n /\ u.child[o][p] = near
  <2>1. p \notin {sib, near} /\ n \notin {sib, near} BY Zenon, <1>6, <1>8
  <2>2. t.child[s][p] # sib /\ t.child[o][p] = sib BY Zenon, <1>6, <2>1
  <2>3. u.child[s][p] = t.child[s][p] /\ u.child[o][p] = near
    BY ZenonT(30), <1>6, <1>19, <2>1, <2>2
  <2> QED BY Zenon, <1>6, <2>3
<1>21. /\ inner \notin {sib, near} /\ (inner # NULL => inner \in T)
       /\ (outer # NULL => outer \in T /\ outer # near) /\ outer # sib
  <2>1. ChildOf(t, B, T, sib, s, near) BY Zenon, <1>5, <1>6, <1>7, AChildOf
  <2>2. sib \notin B[near] BY Zenon, <2>1 DEF ChildOf
  <2>3. inner # NULL => inner \in T /\ inner \in B[near] /\ inner # near
    <3>1. inner # NULL => ChildOf(t, B, T, near, o, inner)
      BY Zenon, <1>5, <1>6, <1>7, <1>13, AChildOf
    <3> QED BY Zenon, <3>1 DEF ChildOf
  <2>4. outer # NULL => outer \in T /\ outer \in B[near] /\ outer # near
    <3>1. outer # NULL => ChildOf(t, B, T, near, s, outer)
      BY Zenon, <1>5, <1>6, <1>7, <1>18, AChildOf
    <3> QED BY Zenon, <3>1 DEF ChildOf
  <2> QED BY ZenonT(30), <1>6, <1>7, <2>2, <2>3, <2>4
<1>22. PICK k \in Nat : k = Height(h, n) BY Zenon, <1>6
<1>23. h[sib] = k + 1 BY ZenonT(30), <1>6, <1>22
<1>24. Height(h, near) = k /\ Height(h, far) = k
  <2>1. /\ Even(t, h, sib) /\ s \in Sides /\ o \in Sides /\ sib \in T
        /\ near = t.child[s][sib] /\ far = t.child[o][sib]
    BY Zenon, <1>6
  <2>2. Tree(t, B, T, R) /\ h \in [Nodes -> Nat] BY Zenon, <1>5
  <2>3. \A r \in Sides : \A c : c = t.child[r][sib] => Height(h, c) = k
    <3>1. k \in Nat /\ h[sib] = k + 1 /\ ~t.red[sib] BY Zenon, <1>22, <1>23
    <3>2. ASSUME NEW r \in Sides, NEW c, c = t.child[r][sib] PROVE Height(h, c) = k
      <4>1. sib \in T /\ Even(t, h, sib) BY Zenon, <2>1
      <4> QED BY <2>2, <3>1, <3>2, <4>1, BlackEven
    <3> QED BY Zenon, <3>2
  <2> QED BY Zenon, <2>1, <2>3
<1>25. h[near] = k BY Zenon, <1>7, <1>24 DEF Height
<1>26. Height(h, inner) = k /\ Height(h, outer) = k
  <2>1. Even(t, h, near) BY ZenonT(30), <1>6, <1>7 DEF Lacking
  <2>2. Tree(t, B, T, R) /\ h \in [Nodes -> Nat] /\ near \in T /\ t.red[near]
    BY Zenon, <1>5, <1>7
  <2>3. \A r \in Sides : \A c : c = t.child[r][near] => Height(h, c) = k
    BY Zenon, <1>25, <2>1, <2>2, RedEven
  <2> QED BY Zenon, <1>6, <1>13, <1>18, <2>3
<1> DEFINE h2 == [m \in Nodes |-> IF m = sib THEN k ELSE IF m = near THEN k + 1 ELSE h[m]]
<1>27. /\ h2 \in [Nodes -> Nat] /\ h2[sib] = k /\ h2[near] = k + 1
       /\ \A m \in Nodes : m \notin {sib, near} => h2[m] = h[m]
  BY <1>5, <1>6, <1>7
<1> HIDE DEF h2
<1>28. outer # sib BY Zenon, <1>21
<1>29. /\ Height(h2, inner) = k /\ Height(h2, outer) = k /\ Height(h2, far) = k
       /\ Height(h2, n) = k /\ Height(h2, sib) = k /\ Height(h2, near) = k + 1
  <2>1. Height(h2, inner) = k BY <1>5, <1>21, <1>26, <1>27 DEF Height
  <2>2. Height(h2, outer) = k BY Zenon, <1>5, <1>21, <1>26, <1>27, <1>28 DEF Height
  <2>3. Height(h2, far) = k BY Zenon, <1>5, <1>6, <1>7, <1>24, <1>27 DEF Height
  <2>4. Height(h2, n) = k BY <1>5, <1>6, <1>8, <1>22, <1>27 DEF Height
  <2> QED BY <1>6, <1>7, <1>27, <2>1, <2>2, <2>3, <2>4 DEF Height
<1>30. ASSUME NEW m \in T, m # p PROVE Even(u, h2, m)
  <2>1. CASE m = sib
    <3>1. Height(h2, u.child[s][m]) = k /\ Height(h2, u.child[o][m]) = k
      BY Zenon, <1>19, <1>29, <2>1
    <3>2. \A r \in Sides : Height(h2, u.child[r][m]) = k BY Zenon, <1>6, <3>1
    <3>3. u.red[m] /\ h2[m] = k BY Zenon, <1>6, <1>11, <1>17, <1>27, <2>1
    <3> QED BY ZenonT(30), <3>2, <3>3, EvenBy
  <2>2. CASE m = near
    <3>1. Height(h2, u.child[s][m]) = k /\ Height(h2, u.child[o][m]) = k
      BY Zenon, <1>19, <1>29, <2>2
    <3>2. \A r \in Sides : Height(h2, u.child[r][m]) = k BY Zenon, <1>6, <3>1
    <3>3. ~u.red[m] /\ h2[m] = k + 1 BY Zenon, <1>6, <1>7, <1>11, <1>17, <1>27, <2>2
    <3> QED BY ZenonT(30), <3>2, <3>3, EvenBy
  <2>3. CASE m \notin {sib, near}
    <3>1. t1.red[m] <=> t.red[m] BY <1>11, <2>3
    <3>2. Even(t, h, m) BY <1>30 DEF Lacking
    <3>3. Even(t1, h, m) BY Zenon, <1>11, <3>1, <3>2 DEF Even, Weight
    <3>4. /\ Tree(t1, B, T, R) /\ sib \in T /\ o \in Sides /\ near # NULL
          /\ h2[near] = h[sib] /\ \A x \in Nodes : x \notin {sib, near} => h2[x] = h[x]
      BY Zenon, <1>6, <1>7, <1>11, <1>23, <1>27
    <3>5. ASSUME NEW v, v = sib PROVE Even(u, h2, m)
      <4>1. /\ v \in T /\ near = t1.child[Other(o)][v] /\ m \notin {v, near}
            /\ Rotated(t1, T, v, o, near, inner, u) /\ h2[near] = h[v]
            /\ \A x \in Nodes : x \notin {v, near} => h2[x] = h[x]
        BY Zenon, <1>14, <1>16, <2>3, <3>4, <3>5
      <4> QED BY <1>14, <3>3, <3>4, <4>1, RotatedEven
    <3> QED BY <3>5
  <2> QED BY <2>1, <2>2, <2>3
<1>31. \A m \in T, r \in Sides : ~(t.red[m] /\ IsRed(t, t.child[r][m]))
  BY DEF Lacking, RedPair
<1>32. ~IsRed(t, inner) BY <1>6, <1>7, <1>13, <1>31
<1>33. ASSUME NEW m \in T, NEW r \in Sides, RedPair(u, m, r) PROVE FALSE
  <2>1. PICK c : c = u.child[r][m] OBVIOUS
  <2>2. t1.red[m] /\ c # NULL /\ t1.red[c] BY <1>17, <1>33, <2>1 DEF RedPair, IsRed
  <2>3. CASE m = sib
    <3>1. c = far \/ c = inner BY Zenon, <1>6, <1>19, <2>1, <2>3
    <3>2. c \in T /\ c \notin {sib, near} BY <1>6, <1>7, <1>21, <2>2, <3>1
    <3>3. t.red[c] BY Zenon, <1>11, <2>2, <3>2
    <3> QED BY Zenon, <1>7, <1>32, <2>2, <3>1, <3>3 DEF IsRed
  <2>4. CASE m = near BY Zenon, <1>6, <1>7, <1>11, <2>2, <2>4
  <2>5. CASE m \notin {sib, near}
    <3>1. c # near BY Zenon, <1>6, <1>7, <1>11, <2>2
    <3>2. c \notin {sib, near} /\ c = t.child[r][m] BY <1>19, <2>1, <2>5, <3>1
    <3>3. c \in T BY <1>5, <2>2, <3>2, AChild
    <3>4. t.red[m] /\ t.red[c] BY ZenonT(30), <1>11, <2>2, <2>5, <3>2, <3>3
    <3> QED BY <1>31, <2>2, <3>2, <3>4 DEF IsRed
  <2> QED BY <2>3, <2>4, <2>5
<1>34. ~IsRed(u, u.root)
  <2>1. t.root # NULL => t.root \in T BY <1>5 DEF Tree, Rooted
  <2>2. ~IsRed(t, t.root) BY Zenon DEF Lacking
  <2> QED BY <1>6, <1>8, <1>11, <1>17, <2>1, <2>2 DEF IsRed
<1>35. ~IsRed(u, n)
  <2>1. ~IsRed(t, n) BY Zenon DEF Lacking
  <2> QED BY <1>6, <1>8, <1>11, <1>17, <2>1 DEF IsRed
<1>36. h2[p] = Height(h2, u.child[o][p]) + Weight(u, p)
  <2>1. p \notin {sib, near} BY Zenon, <1>6
  <2>2. h2[p] = h[p] /\ Weight(u, p) = Weight(t, p)
    BY <1>5, <1>6, <1>11, <1>17, <1>27, <2>1 DEF Weight
  <2> QED BY <1>6, <1>20, <1>23, <1>29, <2>2
<1>37. Height(h2, u.child[o][p]) = Height(h2, n) + 1 BY ZenonT(30), <1>20, <1>29
<1>38. Lacking(u, B2, T, R, h2, p, s, n)
  BY ZenonT(30), <1>1, <1>6, <1>16, <1>20, <1>27, <1>30, <1>33, <1>34, <1>35, <1>36, <1>37
     DEF Lacking
<1>39. sib2 = near BY <1>1, <1>20
<1>40. ~u.red[near] /\ u.red[sib] BY Zenon, <1>6, <1>7, <1>11, <1>17
<1>41. IsRed(u, u.child[Other(s)][sib2])
  <2>1. u.child[Other(s)][sib2] = sib BY Zenon, <1>1, <1>19, <1>39
  <2> QED BY Zenon, <1>6, <1>40, <2>1 DEF IsRed
<1> QED BY <1>38, <1>39, <1>40, <1>41

(* A black sibling whose far child is red gets on top of p: all is mended. *)
LEMMA MendIs ==
  ASSUME NEW t, NEW B, NEW T, NEW R, NEW h, NEW p, NEW s, NEW n, Lacking(t, B, T, R, h, p, s, n),
         NEW sib, sib = t.child[Other(s)][p], ~t.red[sib],
         IsRed(t, t.child[Other(s)][sib]), NEW u, u = Mend(t, p, s)
  PROVE  \E B2, h2 : RedBlack(u, B2, T, R, h2)
<1>1. PICK o : o = Other(s) OBVIOUS
<1>2. PICK near : near = t.child[s][sib] OBVIOUS
<1>3. PICK far : far = t.child[o][sib] OBVIOUS
<1>4. Kin(t, T, h, p, s, n, o, sib, near, far) BY <1>1, <1>2, <1>3, KinIs
<1>5. /\ Tree(t, B, T, R) /\ h \in [Nodes -> Nat] /\ T \subseteq Nodes /\ NULL \notin Nodes
      /\ t \in Trees
  BY NodeAssumption DEF Lacking, Tree, Typed
<1>6. /\ o \in Sides /\ s \in Sides /\ o # s /\ (\A r \in Sides : r = s \/ r = o)
      /\ p \in T /\ sib \in T /\ p # sib /\ p # NULL /\ sib # NULL /\ sib # t.root
      /\ t.child[s][p] = n /\ t.child[o][p] = sib
      /\ t.child[s][sib] = near /\ t.child[o][sib] = far
      /\ n \notin {p, sib} /\ near \notin {p, sib} /\ far \notin {p, sib}
      /\ (far # NULL => near # far)
      /\ (n # NULL => n \in T) /\ (near # NULL => near \in T) /\ (far # NULL => far \in T)
      /\ Height(h, n) \in Nat /\ h[sib] = Height(h, n) + 1 /\ h[p] = h[sib] + Weight(t, p)
      /\ Even(t, h, sib)
  BY <1>4 DEF Kin
<1>7. far # NULL /\ t.red[far] /\ far \in T /\ near # far
  BY <1>1, <1>3, <1>6 DEF IsRed
<1>8. far # t.root /\ n # far /\ \A r \in Sides, m \in T : t.child[r][m] = far => m = sib
  BY <1>4, <1>7 DEF Kin
<1>9. /\ p \in Nodes /\ sib \in Nodes /\ far \in Nodes /\ t.red[p] \in BOOLEAN
  <2>1. t.red \in [Nodes -> BOOLEAN] BY <1>5 DEF Trees
  <2> QED BY <1>5, <1>6, <1>7, <2>1
<1>10. PICK v1 : v1 = Paint(t, sib, t.red[p]) OBVIOUS
<1>11. Painted(t, sib, t.red[p], v1) BY <1>5, <1>9, <1>10, PaintIs DEF Links
<1>12. v1 \in Trees BY <1>11 DEF Painted
<1>13. PICK v2 : v2 = Paint(v1, p, FALSE) OBVIOUS
<1>14. Painted(v1, p, FALSE, v2) BY <1>9, <1>12, <1>13, PaintIs DEF Links
<1>15. v2 \in Trees BY <1>14 DEF Painted
<1>16. PICK t1 : t1 = Paint(v2, far, FALSE) OBVIOUS
<1>17. Painted(v2, far, FALSE, t1) BY <1>9, <1>15, <1>16, PaintIs DEF Links
<1>18. /\ SameShape(t, T, t1) /\ t1.child = t.child /\ t1.root = t.root /\ t1.parent = t.parent
  BY <1>5, <1>11, <1>14, <1>17 DEF Painted, SameShape
<1>19. \A m \in T : t1.red[m] <=> \/ m = sib /\ t.red[p]
                                  \/ m \notin {sib, p, far} /\ t.red[m]
  <2>1. TAKE m \in T
  <2>2. m \in Nodes BY <1>5
  <2>3. CASE m = sib BY <1>6, <1>7, <1>11, <1>14, <1>17, <2>2, <2>3 DEF Painted
  <2>4. CASE m = p BY <1>6, <1>7, <1>11, <1>14, <1>17, <2>2, <2>4 DEF Painted
  <2>5. CASE m = far BY <1>6, <1>7, <1>11, <1>14, <1>17, <2>2, <2>5 DEF Painted
  <2>6. CASE m \notin {sib, p, far} BY <1>11, <1>14, <1>17, <2>2, <2>6 DEF Painted
  <2> QED BY <2>3, <2>4, <2>5, <2>6
<1>20. Tree(t1, B, T, R) BY <1>5, <1>18, SameTree
<1>21. u = Rotate(t1, p, s)
  <2>1. v2.child[o][sib] = far BY <1>6, <1>11, <1>14 DEF Painted
  <2> QED BY Zenon, <1>1, <1>6, <1>10, <1>13, <1>16, <2>1 DEF Mend, PaintFar
<1>22. sib = t1.child[Other(s)][p] /\ near = t1.child[s][sib] BY <1>1, <1>6, <1>18
<1>23. PICK B2 : B2 = Turned(t1, B, p, s, sib, near) BY Zenon
<1>24. Rotated(t1, T, p, s, sib, near, u) /\ Tree(u, B2, T, R)
  BY Zenon, <1>6, <1>20, <1>21, <1>22, <1>23, RotateTree
<1>25. u.red = t1.red /\ u.root = IF t.root = p THEN sib ELSE t.root
  BY <1>18, <1>24 DEF Rotated
<1>26. /\ u.child[s][p] = n /\ u.child[o][p] = near
       /\ u.child[s][sib] = p /\ u.child[o][sib] = far
       /\ \A m \in T, r \in Sides : m \notin {p, sib} =>
             \/ t.child[r][m] = p /\ u.child[r][m] = sib
             \/ t.child[r][m] \notin {p, sib} /\ u.child[r][m] = t.child[r][m]
  <2>1. far = t1.child[Other(s)][sib] BY Zenon, <1>1, <1>6, <1>18
  <2>2. Relinked(t.child, T, p, s, sib, far, near, u)
    BY Zenon, <1>6, <1>18, <1>20, <1>22, <1>24, <2>1, RelinkedIs
  <2> QED BY Zenon, <1>1, <1>6, <2>2 DEF Relinked
<1>27. PICK k \in Nat : k = Height(h, n) BY <1>6
<1>28. PICK w \in {0, 1} : w = Weight(t, p) BY DEF Weight
<1>29. h[sib] = k + 1 /\ h[p] = (k + 1) + w BY <1>6, <1>27, <1>28
<1>30. Height(h, near) = k /\ Height(h, far) = k
  <2>1. h[sib] = Height(h, t.child[s][sib]) + 1 /\ Height(h, t.child[s][sib]) \in Nat
    BY <1>5, <1>6, EvenIs
  <2>2. h[sib] = Height(h, t.child[o][sib]) + 1 /\ Height(h, t.child[o][sib]) \in Nat
    BY <1>5, <1>6, EvenIs
  <2> QED BY <1>6, <1>29, <2>1, <2>2
<1>31. h[far] = k BY <1>7, <1>30 DEF Height
<1> DEFINE hf == [m \in Nodes |-> IF m = far THEN k + 1 ELSE h[m]]
           h2 == [m \in Nodes |-> IF m = sib THEN (k + 1) + w
                                  ELSE IF m = p THEN k + 1 ELSE hf[m]]
<1>32. /\ hf \in [Nodes -> Nat] /\ hf[far] = k + 1 /\ \A m \in Nodes : m # far => hf[m] = h[m]
  BY <1>5, <1>9
<1>33. /\ h2 \in [Nodes -> Nat] /\ h2[sib] = (k + 1) + w /\ h2[p] = k + 1
       /\ \A m \in Nodes : m \notin {p, sib} => h2[m] = hf[m]
  <2> HIDE DEF hf
  <2>1. (k + 1) + w \in Nat OBVIOUS
  <2> QED BY <1>6, <1>9, <1>32, <2>1
<1> HIDE DEF hf, h2
<1>34. /\ Height(h2, n) = k /\ Height(h2, near) = k /\ Height(h2, far) = k + 1
       /\ Height(h2, p) = k + 1
  <2>1. Height(h2, n) = k BY <1>5, <1>6, <1>8, <1>27, <1>32, <1>33 DEF Height
  <2>2. Height(h2, near) = k BY <1>5, <1>6, <1>7, <1>30, <1>32, <1>33 DEF Height
  <2>3. Height(h2, far) = k + 1 BY <1>6, <1>7, <1>9, <1>32, <1>33 DEF Height
  <2> QED BY <1>6, <1>33, <2>1, <2>2, <2>3 DEF Height
<1>35. ASSUME NEW m \in T PROVE Even(u, h2, m)
  <2>1. CASE m = p
    <3>1. \A r \in Sides : Height(h2, u.child[r][m]) = k BY <1>6, <1>26, <1>34, <2>1
    <3>2. ~u.red[m] /\ h2[m] = k + 1 BY <1>6, <1>19, <1>25, <1>33, <2>1
    <3> QED BY Zenon, <3>1, <3>2, EvenBy
  <2>2. CASE m = sib
    <3>1. \A r \in Sides : Height(h2, u.child[r][m]) = k + 1 BY <1>6, <1>26, <1>34, <2>2
    <3>2. u.red[m] <=> t.red[p] BY <1>6, <1>19, <1>25, <2>2
    <3>3. h2[m] = (k + 1) + w /\ (t.red[p] => w = 0) /\ (~t.red[p] => w = 1)
      BY <1>28, <1>33, <2>2 DEF Weight
    <3>4. CASE t.red[p]
      <4>1. w = 0 BY <3>3, <3>4
      <4>2. u.red[m] /\ h2[m] = k + 1 BY <3>2, <3>3, <3>4, <4>1
      <4> QED BY <3>1, <4>2, EvenBy
    <3>5. CASE ~t.red[p]
      <4>1. w = 1 BY <3>3, <3>5
      <4>2. ~u.red[m] /\ h2[m] = (k + 1) + 1 BY <3>2, <3>3, <3>5, <4>1
      <4>3. k + 1 \in Nat BY Zenon, NextNat
      <4> QED BY <3>1, <4>2, <4>3, EvenBy
    <3> QED BY Zenon, <3>4, <3>5
  <2>3. CASE m \notin {p, sib}
    <3>1. Even(t1, hf, m)
      <4>1. Even(t, h, m) BY <2>3 DEF Lacking
      <4>2. CASE m = far
        <5>1. \A r \in Sides : h[far] = Height(h, t.child[r][far]) BY <1>5, <1>7, <4>1, <4>2, EvenIs
        <5>2. ASSUME NEW r \in Sides PROVE Height(hf, t1.child[r][m]) = k
          <6>1. PICK c : c = t.child[r][far] OBVIOUS
          <6>2. c # NULL => c # far /\ c \in Nodes BY <1>5, <1>7, <6>1, AChild
          <6>3. Height(h, c) = k BY <1>31, <5>1, <6>1
          <6> QED BY <1>18, <1>32, <4>2, <6>1, <6>2, <6>3 DEF Height
        <5>3. ~t1.red[m] /\ hf[m] = k + 1 BY <1>6, <1>7, <1>19, <1>32, <4>2
        <5> QED BY <5>2, <5>3, EvenBy
      <4>3. CASE m # far
        <5>1. ASSUME NEW r \in Sides PROVE Height(hf, t1.child[r][m]) = Height(h, t.child[r][m])
          <6>1. PICK c : c = t.child[r][m] OBVIOUS
          <6>2. c # NULL => c \in Nodes BY <1>5, <6>1, AChild
          <6>3. c # far BY <1>8, <2>3, <6>1
          <6> QED BY <1>18, <1>32, <6>1, <6>2, <6>3 DEF Height
        <5>2. hf[m] = h[m] /\ (t1.red[m] <=> t.red[m]) BY <1>5, <1>19, <1>32, <2>3, <4>3
        <5> QED BY <4>1, <5>1, <5>2 DEF Even, Weight
      <4> QED BY <4>2, <4>3
    <3>2. ASSUME NEW v, v = sib PROVE Even(u, h2, m)
      <4>1. /\ v = t1.child[Other(s)][p] /\ near = t1.child[s][v] /\ v # NULL
            /\ Rotated(t1, T, p, s, v, near, u) /\ p \in T /\ s \in Sides /\ m \notin {p, v}
        BY Zenon, <1>6, <1>22, <1>24, <2>3, <3>2
      <4>2. hf[p] = h[p] BY <1>6, <1>7, <1>9, <1>32
      <4>3. h2[v] = hf[p] /\ \A x \in Nodes : x \notin {p, v} => h2[x] = hf[x]
        BY <1>29, <1>33, <3>2, <4>2
      <4> QED BY <1>20, <3>1, <4>1, <4>3, RotatedEven
    <3> QED BY <3>2
  <2> QED BY <2>1, <2>2, <2>3
<1>36. ASSUME NEW m \in T, NEW r \in Sides, RedPair(u, m, r) PROVE FALSE
  <2>1. PICK c : c = u.child[r][m] OBVIOUS
  <2>2. t1.red[m] /\ c # NULL /\ t1.red[c] BY <1>25, <1>36, <2>1 DEF RedPair, IsRed
  <2>3. CASE m = p BY <1>6, <1>19, <2>2, <2>3
  <2>4. CASE m = sib
    <3>1. c = p \/ c = far BY <1>6, <1>26, <2>1, <2>4
    <3> QED BY ZenonT(30), <1>6, <1>7, <1>19, <2>2, <3>1
  <2>5. CASE m \notin {p, sib}
    <3>1. \A x \in T, y \in Sides : ~(t.red[x] /\ IsRed(t, t.child[y][x]))
      BY DEF Lacking, RedPair
    <3>2. t.red[m] BY <1>19, <2>2, <2>5
    <3>3. CASE t.child[r][m] = p /\ c = sib
      <4>1. t.red[p] BY <1>6, <1>19, <2>2, <3>3
      <4> QED BY <1>6, <3>1, <3>2, <3>3, <4>1 DEF IsRed
    <3>4. CASE t.child[r][m] \notin {p, sib} /\ c = t.child[r][m]
      <4>1. c \in T BY <1>5, <2>2, <3>4, AChild
      <4>2. t.red[c] BY <1>19, <2>2, <3>4, <4>1
      <4> QED BY <2>2, <3>1, <3>2, <3>4, <4>2 DEF IsRed
    <3> QED BY <1>26, <2>1, <2>5, <3>3, <3>4
  <2> QED BY <2>3, <2>4, <2>5
<1>37. ~IsRed(u, u.root)
  <2>1. t.root # NULL => t.root \in T BY <1>5 DEF Tree, Rooted
  <2>2. ~IsRed(t, t.root) BY DEF Lacking
  <2>3. CASE t.root = p
    <3>1. ~t.red[p] BY <1>6, <2>2, <2>3 DEF IsRed
    <3>2. ~t1.red[sib] BY <1>6, <1>19, <3>1
    <3> QED BY <1>25, <2>3, <3>2 DEF IsRed
  <2>4. CASE t.root # p
    <3>1. u.root = t.root BY <1>25, <2>4
    <3> QED BY <1>6, <1>19, <1>25, <2>1, <2>2, <3>1 DEF IsRed
  <2> QED BY <2>3, <2>4
<1>38. RedBlack(u, B2, T, R, h2)
  BY <1>24, <1>33, <1>35, <1>36, <1>37 DEF RedBlack
<1> QED BY <1>38

(* A subtree that is short, and not settled by painting it black. *)
LEMMA LackingIs ==
  ASSUME NEW t, NEW B, NEW T, NEW R, NEW h, NEW p, NEW n, Short(t, B, T, R, h, p, n),
         ~IsRed(t, n), n # t.root, NEW s, s = SideOf(t, p, n)
  PROVE  Lacking(t, B, T, R, h, p, s, n)
<1>1. Tree(t, B, T, R) /\ h \in [Nodes -> Nat] /\ NULL \notin Nodes /\ T \subseteq Nodes
  BY NodeAssumption DEF Short, Tree, Typed
<1>2. p # NULL /\ p \in T BY DEF Short
<1>3. PICK r \in Sides : /\ t.child[r][p] = n
                         /\ Height(h, t.child[Other(r)][p]) = Height(h, n) + 1
                         /\ h[p] = Height(h, t.child[Other(r)][p]) + Weight(t, p)
  BY <1>2 DEF Short
<1>4. PICK sib : sib = t.child[Other(r)][p] OBVIOUS
<1>5. Height(h, n) \in Nat BY <1>1, <1>2, <1>3, HeightIs
<1>6. sib # NULL BY <1>3, <1>4, <1>5 DEF Height
<1>7. sib # n
  <2>1. Other(r) \in Sides /\ Other(Other(r)) = r BY TwoSides
  <2>2. sib # t.child[Other(Other(r))][p] BY <1>1, <1>2, <1>4, <1>6, <2>1, AChild
  <2> QED BY <1>3, <2>1, <2>2
<1>8. s = r BY <1>3, <1>4, <1>7, SideOfIs
<1>9. ASSUME NEW m \in T, NEW q \in Sides, RedPair(t, m, q) PROVE FALSE
  <2>1. m = n \/ t.child[q][m] = n BY <1>9 DEF Short
  <2>2. t.red[m] /\ IsRed(t, t.child[q][m]) BY <1>9 DEF RedPair
  <2>3. m # NULL BY <1>1
  <2> QED BY <2>1, <2>2, <2>3 DEF IsRed
<1>10. ~IsRed(t, t.root) BY DEF Short
<1>11. \A m \in T : m # p => Even(t, h, m) BY DEF Short
<1> QED BY <1>1, <1>2, <1>3, <1>8, <1>9, <1>10, <1>11 DEF Lacking

(* Painting n black settles it, if n is red or the root. *)
LEMMA ShortEndsIs ==
  ASSUME NEW t, NEW B, NEW T, NEW R, NEW h, NEW p, NEW n, Short(t, B, T, R, h, p, n),
         IsRed(t, n) \/ n = t.root, NEW u, u = Paint(t, n, FALSE)
  PROVE  \E h2 : RedBlack(u, B, T, R, h2)
<1>1. /\ Tree(t, B, T, R) /\ h \in [Nodes -> Nat] /\ NULL \notin Nodes /\ T \subseteq Nodes
      /\ t \in Trees /\ T = Under(B, t.root) /\ (t.root # NULL => t.root \in T)
  BY NodeAssumption DEF Short, Tree, Typed, Rooted
<1>2. CASE n = NULL
  <2>1. u = t BY <1>2 DEF Paint
  <2>2. t.root = NULL /\ T = {} BY <1>1, <1>2 DEF IsRed, Under
  <2>3. RedBlack(t, B, T, R, h) BY <1>1, <2>2 DEF RedBlack, IsRed
  <2> QED BY <2>1, <2>3
<1>3. CASE n # NULL
  <2>1. n \in T
    <3>1. CASE n = t.root BY <1>1, <1>3, <3>1
    <3>2. CASE p = NULL BY <1>1, <1>3, <3>2 DEF Short
    <3>3. CASE p # NULL /\ n # t.root
      <4>1. p \in T /\ \E s \in Sides : t.child[s][p] = n BY <3>3 DEF Short
      <4> QED BY <1>1, <1>3, <4>1, AChild
    <3> QED BY <3>1, <3>2, <3>3
  <2>2. n \in Nodes BY <1>1, <2>1
  <2>3. Painted(t, n, FALSE, u) BY <1>1, <2>2, PaintIs DEF Links
  <2>4. /\ SameShape(t, T, u) /\ u.child = t.child /\ u.root = t.root
        /\ \A m \in T : u.red[m] <=> m # n /\ t.red[m]
    BY <1>1, <2>3 DEF Painted, SameShape
  <2>5. Tree(u, B, T, R) BY <1>1, <2>4, SameTree
  <2>6. p # NULL => p \in T /\ t.red[n]
    <3>1. ASSUME p # NULL PROVE p \in T /\ n # t.root
      <4>1. p \in T /\ \E s \in Sides : t.child[s][p] = n BY <3>1 DEF Short
      <4> QED BY <1>1, <1>3, <4>1, AChild
    <3> QED BY <3>1 DEF IsRed
  <2> DEFINE h2 == [m \in Nodes |-> IF m = n /\ t.red[m] THEN h[m] + 1 ELSE h[m]]
  <2>7. h2 \in [Nodes -> Nat] /\ \A m \in Nodes : m # n => h2[m] = h[m] BY <1>1
  <2>8. t.red[n] => h2[n] = h[n] + 1 BY <2>2
  <2>9. ASSUME NEW c \in Links, c # n PROVE Height(h2, c) = Height(h, c)
    <3> HIDE DEF h2
    <3> QED BY <2>7, <2>9 DEF Height, Links
  <2>10. ASSUME NEW m \in T PROVE Even(u, h2, m)
    <3>0. \A r \in Sides : t.child[r][m] \in Links
      <4>1. ASSUME NEW r \in Sides PROVE t.child[r][m] \in Links
        <5>1. PICK c : c = t.child[r][m] OBVIOUS
        <5>2. c # NULL => c \in Nodes BY <1>1, <5>1, AChild
        <5> QED BY <5>1, <5>2 DEF Links
      <4> QED BY <4>1
    <3>1. CASE m = n
      <4>1. n # p
        <5>1. p # NULL => p \in T /\ \E s \in Sides : t.child[s][p] = n BY DEF Short
        <5> QED BY <1>1, <1>3, <5>1, AChild
      <4>2. Even(t, h, n) BY <2>1, <4>1 DEF Short
      <4>3. ASSUME NEW r \in Sides PROVE Height(h2, u.child[r][n]) = Height(h, t.child[r][n])
        <5>1. PICK c : c = t.child[r][n] OBVIOUS
        <5>2. c # n BY <1>1, <1>3, <2>1, <5>1, AChild
        <5>3. c \in Links BY <3>0, <3>1, <5>1
        <5> HIDE DEF h2
        <5> QED BY <2>4, <2>9, <5>1, <5>2, <5>3
      <4>4. CASE t.red[n]
        <5>1. \A r \in Sides : Height(h, t.child[r][n]) = h[n] /\ h[n] \in Nat
          BY <1>1, <2>1, <4>2, <4>4, EvenIs
        <5>2. \A r \in Sides : Height(h2, u.child[r][n]) = h[n] BY <4>3, <5>1
        <5>3. h2[n] = h[n] + 1 /\ ~u.red[n] /\ h[n] \in Nat BY <1>1, <2>1, <2>2, <2>4, <2>8, <4>4
        <5> HIDE DEF h2
        <5> QED BY <3>1, <5>2, <5>3, EvenBy
      <4>5. CASE ~t.red[n]
        <5>1. h2[n] = h[n] /\ (u.red[n] <=> t.red[n]) BY <2>1, <2>2, <2>4, <4>5
        <5> HIDE DEF h2
        <5> QED BY <3>1, <4>2, <4>3, <5>1 DEF Even, Weight
      <4> QED BY <4>4, <4>5
    <3>2. CASE m = p /\ m # n
      <4>1. p # NULL BY <1>1, <3>2
      <4>2. PICK s \in Sides : /\ t.child[s][p] = n
                               /\ Height(h, t.child[Other(s)][p]) = Height(h, n) + 1
                               /\ h[p] = Height(h, t.child[Other(s)][p]) + Weight(t, p)
        BY <4>1 DEF Short
      <4>3. PICK c : c = t.child[Other(s)][p] OBVIOUS
      <4>4. Other(s) \in Sides /\ \A r \in Sides : r = s \/ r = Other(s) BY TwoSides
      <4>5. c # n
        <5>1. n # t.child[Other(s)][p] BY <1>1, <1>3, <3>2, <4>2, AChild
        <5> QED BY <4>3, <5>1
      <4>6. c \in Links BY <3>0, <3>2, <4>3, <4>4
      <4>7. Height(h2, c) = Height(h, c)
        <5> HIDE DEF h2
        <5> QED BY <2>9, <4>5, <4>6
      <4>8. Height(h2, n) = Height(h, c) BY <1>3, <2>6, <2>8, <4>1, <4>2, <4>3 DEF Height
      <4>9. h2[p] = h[p] /\ (u.red[p] <=> t.red[p]) BY <2>4, <2>7, <3>2, <1>1
      <4> HIDE DEF h2
      <4>10. \A r \in Sides : Height(h2, u.child[r][p]) = Height(h, c)
        BY <2>4, <4>2, <4>3, <4>4, <4>7, <4>8
      <4> QED BY <3>2, <4>2, <4>3, <4>9, <4>10 DEF Even, Weight
    <3>3. CASE m # p /\ m # n
      <4>1. Even(t, h, m) BY <3>3 DEF Short
      <4>2. ASSUME NEW r \in Sides PROVE Height(h2, u.child[r][m]) = Height(h, t.child[r][m])
        <5>1. PICK c : c = t.child[r][m] OBVIOUS
        <5>2. c # n
          <6>1. CASE c = n
            <7>0. c # NULL BY <1>3, <6>1
            <7>1. t.parent[n] = m /\ n # t.root
              <8>1. t.parent[c] = m /\ c # t.root BY <1>1, <5>1, <7>0, AChild
              <8> QED BY <6>1, <8>1
            <7>2. p # NULL BY <7>1 DEF Short
            <7>3. \E s \in Sides : p \in T /\ t.child[s][p] = n BY <7>2 DEF Short
            <7>4. t.parent[n] = p BY <1>1, <1>3, <7>3, AChild
            <7> QED BY <3>3, <7>1, <7>4
          <6> QED BY <6>1
        <5>3. c \in Links BY <3>0, <5>1
        <5> HIDE DEF h2
        <5> QED BY <2>4, <2>9, <5>1, <5>2, <5>3
      <4>3. h2[m] = h[m] /\ (u.red[m] <=> t.red[m]) BY <1>1, <2>4, <2>7, <3>3
      <4> HIDE DEF h2
      <4> QED BY <4>1, <4>2, <4>3 DEF Even, Weight
    <3> QED BY <3>1, <3>2, <3>3
  <2>11. ASSUME NEW m \in T, NEW r \in Sides, RedPair(u, m, r) PROVE FALSE
    <3>1. PICK c : c = t.child[r][m] OBVIOUS
    <3>2. u.red[m] /\ c # NULL /\ u.red[c] BY <2>4, <2>11, <3>1 DEF RedPair, IsRed
    <3>3. c \in T BY <1>1, <3>1, <3>2, AChild
    <3>4. m # n /\ c # n /\ t.red[m] /\ t.red[c] BY <2>4, <3>2, <3>3
    <3> QED BY <3>1, <3>2, <3>4 DEF Short, RedPair, IsRed
  <2>12. ~IsRed(u, u.root)
    <3>1. IsRed(t, t.root) => t.root = n BY DEF Short
    <3> QED BY <1>1, <2>4, <3>1 DEF IsRed
  <2>13. RedBlack(u, B, T, R, h2)
    <3> HIDE DEF h2
    <3> QED BY <2>5, <2>7, <2>10, <2>11, <2>12 DEF RedBlack
  <2> QED BY <2>13
<1> QED BY <1>2, <1>3

(* Where the loop of RB_REMOVE_COLOR ends: there is a red node to paint,   *)
(* or no parent.                                                           *)
Settled(t, n) == IsRed(t, n) \/ n = t.root

(* A turn of the loop of RB_REMOVE_COLOR ends it, or leaves a subtree      *)
(* short further up.                                                       *)
LEMMA RemoveTurnIs ==
  ASSUME NEW t, NEW B, NEW T, NEW R, NEW h, NEW p, NEW n, Short(t, B, T, R, h, p, n),
         ~Settled(t, n), NEW y, y = RemoveTurn(t, p, n)
  PROVE  \E B2, h2 : /\ Short(y.tree, B2, T, R, h2, y.par, y.node)
                     /\ ~Settled(y.tree, y.node) =>
                           B2 = B /\ Cardinality(B[p]) < Cardinality(B[y.par])
<1>1. PICK s : s = SideOf(t, p, n) OBVIOUS
<1>2. Lacking(t, B, T, R, h, p, s, n) BY <1>1, LackingIs DEF Settled
<1>3. PICK sib0 : sib0 = t.child[Other(s)][p] OBVIOUS
<1>4. PICK t1 : t1 = BlackSibling(t, p, s) OBVIOUS
<1>5. PICK B1, h1 : /\ Lacking(t1, B1, T, R, h1, p, s, n)
                    /\ ~t1.red[t1.child[Other(s)][p]]
                    /\ (t1 = t /\ B1 = B) \/ t1.red[p]
  <2>1. CASE t.red[sib0]
    <3>1. (\E B2, h2 : Lacking(t1, B2, T, R, h2, p, s, n))
          /\ ~t1.red[t1.child[Other(s)][p]] /\ t1.red[p]
      BY <1>2, <1>3, <1>4, <2>1, BlackSiblingIs
    <3> QED BY <3>1
  <2>2. CASE ~t.red[sib0]
    <3>1. t1 = t BY <1>3, <1>4, <2>2 DEF BlackSibling
    <3> QED BY <1>2, <1>3, <2>2, <3>1
  <2> QED BY <2>1, <2>2
<1>6. PICK sib : sib = t1.child[Other(s)][p] OBVIOUS
<1>7. PICK far : far = t1.child[Other(s)][sib] OBVIOUS
<1>8. PICK t2 : t2 = IF IsRed(t1, far) THEN t1 ELSE RedFar(t1, p, s) OBVIOUS
<1>9. PICK mended : mended = Mend(t2, p, s) BY Zenon
<1>10. y = IF ~IsRed(t1, t1.child[s][sib]) /\ ~IsRed(t1, far)
           THEN [tree |-> Paint(t1, sib, TRUE), par |-> t1.parent[p], node |-> p]
           ELSE [tree |-> mended, par |-> NULL, node |-> mended.root]
  BY <1>1, <1>4, <1>6, <1>7, <1>8, <1>9 DEF RemoveTurn, Settled
<1>11. ~t1.red[sib] BY <1>5, <1>6
<1>12. CASE ~IsRed(t1, t1.child[s][sib]) /\ ~IsRed(t1, far)
  <2>1. PICK u : u = Paint(t1, sib, TRUE) BY Zenon
  <2>2. PICK q : q = t1.parent[p] BY Zenon
  <2>3. y.tree = u /\ y.par = q /\ y.node = p BY <1>10, <1>12, <2>1, <2>2
  <2>4. PICK h2 : Short(u, B1, T, R, h2, q, p)
    BY <1>5, <1>6, <1>7, <1>11, <1>12, <2>1, <2>2, BothBlackIs
  <2>5. ASSUME ~Settled(u, p) PROVE B1 = B /\ Cardinality(B[p]) < Cardinality(B[q])
    <3>1. q # NULL BY <2>4, <2>5 DEF Short, Settled
    <3>2. PICK r \in Sides : q \in T /\ u.child[r][q] = p BY <2>4, <3>1 DEF Short
    <3>3. p \in T /\ p # NULL /\ Tree(u, B1, T, R) /\ Tree(t1, B1, T, R)
      BY <1>5, <2>4, NodeAssumption DEF Lacking, Short, Tree, Typed
    <3>4. Cardinality(B1[p]) < Cardinality(B1[q]) BY <3>2, <3>3, AChild
    <3>5. ~t1.red[p]
      <4>1. ~u.red[p] BY <2>5, <3>3 DEF Settled, IsRed
      <4>2. t1 \in Trees /\ p \in Nodes BY <3>3 DEF Tree, Typed
      <4>3. Kin(t1, T, h1, p, s, n, Other(s), sib, t1.child[s][sib], far)
        BY <1>5, <1>6, <1>7, KinIs
      <4>4. sib \in T /\ sib # p BY <4>3 DEF Kin
      <4>5. sib \in Links BY <3>3, <4>4 DEF Tree, Typed, Links
      <4>6. Painted(t1, sib, TRUE, u) BY <2>1, <4>2, <4>5, PaintIs
      <4>7. u.red[p] = t1.red[p] BY <4>2, <4>4, <4>6 DEF Painted
      <4> QED BY <4>1, <4>7
    <3> QED BY <1>5, <3>4, <3>5
  <2> QED BY <2>3, <2>4, <2>5
<1>13. CASE ~(~IsRed(t1, t1.child[s][sib]) /\ ~IsRed(t1, far))
  <2>1. PICK B2, h2 : /\ Lacking(t2, B2, T, R, h2, p, s, n)
                      /\ ~t2.red[t2.child[Other(s)][p]]
                      /\ IsRed(t2, t2.child[Other(s)][t2.child[Other(s)][p]])
    <3>1. CASE IsRed(t1, far)
      <4>1. t2 = t1 BY <1>8, <3>1
      <4> QED BY <1>5, <1>6, <1>7, <3>1, <4>1
    <3>2. CASE ~IsRed(t1, far)
      <4>1. t2 = RedFar(t1, p, s) /\ IsRed(t1, t1.child[s][sib]) BY <1>8, <1>13, <3>2
      <4>2. PICK sib2 : sib2 = t2.child[Other(s)][p] OBVIOUS
      <4>3. (\E B2, h2 : Lacking(t2, B2, T, R, h2, p, s, n))
            /\ ~t2.red[sib2] /\ IsRed(t2, t2.child[Other(s)][sib2])
        BY <1>5, <1>6, <1>7, <1>11, <3>2, <4>1, <4>2, RedFarIs
      <4> QED BY <4>2, <4>3
    <3> QED BY <3>1, <3>2
  <2>2. PICK C, g : RedBlack(mended, C, T, R, g) BY <1>9, <2>1, MendIs
  <2>3. y.tree = mended /\ y.par = NULL /\ y.node = mended.root
    <3>1. y = [tree |-> mended, par |-> NULL, node |-> mended.root] BY <1>10, <1>13
    <3> QED BY <3>1
  <2>4. Short(mended, C, T, R, g, NULL, mended.root) BY <2>2 DEF RedBlack, Short
  <2> QED BY <2>3, <2>4 DEF Settled
<1> QED BY <1>12, <1>13

(* What is left to do when n is short: the nodes that are not below p. *)
RemoveAt(T, R, x, k) ==
    \E B, h : /\ Short(x.tree, B, T, R, h, x.par, x.node)
              /\ k = IF Settled(x.tree, x.node) THEN 0
                     ELSE 1 + Cardinality(T) - Cardinality(B[x.par])

LEMMA ShortIs ==
  ASSUME NEW t, NEW B, NEW T, NEW R, NEW h, NEW p, NEW n, Short(t, B, T, R, h, p, n)
  PROVE  /\ t \in Trees /\ p \in Links /\ n \in Links
         /\ Cardinality(T) \in Nat /\ Cardinality(T) <= NodeCount
         /\ ~Settled(t, n) => /\ Cardinality(B[p]) \in Nat /\ Cardinality(B[p]) >= 1
                              /\ Cardinality(B[p]) <= Cardinality(T)
<1>1. /\ Tree(t, B, T, R) /\ T \in SUBSET Nodes /\ t \in Trees /\ B \in [Nodes -> SUBSET Nodes]
  BY DEF Short, Tree, Typed
<1>2. p # NULL => p \in T /\ \E s \in Sides : t.child[s][p] = n BY DEF Short
<1>3. p \in Links BY <1>1, <1>2 DEF Links
<1>4. n \in Links
  <2>1. CASE p = NULL BY <1>1, <2>1 DEF Short, Trees
  <2>2. CASE p # NULL
    <3>1. PICK s \in Sides : n = t.child[s][p] /\ p \in T BY <1>2, <2>2
    <3>2. n # NULL => n \in Nodes BY <1>1, <3>1, AChild
    <3> QED BY <3>2 DEF Links
  <2> QED BY <2>1, <2>2
<1>5. IsFiniteSet(T) /\ Cardinality(T) \in Nat /\ Cardinality(T) <= NodeCount BY <1>1, NodesFinite
<1>6. ASSUME ~Settled(t, n)
      PROVE  /\ Cardinality(B[p]) \in Nat /\ Cardinality(B[p]) >= 1
             /\ Cardinality(B[p]) <= Cardinality(T)
  <2>1. p \in T BY <1>2, <1>6 DEF Short, Settled
  <2>2. p \in B[p] /\ B[p] \subseteq T BY <1>1, <2>1, BelowIs
  <2>3. Cardinality(B[p]) <= Cardinality(T) BY <1>5, <2>2, FS_Subset
  <2>4. IsFiniteSet(B[p]) /\ Cardinality(B[p]) \in Nat BY <1>5, <2>2, FS_Subset, FS_CardinalityType
  <2>5. Cardinality(B[p]) # 0 BY <2>2, <2>4, FS_EmptySet
  <2> QED BY <2>3, <2>4, <2>5
<1> QED BY <1>1, <1>3, <1>4, <1>5, <1>6

(* A tree with a subtree that is one black node short is made red-black.   *)
LEMMA RemoveColorIs ==
  ASSUME NEW t, NEW B, NEW T, NEW R, NEW h, NEW p, NEW n, Short(t, B, T, R, h, p, n)
  PROVE  \E B2, h2 : RedBlack(RB_REMOVE_COLOR(t, p, n), B2, T, R, h2)
<1> DEFINE X    == [tree : Trees, par : Links, node : Links]
           turn == [x \in X |-> RemoveTurn(x.tree, x.par, x.node)]
           K    == [x \in X |-> {k \in Nat : RemoveAt(T, R, x, k)}]
<1>1. PICK first : first = [tree |-> t, par |-> p, node |-> n] OBVIOUS
<1>2. first \in X /\ \E k \in K[first] : k <= NodeCount
  <2>1. /\ first.tree = t /\ first.par = p /\ first.node = n
        /\ t \in Trees /\ p \in Links /\ n \in Links
        /\ Cardinality(T) \in Nat /\ Cardinality(T) <= NodeCount
        /\ ~Settled(t, n) => /\ Cardinality(B[p]) \in Nat /\ Cardinality(B[p]) >= 1
                             /\ Cardinality(B[p]) <= Cardinality(T)
    BY <1>1, ShortIs
  <2>2. first \in X BY <1>1, <2>1
  <2>3. PICK k : k = IF Settled(t, n) THEN 0 ELSE 1 + Cardinality(T) - Cardinality(B[p])
    OBVIOUS
  <2>4. k \in Nat /\ k <= NodeCount BY <2>1, <2>3, NodeCountIs
  <2>5. RemoveAt(T, R, first, k) BY <2>1, <2>3 DEF RemoveAt
  <2> QED BY <2>2, <2>4, <2>5
<1>3. ASSUME NEW x \in X, NEW j \in K[x]
      PROVE  turn[x] = x \/ (turn[x] \in X /\ \E i \in K[turn[x]] : i < j)
  <2>1. RemoveAt(T, R, x, j) OBVIOUS
  <2>2. PICK C, g : /\ Short(x.tree, C, T, R, g, x.par, x.node)
                    /\ j = IF Settled(x.tree, x.node) THEN 0
                           ELSE 1 + Cardinality(T) - Cardinality(C[x.par])
    BY <2>1 DEF RemoveAt
  <2>3. PICK y : y = RemoveTurn(x.tree, x.par, x.node) OBVIOUS
  <2>4. turn[x] = y BY <2>3
  <2>5. CASE Settled(x.tree, x.node)
    <3>1. y = [tree |-> x.tree, par |-> x.par, node |-> x.node]
      BY Zenon, <2>3, <2>5 DEF RemoveTurn, Settled
    <3>2. x = [tree |-> x.tree, par |-> x.par, node |-> x.node] OBVIOUS
    <3> QED BY Zenon, <2>4, <3>1, <3>2
  <2>6. CASE ~Settled(x.tree, x.node)
    <3>1. PICK C2, g2 : /\ Short(y.tree, C2, T, R, g2, y.par, y.node)
                        /\ ~Settled(y.tree, y.node) =>
                              C2 = C /\ Cardinality(C[x.par]) < Cardinality(C[y.par])
      BY <2>2, <2>3, <2>6, RemoveTurnIs
    <3>2. PICK i : i = IF Settled(y.tree, y.node) THEN 0
                       ELSE 1 + Cardinality(T) - Cardinality(C2[y.par]) OBVIOUS
    <3>3. /\ y.tree \in Trees /\ y.par \in Links /\ y.node \in Links
          /\ Cardinality(T) \in Nat
          /\ ~Settled(y.tree, y.node) => /\ Cardinality(C2[y.par]) \in Nat
                                         /\ Cardinality(C2[y.par]) <= Cardinality(T)
      BY <3>1, ShortIs
    <3>4. /\ Cardinality(C[x.par]) \in Nat /\ Cardinality(C[x.par]) <= Cardinality(T)
      BY <2>2, <2>6, ShortIs
    <3>5. i \in Nat /\ i < j BY <2>2, <2>6, <3>1, <3>2, <3>3, <3>4
    <3>6. RemoveAt(T, R, y, i) BY <3>1, <3>2 DEF RemoveAt
    <3>7. y \in X
      <4>1. y = [tree |-> y.tree, par |-> y.par, node |-> y.node] BY Zenon, <2>3 DEF RemoveTurn
      <4> QED BY Zenon, <3>3, <4>1
    <3> QED BY <2>4, <3>5, <3>6, <3>7
  <2> QED BY <2>5, <2>6
<1>4. PICK last : last = After(turn, first) OBVIOUS
<1>5. last \in X /\ K[last] # {} /\ turn[last] = last
  <2>1. K \in [X -> SUBSET Nat] OBVIOUS
  <2> HIDE DEF X, K, turn
  <2> QED BY <1>2, <1>3, <1>4, <2>1, AfterCountsDown
<1>6. PICK k \in Nat : RemoveAt(T, R, last, k) BY <1>5
<1>7. PICK C, g : /\ Short(last.tree, C, T, R, g, last.par, last.node)
                  /\ k = IF Settled(last.tree, last.node) THEN 0
                         ELSE 1 + Cardinality(T) - Cardinality(C[last.par])
  BY <1>6 DEF RemoveAt
<1>8. Settled(last.tree, last.node)
  <2>1. SUFFICES ASSUME ~Settled(last.tree, last.node) PROVE FALSE OBVIOUS
  <2>2. last = RemoveTurn(last.tree, last.par, last.node) BY <1>5
  <2>3. PICK C2 : ~Settled(last.tree, last.node) =>
                     C2 = C /\ Cardinality(C[last.par]) < Cardinality(C[last.par])
    BY <1>7, <2>1, <2>2, RemoveTurnIs
  <2>4. Cardinality(C[last.par]) \in Nat BY <1>7, <2>1, ShortIs
  <2> QED BY <2>1, <2>3, <2>4
<1>9. PICK u : u = Paint(last.tree, last.node, FALSE) OBVIOUS
<1>10. \E h2 : RedBlack(u, C, T, R, h2) BY <1>7, <1>8, <1>9, ShortEndsIs DEF Settled
<1>11. u = RB_REMOVE_COLOR(t, p, n) BY <1>1, <1>4, <1>9 DEF RB_REMOVE_COLOR
<1> QED BY <1>10, <1>11

-----------------------------------------------------------------------------
(* Removal: the colours of what is left. *)

(* Taking out a red node leaves a red-black tree, taking out a black one   *)
(* a subtree that is short.                                                *)
LEMMA SplicedColours ==
  ASSUME NEW t, NEW B, NEW T, NEW R, NEW h, RedBlack(t, B, T, R, h), NEW x \in T, NEW s \in Sides,
         t.child[Other(s)][x] = NULL, NEW c, c = t.child[s][x], NEW u, Spliced(t, T, x, c, u)
  PROVE  /\ t.red[x] => RedBlack(u, Without(B, x), T \ {x}, R, h)
         /\ ~t.red[x] => Short(u, Without(B, x), T \ {x}, R, h, t.parent[x], c)
<1>1. PICK B2 : B2 = Without(B, x) OBVIOUS
<1>2. PICK T2 : T2 = T \ {x} OBVIOUS
<1>3. PICK q : q = t.parent[x] OBVIOUS
<1>4. /\ Tree(t, B, T, R) /\ h \in [Nodes -> Nat] /\ NULL \notin Nodes /\ T \subseteq Nodes
      /\ x \in Nodes /\ x # NULL /\ h[x] \in Nat /\ Even(t, h, x)
      /\ \A m \in T, r \in Sides : ~(t.red[m] /\ IsRed(t, t.child[r][m]))
  BY NodeAssumption DEF RedBlack, RedPair, Tree, Typed
<1>5. Tree(u, B2, T2, R) BY <1>1, <1>2, <1>4, SplicedTree
<1>6. /\ u.red = t.red /\ u.root = IF t.root = x THEN c ELSE t.root
      /\ \A m \in T2, r \in Sides :
            u.child[r][m] = IF t.child[r][m] = x THEN c ELSE t.child[r][m]
  BY <1>2 DEF Spliced
<1>7. Height(h, c) \in Nat /\ h[x] = Height(h, c) + Weight(t, x)
  BY <1>4, HeightIs DEF Even
<1>8. \A m \in T, r \in Sides : t.child[r][m] = x => m = q
  <2>1. TAKE m \in T, r \in Sides
  <2>2. t.child[r][m] = x => t.parent[x] = m BY <1>4, AChild
  <2> QED BY <1>3, <2>2
<1>9. CASE t.red[x]
  <2>1. x # t.root BY <1>4, <1>9 DEF RedBlack, IsRed
  <2>2. Height(h, c) = Height(h, x) BY <1>4, <1>7, <1>9 DEF Height, Weight
  <2>3. ~IsRed(t, c) BY <1>4, <1>9
  <2>4. ASSUME NEW m \in T2 PROVE Even(u, h, m)
    <3>1. Even(t, h, m) BY <1>2 DEF RedBlack
    <3>2. \A r \in Sides : Height(h, u.child[r][m]) = Height(h, t.child[r][m])
      BY <1>6, <2>2
    <3> QED BY <1>6, <3>1, <3>2 DEF Even, Weight
  <2>5. ASSUME NEW m \in T2, NEW r \in Sides, RedPair(u, m, r) PROVE FALSE
    <3>1. t.red[m] /\ IsRed(t, u.child[r][m]) BY <1>6, <2>5 DEF RedPair, IsRed
    <3> QED BY <1>2, <1>4, <1>6, <2>3, <3>1
  <2>6. ~IsRed(u, u.root) BY <1>6, <2>1 DEF RedBlack, IsRed
  <2>7. RedBlack(u, B2, T2, R, h) BY <1>4, <1>5, <2>4, <2>5, <2>6 DEF RedBlack
  <2> QED BY <1>1, <1>2, <1>9, <2>7
<1>10. CASE ~t.red[x]
  <2>1. h[x] = Height(h, c) + 1 BY <1>7, <1>10 DEF Weight
  <2>2. ASSUME NEW m \in T2, m # q PROVE Even(u, h, m)
    <3>1. Even(t, h, m) BY <1>2 DEF RedBlack
    <3>2. \A r \in Sides : u.child[r][m] = t.child[r][m] BY <1>2, <1>6, <1>8, <2>2
    <3> QED BY <1>6, <3>1, <3>2 DEF Even, Weight
  <2>3. ASSUME q = NULL PROVE c = u.root
    <3>1. x # t.root => q \in T BY <1>3 DEF RedBlack, Tree, Linked
    <3> QED BY <1>4, <1>6, <2>3, <3>1
  <2>4. ASSUME q # NULL
        PROVE  /\ q \in T2
               /\ \E r \in Sides : /\ u.child[r][q] = c
                                   /\ Height(h, u.child[Other(r)][q]) = Height(h, c) + 1
                                   /\ h[q] = Height(h, u.child[Other(r)][q]) + Weight(u, q)
    <3>1. x # t.root BY <1>3, <1>4, <2>4 DEF Tree, Rooted
    <3>2. q \in T /\ \E r \in Sides : t.child[r][q] = x BY <1>3, <1>4, <3>1 DEF Tree, Linked
    <3>3. PICK r \in Sides : x = t.child[r][q] BY <3>2
    <3>4. x # q /\ x # t.child[Other(r)][q] BY <1>4, <3>2, <3>3, AChild
    <3>5. q \in T2 /\ Other(r) \in Sides BY <1>2, <3>2, <3>4, TwoSides
    <3>6. PICK d : d = t.child[Other(r)][q] OBVIOUS
    <3>7. u.child[r][q] = c /\ u.child[Other(r)][q] = d BY <1>6, <3>3, <3>4, <3>5, <3>6
    <3>8. Even(t, h, q) BY <3>2 DEF RedBlack
    <3>9. h[q] = Height(h, x) + Weight(t, q) /\ h[q] = Height(h, d) + Weight(t, q)
      BY <3>3, <3>5, <3>6, <3>8 DEF Even
    <3>10. Height(h, x) \in Nat /\ Height(h, d) \in Nat BY <1>4, <3>2, <3>3, <3>5, <3>6, HeightIs
    <3>11. Height(h, d) = Height(h, x) BY <3>9, <3>10 DEF Weight
    <3>12. Height(h, x) = Height(h, c) + 1 BY <1>4, <2>1 DEF Height
    <3>13. Weight(u, q) = Weight(t, q) BY <1>6 DEF Weight
    <3> QED BY <3>5, <3>7, <3>9, <3>11, <3>12, <3>13
  <2>5. ASSUME NEW m \in T2, NEW r \in Sides, RedPair(u, m, r) PROVE u.child[r][m] = c
    <3>1. t.red[m] /\ IsRed(t, u.child[r][m]) BY <1>6, <2>5 DEF RedPair, IsRed
    <3> QED BY <1>2, <1>4, <1>6, <3>1
  <2>6. IsRed(u, u.root) => u.root = c BY <1>6 DEF RedBlack, IsRed
  <2>7. Short(u, B2, T2, R, h, q, c) BY <1>4, <1>5, <2>2, <2>3, <2>4, <2>5, <2>6 DEF Short
  <2> QED BY <1>1, <1>2, <1>3, <1>10, <2>7
<1> QED BY <1>9, <1>10

(* What takes the place of a node takes its height and its colour.         *)
Inherited(t, T, h, old, n, u, T2, h2) ==
    LET Back(m) == IF m = n THEN old ELSE m
    IN  /\ h2 \in [Nodes -> Nat]
        /\ \A m \in T2 : /\ Back(m) \in T
                         /\ Even(t, h, Back(m)) => Even(u, h2, m)
                         /\ h2[m] = h[Back(m)] /\ Weight(u, m) = Weight(t, Back(m))
        /\ \A m \in T2, r \in Sides :
              /\ RedPair(u, m, r) => RedPair(t, Back(m), r)
              /\ u.child[r][m] = IF t.child[r][Back(m)] = old THEN n ELSE t.child[r][Back(m)]
              /\ Height(h2, u.child[r][m]) = Height(h, t.child[r][Back(m)])
        /\ u.root = IF t.root = old THEN n ELSE t.root
        /\ IsRed(u, u.root) => IsRed(t, t.root)

(* Colours and black heights come with the place. *)
LEMMA TakenOverColours ==
  ASSUME NEW t, NEW B, NEW T, NEW R, Tree(t, B, T, R), NEW h \in [Nodes -> Nat],
         NEW old \in T, NEW n \in Nodes, n \notin T, NEW u, TakenOver(t, T, old, n, u),
         NEW T2, T2 = (T \ {old}) \cup {n}, NEW h2, h2 = [h EXCEPT ![n] = h[old]]
  PROVE  Inherited(t, T, h, old, n, u, T2, h2)
<1> DEFINE Back(m) == IF m = n THEN old ELSE m
           Fwd(c) == IF c = old THEN n ELSE c
<1>1. /\ T \subseteq Nodes /\ NULL \notin Nodes /\ n # NULL /\ n # old /\ old # NULL
      /\ T2 \subseteq Nodes
  BY NodeAssumption DEF Tree, Typed
<1>2. h2 \in [Nodes -> Nat] /\ h2[n] = h[old] /\ \A m \in Nodes : m # n => h2[m] = h[m]
  BY <1>1
<1>3. \A m \in T2 : Back(m) \in T /\ m = Fwd(Back(m)) BY <1>1
<1>4. /\ u.root = Fwd(t.root)
      /\ \A m \in T2 : u.red[m] <=> t.red[Back(m)]
  BY DEF TakenOver
<1>5. \A m \in T2, r \in Sides : u.child[r][m] = Fwd(t.child[r][Back(m)])
  <2>1. TAKE m \in T2, r \in Sides
  <2>2. u.child[r][m] = IF m = n THEN t.child[r][old]
                        ELSE IF t.child[r][m] = old THEN n ELSE t.child[r][m]
    BY DEF TakenOver
  <2>3. t.child[r][old] # old BY <1>1, AChild
  <2> QED BY <2>2, <2>3
<1>6. ASSUME NEW d, d = NULL \/ d \in T
      PROVE  /\ Height(h2, Fwd(d)) = Height(h, d)
             /\ IsRed(u, Fwd(d)) <=> IsRed(t, d)
  <2>1. d \in T => u.red[Fwd(d)] <=> t.red[d]
    <3>1. d \in T => Fwd(d) \in T2 /\ Back(Fwd(d)) = d BY <1>1
    <3> HIDE DEF Fwd, Back
    <3> QED BY <1>4, <3>1
  <2> QED BY <1>1, <1>2, <1>6, <2>1 DEF Height, IsRed
<1>7. ASSUME NEW m \in T2, NEW r \in Sides
      PROVE  t.child[r][Back(m)] = NULL \/ t.child[r][Back(m)] \in T
  <2>1. PICK c : c = t.child[r][Back(m)] OBVIOUS
  <2>2. PICK k \in T : k = Back(m) BY <1>3
  <2> HIDE DEF Back
  <2>3. c # NULL => c \in T BY <2>1, <2>2, AChild
  <2> QED BY <2>1, <2>3
<1>8. ASSUME NEW m \in T2, NEW r \in Sides
      PROVE  /\ Height(h2, u.child[r][m]) = Height(h, t.child[r][Back(m)])
             /\ IsRed(u, u.child[r][m]) <=> IsRed(t, t.child[r][Back(m)])
  <2> HIDE DEF Back, Fwd
  <2> QED BY <1>5, <1>6, <1>7
<1>9. ASSUME NEW m \in T2
      PROVE  h2[m] = h[Back(m)] /\ Weight(u, m) = Weight(t, Back(m))
  BY <1>1, <1>2, <1>4 DEF Weight
<1>10. ASSUME NEW m \in T2, Even(t, h, Back(m)) PROVE Even(u, h2, m)
  <2> HIDE DEF Back, Fwd
  <2> QED BY <1>8, <1>9, <1>10 DEF Even
<1>11. ASSUME NEW m \in T2, NEW r \in Sides, RedPair(u, m, r) PROVE RedPair(t, Back(m), r)
  <2> HIDE DEF Back, Fwd
  <2> QED BY <1>4, <1>8, <1>11 DEF RedPair
<1>12. t.root = NULL \/ t.root \in T BY DEF Tree, Rooted
<1>13. IsRed(u, u.root) => IsRed(t, t.root) BY <1>4, <1>6, <1>12
<1> QED BY ZenonT(30), <1>2, <1>3, <1>4, <1>5, <1>8, <1>9, <1>10, <1>11, <1>13 DEF Inherited

(* No rank of R knows a difference between old and n. *)
Alike(T, R, old, n) == \A q \in R : SamePlace(T, old, n, q)

LEMMA TakenOverRedBlack ==
  ASSUME NEW t, NEW B, NEW T, NEW R, NEW h, RedBlack(t, B, T, R, h),
         NEW old \in T, NEW n \in Nodes, n \notin T, NEW u, TakenOver(t, T, old, n, u),
         Alike(T, R, old, n), NEW T2, T2 = (T \ {old}) \cup {n}
  PROVE  \E B2, h2 : RedBlack(u, B2, T2, R, h2)
<1> DEFINE Back(m) == IF m = n THEN old ELSE m
<1>1. PICK B2 : B2 = Swapped(B, old, n) OBVIOUS
<1>2. PICK h2 : h2 = [h EXCEPT ![n] = h[old]] OBVIOUS
<1>3. Tree(t, B, T, R) /\ h \in [Nodes -> Nat] BY DEF RedBlack
<1>4. Tree(u, B2, T2, R) BY <1>1, <1>3, TakenOverTree DEF Alike
<1>5. Inherited(t, T, h, old, n, u, T2, h2) BY <1>2, <1>3, TakenOverColours
<1>6. /\ h2 \in [Nodes -> Nat] /\ (IsRed(u, u.root) => IsRed(t, t.root))
      /\ \A m \in T2 : Back(m) \in T /\ (Even(t, h, Back(m)) => Even(u, h2, m))
      /\ \A m \in T2, r \in Sides : RedPair(u, m, r) => RedPair(t, Back(m), r)
  BY <1>5 DEF Inherited
<1>7. RedBlack(u, B2, T2, R, h2)
  <2> HIDE DEF Back
  <2> QED BY <1>4, <1>6 DEF RedBlack
<1> QED BY <1>7

LEMMA TakenOverShort ==
  ASSUME NEW t, NEW B, NEW T, NEW R, NEW h, NEW p, NEW c, Short(t, B, T, R, h, p, c),
         NEW old \in T, NEW n \in Nodes, n \notin T, NEW u, TakenOver(t, T, old, n, u),
         Alike(T, R, old, n), NEW T2, T2 = (T \ {old}) \cup {n},
         c # old, NEW p2, p2 = IF p = old THEN n ELSE p
  PROVE  \E B2, h2 : Short(u, B2, T2, R, h2, p2, c)
<1> DEFINE Back(m) == IF m = n THEN old ELSE m
<1>1. PICK B2 : B2 = Swapped(B, old, n) OBVIOUS
<1>2. PICK h2 : h2 = [h EXCEPT ![n] = h[old]] OBVIOUS
<1>3. /\ Tree(t, B, T, R) /\ h \in [Nodes -> Nat] /\ T \subseteq Nodes /\ NULL \notin Nodes
      /\ n # NULL /\ old # NULL
  BY NodeAssumption DEF Short, Tree, Typed
<1>4. Tree(u, B2, T2, R) BY <1>1, <1>3, TakenOverTree DEF Alike
<1>5. Inherited(t, T, h, old, n, u, T2, h2) BY <1>2, <1>3, TakenOverColours
<1>6. /\ h2 \in [Nodes -> Nat] /\ (IsRed(u, u.root) => IsRed(t, t.root))
      /\ \A m \in T2 : Back(m) \in T /\ (Even(t, h, Back(m)) => Even(u, h2, m))
      /\ \A m \in T2, r \in Sides : RedPair(u, m, r) => RedPair(t, Back(m), r)
  BY <1>5 DEF Inherited
<1>7. /\ p # NULL => p \in T /\ p2 \in T2 /\ Back(p2) = p /\ p2 # NULL
      /\ p = NULL <=> p2 = NULL
  BY <1>3 DEF Short
<1>8. \A m \in T2, r \in Sides :
         /\ u.child[r][m] = IF t.child[r][Back(m)] = old THEN n ELSE t.child[r][Back(m)]
         /\ Height(h2, u.child[r][m]) = Height(h, t.child[r][Back(m)])
  BY <1>5 DEF Inherited
<1>9. \A m \in T2 : h2[m] = h[Back(m)] /\ Weight(u, m) = Weight(t, Back(m))
  BY <1>5 DEF Inherited
<1>10. u.root = IF t.root = old THEN n ELSE t.root BY <1>5 DEF Inherited
<1>11. c \in Links BY ShortIs
<1>12. c # n
  <2>1. c = NULL \/ c \in T
    <3>1. CASE p = NULL BY <3>1 DEF Short, Tree, Rooted
    <3>2. CASE p # NULL
      <4>1. PICK r \in Sides : p \in T /\ c = t.child[r][p] BY <3>2 DEF Short
      <4> QED BY <1>3, <4>1, AChild
    <3> QED BY <3>1, <3>2
  <2> QED BY <1>3, <2>1
<1>13. Height(h2, c) = Height(h, c) BY <1>2, <1>3, <1>11, <1>12 DEF Height, Links
<1>14. ASSUME p2 # NULL
       PROVE  /\ p2 \in T2
              /\ \E r \in Sides : /\ u.child[r][p2] = c
                                  /\ Height(h2, u.child[Other(r)][p2]) = Height(h2, c) + 1
                                  /\ h2[p2] = Height(h2, u.child[Other(r)][p2]) + Weight(u, p2)
  <2>1. p # NULL /\ p \in T /\ p2 \in T2 /\ Back(p2) = p BY <1>7, <1>14
  <2>2. PICK r \in Sides : /\ t.child[r][p] = c
                           /\ Height(h, t.child[Other(r)][p]) = Height(h, c) + 1
                           /\ h[p] = Height(h, t.child[Other(r)][p]) + Weight(t, p)
    BY <2>1 DEF Short
  <2>3. Other(r) \in Sides BY TwoSides
  <2> HIDE DEF Back
  <2>4. u.child[r][p2] = c BY <1>8, <2>1, <2>2
  <2>5. Height(h2, u.child[Other(r)][p2]) = Height(h, t.child[Other(r)][p])
    BY <1>8, <2>1, <2>3
  <2>6. h2[p2] = h[p] /\ Weight(u, p2) = Weight(t, p) BY <1>9, <2>1
  <2> QED BY <1>13, <2>1, <2>2, <2>4, <2>5, <2>6
<1>15. p2 = NULL => c = u.root BY <1>7, <1>10 DEF Short
<1>16. ASSUME NEW m \in T2, m # p2 PROVE Even(u, h2, m)
  <2>1. Back(m) \in T /\ (Even(t, h, Back(m)) => Even(u, h2, m)) BY <1>6
  <2>2. Back(m) # p BY <1>16, <2>1
  <2> QED BY <2>1, <2>2 DEF Short
<1>17. ASSUME NEW m \in T2, NEW r \in Sides, RedPair(u, m, r)
       PROVE  m = c \/ u.child[r][m] = c
  <2>1. PICK k \in T : k = Back(m) BY <1>6
  <2>2. RedPair(t, k, r) BY <1>6, <1>17, <2>1
  <2>3. k = c \/ t.child[r][k] = c BY <2>2 DEF Short
  <2>4. k = c => m = c BY <2>1
  <2>5. t.child[r][k] = c => u.child[r][m] = c BY <1>8, <2>1
  <2> QED BY <2>3, <2>4, <2>5
<1>18. IsRed(u, u.root) => u.root = c BY <1>6, <1>3, <1>10 DEF Short
<1>19. Tree(u, B2, T2, R) /\ h2 \in [Nodes -> Nat] BY <1>4, <1>6
<1>20. Short(u, B2, T2, R, h2, p2, c)
  <2> HIDE DEF Back
  <2> QED BY <1>14, <1>15, <1>16, <1>17, <1>18, <1>19 DEF Short
<1> QED BY <1>20

(* The first node right of n can take the place of n: there is nothing     *)
(* between the two.                                                        *)
LEMMA SuccessorIs ==
  ASSUME NEW t, NEW B, NEW T, NEW R, Tree(t, B, T, R), NEW n \in T,
         NEW right, right = t.child["right"][n], right # NULL,
         NEW y, y = Furthest(t, right, "left")
  PROVE  /\ y \in T /\ y # n /\ y \in B[right] /\ t.child["left"][y] = NULL
         /\ \A q \in R : SamePlace(T \ {y}, n, y, q)
<1>1. /\ "left" \in Sides /\ "right" \in Sides /\ Other("right") = "left"
      /\ T \subseteq Nodes /\ R \subseteq [Nodes -> Int] /\ NULL \notin Nodes
  BY NodeAssumption DEF Sides, Other, Tree, Typed
<1>2. /\ right \in T /\ n \notin B[right] /\ B[right] \subseteq B[n] /\ Under(B, right) = B[right]
      /\ n \in B[n]
  BY <1>1, AChild, BelowIs
<1>3. /\ y \in B[right] /\ t.child["left"][y] = NULL
      /\ \A q \in R, m \in B[right] : m # y => Before(q, "left", y, m)
  BY <1>1, <1>2, FurthestIs
<1>4. y \in T /\ y # n /\ y \in B[n] BY <1>2, <1>3, BelowIs
<1>5. ASSUME NEW q \in R, NEW m \in (T \ {y}) \ {n}
      PROVE  (q[m] < q[n] <=> q[m] < q[y]) /\ (q[n] < q[m] <=> q[y] < q[m])
  <2>1. q[m] \in Int /\ q[n] \in Int /\ q[y] \in Int BY <1>1, <1>4
  <2>2. q[n] < q[y] BY <1>1, <1>2, <1>3 DEF Tree, Ordered, Before
  <2>3. CASE m \in B[right]
    <3>1. q[n] < q[m] BY <1>1, <1>2, <2>3 DEF Tree, Ordered, Before
    <3>2. q[y] < q[m] BY <1>3, <2>3 DEF Before
    <3> QED BY <2>1, <3>1, <3>2
  <2>4. CASE m \in B[n] /\ m \notin B[right]
    <3>1. m \in Under(B, t.child["left"][n])
      <4>1. B[n] = {n} \cup Under(B, right) \cup Under(B, t.child["left"][n])
        BY <1>1 DEF Tree, Branching
      <4> QED BY <1>2, <2>4, <4>1
    <3>2. q[m] < q[n] BY <1>1, <3>1 DEF Tree, Ordered, Before
    <3> QED BY <2>1, <2>2, <3>2
  <2>5. CASE m \notin B[n]
    <3>1. \/ \A x \in B[n] : q[x] < q[m]
          \/ \A x \in B[n] : q[m] < q[x]
      BY <2>5, OneSide
    <3> QED BY <1>2, <1>4, <2>1, <3>1
  <2> QED BY <2>3, <2>4, <2>5
<1>6. \A q \in R : SamePlace(T \ {y}, n, y, q) BY <1>5 DEF SamePlace
<1> QED BY <1>3, <1>4, <1>6

(* RB_REMOVE takes out just n, and leaves a red-black tree.                *)
LEMMA RemoveIs ==
  ASSUME NEW t, NEW B, NEW T, NEW R, NEW h, RedBlack(t, B, T, R, h), NEW n \in T
  PROVE  \E B2, h2 : RedBlack(RB_REMOVE(t, n), B2, T \ {n}, R, h2)
<1> DEFINE two == \A s \in Sides : t.child[s][n] # NULL
           gone == IF two THEN Furthest(t, t.child["right"][n], "left") ELSE n
           child == IF t.child["left"][gone] = NULL THEN t.child["right"][gone]
                    ELSE t.child["left"][gone]
           par == IF two /\ t.parent[gone] = n THEN gone ELSE t.parent[gone]
           linked == IF two THEN TakeOver(Splice(t, gone), n, gone) ELSE Splice(t, gone)
<1>1. RB_REMOVE(t, n) = IF t.red[gone] THEN linked ELSE RB_REMOVE_COLOR(linked, par, child)
  BY DEF RB_REMOVE
<1>2. /\ Tree(t, B, T, R) /\ h \in [Nodes -> Nat] /\ "left" \in Sides /\ "right" \in Sides
      /\ Other("right") = "left" /\ Other("left") = "right" /\ T \subseteq Nodes
      /\ \A r \in Sides : r = "left" \/ r = "right"
  BY DEF RedBlack, Tree, Typed, Sides, Other
<1>3. PICK x : x = gone OBVIOUS
<1>4. PICK c : c = child OBVIOUS
<1>5. PICK t1 : t1 = Splice(t, x) OBVIOUS
<1>6. PICK B1 : B1 = Without(B, x) OBVIOUS
<1>7. PICK p : p = t.parent[x] OBVIOUS
<1>8. ASSUME x \in T, NEW s \in Sides, t.child[Other(s)][x] = NULL, c = t.child[s][x]
      PROVE  /\ Spliced(t, T, x, c, t1)
             /\ t.red[x] => RedBlack(t1, B1, T \ {x}, R, h)
             /\ ~t.red[x] => Short(t1, B1, T \ {x}, R, h, p, c)
  <2>1. Spliced(t, T, x, c, t1) BY <1>2, <1>5, <1>8, SpliceIs
  <2> HIDE DEF two, gone, child, par, linked
  <2> QED BY <1>6, <1>7, <1>8, <2>1, SplicedColours
<1>9. CASE ~two
  <2>1. x = n /\ linked = t1 /\ par = p BY <1>3, <1>5, <1>7, <1>9
  <2>2. \E s \in Sides : t.child[Other(s)][x] = NULL /\ c = t.child[s][x]
    <3>1. c = IF t.child["left"][x] = NULL THEN t.child["right"][x] ELSE t.child["left"][x]
      BY <1>3, <1>4
    <3>2. CASE t.child["left"][x] = NULL BY <1>2, <3>1, <3>2
    <3>3. CASE t.child["left"][x] # NULL
      <4>1. t.child["right"][x] = NULL BY <1>2, <1>9, <2>1, <3>3
      <4> QED BY <1>2, <3>1, <3>3, <4>1
    <3> QED BY <3>2, <3>3
  <2>3. /\ t.red[x] => RedBlack(t1, B1, T \ {n}, R, h)
        /\ ~t.red[x] => Short(t1, B1, T \ {n}, R, h, p, c)
    <3> HIDE DEF two, gone, child, par, linked
    <3> QED BY <1>8, <2>1, <2>2
  <2>4. CASE t.red[x]
    <3>1. RB_REMOVE(t, n) = t1 BY <1>1, <1>3, <2>1, <2>4
    <3> QED BY <2>3, <2>4, <3>1
  <2>5. CASE ~t.red[x]
    <3>1. RB_REMOVE(t, n) = RB_REMOVE_COLOR(t1, p, c) BY Zenon, <1>1, <1>3, <1>4, <2>1, <2>5
    <3>2. \E B2, h2 : RedBlack(RB_REMOVE_COLOR(t1, p, c), B2, T \ {n}, R, h2)
      <4>1. PICK T2 : T2 = T \ {n} OBVIOUS
      <4>2. Short(t1, B1, T2, R, h, p, c) BY <2>3, <2>5, <4>1
      <4> HIDE DEF two, gone, child, par, linked
      <4>3. \E B2, h2 : RedBlack(RB_REMOVE_COLOR(t1, p, c), B2, T2, R, h2)
        BY <4>2, RemoveColorIs
      <4> QED BY <4>1, <4>3
    <3> QED BY Zenon, <3>1, <3>2
  <2> QED BY <2>4, <2>5
<1>10. CASE two
  <2>1. PICK right : right = t.child["right"][n] OBVIOUS
  <2>2. right # NULL /\ x = Furthest(t, right, "left") BY <1>2, <1>3, <1>10, <2>1
  <2>3. /\ x \in T /\ x # n /\ x \in B[right] /\ t.child["left"][x] = NULL
        /\ \A q \in R : SamePlace(T \ {x}, n, x, q)
    <3> HIDE DEF two, gone, child, par, linked
    <3> QED BY <1>2, <2>1, <2>2, SuccessorIs
  <2>4. c = t.child["right"][x] BY <1>3, <1>4, <2>3
  <2>5. PICK T1 : T1 = T \ {x} OBVIOUS
  <2>6. /\ Spliced(t, T, x, c, t1)
        /\ t.red[x] => RedBlack(t1, B1, T1, R, h)
        /\ ~t.red[x] => Short(t1, B1, T1, R, h, p, c)
    <3> HIDE DEF two, gone, child, par, linked
    <3> QED BY <1>2, <1>8, <2>3, <2>4, <2>5
  <2>7. Tree(t1, B1, T1, R) BY <2>6 DEF RedBlack, Short
  <2>8. n \in T1 /\ x \in Nodes /\ x \notin T1 BY <1>2, <2>3, <2>5
  <2>9. PICK u : u = TakeOver(t1, n, x) OBVIOUS
  <2>10. TakenOver(t1, T1, n, x, u) BY <2>7, <2>8, <2>9, TakeOverIs
  <2>11. PICK T2 : T2 = (T1 \ {n}) \cup {x} OBVIOUS
  <2>12. T2 = T \ {n} BY <2>3, <2>5, <2>11
  <2>15. PICK p2 : p2 = IF p = n THEN x ELSE p OBVIOUS
  <2>16. Alike(T1, R, n, x) BY <2>3, <2>5 DEF Alike
  <2>17. /\ RedBlack(t1, B1, T1, R, h) => \E B2, h2 : RedBlack(u, B2, T2, R, h2)
         /\ Short(t1, B1, T1, R, h, p, c) /\ c # n => \E B2, h2 : Short(u, B2, T2, R, h2, p2, c)
    <3> HIDE DEF two, gone, child, par, linked
    <3>0. n \in T1 /\ x \in Nodes /\ x \notin T1 BY <2>8
    <3>1. ASSUME RedBlack(t1, B1, T1, R, h)
          PROVE  \E B2, h2 : RedBlack(u, B2, T2, R, h2)
      BY <2>10, <2>11, <2>16, <3>0, <3>1, TakenOverRedBlack
    <3>2. ASSUME Short(t1, B1, T1, R, h, p, c), c # n
          PROVE  \E B2, h2 : Short(u, B2, T2, R, h2, p2, c)
      BY <2>10, <2>11, <2>15, <2>16, <3>0, <3>2, TakenOverShort
    <3> QED BY <3>1, <3>2
  <2>18. c # n
    <3>1. right \in T /\ n \notin B[right] BY <1>2, <2>1, <2>2, AChild
    <3>2. B[x] \subseteq B[right] BY <2>3, <3>1, <1>2 DEF Tree, Branching
    <3>3. c # NULL => c \in B[x] BY <1>2, <2>3, <2>4, AChild
    <3>4. n # NULL BY ZenonT(30), <1>2, NodeAssumption
    <3> QED BY <3>1, <3>2, <3>3, <3>4
  <2>19. linked = u /\ par = p2 BY <1>3, <1>5, <1>7, <1>10, <2>9, <2>15
  <2>20. CASE t.red[x]
    <3>1. RB_REMOVE(t, n) = u BY <1>1, <1>3, <2>19, <2>20
    <3> QED BY <2>6, <2>12, <2>17, <2>20, <3>1
  <2>21. CASE ~t.red[x]
    <3>1. RB_REMOVE(t, n) = RB_REMOVE_COLOR(u, p2, c) BY Zenon, <1>1, <1>3, <1>4, <2>19, <2>21
    <3>2. PICK B2, h2 : Short(u, B2, T2, R, h2, p2, c) BY <2>6, <2>17, <2>18, <2>21
    <3>3. \E B3, h3 : RedBlack(RB_REMOVE_COLOR(u, p2, c), B3, T2, R, h3)
      <4> HIDE DEF two, gone, child, par, linked
      <4> QED BY <3>2, RemoveColorIs
    <3> QED BY Zenon, <2>12, <3>1, <3>3
  <2> QED BY <2>20, <2>21
<1> QED BY <1>9, <1>10

(* The memory of a node that is not in the tree is no matter.              *)
LEMMA ForgottenIs ==
  ASSUME NEW t, NEW B, NEW T, NEW R, NEW h, RedBlack(t, B, T, R, h), NEW n \in Nodes, n \notin T,
         NEW u, u = Forget(t, n)
  PROVE  RedBlack(u, B, T, R, h)
<1>1. /\ Tree(t, B, T, R) /\ T \subseteq Nodes /\ t \in Trees /\ h \in [Nodes -> Nat]
      /\ NULL \notin Nodes
  BY NodeAssumption DEF RedBlack, Tree, Typed
<1>2. SetTo(t, n, NULL, FALSE, u) BY <1>1, ForgetIs
<1>3. /\ SameShape(t, T, u) /\ u.root = t.root
      /\ \A m \in T : /\ u.red[m] <=> t.red[m]
                      /\ \A r \in Sides : u.child[r][m] = t.child[r][m]
  BY <1>1, <1>2 DEF SetTo, SameShape
<1>4. Tree(u, B, T, R) BY <1>1, <1>3, SameTree
<1>5. ASSUME NEW m \in T PROVE Even(u, h, m)
  <2>1. Even(t, h, m) BY DEF RedBlack
  <2> QED BY <1>3, <2>1 DEF Even, Weight
<1>6. ASSUME NEW m \in T, NEW r \in Sides, RedPair(u, m, r) PROVE FALSE
  <2>1. PICK c : c = t.child[r][m] OBVIOUS
  <2>2. t.red[m] /\ c # NULL /\ u.red[c] BY <1>3, <1>6, <2>1 DEF RedPair, IsRed
  <2>3. c \in T BY <1>1, <2>1, <2>2, AChild
  <2>4. t.red[c] BY <1>3, <2>2, <2>3
  <2> QED BY <2>1, <2>2, <2>4 DEF RedBlack, RedPair, IsRed
<1>7. ~IsRed(u, u.root)
  <2>1. t.root # NULL => t.root \in T BY <1>1 DEF Tree, Rooted
  <2> QED BY <1>3, <2>1 DEF RedBlack, IsRed
<1> QED BY <1>1, <1>4, <1>5, <1>6, <1>7 DEF RedBlack

(* The empty tree is a red-black tree. *)
LEMMA EmptyIs ==
  ASSUME NEW R \in SUBSET [Nodes -> Int]
  PROVE  /\ RB_INIT \in Trees
         /\ RedBlack(RB_INIT, [n \in Nodes |-> {}], {}, R, [n \in Nodes |-> 0])
<1>1. RB_INIT \in Trees /\ RB_INIT.root = NULL BY DEF RB_INIT, Trees, Links
<1>2. PICK B : B = [n \in Nodes |-> {}] OBVIOUS
<1>3. PICK h : h = [n \in Nodes |-> 0] OBVIOUS
<1>4. PICK t : t = RB_INIT OBVIOUS
<1>5. B \in [Nodes -> SUBSET Nodes] /\ h \in [Nodes -> Nat] BY <1>2, <1>3
<1>6. Tree(t, B, {}, R)
  BY <1>1, <1>4, <1>5 DEF Tree, Typed, Rooted, Branching, Linked, Ordered, Under
<1>7. RedBlack(t, B, {}, R, h) BY <1>1, <1>4, <1>5, <1>6 DEF RedBlack, IsRed
<1> QED BY <1>1, <1>2, <1>3, <1>4, <1>7

-----------------------------------------------------------------------------
(* A red-black tree is balanced. *)

(* The nodes on the way to each. *)
Ways(B, T) == [x \in Nodes |-> {m \in T : x \in B[m]}]

(* The nodes on the way to n are n and those on the way to its parent.     *)
LEMMA AboveIs ==
  ASSUME NEW t, NEW B, NEW T, NEW R, Tree(t, B, T, R), NEW n \in T, NEW A, A = Ways(B, T)
  PROVE  /\ n = t.root => A[n] = {n}
         /\ n # t.root => /\ t.parent[n] \in T
                          /\ A[n] = A[t.parent[n]] \cup {n} /\ n \notin A[t.parent[n]]
<1>1. T \subseteq Nodes /\ NULL \notin T /\ n \in B[n]
  BY NodeAssumption, BelowIs DEF Tree, Typed
<1>2. A[n] = {m \in T : n \in B[m]} BY <1>1 DEF Ways
<1>3. CASE n = t.root
  <2>1. t.parent[n] = NULL BY <1>3, ParentIs
  <2>2. ASSUME NEW m \in T, n \in B[m], m # n PROVE FALSE
    <3>1. t.parent[n] \in B[m] /\ B[m] \subseteq T BY <2>2, ParentBelow, BelowIs
    <3> QED BY <1>1, <2>1, <3>1
  <2> QED BY <1>1, <1>2, <1>3, <2>2
<1>4. CASE n # t.root
  <2>1. PICK p : p = t.parent[n] OBVIOUS
  <2>2. PICK s : s = SideOf(t, p, n) OBVIOUS
  <2>3. p \in T /\ t.child[s][p] = n /\ s \in Sides
    BY <1>4, <2>1, <2>2, ParentIs DEF SideOf, Sides
  <2>4. n \in B[p] /\ p \notin B[n] BY <1>1, <2>3, ChildIs
  <2>5. A[p] = {m \in T : p \in B[m]} BY <1>1, <2>3 DEF Ways
  <2>6. \A m \in T : n \in B[m] <=> m = n \/ p \in B[m]
    <3>1. ASSUME NEW m \in T, n \in B[m], m # n PROVE p \in B[m]
      BY <2>1, <3>1, ParentBelow
    <3>2. ASSUME NEW m \in T, p \in B[m] PROVE n \in B[m]
      <4>1. B[p] \subseteq B[m] BY <3>2 DEF Tree, Branching
      <4> QED BY <2>4, <4>1
    <3> QED BY <1>1, <3>1, <3>2
  <2> QED BY <1>2, <1>4, <2>1, <2>3, <2>4, <2>5, <2>6
<1> QED BY <1>3, <1>4

(* On the way to a node and below it are together as many black nodes as   *)
(* the tree is high.                                                       *)
LEMMA BlackAboveIs ==
  ASSUME NEW t, NEW B, NEW T, NEW R, NEW h, RedBlack(t, B, T, R, h), NEW n \in T
  PROVE  /\ Cardinality(BlackAbove(t, n)) \in Nat
         /\ Cardinality(BlackAbove(t, n)) + h[n] - Weight(t, n) = h[t.root]
<1>1. Tree(t, B, T, R) /\ h \in [Nodes -> Nat] BY DEF RedBlack
<1>2. /\ T \subseteq Nodes /\ B \in [Nodes -> SUBSET Nodes] /\ NULL \notin T
      /\ t.red \in [Nodes -> BOOLEAN]
  BY <1>1, NodeAssumption DEF Tree, Typed, Trees
<1>3. PICK A : A = Ways(B, T) OBVIOUS
<1>4. PICK C : C = [x \in Nodes |-> {m \in A[x] : ~t.red[m]}] OBVIOUS
<1>5. \A x \in T : BlackAbove(t, x) = C[x]
  <2>1. \A m \in T : Below(t, m) = B[m]
    <3>1. \A m \in T : Below(t, m) = Under(B, m) BY <1>1, BelowUnder
    <3> QED BY <1>2, <3>1 DEF Under
  <2>2. InTree(t) = T BY <1>1, InTreeIs
  <2> QED BY <1>2, <1>3, <1>4, <2>1, <2>2 DEF BlackAbove, Ways
<1>6. /\ A \in [Nodes -> SUBSET Nodes]
      /\ \A x \in T : IsFiniteSet(C[x]) /\ Cardinality(C[x]) \in Nat
  <2>1. A \in [Nodes -> SUBSET Nodes] BY <1>2, <1>3 DEF Ways
  <2>2. \A x \in T : C[x] \in SUBSET Nodes BY <1>2, <1>4, <2>1
  <2> QED BY <2>1, <2>2, NodesFinite
<1>7. \A x \in T : h[x] \in Nat /\ Weight(t, x) \in Nat BY <1>1, <1>2 DEF Weight
<1>8. \A x \in T : /\ x = t.root => A[x] = {x}
                   /\ x # t.root => /\ t.parent[x] \in T
                                    /\ A[x] = A[t.parent[x]] \cup {x}
                                    /\ x \notin A[t.parent[x]]
  BY <1>1, <1>3, AboveIs
<1> DEFINE X == {x \in T : Cardinality(C[x]) + h[x] - Weight(t, x) # h[t.root]}
<1>9. ASSUME X # {} PROVE FALSE
  <2>1. PICK x \in X : \A y \in X : ~(Cardinality(A[y]) < Cardinality(A[x]))
    <3>1. X \in SUBSET Nodes BY <1>2
    <3> HIDE DEF X
    <3> QED BY <1>6, <1>9, <3>1, FewestBelow
  <2>2. x \in T /\ Cardinality(C[x]) + h[x] - Weight(t, x) # h[t.root] BY <2>1
  <2>3. CASE x = t.root
    <3>1. A[x] = {x} BY <1>8, <2>2, <2>3
    <3>2. ~t.red[x] /\ Weight(t, x) = 1
      BY <1>2, <2>2, <2>3 DEF RedBlack, IsRed, Weight
    <3>3. C[x] = {x} BY <1>2, <1>4, <2>2, <3>1, <3>2
    <3>4. Cardinality(C[x]) = 1 BY <3>3, FS_Singleton
    <3> QED BY <1>7, <2>2, <2>3, <3>2, <3>4
  <2>4. CASE x # t.root
    <3>1. PICK p : p = t.parent[x] OBVIOUS
    <3>2. p \in T /\ A[x] = A[p] \cup {x} /\ x \notin A[p]
      BY <1>8, <2>2, <2>4, <3>1
    <3>3. Cardinality(A[p]) < Cardinality(A[x])
      BY <1>2, <1>6, <2>2, <3>2, FewerNodes
    <3>4. Cardinality(C[p]) + h[p] - Weight(t, p) = h[t.root] BY <2>1, <3>2, <3>3
    <3>5. h[p] = h[x] + Weight(t, p)
      <4>1. PICK s \in Sides : t.child[s][p] = x
        BY <1>1, <2>2, <2>4, <3>1, ParentIs DEF SideOf, Sides
      <4>2. h[p] = Height(h, t.child[s][p]) + Weight(t, p) BY <3>2 DEF RedBlack, Even
      <4> QED BY <1>2, <2>2, <4>1, <4>2 DEF Height
    <3>6. Cardinality(C[x]) = Cardinality(C[p]) + Weight(t, x)
      <4>1. CASE t.red[x]
        <5>1. C[x] = C[p] BY <1>2, <1>4, <2>2, <3>2, <4>1
        <5>2. Weight(t, x) = 0 BY <4>1 DEF Weight
        <5> QED BY <1>6, <3>2, <5>1, <5>2
      <4>2. CASE ~t.red[x]
        <5>1. C[x] = C[p] \cup {x} /\ x \notin C[p] BY <1>2, <1>4, <2>2, <3>2, <4>2
        <5>2. Cardinality(C[x]) = Cardinality(C[p]) + 1
          BY <1>6, <3>2, <5>1, FS_AddElement
        <5>3. Weight(t, x) = 1 BY <4>2 DEF Weight
        <5> QED BY <5>2, <5>3
      <4> QED BY <4>1, <4>2
    <3>7. /\ Cardinality(C[x]) \in Nat /\ Cardinality(C[p]) \in Nat
          /\ h[x] \in Nat /\ h[p] \in Nat /\ Weight(t, x) \in Nat /\ Weight(t, p) \in Nat
      BY <1>6, <1>7, <2>2, <3>2
    <3>8. PICK a, b, c, d, v, w, k :
             /\ a = Cardinality(C[x]) /\ b = Cardinality(C[p]) /\ c = h[x] /\ d = h[p]
             /\ v = Weight(t, x) /\ w = Weight(t, p) /\ k = h[t.root]
      OBVIOUS
    <3>9. /\ a \in Nat /\ b \in Nat /\ c \in Nat /\ d \in Nat /\ v \in Nat /\ w \in Nat
          /\ a + c - v # k /\ b + d - w = k /\ d = c + w /\ a = b + v
      BY <2>2, <3>4, <3>5, <3>6, <3>7, <3>8
    <3> QED BY <3>9
  <2> QED BY <2>3, <2>4
<1>10. Cardinality(C[n]) + h[n] - Weight(t, n) = h[t.root] BY <1>9
<1> QED BY <1>5, <1>6, <1>10

(* Black heights make as many black nodes on the way to every leaf. *)
LEMMA RedBlackIsBalanced ==
  ASSUME NEW t, NEW B, NEW T, NEW R, NEW h, RedBlack(t, B, T, R, h)
  PROVE  IsBalanced(t)
<1>1. Tree(t, B, T, R) /\ InTree(t) = T BY InTreeIs DEF RedBlack
<1>2. /\ T \subseteq Nodes /\ NULL \notin T /\ t.red \in [Nodes -> BOOLEAN]
      /\ h \in [Nodes -> Nat]
  BY <1>1, NodeAssumption DEF Tree, Typed, Trees, RedBlack
<1>3. ASSUME NEW n \in T, t.red[n] PROVE t.parent[n] # NULL /\ ~t.red[t.parent[n]]
  <2>1. n # t.root BY <1>2, <1>3 DEF RedBlack, IsRed
  <2>2. PICK p, s : p = t.parent[n] /\ s = SideOf(t, p, n) OBVIOUS
  <2>3. p \in T /\ t.child[s][p] = n /\ s \in Sides
    BY <1>1, <2>1, <2>2, ParentIs DEF SideOf, Sides
  <2>4. ~RedPair(t, p, s) BY <2>3 DEF RedBlack
  <2>5. ~t.red[p] BY <1>2, <1>3, <2>3, <2>4 DEF RedPair, IsRed
  <2> QED BY <1>2, <2>2, <2>3, <2>5
<1>4. ASSUME NEW n \in T, NEW s \in Sides, t.child[s][n] = NULL
      PROVE  Cardinality(BlackAbove(t, n)) = h[t.root]
  <2>1. h[n] = Height(h, t.child[s][n]) + Weight(t, n) BY DEF RedBlack, Even
  <2>2. h[n] = Weight(t, n) /\ Weight(t, n) \in Nat BY <1>4, <2>1 DEF Height, Weight
  <2>3. PICK c : c = Cardinality(BlackAbove(t, n)) OBVIOUS
  <2>4. c \in Nat /\ c + h[n] - Weight(t, n) = h[t.root] BY <2>3, BlackAboveIs
  <2> QED BY <2>2, <2>3, <2>4
<1> QED BY <1>1, <1>3, <1>4 DEF IsBalanced

-----------------------------------------------------------------------------
(* The tree as the queue knows it. *)

(* What the queue needs to know of its tree: it is a red-black tree of the *)
(* nodes T, in order by some rank, and by rank itself unless disordered.   *)
Sound(t, T, rank, lost) ==
    /\ rank \in [Nodes -> Int]
    /\ \E B, h, g : /\ g \in [Nodes -> Int]
                    /\ RedBlack(t, B, T, {g} \cup (IF lost THEN {} ELSE {rank}), h)

(* What the properties say of a sound tree. *)
LEMMA SoundIs ==
  ASSUME NEW t, NEW T, NEW rank, NEW lost, Sound(t, T, rank, lost)
  PROVE  /\ t \in Trees /\ T \subseteq Nodes /\ InTree(t) = T /\ LinksAgree(t)
         /\ ~lost => InOrder(t, rank)
         /\ t.root = NULL <=> T = {}
         /\ T = {} => RB_MIN(t) = NULL
         /\ T # {} => RB_MIN(t) \in T
         /\ ~lost => \A m \in T : m # RB_MIN(t) => rank[RB_MIN(t)] < rank[m]
<1>1. PICK B, h, g, R : /\ R = {g} \cup (IF lost THEN {} ELSE {rank})
                        /\ Tree(t, B, T, R)
  BY DEF Sound, RedBlack
<1>2. t \in Trees /\ T \subseteq Nodes BY <1>1 DEF Tree, Typed
<1>3. InTree(t) = T BY <1>1, InTreeIs
<1>4. LinksAgree(t) /\ \A q \in R : InOrder(t, q) BY <1>1, TreeIsSound
<1>5. /\ t.root = NULL <=> T = {}
      /\ T = {} => RB_MIN(t) = NULL
      /\ T # {} => IsMin(RB_MIN(t), T, R)
  BY <1>1, MinIs
<1>6. ~lost => rank \in R BY <1>1
<1> QED BY <1>2, <1>3, <1>4, <1>5, <1>6 DEF IsMin

LEMMA SoundIsBalanced ==
  ASSUME NEW t, NEW T, NEW rank, NEW lost, Sound(t, T, rank, lost)
  PROVE  IsBalanced(t)
BY RedBlackIsBalanced DEF Sound

(* A tree stays sound when the rank only changes elsewhere, or in an empty *)
(* tree in any way.                                                        *)
LEMMA SoundAgain ==
  ASSUME NEW t, NEW T, NEW rank, NEW lost, Sound(t, T, rank, lost),
         NEW rank2 \in [Nodes -> Int], NEW lost2,
         ~lost2 => T = {} \/ (~lost /\ \A m \in T : rank2[m] = rank[m])
  PROVE  Sound(t, T, rank2, lost2)
<1>1. PICK B, h, g, R : /\ g \in [Nodes -> Int] /\ R = {g} \cup (IF lost THEN {} ELSE {rank})
                        /\ RedBlack(t, B, T, R, h)
  BY DEF Sound
<1>2. PICK Q : Q = {g} \cup (IF lost2 THEN {} ELSE {rank2}) OBVIOUS
<1>3. Q \in SUBSET [Nodes -> Int] BY <1>1, <1>2
<1>4. Tree(t, B, T, R) BY <1>1 DEF RedBlack
<1>5. ASSUME NEW q \in Q PROVE \E r \in R : \A x, y \in T : q[x] < q[y] <=> r[x] < r[y]
  <2>1. CASE q = g BY <1>1, <2>1
  <2>2. CASE q # g
    <3>1. ~lost2 /\ q = rank2 BY <1>2, <2>2
    <3>2. CASE T = {} BY <1>1, <3>2
    <3>3. CASE ~lost /\ \A m \in T : rank2[m] = rank[m] BY <1>1, <3>1, <3>3
    <3> QED BY <3>1, <3>2, <3>3
  <2> QED BY <2>1, <2>2
<1>6. Tree(t, B, T, Q) BY <1>3, <1>4, <1>5, SameOrder
<1>7. RedBlack(t, B, T, Q, h) BY <1>1, <1>6 DEF RedBlack
<1> QED BY <1>1, <1>2, <1>7 DEF Sound

(* RB_INSERT keeps the tree sound, ... *)
LEMMA SoundInsert ==
  ASSUME NEW t, NEW T, NEW rank, NEW lost, Sound(t, T, rank, lost), NEW n \in Nodes, n \notin T,
         NEW u, u = RB_INSERT(t, rank, n)
  PROVE  \/ RB_FIND(t, rank, rank[n]) # NULL /\ u = t
         \/ RB_FIND(t, rank, rank[n]) = NULL /\ Sound(u, T \cup {n}, rank, lost)
<1>1. PICK B, h, g, R : /\ g \in [Nodes -> Int] /\ R = {g} \cup (IF lost THEN {} ELSE {rank})
                        /\ RedBlack(t, B, T, R, h)
  BY DEF Sound
<1>2. g \in R /\ rank \in [Nodes -> Int] BY <1>1 DEF Sound
<1>3. \/ RB_FIND(t, rank, rank[n]) # NULL /\ u = t
      \/ RB_FIND(t, rank, rank[n]) = NULL /\ Inserted(T, R, n, rank, u)
  BY <1>1, <1>2, InsertIs
<1>4. ASSUME Inserted(T, R, n, rank, u) PROVE Sound(u, T \cup {n}, rank, lost)
  <2>1. PICK T2 : T2 = T \cup {n} OBVIOUS
  <2>2. PICK B2, h2, g2, R2 : /\ g2 \in [Nodes -> Int] /\ R2 = {g2} \cup (R \cap {rank})
                              /\ RedBlack(u, B2, T2, R2, h2)
    BY <1>4, <2>1 DEF Inserted
  <2>3. PICK Q : Q = {g2} \cup (IF lost THEN {} ELSE {rank}) OBVIOUS
  <2>4. Q \in SUBSET [Nodes -> Int] /\ Q \subseteq R2 BY <1>1, <1>2, <2>2, <2>3
  <2>5. Tree(u, B2, T2, R2) BY <2>2 DEF RedBlack
  <2>6. \A q \in Q : \E r \in R2 : \A x, y \in T2 : q[x] < q[y] <=> r[x] < r[y] BY <2>4
  <2>7. Tree(u, B2, T2, Q) BY <2>4, <2>5, <2>6, SameOrder
  <2>8. RedBlack(u, B2, T2, Q, h2) BY <2>2, <2>7 DEF RedBlack
  <2>9. Sound(u, T2, rank, lost) BY <1>2, <2>2, <2>3, <2>8 DEF Sound
  <2> QED BY <2>1, <2>9
<1> QED BY <1>3, <1>4

(* ... and RB_REMOVE does. *)
LEMMA SoundRemove ==
  ASSUME NEW t, NEW T, NEW rank, NEW lost, Sound(t, T, rank, lost), NEW n \in T,
         NEW u, u = RB_REMOVE(t, n)
  PROVE  /\ Sound(Forget(u, n), T \ {n}, rank, lost)
         /\ u.root = NULL <=> T = {n}
         /\ Forget(u, n).root = u.root
<1>1. PICK B, h, g, R : /\ g \in [Nodes -> Int] /\ R = {g} \cup (IF lost THEN {} ELSE {rank})
                        /\ RedBlack(t, B, T, R, h)
  BY DEF Sound
<1>2. n \in Nodes /\ rank \in [Nodes -> Int] BY <1>1 DEF RedBlack, Tree, Typed, Sound
<1>3. PICK T2 : T2 = T \ {n} OBVIOUS
<1>4. PICK B2, h2 : RedBlack(u, B2, T2, R, h2) BY <1>1, <1>3, RemoveIs
<1>5. PICK v : v = Forget(u, n) OBVIOUS
<1>6. RedBlack(v, B2, T2, R, h2) BY <1>2, <1>3, <1>4, <1>5, ForgottenIs
<1>7. Sound(v, T2, rank, lost) BY <1>1, <1>2, <1>6 DEF Sound
<1>8. u \in Trees /\ (u.root = NULL <=> T2 = {}) BY <1>4, MinIs DEF RedBlack, Tree, Typed
<1>9. v.root = u.root BY <1>2, <1>5, <1>8, ForgetIs DEF SetTo
<1> QED BY <1>3, <1>5, <1>7, <1>8, <1>9

(* What RB_NEXT finds before n is taken out is what is then the first.     *)
LEMMA SoundNext ==
  ASSUME NEW t, NEW T, NEW rank, NEW lost, Sound(t, T, rank, lost), T # {},
         NEW n, n = RB_MIN(t), NEW u, u = Forget(RB_REMOVE(t, n), n)
  PROVE  RB_NEXT(t, n) = RB_MIN(u)
<1>1. PICK B, h, g, R : /\ g \in [Nodes -> Int] /\ R = {g} \cup (IF lost THEN {} ELSE {rank})
                        /\ RedBlack(t, B, T, R, h)
  BY DEF Sound
<1>2. Tree(t, B, T, R) /\ g \in R /\ T \subseteq Nodes BY <1>1 DEF RedBlack, Tree, Typed
<1>3. n \in T BY SoundIs
<1>4. PICK T2 : T2 = T \ {n} OBVIOUS
<1>5. PICK v : v = RB_REMOVE(t, n) OBVIOUS
<1>6. PICK B2, h2 : RedBlack(v, B2, T2, R, h2) BY <1>1, <1>3, <1>4, <1>5, RemoveIs
<1>7. n \in Nodes /\ n \notin T2 BY <1>2, <1>3, <1>4
<1>8. RedBlack(u, B2, T2, R, h2) BY <1>5, <1>6, <1>7, ForgottenIs
<1>9. Tree(u, B2, T2, R) BY <1>8 DEF RedBlack
<1>10. PICK m : m = RB_NEXT(t, n) OBVIOUS
<1>11. CASE T2 = {}
  <2>1. RB_MIN(u) = NULL BY <1>9, <1>11, MinIs
  <2>2. T = {n} BY <1>3, <1>4, <1>11
  <2> QED BY <1>2, <2>1, <2>2, NextOfMin
<1>12. CASE T2 # {}
  <2>1. PICK k : k = RB_MIN(u) OBVIOUS
  <2>2. IsMin(k, T2, R) BY <1>9, <1>12, <2>1, MinIs
  <2>3. T # {n} BY <1>4, <1>12
  <2>4. IsMin(m, T2, R) BY <1>2, <1>4, <1>10, <2>3, NextOfMin
  <2>5. g \in R \cap R /\ g \in [Nodes -> Int] BY <1>1, <1>2
  <2>6. \A x \in T2 : g[x] \in Int BY <1>2, <1>4, <2>5
  <2>7. m \in T2 /\ k \in T2 BY <2>2, <2>4 DEF IsMin
  <2>8. m # k => g[m] < g[k] /\ g[k] < g[m] BY <1>2, <2>2, <2>4, <2>7 DEF IsMin
  <2>9. m = k BY <2>6, <2>7, <2>8
  <2> QED BY <1>10, <2>1, <2>9
<1> QED BY <1>11, <1>12

(* RB_FIND finds a node of that rank, in a tree in order if there is one;  *)
(* and no two nodes of such a tree have the same rank.                     *)
LEMMA SoundFind ==
  ASSUME NEW t, NEW T, NEW rank, NEW lost, Sound(t, T, rank, lost), NEW k \in Int,
         NEW n, n = RB_FIND(t, rank, k)
  PROVE  /\ n # NULL => n \in T /\ rank[n] = k
         /\ n = NULL /\ ~lost => \A m \in T : rank[m] # k
         /\ ~lost => \A x, y \in T : rank[x] = rank[y] => x = y
<1>1. PICK B, h, g, R : /\ g \in [Nodes -> Int] /\ R = {g} \cup (IF lost THEN {} ELSE {rank})
                        /\ RedBlack(t, B, T, R, h)
  BY DEF Sound
<1>2. Tree(t, B, T, R) /\ rank \in [Nodes -> Int] /\ (~lost => rank \in R)
  BY <1>1 DEF RedBlack, Sound
<1>3. /\ RB_FIND(t, rank, k) # NULL =>
            RB_FIND(t, rank, k) \in T /\ rank[RB_FIND(t, rank, k)] = k
      /\ RB_FIND(t, rank, k) = NULL /\ rank \in R => \A m \in T : rank[m] # k
  BY <1>2, FindIs
<1>4. ASSUME ~lost, NEW x \in T, NEW y \in T, x # y PROVE rank[x] # rank[y]
  BY <1>2, <1>4, RanksDiffer
<1> QED BY <1>2, <1>3, <1>4

(* Where it looks only depends on the ranks of the nodes of the tree.      *)
LEMMA SameFind ==
  ASSUME NEW t, NEW T, NEW rank, NEW lost, Sound(t, T, rank, lost),
         NEW rank2, \A m \in T : rank2[m] = rank[m], NEW k \in Int
  PROVE  RB_FIND(t, rank2, k) = RB_FIND(t, rank, k)
<1>1. PICK B, R : Tree(t, B, T, R) BY DEF Sound, RedBlack
<1>2. CASE t.root = NULL BY <1>2 DEF RB_FIND
<1>3. CASE t.root # NULL
  <2>1. WayTo(t, rank, k, t.root) = WayTo(t, rank2, k, t.root) BY <1>1, <1>3, WayAgrees
  <2>2. PICK m : m = WayTo(t, rank, k, t.root) OBVIOUS
  <2>3. WayEnds(t, B, T, R, rank, k, m) BY <1>1, <1>3, <2>2, WayIs DEF Sound
  <2>4. m \in T BY <2>3 DEF WayEnds
  <2> QED BY <1>3, <2>1, <2>2, <2>4 DEF RB_FIND
<1> QED BY <1>2, <1>3

LEMMA SoundEmpty ==
  ASSUME NEW rank \in [Nodes -> Int], NEW lost
  PROVE  Sound(RB_INIT, {}, rank, lost)
<1>1. PICK R : R = {rank} \cup (IF lost THEN {} ELSE {rank}) OBVIOUS
<1>2. R \in SUBSET [Nodes -> Int] BY <1>1
<1>3. \E B, h : RedBlack(RB_INIT, B, {}, R, h) BY <1>2, EmptyIs
<1> QED BY <1>1, <1>3 DEF Sound

-----------------------------------------------------------------------------
(* The key of a reminder. *)

(* A product of numbers is a number; they are scaled in order. *)
LEMMA ProductIsNat == ASSUME NEW a \in Nat, NEW b \in Nat PROVE a * b \in Nat
OBVIOUS

LEMMA Scaled ==
  ASSUME NEW a \in Nat, NEW b \in Nat, NEW k \in Nat, a < b
  PROVE  a * k + k <= b * k
<1>1. PICK d \in Nat : b = a + 1 + d
  <2>1. b - a - 1 \in Nat /\ b = a + 1 + (b - a - 1) OBVIOUS
  <2> QED BY <2>1
<1>2. b * k = a * k + k + d * k BY <1>1
<1>3. d * k \in Nat /\ a * k \in Nat BY ProductIsNat
<1> QED BY <1>2, <1>3

(* Time and callback in one number: it is compared as rb_node_comp does.   *)
LEMMA InOneNumber ==
  ASSUME NEW a \in Nat, NEW b \in Nat, NEW max \in Nat, NEW c \in 0 .. max, NEW d \in 0 .. max,
         NEW x, x = a * (max + 1) + c, NEW y, y = b * (max + 1) + d
  PROVE  /\ x \in Nat
         /\ x = y <=> a = b /\ c = d
         /\ x < y <=> a < b \/ (a = b /\ c < d)
<1>1. PICK k : k = max + 1 OBVIOUS
<1>2. k \in Nat /\ c \in Nat /\ d \in Nat /\ c < k /\ d < k BY <1>1
<1>3. PICK e, f : e = a * k /\ f = b * k OBVIOUS
<1>4. e \in Nat /\ f \in Nat BY <1>2, <1>3, ProductIsNat
<1>5. x = e + c /\ y = f + d BY <1>1, <1>3
<1>6. CASE a = b BY <1>2, <1>3, <1>4, <1>5, <1>6
<1>7. CASE a < b
  <2>1. e + k <= f BY <1>2, <1>3, <1>7, Scaled
  <2> QED BY <1>2, <1>4, <1>5, <1>7, <2>1
<1>8. CASE b < a
  <2>1. f + k <= e BY <1>2, <1>3, <1>8, Scaled
  <2> QED BY <1>2, <1>4, <1>5, <1>8, <2>1
<1> QED BY <1>6, <1>7, <1>8

(* ... so Key orders the reminders as the abstract set does. *)
LEMMA KeyIs ==
  ASSUME TypeOK, NEW r \in Reminders, NEW s \in Reminders
  PROVE  /\ Key(r) \in Nat
         /\ Key(r) = Key(s) <=> Set!SameKey(r, s)
         /\ Key(r) < Key(s) <=> Set!Precedes(r, s)
<1>1. PICK a, b : a = timestamp[r] /\ b = timestamp[s] OBVIOUS
<1>2. PICK c, d : c = CallbackOf[r] /\ d = CallbackOf[s] OBVIOUS
<1>3. PICK x, y : x = Key(r) /\ y = Key(s) OBVIOUS
<1>4. a \in Nat /\ b \in Nat BY <1>1 DEF TypeOK
<1>5. MaxCallback \in Nat /\ c \in 0 .. MaxCallback /\ d \in 0 .. MaxCallback
  BY <1>2, ReminderAssumption
<1>6. x = a * (MaxCallback + 1) + c /\ y = b * (MaxCallback + 1) + d
  BY <1>1, <1>2, <1>3 DEF Key
<1>7. /\ x \in Nat
      /\ x = y <=> a = b /\ c = d
      /\ x < y <=> a < b \/ (a = b /\ c < d)
  BY <1>4, <1>5, <1>6, InOneNumber
<1> QED BY <1>1, <1>2, <1>3, <1>7 DEF Set!SameKey, Set!Precedes

LEMMA RankIs ==
  ASSUME TypeOK, NEW events \in [Nodes -> Reminders \cup {NULL}], NEW rank,
         rank = RankWith(events)
  PROVE  /\ rank \in [Nodes -> Int]
         /\ \A n \in Nodes : events[n] # NULL =>
               events[n] \in Reminders /\ rank[n] = Key(events[n])
<1>1. \A r \in Reminders : Key(r) \in Nat BY KeyIs
<1>2. \A n \in Nodes : events[n] # NULL => events[n] \in Reminders OBVIOUS
<1>3. \A n \in Nodes : (IF events[n] = NULL THEN 0 ELSE Key(events[n])) \in Int
  BY <1>1, <1>2
<1> QED BY <1>2, <1>3 DEF RankWith
-----------------------------------------------------------------------------
(* The invariant. *)

(* The inductive invariant: the tree is sound, its nodes are allocated and *)
(* have a reminder, a clear stands on the first node, and what disorder    *)
(* there is ends with the tree.                                            *)
IInv ==
    /\ TypeOK
    /\ Sound(tree, InTree(tree), Rank, disorder)
    /\ InTree(tree) \subseteq heap
    /\ \A n \in InTree(tree) : reminder_event[n] # NULL
    /\ clearing => np = RB_MIN(tree)
    /\ disorder /\ ~clearing => tree.root # NULL

(* What it says of the tree, with a name for the set of its nodes.         *)
LEMMA QueueIs ==
  ASSUME IInv
  PROVE  \E T : /\ Sound(tree, T, Rank, disorder) /\ InTree(tree) = T
                /\ T \subseteq heap /\ T \subseteq Nodes /\ tree \in Trees
                /\ (tree.root = NULL <=> T = {})
                /\ Rank \in [Nodes -> Int]
                /\ \A n \in T : reminder_event[n] \in Reminders /\ Rank[n] = Key(reminder_event[n])
                /\ Queued(tree) = {reminder_event[n] : n \in T}
<1>1. PICK T : T = InTree(tree) OBVIOUS
<1>2. /\ Sound(tree, T, Rank, disorder) /\ T \subseteq heap
      /\ \A n \in T : reminder_event[n] # NULL
  BY <1>1 DEF IInv
<1>3. tree \in Trees /\ T \subseteq Nodes /\ (tree.root = NULL <=> T = {}) BY <1>2, SoundIs
<1>4. /\ Rank \in [Nodes -> Int]
      /\ \A n \in Nodes : reminder_event[n] # NULL =>
            reminder_event[n] \in Reminders /\ Rank[n] = Key(reminder_event[n])
  BY RankIs DEF IInv, TypeOK, Rank
<1> QED BY <1>1, <1>2, <1>3, <1>4 DEF Queued

(* The type invariant without the tree, of which Sound says more.          *)
RestOK ==
    /\ reminder_event \in [Nodes -> Reminders \cup {NULL}]
    /\ heap \subseteq Nodes
    /\ timestamp \in [Reminders -> Nat]
    /\ np \in Links /\ clearing \in BOOLEAN
    /\ out \in [op : {"new", "push", "nomem", "pop", "peek", "remove", "clear"}, ok : BOOLEAN,
                item : Reminders \cup {NULL}]
    /\ out.item = NULL => ~out.ok \/ out.op \in {"new", "clear"}
    /\ retimes \in 0 .. MaxRetimes /\ disorder \in BOOLEAN

(* The parts of the invariant about the next state, of which T2 are the    *)
(* nodes of the tree.                                                      *)
LEMMA Again ==
  ASSUME RestOK', NEW T2, Sound(tree', T2, Rank', disorder'), T2 \subseteq heap',
         \A n \in T2 : reminder_event'[n] # NULL,
         clearing' => np' = RB_MIN(tree'),
         disorder' /\ ~clearing' => T2 # {}
  PROVE  IInv' /\ InTree(tree') = T2
<1>1. PICK t, rank, lost : t = tree' /\ rank = Rank' /\ lost = disorder' OBVIOUS
<1>2. Sound(t, T2, rank, lost) BY <1>1
<1>3. t \in Trees /\ InTree(t) = T2 /\ (t.root = NULL <=> T2 = {}) BY <1>2, SoundIs
<1>4. TypeOK' BY <1>1, <1>3 DEF TypeOK, RestOK
<1> QED BY <1>1, <1>2, <1>3, <1>4 DEF IInv

LEMMA Initially == Init => IInv
<1> SUFFICES ASSUME Init PROVE IInv OBVIOUS
<1>0. PICK zero : zero = [n \in Nodes |-> 0] OBVIOUS
<1>1. TypeOK
  <2>1. zero \in [Nodes -> Int] BY <1>0
  <2>2. Sound(tree, {}, zero, FALSE) BY <2>1, SoundEmpty DEF Init
  <2>3. tree \in Trees BY <2>2, SoundIs
  <2>4. timestamp \in [Reminders -> Nat] /\ retimes \in 0 .. MaxRetimes
    BY ReminderAssumption DEF Init
  <2>5. reminder_event \in [Nodes -> Reminders \cup {NULL}] BY DEF Init
  <2>6. heap \subseteq Nodes /\ np \in Links /\ clearing \in BOOLEAN /\ disorder \in BOOLEAN
    BY DEF Init, Links
  <2>7. /\ out \in [op : {"new", "push", "nomem", "pop", "peek", "remove", "clear"},
                    ok : BOOLEAN, item : Reminders \cup {NULL}]
        /\ out.item = NULL => ~out.ok \/ out.op \in {"new", "clear"}
    BY DEF Init, Returned
  <2> QED BY <2>3, <2>4, <2>5, <2>6, <2>7 DEF TypeOK
<1>2. Rank \in [Nodes -> Int] BY <1>1, RankIs DEF TypeOK, Rank
<1>3. Sound(tree, {}, Rank, disorder) BY <1>2, SoundEmpty DEF Init
<1>4. InTree(tree) = {} BY <1>3, SoundIs
<1> QED BY <1>1, <1>3, <1>4 DEF IInv, Init

-----------------------------------------------------------------------------
(* Every step keeps the invariant. *)

(* What is not touched stays as it is. *)
LEMMA Untouched ==
  ASSUME IInv, RestOK', UNCHANGED <<memory, timestamp, disorder>>,
         clearing' => np' = RB_MIN(tree),
         disorder /\ ~clearing' => tree.root # NULL
  PROVE  IInv'
<1>1. PICK T : /\ Sound(tree, T, Rank, disorder) /\ T \subseteq heap
               /\ (tree.root = NULL <=> T = {})
               /\ \A n \in T : reminder_event[n] \in Reminders
  BY QueueIs
<1>2. Rank' = Rank BY DEF memory, Rank, RankWith, Key
<1>3. Sound(tree', T, Rank', disorder') BY <1>1, <1>2 DEF memory
<1>4. T \subseteq heap' /\ \A n \in T : reminder_event'[n] # NULL
  BY <1>1, ReminderAssumption DEF memory
<1>5. clearing' => np' = RB_MIN(tree') BY DEF memory
<1>6. disorder' /\ ~clearing' => T # {} BY <1>1
<1> QED BY <1>3, <1>4, <1>5, <1>6, Again

(* RB_INSERT hangs the new node in the tree, unless it finds another of    *)
(* the same time and callback.                                             *)
Added(r, n, T, T2) ==
    /\ n \in Nodes \ T
    /\ \/ RB_FIND(tree, Rank, Key(r)) # NULL /\ T2 = T
       \/ RB_FIND(tree, Rank, Key(r)) = NULL /\ T2 = T \cup {n}

(* Push keeps the invariant, and adds a node unless there was an equal one. *)
LEMMA PushIs ==
  ASSUME IInv, RestOK', NEW r \in Reminders, NEW n \in Nodes, Push(r, n)
  PROVE  IInv' /\ Added(r, n, InTree(tree), InTree(tree'))
<1>1. PICK T : /\ Sound(tree, T, Rank, disorder) /\ InTree(tree) = T /\ T \subseteq heap
               /\ Rank \in [Nodes -> Int] /\ T \subseteq Nodes
               /\ (tree.root = NULL <=> T = {})
               /\ \A m \in T : reminder_event[m] \in Reminders
  BY QueueIs
<1>2. /\ n \notin T /\ heap' = heap \cup {n} /\ ~clearing /\ ~clearing'
      /\ reminder_event' = [reminder_event EXCEPT ![n] = r]
      /\ UNCHANGED <<timestamp, disorder>>
  BY <1>1 DEF Push
<1>3. PICK rank : rank = Rank' OBVIOUS
<1>4. rank = RankWith(reminder_event') BY <1>2, <1>3 DEF Rank, RankWith, Key
<1>5. reminder_event \in [Nodes -> Reminders \cup {NULL}] BY DEF IInv, TypeOK
<1>6. reminder_event' \in [Nodes -> Reminders \cup {NULL}] BY DEF RestOK
<1>7. rank \in [Nodes -> Int] BY <1>4, <1>6, RankIs DEF IInv
<1>8. \A m \in T : rank[m] = Rank[m] /\ reminder_event'[m] # NULL
  <2> TAKE m \in T
  <2>1. m \in Nodes /\ m # n /\ reminder_event'[m] = reminder_event[m] BY <1>1, <1>2, <1>5
  <2> QED BY <1>1, <1>4, <2>1, ReminderAssumption DEF Rank, RankWith
<1>9. rank[n] = Key(r) /\ Key(r) \in Int /\ reminder_event'[n] = r /\ r # NULL
  <2>1. reminder_event'[n] = r /\ r # NULL BY <1>2, <1>5, ReminderAssumption
  <2> QED BY <2>1, <1>4, KeyIs DEF RankWith, IInv
<1>10. Sound(tree, T, rank, disorder) BY <1>1, <1>7, <1>8, SoundAgain
<1>11. PICK u : u = tree' OBVIOUS
<1>12. u = RB_INSERT(tree, rank, n) BY <1>4, <1>11 DEF Push
<1>13. RB_FIND(tree, rank, rank[n]) = RB_FIND(tree, Rank, Key(r))
  BY <1>1, <1>8, <1>9, SameFind
<1>14. \/ RB_FIND(tree, Rank, Key(r)) # NULL /\ u = tree
       \/ RB_FIND(tree, Rank, Key(r)) = NULL /\ Sound(u, T \cup {n}, rank, disorder)
  BY <1>2, <1>10, <1>12, <1>13, SoundInsert
<1>15. PICK T2 : Added(r, n, T, T2) /\ Sound(u, T2, rank, disorder)
  BY <1>2, <1>10, <1>14 DEF Added
<1>16. T2 \subseteq heap' /\ \A m \in T2 : reminder_event'[m] # NULL
  BY <1>1, <1>2, <1>8, <1>9, <1>15, ReminderAssumption DEF Added
<1>17. disorder' => T2 # {} BY <1>1, <1>2, <1>15 DEF Added, IInv
<1>18. Sound(tree', T2, Rank', disorder') BY <1>2, <1>3, <1>11, <1>15
<1>19. IInv' /\ InTree(tree') = T2 BY <1>2, <1>16, <1>17, <1>18, Again
<1> QED BY <1>1, <1>15, <1>19

(* A node taken out of the tree by a pop, a remove or a turn of the loop   *)
(* of clear: what holds of the rest.                                       *)
LEMMA TakenOut ==
  ASSUME IInv, UNCHANGED timestamp, NEW n \in InTree(tree),
         tree' = Forget(RB_REMOVE(tree, n), n),
         reminder_event' \in [Nodes -> Reminders \cup {NULL}],
         \A m \in Nodes \ {n} : reminder_event'[m] = reminder_event[m],
         disorder' \in {disorder, disorder /\ RB_REMOVE(tree, n).root # NULL}
  PROVE  /\ Sound(tree', InTree(tree) \ {n}, Rank', disorder')
         /\ InTree(tree') = InTree(tree) \ {n}
         /\ \A m \in InTree(tree') : reminder_event'[m] # NULL
         /\ RB_REMOVE(tree, n).root = NULL <=> InTree(tree') = {}
         /\ tree'.root = RB_REMOVE(tree, n).root
<1>1. PICK T : /\ Sound(tree, T, Rank, disorder) /\ InTree(tree) = T /\ T \subseteq Nodes
               /\ Rank \in [Nodes -> Int]
               /\ \A m \in T : reminder_event[m] \in Reminders
  BY QueueIs
<1>2. PICK u, v, T2 : u = RB_REMOVE(tree, n) /\ v = Forget(u, n) /\ T2 = T \ {n} OBVIOUS
<1>3. v = tree' BY <1>2
<1>4. /\ Sound(v, T2, Rank, disorder)
      /\ u.root = NULL <=> T = {n}
      /\ v.root = u.root
  BY <1>1, <1>2, SoundRemove
<1>5. PICK rank : rank = Rank' OBVIOUS
<1>6. rank = RankWith(reminder_event') BY <1>5 DEF Rank, RankWith, Key
<1>7. rank \in [Nodes -> Int] BY <1>6, RankIs DEF IInv
<1>8. \A m \in T2 : rank[m] = Rank[m] /\ reminder_event'[m] # NULL
  BY <1>1, <1>2, <1>6, ReminderAssumption DEF Rank, RankWith
<1>9. PICK lost2 : lost2 = disorder' OBVIOUS
<1>10. ~lost2 => T2 = {} \/ ~disorder BY <1>1, <1>2, <1>4, <1>9
<1>11. Sound(v, T2, rank, lost2) BY <1>4, <1>7, <1>8, <1>10, SoundAgain
<1>12. InTree(v) = T2 BY <1>11, SoundIs
<1>13. u.root = NULL <=> T2 = {} BY <1>1, <1>2, <1>4
<1> QED BY <1>1, <1>2, <1>3, <1>4, <1>5, <1>8, <1>9, <1>11, <1>12, <1>13

(* The first node, if there is one. *)
LEMMA FirstIs ==
  ASSUME IInv, NEW n, n = RB_MIN(tree)
  PROVE  /\ n \in Links
         /\ n = NULL <=> InTree(tree) = {}
         /\ n # NULL => n \in Nodes /\ n \in InTree(tree) /\ reminder_event[n] \in Reminders
<1>1. PICK T : /\ Sound(tree, T, Rank, disorder) /\ InTree(tree) = T /\ T \subseteq Nodes
               /\ \A m \in T : reminder_event[m] \in Reminders
  BY QueueIs
<1>2. CASE T = {} BY <1>1, <1>2, SoundIs DEF Links
<1>3. CASE T # {}
  <2>1. n \in T BY <1>1, <1>3, SoundIs
  <2> QED BY <1>1, <1>3, <2>1, NodeAssumption DEF Links
<1> QED BY <1>2, <1>3

(* The node RB_FIND finds is in the tree, and holds a reminder of that     *)
(* time and callback; if the tree is in order, it finds one if there is    *)
(* one, and there are no two.                                              *)
LEMMA FoundIs ==
  ASSUME IInv, NEW r \in Reminders, NEW n, n = RB_FIND(tree, Rank, Key(r))
  PROVE  /\ n # NULL => n \in Nodes /\ n \in InTree(tree) /\ Set!SameKey(r, reminder_event[n])
         /\ n = NULL /\ ~disorder => \A s \in Queued(tree) : ~Set!SameKey(r, s)
         /\ ~disorder => \A x, y \in InTree(tree) : reminder_event[x] = reminder_event[y] => x = y
<1>1. PICK T : /\ Sound(tree, T, Rank, disorder) /\ InTree(tree) = T /\ T \subseteq Nodes
               /\ \A m \in T : reminder_event[m] \in Reminders /\ Rank[m] = Key(reminder_event[m])
               /\ Queued(tree) = {reminder_event[m] : m \in T}
  BY QueueIs
<1>2. PICK k : k = Key(r) OBVIOUS
<1>3. k \in Int BY <1>2, KeyIs DEF IInv
<1>4. /\ n # NULL => n \in T /\ Rank[n] = k
      /\ n = NULL /\ ~disorder => \A m \in T : Rank[m] # k
      /\ ~disorder => \A x, y \in T : Rank[x] = Rank[y] => x = y
  BY <1>1, <1>2, <1>3, SoundFind
<1>5. \A m \in T : Rank[m] = k <=> Set!SameKey(r, reminder_event[m])
  <2> TAKE m \in T
  <2>1. PICK s \in Reminders : s = reminder_event[m] /\ Rank[m] = Key(s) BY <1>1
  <2> QED BY <1>2, <2>1, KeyIs DEF IInv
<1> QED BY <1>1, <1>4, <1>5

(* Whether the queue is empty once n has been taken out of it.             *)
LEMMA RootAfter ==
  ASSUME IInv, NEW n \in InTree(tree), tree' = Forget(RB_REMOVE(tree, n), n)
  PROVE  tree'.root = RB_REMOVE(tree, n).root
<1>1. PICK T : Sound(tree, T, Rank, disorder) /\ InTree(tree) = T BY QueueIs
<1>2. PICK u, v, T2 : u = RB_REMOVE(tree, n) /\ v = Forget(u, n) /\ T2 = T \ {n} OBVIOUS
<1>3. n \in T BY <1>1
<1>4. Sound(v, T2, Rank, disorder) /\ v.root = u.root BY <1>1, <1>2, <1>3, SoundRemove
<1> QED BY <1>2, <1>4

(* The turn of the loop takes the next node before it takes out this one.  *)
LEMMA NextIs ==
  ASSUME IInv, ClearStep
  PROVE  /\ np \in InTree(tree) /\ np \in Nodes
         /\ tree' = Forget(RB_REMOVE(tree, np), np)
         /\ np' = RB_MIN(tree')
<1>1. np = RB_MIN(tree) /\ np # NULL BY DEF IInv, ClearStep
<1>2. np \in InTree(tree) /\ np \in Nodes BY <1>1, FirstIs
<1>3. PICK T : Sound(tree, T, Rank, disorder) /\ T # {} BY <1>2, QueueIs
<1>4. PICK n, u : n = np /\ u = tree' OBVIOUS
<1>5. n = RB_MIN(tree) /\ u = Forget(RB_REMOVE(tree, n), n) BY <1>1, <1>4 DEF ClearStep, Free
<1>6. RB_NEXT(tree, n) = RB_MIN(u) BY <1>3, <1>5, SoundNext
<1> QED BY <1>2, <1>4, <1>5, <1>6 DEF ClearStep

(* The variables that are not about the tree keep their types. *)
LEMMA RestAgain ==
  ASSUME IInv, [Next]_vars
  PROVE  RestOK'
<1>1. TypeOK BY DEF IInv
<1>2. RestOK BY <1>1 DEF TypeOK, RestOK
<1> USE DEF RestOK, Returned
<1>3. ASSUME NEW r \in Reminders, NEW n \in Nodes, Push(r, n) PROVE RestOK'
  <2>1. PICK ok \in BOOLEAN : out' = Returned("push", ok, r) BY <1>3 DEF Push
  <2> QED BY <1>2, <1>3, <2>1, ReminderAssumption DEF Push
<1>4. ASSUME NEW r \in Reminders, PushFails(r) PROVE RestOK'
  BY <1>2, <1>4, ReminderAssumption DEF PushFails, memory
<1>5. CASE Pop
  <2>1. PICK n : n = RB_MIN(tree) OBVIOUS
  <2>2. CASE n = NULL
    <3>1. out' = Returned("pop", FALSE, NULL) /\ UNCHANGED <<memory, disorder>>
      BY <1>5, <2>1, <2>2 DEF Pop
    <3>2. UNCHANGED <<timestamp, np, clearing, retimes>> BY <1>5 DEF Pop
    <3> QED BY <1>2, <3>1, <3>2 DEF memory
  <2>3. CASE n # NULL
    <3>1. n \in Nodes /\ reminder_event[n] \in Reminders BY <2>1, <2>3, FirstIs
    <3>2. /\ out' = Returned("pop", TRUE, reminder_event[n])
          /\ heap' = heap \ {n}
          /\ reminder_event' = [reminder_event EXCEPT ![n] = NULL]
          /\ disorder' = (disorder /\ RB_REMOVE(tree, n).root # NULL)
          /\ UNCHANGED <<timestamp, np, clearing, retimes>>
      BY <1>5, <2>1, <2>3 DEF Pop, Free, SettleDisorder
    <3> QED BY <1>2, <3>1, <3>2, ReminderAssumption
  <2> QED BY <2>2, <2>3
<1>6. CASE Peek
  <2>1. PICK n : n = RB_MIN(tree) OBVIOUS
  <2>2. CASE n = NULL BY <1>2, <1>6, <2>1, <2>2 DEF Peek, memory
  <2>3. CASE n # NULL
    <3>1. reminder_event[n] \in Reminders BY <2>1, <2>3, FirstIs
    <3> QED BY <1>2, <1>6, <2>1, <2>3, <3>1, ReminderAssumption DEF Peek, memory
  <2> QED BY <2>2, <2>3
<1>7. ASSUME NEW r \in Reminders, Remove(r) PROVE RestOK'
  <2>1. PICK ok \in BOOLEAN, d \in BOOLEAN : out' = Returned("remove", ok, r) /\ disorder' = d
    BY <1>2, <1>7 DEF Remove, SettleDisorder
  <2>2. UNCHANGED <<reminder_event, heap, timestamp, np, clearing, retimes>> BY <1>7 DEF Remove
  <2> QED BY <1>2, <2>1, <2>2, ReminderAssumption
<1>8. CASE Clear
  <2>1. RB_MIN(tree) \in Links BY FirstIs
  <2> QED BY <1>2, <1>8, <2>1 DEF Clear, memory
<1>9. CASE ClearStep
  <2>1. PICK T, u : u = tree' /\ Sound(u, T, Rank', disorder')
    <3>1. UNCHANGED <<timestamp, disorder>> BY <1>9 DEF ClearStep
    <3>2. reminder_event' = [reminder_event EXCEPT ![np] = NULL] BY <1>9 DEF ClearStep, Free
    <3>3. PICK n : n = np OBVIOUS
    <3>4. n \in InTree(tree) /\ n \in Nodes /\ tree' = Forget(RB_REMOVE(tree, n), n)
      BY <1>9, <3>3, NextIs
    <3> QED BY <1>2, <3>1, <3>2, <3>3, <3>4, TakenOut
  <2>2. RB_MIN(u) \in Links
    <3>1. T \subseteq Nodes /\ (T = {} => RB_MIN(u) = NULL) /\ (T # {} => RB_MIN(u) \in T)
      BY <2>1, SoundIs
    <3> QED BY <3>1 DEF Links
  <2>3. np' \in Links BY <1>9, <2>1, <2>2, NextIs
  <2>4. np \in Nodes BY <1>9, NextIs
  <2> QED BY <1>2, <1>9, <2>3, <2>4 DEF ClearStep, Free
<1>10. CASE ClearEnd BY <1>2, <1>10 DEF ClearEnd, SettleDisorder, memory
<1>11. ASSUME NEW r \in Reminders, NEW t \in Times, Retime(r, t) PROVE RestOK'
  <2>1. /\ t \in Nat /\ retimes + 1 \in 0 .. MaxRetimes
        /\ timestamp' = [timestamp EXCEPT ![r] = t] /\ retimes' = retimes + 1
        /\ disorder' = (disorder \/ r \in Queued(tree))
        /\ UNCHANGED <<memory, np, clearing, out>>
    BY <1>2, <1>11, ReminderAssumption DEF Retime
  <2> QED BY <1>2, <2>1 DEF memory
<1>12. CASE UNCHANGED vars BY <1>2, <1>12 DEF vars, memory
<1> QED
  BY <1>3, <1>4, <1>5, <1>6, <1>7, <1>8, <1>9, <1>10, <1>11, <1>12 DEF Next

(* Every step keeps the invariant. *)
LEMMA Preserved == IInv /\ [Next]_vars => IInv'
<1> SUFFICES ASSUME IInv, [Next]_vars PROVE IInv' OBVIOUS
<1>1. RestOK' BY RestAgain
<1>2. reminder_event \in [Nodes -> Reminders \cup {NULL}] BY DEF IInv, TypeOK
<1>3. PICK T : /\ Sound(tree, T, Rank, disorder) /\ InTree(tree) = T
               /\ T \subseteq heap /\ T \subseteq Nodes
               /\ (tree.root = NULL <=> T = {})
               /\ Rank \in [Nodes -> Int]
               /\ \A n \in T : reminder_event[n] \in Reminders /\ Rank[n] = Key(reminder_event[n])
               /\ Queued(tree) = {reminder_event[n] : n \in T}
  BY QueueIs
<1>4. disorder /\ ~clearing => tree.root # NULL BY DEF IInv
<1>5. ASSUME NEW r \in Reminders, NEW n \in Nodes, Push(r, n) PROVE IInv'
  BY <1>1, <1>5, PushIs
<1>6. ASSUME NEW r \in Reminders, PushFails(r) PROVE IInv'
  BY <1>1, <1>4, <1>6, Untouched DEF PushFails
<1>7. CASE Pop
  <2>1. PICK n : n = RB_MIN(tree) OBVIOUS
  <2>2. ~clearing /\ ~clearing' /\ UNCHANGED timestamp BY <1>7 DEF Pop
  <2>3. CASE n = NULL
    <3>1. UNCHANGED <<memory, disorder>> BY <1>7, <2>1, <2>3 DEF Pop
    <3> QED BY <1>1, <1>4, <2>2, <3>1, Untouched
  <2>4. CASE n # NULL
    <3>1. n \in Nodes /\ n \in InTree(tree) BY <2>1, <2>4, FirstIs
    <3>2. /\ tree' = Forget(RB_REMOVE(tree, n), n)
          /\ heap' = heap \ {n}
          /\ reminder_event' = [reminder_event EXCEPT ![n] = NULL]
          /\ disorder' = (disorder /\ RB_REMOVE(tree, n).root # NULL)
      BY <1>7, <2>1, <2>4 DEF Pop, Free, SettleDisorder
    <3>3. \A m \in Nodes \ {n} : reminder_event'[m] = reminder_event[m] BY <1>2, <3>2
    <3>4. reminder_event' \in [Nodes -> Reminders \cup {NULL}] BY <1>1 DEF RestOK
    <3>5. /\ Sound(tree', InTree(tree) \ {n}, Rank', disorder')
          /\ InTree(tree') = InTree(tree) \ {n}
          /\ \A m \in InTree(tree') : reminder_event'[m] # NULL
          /\ RB_REMOVE(tree, n).root = NULL <=> InTree(tree') = {}
      BY <2>2, <3>1, <3>2, <3>3, <3>4, TakenOut
    <3>6. Sound(tree', InTree(tree'), Rank', disorder') BY <3>5
    <3>7. InTree(tree') \subseteq heap' BY <1>3, <3>2, <3>5
    <3>8. disorder' => InTree(tree') # {} BY <3>2, <3>5
    <3> QED BY <1>1, <2>2, <3>5, <3>6, <3>7, <3>8, Again
  <2> QED BY <2>3, <2>4
<1>8. CASE Peek BY <1>1, <1>4, <1>8, Untouched DEF Peek
<1>9. ASSUME NEW r \in Reminders, Remove(r) PROVE IInv'
  <2>1. PICK n : n = RB_FIND(tree, Rank, Key(r)) OBVIOUS
  <2>2. /\ ~clearing /\ ~clearing' /\ UNCHANGED <<reminder_event, heap, timestamp>>
        /\ tree' = IF n = NULL THEN tree ELSE Forget(RB_REMOVE(tree, n), n)
        /\ disorder' = (disorder /\ tree'.root # NULL)
    BY <1>9, <2>1 DEF Remove, SettleDisorder
  <2>3. CASE n = NULL
    <3>1. UNCHANGED <<memory, disorder>>
      <4>1. UNCHANGED memory BY <2>2, <2>3 DEF memory
      <4>2. disorder' = disorder BY <1>4, <2>2, <2>3 DEF IInv, TypeOK
      <4> QED BY <4>1, <4>2
    <3> QED BY <1>1, <1>4, <2>2, <3>1, Untouched
  <2>4. CASE n # NULL
    <3>1. n \in Nodes /\ n \in InTree(tree) BY <1>9, <2>1, <2>4, FoundIs
    <3>2. tree' = Forget(RB_REMOVE(tree, n), n) BY <2>2, <2>4
    <3>3. PICK u : u = RB_REMOVE(tree, n) OBVIOUS
    <3>4. tree'.root = u.root BY <3>1, <3>2, <3>3, RootAfter
    <3>5. disorder' \in {disorder, disorder /\ RB_REMOVE(tree, n).root # NULL}
      BY <2>2, <3>3, <3>4
    <3>6. /\ Sound(tree', InTree(tree) \ {n}, Rank', disorder')
          /\ InTree(tree') = InTree(tree) \ {n}
          /\ \A m \in InTree(tree') : reminder_event'[m] # NULL
          /\ RB_REMOVE(tree, n).root = NULL <=> InTree(tree') = {}
      BY <1>2, <2>2, <3>1, <3>2, <3>5, TakenOut
    <3>7. Sound(tree', InTree(tree'), Rank', disorder') BY <3>6
    <3>8. InTree(tree') \subseteq heap' BY <1>3, <2>2, <3>6
    <3>9. disorder' => InTree(tree') # {} BY <2>2, <3>3, <3>4, <3>6
    <3> QED BY <1>1, <2>2, <3>6, <3>7, <3>8, <3>9, Again
  <2> QED BY <2>3, <2>4
<1>10. CASE Clear BY <1>1, <1>10, Untouched DEF Clear
<1>11. CASE ClearStep
  <2>1. PICK n : n = np OBVIOUS
  <2>2. n \in Nodes /\ n \in InTree(tree) /\ tree' = Forget(RB_REMOVE(tree, n), n)
    BY <1>11, <2>1, NextIs
  <2>3. /\ heap' = heap \ {n} /\ clearing'
        /\ reminder_event' = [reminder_event EXCEPT ![n] = NULL]
        /\ UNCHANGED <<timestamp, disorder>>
    BY <1>11, <2>1 DEF ClearStep, Free
  <2>4. \A m \in Nodes \ {n} : reminder_event'[m] = reminder_event[m] BY <1>2, <2>3
  <2>5. reminder_event' \in [Nodes -> Reminders \cup {NULL}] BY <1>1 DEF RestOK
  <2>6. /\ Sound(tree', InTree(tree) \ {n}, Rank', disorder')
        /\ InTree(tree') = InTree(tree) \ {n}
        /\ \A m \in InTree(tree') : reminder_event'[m] # NULL
    BY <2>2, <2>3, <2>4, <2>5, TakenOut
  <2>7. Sound(tree', InTree(tree'), Rank', disorder') BY <2>6
  <2>8. InTree(tree') \subseteq heap' BY <1>3, <2>3, <2>6
  <2>9. np' = RB_MIN(tree') BY <1>11, NextIs
  <2> QED BY <1>1, <2>3, <2>6, <2>7, <2>8, <2>9, Again
<1>12. CASE ClearEnd
  <2>1. /\ ~clearing' /\ UNCHANGED <<memory, timestamp>>
        /\ disorder' = (disorder /\ tree.root # NULL)
    BY <1>12 DEF ClearEnd, SettleDisorder
  <2>2. T = {} BY <1>3, <1>12, FirstIs DEF ClearEnd, IInv
  <2>3. ~disorder' BY <1>3, <2>1, <2>2
  <2>4. PICK t, rank, lost2 : t = tree /\ rank = Rank' /\ lost2 = disorder' OBVIOUS
  <2>5. rank \in [Nodes -> Int] BY <1>3, <2>1, <2>4 DEF memory, Rank, RankWith, Key
  <2>6. Sound(t, T, rank, lost2) BY <1>3, <2>2, <2>4, <2>5, SoundAgain
  <2>7. Sound(tree', T, Rank', disorder') BY <2>1, <2>4, <2>6 DEF memory
  <2> QED BY <1>1, <2>1, <2>2, <2>3, <2>7, Again
<1>13. ASSUME NEW r \in Reminders, NEW t \in Times, Retime(r, t) PROVE IInv'
  <2>1. /\ ~clearing /\ ~clearing' /\ UNCHANGED memory
        /\ timestamp' = [timestamp EXCEPT ![r] = t]
        /\ disorder' = (disorder \/ r \in Queued(tree))
    BY <1>13 DEF Retime
  <2>2. TypeOK'
    <3>1. UNCHANGED <<tree, reminder_event, heap>> BY <2>1 DEF memory
    <3>2. tree \in Trees BY DEF IInv, TypeOK
    <3> QED BY <1>1, <3>1, <3>2 DEF RestOK, TypeOK
  <2>3. PICK rank : rank = Rank' OBVIOUS
  <2>4. rank \in [Nodes -> Int]
    <3>1. /\ timestamp' \in [Reminders -> Nat]
          /\ reminder_event' \in [Nodes -> Reminders \cup {NULL}]
      BY <2>2 DEF TypeOK
    <3>2. \A s \in Reminders : Key(s)' \in Nat
      <4> TAKE s \in Reminders
      <4>1. PICK a, b : a = timestamp'[s] /\ b = CallbackOf[s] OBVIOUS
      <4>2. a \in Nat /\ b \in 0 .. MaxCallback /\ MaxCallback \in Nat
        BY <3>1, <4>1, ReminderAssumption
      <4>3. a * (MaxCallback + 1) \in Nat BY <4>2, ProductIsNat
      <4> QED BY <4>1, <4>2, <4>3 DEF Key
    <3>3. \A s \in Reminders : timestamp'[s] * (MaxCallback + 1) + CallbackOf[s] \in Int
      BY <3>2 DEF Key
    <3> QED BY <2>3, <3>1, <3>3 DEF Rank, RankWith, Key
  <2>5. ASSUME ~disorder' PROVE ~disorder /\ \A m \in T : rank[m] = Rank[m]
    <3>1. ~disorder /\ \A m \in T : reminder_event[m] # r BY <1>3, <2>1, <2>5
    <3>2. ASSUME NEW m \in T PROVE rank[m] = Rank[m]
      <4>1. PICK s \in Reminders : s = reminder_event[m] /\ s # r BY <1>3, <3>1
      <4>2. timestamp'[s] = timestamp[s] BY <2>1, <4>1 DEF IInv, TypeOK
      <4>3. m \in Nodes /\ s # NULL BY <1>3, ReminderAssumption
      <4>4. rank[m] = timestamp'[s] * (MaxCallback + 1) + CallbackOf[s]
        BY <2>1, <2>3, <4>1, <4>3 DEF Rank, RankWith, Key, memory
      <4> QED BY <1>3, <4>1, <4>2, <4>4 DEF Key
    <3> QED BY <3>1, <3>2
  <2>6. PICK lost2 : lost2 = disorder' OBVIOUS
  <2>7. Sound(tree, T, rank, lost2) BY <1>3, <2>4, <2>5, <2>6, SoundAgain
  <2>8. Sound(tree', T, Rank', disorder') BY <2>1, <2>3, <2>6, <2>7 DEF memory
  <2>9. T \subseteq heap' /\ \A n \in T : reminder_event'[n] # NULL
    BY <1>3, <2>1, ReminderAssumption DEF memory
  <2>10. disorder' => T # {} BY <1>3, <1>4, <2>1
  <2> QED BY <1>1, <2>1, <2>8, <2>9, <2>10, Again
<1>14. CASE UNCHANGED vars BY <1>1, <1>4, <1>14, Untouched DEF vars, IInv
<1> QED
  BY <1>5, <1>6, <1>7, <1>8, <1>9, <1>10, <1>11, <1>12, <1>13, <1>14 DEF Next

-----------------------------------------------------------------------------
(* The theorems. *)

(* The invariant holds in every reachable state: the tree is a red-black   *)
(* tree of allocated nodes through every rebalance (qtl_rqueue.c:65-117,   *)
(* adt_tree.h:407-595).                                                    *)
THEOREM Invariance == Spec => []IInv
<1>1. Init => IInv BY Initially
<1>2. IInv /\ [Next]_vars => IInv' BY Preserved
<1> QED BY <1>1, <1>2, PTL DEF Spec

(* No pointer of the tree leads to a node that was freed, not even between *)
(* two turns of the loop of clear (qtl_rqueue.c:98-105).                   *)
THEOREM NoneDangles == Spec => []NothingDangles
<1>1. ASSUME IInv PROVE NothingDangles
  <2>1. LinksAgree(tree) BY <1>1, SoundIs DEF IInv
  <2> QED BY <1>1, <2>1 DEF IInv, NothingDangles
<1> QED BY <1>1, Invariance, PTL

(* The tree is red and black as it should be (adt_tree.h:407-595), also    *)
(* when a change of time has lost its order.                               *)
THEOREM AlwaysBalanced == Spec => []Balanced
<1>1. ASSUME IInv PROVE Balanced BY <1>1, SoundIsBalanced DEF IInv, Balanced
<1> QED BY <1>1, Invariance, PTL

(* The tree is in order but for a change of time (qtl_rqueue.c:18-30).     *)
THEOREM InOrderUnlessRetimed == Spec => []OrderUnlessRetimed
<1>1. ASSUME IInv PROVE OrderUnlessRetimed
  <2>1. ~disorder => InOrder(tree, Rank) BY <1>1, SoundIs DEF IInv
  <2> QED BY <2>1 DEF OrderUnlessRetimed
<1> QED BY <1>1, Invariance, PTL

(* A step strands at most one node, and only these two calls do.           *)
LEMMA Strands ==
  ASSUME IInv, [Next]_vars, Stranded' # Stranded
  PROVE  /\ out'.op \in {"push", "remove"}
         /\ out'.op = "push" => RB_FIND(tree, Rank, Key(out'.item)) # NULL
         /\ \E n \in Nodes \ Stranded : Stranded' = Stranded \cup {n}
<1>1. PICK T, T2 : T = InTree(tree) /\ T2 = InTree(tree') OBVIOUS
<1>2. Stranded = heap \ T /\ Stranded' = heap' \ T2 /\ T \subseteq heap
  BY <1>1 DEF Stranded, IInv
<1>3. reminder_event \in [Nodes -> Reminders \cup {NULL}] BY DEF IInv, TypeOK
<1>4. RestOK' BY RestAgain
<1>5. ~UNCHANGED memory BY <1>1, <1>2 DEF memory
<1>6. ASSUME NEW r \in Reminders, NEW n \in Nodes, Push(r, n)
      PROVE  /\ out'.op = "push" /\ RB_FIND(tree, Rank, Key(out'.item)) # NULL
             /\ \E m \in Nodes \ Stranded : Stranded' = Stranded \cup {m}
  <2>1. Added(r, n, T, T2) BY <1>1, <1>4, <1>6, PushIs
  <2>2. n \notin heap /\ heap' = heap \cup {n} BY <1>6 DEF Push
  <2>3. out'.op = "push" /\ out'.item = r BY <1>6 DEF Push, Returned
  <2>4. T2 = T /\ RB_FIND(tree, Rank, Key(r)) # NULL BY <1>2, <2>1, <2>2 DEF Added
  <2>5. n \notin Stranded /\ Stranded' = Stranded \cup {n} BY <1>2, <2>2, <2>4
  <2> QED BY <2>3, <2>4, <2>5
<1>7. ASSUME NEW n \in InTree(tree), n \in Nodes, UNCHANGED timestamp,
             tree' = Forget(RB_REMOVE(tree, n), n),
             \A m \in Nodes \ {n} : reminder_event'[m] = reminder_event[m],
             disorder' \in {disorder, disorder /\ RB_REMOVE(tree, n).root # NULL}
      PROVE  T2 = T \ {n} /\ n \in T
  <2>1. reminder_event' \in [Nodes -> Reminders \cup {NULL}] BY <1>4 DEF RestOK
  <2> QED BY <1>1, <1>7, <2>1, TakenOut
<1>8. ~Pop
  <2> SUFFICES ASSUME Pop PROVE FALSE OBVIOUS
  <2>1. PICK n : n = RB_MIN(tree) OBVIOUS
  <2>2. n # NULL BY <1>5, <2>1 DEF Pop
  <2>3. n \in Nodes /\ n \in InTree(tree) BY <2>1, <2>2, FirstIs
  <2>4. /\ tree' = Forget(RB_REMOVE(tree, n), n)
        /\ heap' = heap \ {n}
        /\ reminder_event' = [reminder_event EXCEPT ![n] = NULL]
        /\ disorder' = (disorder /\ RB_REMOVE(tree, n).root # NULL)
        /\ UNCHANGED timestamp
    BY <2>1, <2>2 DEF Pop, Free, SettleDisorder
  <2>5. \A m \in Nodes \ {n} : reminder_event'[m] = reminder_event[m] BY <1>3, <2>4
  <2>6. T2 = T \ {n} /\ n \in T BY <1>7, <2>3, <2>4, <2>5
  <2> QED BY <1>2, <2>4, <2>6
<1>9. ~ClearStep
  <2> SUFFICES ASSUME ClearStep PROVE FALSE OBVIOUS
  <2>1. PICK n : n = np OBVIOUS
  <2>2. n \in Nodes /\ n \in InTree(tree) /\ tree' = Forget(RB_REMOVE(tree, n), n)
    BY <2>1, NextIs
  <2>3. /\ heap' = heap \ {n}
        /\ reminder_event' = [reminder_event EXCEPT ![n] = NULL]
        /\ UNCHANGED <<timestamp, disorder>>
    BY <2>1 DEF ClearStep, Free
  <2>4. \A m \in Nodes \ {n} : reminder_event'[m] = reminder_event[m] BY <1>3, <2>3
  <2>5. T2 = T \ {n} /\ n \in T BY <1>7, <2>2, <2>3, <2>4
  <2> QED BY <1>2, <2>3, <2>5
<1>10. ASSUME NEW r \in Reminders, Remove(r)
       PROVE  /\ out'.op = "remove"
              /\ \E m \in Nodes \ Stranded : Stranded' = Stranded \cup {m}
  <2>1. PICK n : n = RB_FIND(tree, Rank, Key(r)) OBVIOUS
  <2>2. /\ out'.op = "remove" /\ UNCHANGED <<reminder_event, heap, timestamp>>
        /\ tree' = IF n = NULL THEN tree ELSE Forget(RB_REMOVE(tree, n), n)
        /\ disorder' = (disorder /\ tree'.root # NULL)
    BY <1>10, <2>1 DEF Remove, SettleDisorder, Returned
  <2>3. n # NULL BY <1>5, <2>2 DEF memory
  <2>4. n \in Nodes /\ n \in InTree(tree) BY <1>10, <2>1, <2>3, FoundIs
  <2>5. disorder' \in {disorder, disorder /\ RB_REMOVE(tree, n).root # NULL}
    BY <2>1, <2>2, <2>3, <2>4, RootAfter
  <2>6. T2 = T \ {n} /\ n \in T BY <1>7, <2>2, <2>3, <2>4, <2>5
  <2>7. n \in Nodes \ Stranded /\ Stranded' = Stranded \cup {n} BY <1>2, <2>2, <2>4, <2>6
  <2> QED BY <2>2, <2>7
<1>11. \/ \E r \in Reminders, n \in Nodes : Push(r, n)
       \/ \E r \in Reminders : Remove(r)
  BY <1>5, <1>8, <1>9 DEF Next, vars, PushFails, Peek, Clear, ClearEnd, Retime
<1>12. CASE \E r \in Reminders, n \in Nodes : Push(r, n) BY <1>6, <1>12
<1>13. CASE \E r \in Reminders : Remove(r) BY <1>10, <1>13
<1> QED BY <1>11, <1>12, <1>13

(* Memory is lost by a push of a reminder with the time and callback of    *)
(* one in the queue and by a remove that finds its node, one node each     *)
(* time, and never found again (qtl_rqueue.c:65-71, 112-114).              *)
THEOREM LeaksNowhereElse == Spec => LeaksOnlyThere
<1>1. ASSUME IInv, [Next]_vars, Stranded' # Stranded
      PROVE  /\ out'.op \in {"push", "remove"}
             /\ Stranded \subseteq Stranded'
             /\ Cardinality(Stranded') = Cardinality(Stranded) + 1
             /\ out'.op = "push" => RB_FIND(tree, Rank, Key(out'.item)) # NULL
  <2>1. IsFiniteSet(Stranded)
    <3>1. Stranded \subseteq Nodes BY <1>1 DEF IInv, TypeOK, Stranded
    <3> QED BY <3>1, NodeAssumption, FS_Subset
  <2>2. PICK n \in Nodes \ Stranded : Stranded' = Stranded \cup {n} BY <1>1, Strands
  <2>3. Cardinality(Stranded') = Cardinality(Stranded) + 1 BY <2>1, <2>2, FS_AddElement
  <2> QED BY <1>1, <2>2, <2>3, Strands
<1>2. IInv /\ [Next]_vars =>
        [Stranded' # Stranded =>
          /\ out'.op \in {"push", "remove"}
          /\ Stranded \subseteq Stranded'
          /\ Cardinality(Stranded') = Cardinality(Stranded) + 1
          /\ out'.op = "push" => RB_FIND(tree, Rank, Key(out'.item)) # NULL]_vars
  BY <1>1
<1> QED BY <1>2, Invariance, PTL DEF Spec, LeaksOnlyThere

-----------------------------------------------------------------------------
(* The queue implements ReminderSet. *)

(* What is left in the queue when a node is taken out: all but its         *)
(* reminder; unless a change of time let it be pushed twice.               *)
LEMMA LeftIs ==
  ASSUME IInv, NEW n \in InTree(tree), InTree(tree') = InTree(tree) \ {n},
         \A m \in InTree(tree') : reminder_event'[m] = reminder_event[m],
         NEW Q, Q = Queued(tree), NEW Q2, Q2 = Queued(tree)'
  PROVE  /\ reminder_event[n] \in Q /\ reminder_event[n] \in Reminders
         /\ Q2 = Q \ {reminder_event[n]} \/ (disorder /\ Q2 = Q)
         /\ Q2 = {} <=> InTree(tree') = {}
<1>1. PICK T : /\ InTree(tree) = T /\ \A m \in T : reminder_event[m] \in Reminders
               /\ Queued(tree) = {reminder_event[m] : m \in T}
  BY QueueIs
<1>2. PICK T2 : T2 = InTree(tree') OBVIOUS
<1>3. Q2 = {reminder_event[m] : m \in T2}
  <2>1. Q2 = {reminder_event'[m] : m \in T2} BY <1>2 DEF Queued
  <2> QED BY <1>2, <2>1
<1>4. n \in T /\ T2 = T \ {n} BY <1>1, <1>2
<1>5. PICK r \in Reminders : r = reminder_event[n] BY <1>1, <1>4
<1>6. r \in Q BY <1>1, <1>4, <1>5
<1>7. ASSUME ~disorder PROVE \A m \in T2 : reminder_event[m] # r
  <2>1. \A x, y \in T : reminder_event[x] = reminder_event[y] => x = y
    BY <1>1, <1>7, FoundIs
  <2> QED BY <1>4, <1>5, <2>1
<1>8. Q2 = {} <=> T2 = {} BY <1>3
<1>9. Q2 = Q \ {r} \/ (disorder /\ Q2 = Q)
  <2>1. CASE r \in Q2
    <3>1. disorder BY <1>3, <1>7, <2>1
    <3>2. Q2 = Q BY <1>1, <1>3, <1>4, <1>5, <2>1
    <3> QED BY <3>1, <3>2
  <2>2. CASE r \notin Q2
    <3>1. Q2 = Q \ {r} BY <1>1, <1>3, <1>4, <1>5, <2>2
    <3> QED BY <3>1
  <2> QED BY <2>1, <2>2
<1> QED BY <1>2, <1>5, <1>6, <1>8, <1>9

(* The reminder of the first node may be the next, by ReminderSet.         *)
LEMMA FirstMayBeNext ==
  ASSUME IInv, ~clearing, NEW n, n = RB_MIN(tree), n # NULL
  PROVE  Set!MayBeNext(reminder_event[n])
<1>1. PICK T : /\ Sound(tree, T, Rank, disorder) /\ InTree(tree) = T
               /\ \A m \in T : reminder_event[m] \in Reminders /\ Rank[m] = Key(reminder_event[m])
               /\ Queued(tree) = {reminder_event[m] : m \in T}
  BY QueueIs
<1>2. n \in T BY <1>1, FirstIs
<1>3. PICK r \in Reminders : r = reminder_event[n] /\ Rank[n] = Key(r) BY <1>1, <1>2
<1>4. r \in Queued(tree) BY <1>1, <1>2, <1>3
<1>5. ASSUME ~disorder, NEW s \in Queued(tree) \ {r} PROVE Set!Precedes(r, s)
  <2>1. PICK m \in T : m # n /\ s = reminder_event[m] BY <1>1, <1>3, <1>5
  <2>2. Rank[n] < Rank[m] BY <1>1, <1>5, <2>1, SoundIs
  <2>3. s \in Reminders /\ Key(r) < Key(s) BY <1>1, <1>3, <2>1, <2>2
  <2> QED BY <2>3, KeyIs DEF IInv
<1> QED BY <1>3, <1>4, <1>5 DEF Set!MayBeNext

LEMMA NoneQueued == ASSUME IInv PROVE Queued(tree) = {} <=> RB_MIN(tree) = NULL
<1>1. PICK T : InTree(tree) = T /\ Queued(tree) = {reminder_event[m] : m \in T} BY QueueIs
<1>2. RB_MIN(tree) = NULL <=> T = {} BY <1>1, FirstIs
<1> QED BY <1>1, <1>2

(* The first state and each step are those of the abstract set. *)
LEMMA InitSets == ASSUME Init PROVE Set!Init
<1>1. IInv BY Initially
<1>2. RB_MIN(tree) = NULL BY DEF Init, RB_INIT, RB_MIN, RB_MINMAX
<1>3. Queued(tree) = {} BY <1>1, <1>2, NoneQueued
<1> QED BY <1>3 DEF Init, Returned, Set!Init, Set!Returned

LEMMA PushSets ==
  ASSUME IInv, [Next]_vars, NEW r \in Reminders, NEW n \in Nodes, Push(r, n)
  PROVE  Set!Push(r)
<1>1. PICK T : /\ InTree(tree) = T
               /\ \A m \in T : reminder_event[m] \in Reminders
               /\ Queued(tree) = {reminder_event[m] : m \in T}
  BY QueueIs
<1>2. PICK T2 : T2 = InTree(tree') OBVIOUS
<1>3. PICK Q, Q2 : Q = Queued(tree) /\ Q2 = Queued(tree)' OBVIOUS
<1>4. Added(r, n, T, T2) BY <1>1, <1>2, RestAgain, PushIs
<1>5. /\ ~clearing /\ ~clearing' /\ UNCHANGED <<timestamp, disorder>>
      /\ reminder_event' = [reminder_event EXCEPT ![n] = r]
      /\ \E ok \in BOOLEAN : out' = Returned("push", ok, r)
  BY DEF Push
<1>6. Q2 = {reminder_event'[m] : m \in T2} BY <1>2, <1>3 DEF Queued
<1>7. reminder_event \in [Nodes -> Reminders \cup {NULL}] /\ T \subseteq Nodes
  BY <1>1, QueueIs DEF IInv, TypeOK
<1>8. reminder_event'[n] = r /\ \A m \in T : reminder_event'[m] = reminder_event[m]
  BY <1>4, <1>5, <1>7 DEF Added
<1>9. PICK k : k = RB_FIND(tree, Rank, Key(r)) OBVIOUS
<1>10. CASE k # NULL
  <2>1. Q2 = Q
    <3>1. T2 = T BY <1>4, <1>9, <1>10 DEF Added
    <3> QED BY <1>1, <1>3, <1>6, <1>8, <3>1
  <2>2. \E s \in Q : Set!SameKey(r, s)
    <3>1. k \in T /\ Set!SameKey(r, reminder_event[k]) BY <1>1, <1>9, <1>10, FoundIs
    <3> QED BY <1>1, <1>3, <3>1
  <2>3. /\ Q2 \in {Q, Q \cup {r}}
        /\ Q2 = IF \E s \in Q : Set!SameKey(r, s) THEN Q ELSE Q \cup {r}
    BY <2>1, <2>2
  <2> QED BY <1>3, <1>5, <2>3 DEF Set!Push, Set!Returned, Returned
<1>11. CASE k = NULL
  <2>1. Q2 = Q \cup {r}
    <3>1. T2 = T \cup {n} BY <1>4, <1>9, <1>11 DEF Added
    <3> QED BY <1>1, <1>3, <1>6, <1>8, <3>1
  <2>2. ~disorder => ~\E s \in Q : Set!SameKey(r, s) BY <1>3, <1>9, <1>11, FoundIs
  <2>3. /\ Q2 \in {Q, Q \cup {r}}
        /\ ~disorder => Q2 = IF \E s \in Q : Set!SameKey(r, s) THEN Q ELSE Q \cup {r}
    BY <2>1, <2>2
  <2> QED BY <1>3, <1>5, <2>3 DEF Set!Push, Set!Returned, Returned
<1> QED BY <1>10, <1>11

LEMMA PopSets ==
  ASSUME IInv, [Next]_vars, Pop
  PROVE  Set!Next
<1>1. PICK n : n = RB_MIN(tree) OBVIOUS
<1>2. PICK Q, Q2 : Q = Queued(tree) /\ Q2 = Queued(tree)' OBVIOUS
<1>3. ~clearing /\ ~clearing' /\ UNCHANGED timestamp BY DEF Pop
<1>4. CASE n = NULL
  <2>1. /\ out' = Returned("pop", FALSE, NULL)
        /\ UNCHANGED <<tree, reminder_event, disorder>>
    BY <1>1, <1>4 DEF Pop, memory
  <2>2. Q = {} /\ Q2 = {} BY <1>1, <1>2, <1>4, <2>1, NoneQueued DEF Queued
  <2>3. Set!PopNone
    BY <1>2, <1>3, <2>1, <2>2 DEF Set!PopNone, Set!Returned, Returned
  <2> QED BY <2>3 DEF Set!Next
<1>5. CASE n # NULL
  <2>1. n \in Nodes /\ n \in InTree(tree) BY <1>1, <1>5, FirstIs
  <2>2. /\ tree' = Forget(RB_REMOVE(tree, n), n)
        /\ reminder_event' = [reminder_event EXCEPT ![n] = NULL]
        /\ disorder' = (disorder /\ RB_REMOVE(tree, n).root # NULL)
        /\ out' = Returned("pop", TRUE, reminder_event[n])
    BY <1>1, <1>5 DEF Pop, Free, SettleDisorder
  <2>3. \A m \in Nodes \ {n} : reminder_event'[m] = reminder_event[m]
    BY <2>2 DEF IInv, TypeOK
  <2>4. reminder_event' \in [Nodes -> Reminders \cup {NULL}] BY RestAgain DEF RestOK
  <2>5. /\ InTree(tree') = InTree(tree) \ {n}
        /\ RB_REMOVE(tree, n).root = NULL <=> InTree(tree') = {}
    BY <1>3, <2>1, <2>2, <2>3, <2>4, TakenOut
  <2>6. \A m \in InTree(tree') : reminder_event'[m] = reminder_event[m]
    <3>1. InTree(tree) \subseteq Nodes BY QueueIs
    <3> QED BY <2>3, <2>5, <3>1
  <2>7. PICK r : r = reminder_event[n] OBVIOUS
  <2>8. /\ r \in Reminders
        /\ Q2 = Q \ {r} \/ (disorder /\ Q2 = Q)
        /\ Q2 = {} <=> InTree(tree') = {}
    BY <1>2, <2>1, <2>5, <2>6, <2>7, LeftIs
  <2>9. Set!MayBeNext(r) BY <1>1, <1>3, <1>5, <2>7, FirstMayBeNext
  <2>10. disorder' = (disorder /\ Q2 # {}) BY <2>2, <2>5, <2>8
  <2>11. Set!Pop(r)
    BY <1>2, <1>3, <2>2, <2>7, <2>8, <2>9, <2>10
       DEF Set!Pop, Set!Settle, Set!Returned, Returned
  <2> QED BY <2>8, <2>11 DEF Set!Next
<1> QED BY <1>4, <1>5

LEMMA PeekSets ==
  ASSUME IInv, Peek
  PROVE  Set!Next
<1>1. PICK n : n = RB_MIN(tree) OBVIOUS
<1>2. PICK Q, Q2 : Q = Queued(tree) /\ Q2 = Queued(tree)' OBVIOUS
<1>3. /\ ~clearing /\ ~clearing' /\ Q2 = Q
      /\ UNCHANGED <<timestamp, disorder>>
  BY <1>2 DEF Peek, memory, Queued
<1>4. CASE n = NULL
  <2>1. out' = Returned("peek", FALSE, NULL) BY <1>1, <1>4 DEF Peek
  <2>2. Q = {} BY <1>1, <1>2, <1>4, NoneQueued
  <2>3. Set!PopNone
    BY <1>2, <1>3, <2>1, <2>2 DEF Set!PopNone, Set!Returned, Returned
  <2> QED BY <2>3 DEF Set!Next
<1>5. CASE n # NULL
  <2>1. PICK r \in Reminders : r = reminder_event[n] BY <1>1, <1>5, FirstIs
  <2>2. out' = Returned("peek", TRUE, r) BY <1>1, <1>5, <2>1 DEF Peek
  <2>3. Set!MayBeNext(r) BY <1>1, <1>3, <1>5, <2>1, FirstMayBeNext
  <2>4. Set!Peek(r) BY <1>2, <1>3, <2>2, <2>3 DEF Set!Peek, Set!Returned, Returned
  <2> QED BY <2>4 DEF Set!Next
<1> QED BY <1>4, <1>5

LEMMA RemoveSets ==
  ASSUME IInv, [Next]_vars, NEW r \in Reminders, Remove(r)
  PROVE  Set!Next
<1>1. PICK n : n = RB_FIND(tree, Rank, Key(r)) OBVIOUS
<1>2. PICK Q, Q2 : Q = Queued(tree) /\ Q2 = Queued(tree)' OBVIOUS
<1>3. /\ ~clearing /\ ~clearing' /\ UNCHANGED <<reminder_event, timestamp>>
      /\ out' = Returned("remove", n # NULL, r)
      /\ tree' = IF n = NULL THEN tree ELSE Forget(RB_REMOVE(tree, n), n)
      /\ disorder' = (disorder /\ tree'.root # NULL)
  BY <1>1 DEF Remove, SettleDisorder
<1>4. CASE n = NULL
  <2>1. UNCHANGED <<tree, disorder>> BY <1>3, <1>4 DEF IInv, TypeOK
  <2>2. Q2 = Q BY <1>2, <1>3, <2>1 DEF Queued
  <2>3. ~disorder => \A s \in Q : ~Set!SameKey(r, s) BY <1>1, <1>2, <1>4, FoundIs
  <2>4. out' = Returned("remove", FALSE, r) BY <1>3, <1>4
  <2>5. Set!RemoveNone(r)
    <3>1. ~clearing /\ ~clearing' /\ UNCHANGED <<timestamp, disorder>> BY <1>3, <2>1
    <3>2. out' = [op |-> "remove", ok |-> FALSE, item |-> r] BY <2>4 DEF Returned
    <3>3. disorder \/ \A s \in Q : ~Set!SameKey(r, s) BY <2>3
    <3> QED BY <1>2, <2>2, <3>1, <3>2, <3>3 DEF Set!RemoveNone, Set!Returned
  <2> QED BY <2>5 DEF Set!Next
<1>5. CASE n # NULL
  <2>1. n \in Nodes /\ n \in InTree(tree) BY <1>1, <1>5, FoundIs
  <2>2. tree' = Forget(RB_REMOVE(tree, n), n) BY <1>3, <1>5
  <2>3. tree'.root = RB_REMOVE(tree, n).root BY <2>1, <2>2, RootAfter
  <2>4. disorder' \in {disorder, disorder /\ RB_REMOVE(tree, n).root # NULL} BY <1>3, <2>3
  <2>5. reminder_event' \in [Nodes -> Reminders \cup {NULL}] BY RestAgain DEF RestOK
  <2>6. \A m \in Nodes \ {n} : reminder_event'[m] = reminder_event[m] BY <1>3
  <2>7. /\ InTree(tree') = InTree(tree) \ {n}
        /\ RB_REMOVE(tree, n).root = NULL <=> InTree(tree') = {}
    BY <1>3, <2>1, <2>2, <2>4, <2>5, <2>6, TakenOut
  <2>8. \A m \in InTree(tree') : reminder_event'[m] = reminder_event[m] BY <1>3
  <2>9. PICK s : s = reminder_event[n] OBVIOUS
  <2>10. /\ s \in Q
         /\ Q2 = Q \ {s} \/ (disorder /\ Q2 = Q)
         /\ Q2 = {} <=> InTree(tree') = {}
    BY <1>2, <2>1, <2>7, <2>8, <2>9, LeftIs
  <2>11. Set!SameKey(r, s) BY <1>1, <1>5, <2>9, FoundIs
  <2>12. disorder' = (disorder /\ Q2 # {}) BY <1>3, <2>3, <2>7, <2>10
  <2>13. out' = Returned("remove", TRUE, r) BY <1>3, <1>5
  <2>14. Set!Remove(r)
    <3>1. ~clearing /\ ~clearing' /\ UNCHANGED timestamp BY <1>3
    <3>2. out' = [op |-> "remove", ok |-> TRUE, item |-> r] BY <2>13 DEF Returned
    <3> QED BY <1>2, <2>10, <2>11, <2>12, <3>1, <3>2 DEF Set!Remove, Set!Settle, Set!Returned
  <2> QED BY <2>14 DEF Set!Next
<1> QED BY <1>4, <1>5

(* Where a reminder is given another time while it is in the queue, both   *)
(* are disordered.                                                         *)
LEMMA RetimeSets ==
  ASSUME NEW r \in Reminders, NEW t \in Times, Retime(r, t)
  PROVE  Set!Next
<1>1. /\ ~clearing /\ ~clearing' /\ UNCHANGED <<memory, out>>
      /\ timestamp' = [timestamp EXCEPT ![r] = t]
      /\ disorder' = (disorder \/ r \in Queued(tree))
  BY DEF Retime
<1>2. Queued(tree)' = Queued(tree) BY <1>1 DEF Queued, memory
<1>3. Set!Retime(r, t) BY <1>1, <1>2 DEF Set!Retime
<1> QED BY <1>3 DEF Set!Next

(* Clearing happens when it begins; the rest of it is not seen.            *)
LEMMA ClearSets ==
  /\ Clear => Set!Clear
  /\ ClearStep => UNCHANGED Set!vars
  /\ IInv /\ ClearEnd => UNCHANGED Set!vars
<1>1. Clear => Set!Clear BY DEF Clear, Set!Clear, Set!Returned, Returned
<1>2. ClearStep => UNCHANGED Set!vars
  <2> SUFFICES ASSUME ClearStep PROVE UNCHANGED Set!vars OBVIOUS
  <2>1. clearing /\ clearing' /\ UNCHANGED timestamp BY DEF ClearStep
  <2> QED BY <2>1 DEF Set!vars
<1>3. IInv /\ ClearEnd => UNCHANGED Set!vars
  <2> SUFFICES ASSUME IInv, ClearEnd PROVE UNCHANGED Set!vars OBVIOUS
  <2>1. /\ clearing /\ ~clearing' /\ UNCHANGED <<memory, timestamp>>
        /\ out' = Returned("clear", TRUE, NULL)
        /\ disorder' = (disorder /\ tree.root # NULL)
    BY DEF ClearEnd, SettleDisorder
  <2>2. RB_MIN(tree) = NULL BY DEF ClearEnd, IInv
  <2>3. Queued(tree)' = {} BY <2>1, <2>2, NoneQueued DEF Queued, memory
  <2>4. ~disorder' BY <2>1, <2>2, FirstIs, QueueIs
  <2>5. out'.op # "nomem" BY <2>1 DEF Returned
  <2> QED BY <2>1, <2>3, <2>4, <2>5 DEF Set!vars
<1> QED BY <1>1, <1>2, <1>3

(* The queue is the set of reminders that ReminderSet promises: each call, *)
(* with every rebalance of the tree in it, is a step of that, and gives    *)
(* the same answer (qtl_rqueue.c:65-117).                                  *)
THEOREM Implements == Spec => ImplementsSet
<1>1. Init => Set!Init BY InitSets
<1>2. IInv /\ [Next]_vars => [Set!Next]_Set!vars
  <2> SUFFICES ASSUME IInv, [Next]_vars PROVE [Set!Next]_Set!vars OBVIOUS
  <2>1. CASE \E r \in Reminders, n \in Nodes : Push(r, n) BY <2>1, PushSets DEF Set!Next
  <2>2. ASSUME NEW r \in Reminders, PushFails(r) PROVE Set!PushFails(r)
    <3>1. Queued(tree)' = Queued(tree) BY <2>2 DEF PushFails, memory, Queued
    <3> QED BY <2>2, <3>1 DEF PushFails, Returned, Set!PushFails, Set!Returned
  <2>3. CASE \E r \in Reminders : PushFails(r) BY <2>2, <2>3 DEF Set!Next
  <2>4. CASE Pop BY <2>4, PopSets
  <2>5. CASE Peek BY <2>5, PeekSets
  <2>6. CASE \E r \in Reminders : Remove(r) BY <2>6, RemoveSets
  <2>7. CASE Clear BY <2>7, ClearSets DEF Set!Next
  <2>8. CASE ClearStep BY <2>8, ClearSets
  <2>9. CASE ClearEnd BY <2>9, ClearSets
  <2>10. CASE \E r \in Reminders, t \in Times : Retime(r, t) BY <2>10, RetimeSets
  <2>11. CASE UNCHANGED vars
    <3>1. Queued(tree)' = Queued(tree) BY <2>11 DEF vars, memory, Queued
    <3> QED BY <2>11, <3>1 DEF vars, Set!vars
  <2> QED
    BY <2>1, <2>3, <2>4, <2>5, <2>6, <2>7, <2>8, <2>9, <2>10, <2>11 DEF Next
<1> QED BY <1>1, <1>2, Invariance, PTL DEF Spec, ImplementsSet, Set!Spec

=============================================================================
