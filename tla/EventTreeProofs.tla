-------------------------- MODULE EventTreeProofs --------------------------
(***************************************************************************)
(* The event tree of qtl_etree.c is sound for any number of queues: it     *)
(* loses none, serves none twice, hands out the oldest event there is, and *)
(* never follows a bad pointer but one that the memory of a new node held. *)
(*                                                                         *)
(* The invariant knows what the pointers do not say: M, the queues that    *)
(* are to be served; T, the newest of each key, which hang in the tree;    *)
(* lo and hi, the bounds of the keys below a node, and up, its parent; and *)
(* pos, the turn of a queue among those of its key.  A loop that goes down *)
(* the tree or along a list is the sequence of its states; it settles, as  *)
(* each turn brings it closer to an end.                                   *)
(***************************************************************************)
EXTENDS EventTree, FiniteSetTheorems, SequenceTheorems, WellFoundedInduction, TLAPS
-----------------------------------------------------------------------------
(* Loops. *)

(* A set of numbers has a smallest one. *)
LEMMA SmallestOf ==
  ASSUME NEW N \in Nat, NEW B \in SUBSET (0 .. N), B # {}
  PROVE  \E m \in B : \A k \in B : m <= k
<1> DEFINE F == {1 .. k : k \in B}
<1>1. IsWellFoundedOn(StrictSubsetOrdering(1 .. N), FiniteSubsetsOf(1 .. N))
  BY FS_StrictSubsetOrderingWellFounded
<1>2. F \subseteq FiniteSubsetsOf(1 .. N)
  <2>1. \A k \in B : 1 .. k \in FiniteSubsetsOf(1 .. N)
    <3>1. TAKE k \in B
    <3>2. IsFiniteSet(1 .. k) BY FS_Interval
    <3>3. 1 .. k \subseteq 1 .. N OBVIOUS
    <3> QED BY <3>2, <3>3 DEF FiniteSubsetsOf
  <2> QED BY <2>1
<1>3. F # {} OBVIOUS
<1>4. PICK f \in F : \A g \in F : ~(<<g, f>> \in StrictSubsetOrdering(1 .. N))
  <2> HIDE DEF F
  <2> QED BY <1>1, <1>2, <1>3, WFMin
<1>5. PICK m \in B : f = 1 .. m BY <1>4
<1>6. \A k \in B : m <= k
  <2>1. TAKE k \in B
  <2>2. SUFFICES ASSUME k < m PROVE FALSE OBVIOUS
  <2>3. 1 .. k \subseteq 1 .. m /\ m \in 1 .. m /\ m \notin 1 .. k BY <2>2
  <2>4. 1 .. k \subseteq 1 .. N /\ 1 .. m \subseteq 1 .. N OBVIOUS
  <2>5. <<1 .. k, 1 .. m>> \in StrictSubsetOrdering(1 .. N)
    BY <2>3, <2>4 DEF StrictSubsetOrdering
  <2> QED BY <2>5, <1>4, <1>5
<1> QED BY <1>6

(* What holds at first and is kept by every turn holds after each of N. *)
LEMMA TurnByTurn ==
  ASSUME NEW N \in Nat, NEW G, 0 \in G,
         \A d \in Nat : d < N /\ d \in G => d + 1 \in G
  PROVE  \A d \in 0 .. N : d \in G
<1> DEFINE B == {d \in 0 .. N : d \notin G}
<1>1. SUFFICES ASSUME B # {} PROVE FALSE OBVIOUS
<1>2. PICK m \in B : \A k \in B : m <= k
  <2>1. B \in SUBSET (0 .. N) OBVIOUS
  <2> HIDE DEF B
  <2> QED BY <1>1, <2>1, SmallestOf
<1>3. m # 0 BY <1>2
<1>4. m - 1 \in Nat /\ m - 1 < N BY <1>2, <1>3
<1>5. m - 1 \in G BY <1>2, <1>4
<1>6. (m - 1) + 1 \in G BY <1>4, <1>5
<1> QED BY <1>2, <1>6

(* The states of a loop, h, over so many turns g from its first state. *)
Runs(h, k, S, g, first) ==
    /\ h \in [0 .. k -> S]
    /\ h[0] = first
    /\ \A d \in Nat : d < k => h[d + 1] = g[h[d]]

(* A loop has a state after each turn ... *)
LEMMA StatesOfALoop ==
  ASSUME NEW N \in Nat, NEW S, NEW g \in [S -> S], NEW first \in S
  PROVE  \E h : Runs(h, N, S, g, first)
<1> DEFINE G == {k \in 0 .. N : \E h : Runs(h, k, S, g, first)}
<1>1. 0 \in G
  <2>1. Runs([d \in 0 .. 0 |-> first], 0, S, g, first) BY DEF Runs
  <2> QED BY <2>1
<1>2. ASSUME NEW k \in Nat, k < N, k \in G
      PROVE  k + 1 \in G
  <2>1. PICK h : Runs(h, k, S, g, first) BY <1>2
  <2> DEFINE more == [d \in 0 .. k + 1 |-> IF d <= k THEN h[d] ELSE g[h[k]]]
  <2>2. h[k] \in S /\ g[h[k]] \in S BY <2>1 DEF Runs
  <2>3. more \in [0 .. k + 1 -> S] BY <2>1, <2>2 DEF Runs
  <2>4. more[0] = first BY <2>1 DEF Runs
  <2>5. ASSUME NEW d \in Nat, d < k + 1
        PROVE  more[d + 1] = g[more[d]]
    <3>1. more[d] = h[d] BY <2>5
    <3>2. CASE d < k BY <3>1, <3>2, <2>1 DEF Runs
    <3>3. CASE d = k BY <3>1, <3>3
    <3> QED BY <3>2, <3>3, <2>5
  <2>6. Runs(more, k + 1, S, g, first) BY <2>3, <2>4, <2>5 DEF Runs
  <2>7. k + 1 \in 0 .. N BY <1>2
  <2> QED BY <2>6, <2>7
<1>3. N \in G
  <2> HIDE DEF G
  <2>1. \A d \in 0 .. N : d \in G BY <1>1, <1>2, TurnByTurn
  <2> QED BY <2>1
<1> QED BY <1>3

(* ... which is what the definition of a loop as a function says. *)
LEMMA LoopRuns ==
  ASSUME NEW N \in Nat, NEW S, NEW g \in [S -> S], NEW first \in S,
         NEW f,
         f = CHOOSE h : h = [d \in 0 .. N |-> IF d = 0 THEN first ELSE g[h[d - 1]]]
  PROVE  Runs(f, N, S, g, first)
<1> DEFINE IsLoop(h) == h = [d \in 0 .. N |-> IF d = 0 THEN first ELSE g[h[d - 1]]]
<1>1. PICK h : Runs(h, N, S, g, first) BY StatesOfALoop
<1>2. IsLoop(h)
  <2>1. \A d \in 0 .. N : h[d] = IF d = 0 THEN first ELSE g[h[d - 1]]
    <3>1. TAKE d \in 0 .. N
    <3>2. CASE d = 0 BY <3>2, <1>1 DEF Runs
    <3>3. CASE d # 0
      <4>1. d - 1 \in Nat /\ d - 1 < N BY <3>3
      <4>2. h[(d - 1) + 1] = g[h[d - 1]] BY <4>1, <1>1 DEF Runs
      <4> QED BY <4>2, <3>3
    <3> QED BY <3>2, <3>3
  <2>2. h \in [0 .. N -> S] BY <1>1 DEF Runs
  <2> QED BY <2>1, <2>2
<1>3. f = CHOOSE x : IsLoop(x) OBVIOUS
<1>4. IsLoop(f)
  <2> HIDE DEF IsLoop
  <2> QED BY <1>2, <1>3
<1>9. \A e \in 0 .. N : f[e] = IF e = 0 THEN first ELSE g[f[e - 1]] BY <1>4
<1>5. f[0] = first
  <2>1. 0 \in 0 .. N OBVIOUS
  <2> QED BY <2>1, <1>9
<1>6. ASSUME NEW d \in Nat, d < N
      PROVE  f[d + 1] = g[f[d]]
  <2>1. d + 1 \in 0 .. N /\ d + 1 # 0 /\ (d + 1) - 1 = d BY <1>6
  <2> QED BY <2>1, <1>9
<1>7. \A d \in 0 .. N : f[d] \in S
  <2> DEFINE G == {d \in 0 .. N : f[d] \in S}
  <2>1. 0 \in G BY <1>5
  <2>2. \A d \in Nat : d < N /\ d \in G => d + 1 \in G BY <1>6
  <2> HIDE DEF G
  <2>3. \A d \in 0 .. N : d \in G BY <2>1, <2>2, TurnByTurn
  <2> QED BY <2>3 DEF G
<1>8. f \in [0 .. N -> S] BY <1>4, <1>7
<1> QED BY <1>5, <1>6, <1>8 DEF Runs

(* A loop whose every turn either changes nothing or comes nearer to zero  *)
(* has come to rest after as many turns as it was away from zero, and what *)
(* it keeps is true there.                                                 *)
LEMMA LoopSettles ==
  ASSUME NEW N \in Nat, NEW S, NEW g \in [S -> S], NEW first \in S,
         NEW f, Runs(f, N, S, g, first),
         NEW Good \in SUBSET S, first \in Good,
         NEW size \in [S -> Nat], size[first] <= N,
         \A s \in Good : g[s] \in Good /\ (g[s] = s \/ size[g[s]] < size[s])
  PROVE  f[N] \in Good /\ g[f[N]] = f[N]
<1> DEFINE G == {d \in 0 .. N : f[d] \in Good /\ (g[f[d]] = f[d] \/ size[f[d]] + d <= N)}
<1>1. 0 \in G BY DEF Runs
<1>2. ASSUME NEW d \in Nat, d < N, d \in G
      PROVE  d + 1 \in G
  <2>1. d + 1 \in 0 .. N /\ f[d + 1] = g[f[d]] /\ f[d + 1] \in Good BY <1>2 DEF Runs
  <2>2. f[d] \in Good BY <1>2
  <2>3. size[f[d]] \in Nat /\ size[f[d + 1]] \in Nat BY <2>1, <2>2
  <2>4. CASE g[f[d]] = f[d] BY <2>4, <2>1
  <2>5. CASE g[f[d]] # f[d]
    <3>1. size[f[d]] + d <= N BY <2>5, <1>2
    <3>2. size[f[d + 1]] < size[f[d]] BY <2>5, <2>1, <2>2
    <3>3. size[f[d + 1]] + (d + 1) <= N BY <3>1, <3>2, <2>3
    <3> QED BY <3>3, <2>1
  <2> QED BY <2>4, <2>5
<1>3. N \in G
  <2> HIDE DEF G
  <2>1. \A d \in 0 .. N : d \in G BY <1>1, <1>2, TurnByTurn
  <2> QED BY <2>1
<1>4. f[N] \in Good BY <1>3
<1>5. ASSUME g[f[N]] # f[N]
      PROVE  FALSE
  <2>1. size[f[N]] + N <= N BY <1>3, <1>5
  <2>2. size[f[N]] \in Nat /\ size[g[f[N]]] \in Nat BY <1>4
  <2>3. size[g[f[N]]] < size[f[N]] BY <1>4, <1>5
  <2> QED BY <2>1, <2>2, <2>3
<1> QED BY <1>4, <1>5
-----------------------------------------------------------------------------
(* The pointers of a tree. *)

Key(n, q) == n[q].timestamp

(* k lies below the bound h, -1 being none; k lies between two bounds. *)
Beneath(k, h) == h = -1 \/ k < h
Within(k, l, h) == l < k /\ Beneath(k, h)

(* The nodes between the bounds of p. *)
Below(n, T, lo, hi, p) == {q \in T : Within(Key(n, q), lo[p], hi[p])}

Bounded(n, T, lo, hi) ==
    /\ \A p \in T : lo[p] >= -1 /\ Within(Key(n, p), lo[p], hi[p])
    /\ \A p, q \in T : Key(n, p) = Key(n, q) => p = q

Rooted(r, T, lo, hi, up) ==
    /\ r \in Pointers
    /\ IF IsNode(r) THEN r \in T /\ lo[r] = -1 /\ hi[r] = -1 /\ up[r] = NULL ELSE T = {}

LeftOf(n, T, lo, hi, up) ==
    \A p \in T :
        IF IsNode(n[p].left)
        THEN LET c == n[p].left
             IN  c \in T /\ lo[c] = lo[p] /\ hi[c] = Key(n, p) /\ up[c] = p
        ELSE \A q \in T : ~(lo[p] < Key(n, q) /\ Key(n, q) < Key(n, p))

RightOf(n, T, lo, hi, up) ==
    \A p \in T :
        IF IsNode(n[p].right)
        THEN LET c == n[p].right
             IN  c \in T /\ lo[c] = Key(n, p) /\ hi[c] = hi[p] /\ up[c] = p
        ELSE \A q \in T : ~(Key(n, p) < Key(n, q) /\ Beneath(Key(n, q), hi[p]))

Parents(n, r, T, up) ==
    \A p \in T : IF up[p] = NULL THEN p = r
                 ELSE up[p] \in T /\ (n[up[p]].left = p \/ n[up[p]].right = p)

(* A bound is the key of a node of which that side is taken. *)
Threaded(n, T, lo, hi) ==
    \A p \in T :
        /\ lo[p] # -1 => \E x \in T : Key(n, x) = lo[p] /\ IsNode(n[x].right)
        /\ hi[p] # -1 => \E x \in T : Key(n, x) = hi[p] /\ IsNode(n[x].left)

Ordered(n, r, T, lo, hi, up) ==
    /\ T \subseteq Queues
    /\ lo \in [Queues -> Int] /\ hi \in [Queues -> Int] /\ up \in [Queues -> Queues \cup {NULL}]
    /\ Bounded(n, T, lo, hi)
    /\ Rooted(r, T, lo, hi, up)
    /\ LeftOf(n, T, lo, hi, up) /\ RightOf(n, T, lo, hi, up)
    /\ Parents(n, r, T, up)
    /\ Threaded(n, T, lo, hi)

Grouped(n, M, T, pos) ==
    /\ T \subseteq M /\ M \subseteq Queues /\ pos \in [Queues -> Int]
    /\ \A x \in M : \E p \in T : Key(n, p) = Key(n, x)
    /\ \A p \in T, x \in M : Key(n, x) = Key(n, p) => pos[x] <= pos[p]
    /\ \A x, y \in M : Key(n, x) = Key(n, y) /\ pos[x] = pos[y] => x = y
    /\ \A x \in M \ T : /\ n[x].next \in M
                        /\ Key(n, n[x].next) = Key(n, x)
                        /\ pos[n[x].next] = pos[x] + 1
    /\ \A p \in T : /\ n[p].head \in M
                    /\ Key(n, n[p].head) = Key(n, p)
                    /\ \A x \in M : Key(n, x) = Key(n, p) => pos[n[p].head] <= pos[x]
                    /\ ~IsNode(n[p].next)
                    /\ IsNode(n[p].prev) <=> n[p].head # p

Garbage(n, r, M) ==
    r = Wild \/ \E q \in M : Wild \in {n[q].left, n[q].right, n[q].next, n[q].prev}

Accounts(M) ==
    /\ accepted = M \cup drained \cup ({last} \ {NULL})
    /\ M \cap drained = {}
    /\ last \notin M \cup drained
    /\ \A q \in M : /\ contents[q] # <<>>
                    /\ q = unkeyed \/ Key(node, q) = Head(contents[q]).time
-----------------------------------------------------------------------------
LEMMA Sizes ==
  /\ IsFiniteSet(Queues) /\ Cardinality(Queues) \in Nat
  /\ Nodes = 0 .. Cardinality(Queues)
BY EventTreeAssumption, FS_CardinalityType DEF Nodes

LEMMA NodeFields ==
  ASSUME NEW n \in [Queues -> Node], NEW q \in Queues
  PROVE  /\ n[q] \in Node /\ Key(n, q) \in Nat /\ n[q].timestamp \in Nat
         /\ n[q].left \in Pointers /\ n[q].right \in Pointers
         /\ n[q].next \in Pointers /\ n[q].prev \in Pointers
         /\ n[q].head \in Queues
BY DEF Node, Key

LEMMA PointerKinds ==
  /\ Wild \in Pointers /\ NULL \in Pointers /\ Wild # NULL
  /\ ~IsNode(NULL) /\ ~IsNode(Wild)
  /\ \A p : IsNode(p) <=> p \in Queues
  /\ \A p \in Pointers : IsNode(p) \/ p = NULL \/ p = Wild
  /\ Queues \subseteq Pointers
BY EventTreeAssumption DEF Pointers, IsNode

LEMMA SideIs ==
  ASSUME NEW n, NEW p, NEW t
  PROVE  n[p][Side(n, p, t)] = IF t > Key(n, p) THEN n[p].right ELSE n[p].left
BY DEF Side, Key

(* A child's bounds leave out its parent, and nothing else is new.         *)
LEMMA ChildrenBelow ==
  ASSUME NEW n \in [Queues -> Node], NEW r, NEW T, NEW lo, NEW hi, NEW up,
         Ordered(n, r, T, lo, hi, up),
         NEW p \in T, NEW c, IsNode(c), c = n[p].left \/ c = n[p].right
  PROVE  /\ c \in T /\ up[c] = p
         /\ Below(n, T, lo, hi, c) \subseteq Below(n, T, lo, hi, p) \ {p}
<1>1. T \subseteq Queues /\ p \in Queues /\ lo[p] \in Int /\ hi[p] \in Int
  BY DEF Ordered
<1>2. \A q \in T : Key(n, q) \in Nat BY <1>1, NodeFields
<1>3. Within(Key(n, p), lo[p], hi[p]) /\ lo[p] >= -1 BY DEF Ordered, Bounded
<1>4. CASE c = n[p].left
  <2>1. c \in T /\ up[c] = p /\ lo[c] = lo[p] /\ hi[c] = Key(n, p)
    BY <1>4 DEF Ordered, LeftOf
  <2> QED BY <2>1, <1>1, <1>2, <1>3 DEF Below, Within, Beneath
<1>5. CASE c = n[p].right
  <2>1. c \in T /\ up[c] = p /\ lo[c] = Key(n, p) /\ hi[c] = hi[p]
    BY <1>5 DEF Ordered, RightOf
  <2> QED BY <2>1, <1>1, <1>2, <1>3 DEF Below, Within, Beneath
<1> QED BY <1>4, <1>5

LEMMA BelowCounts ==
  ASSUME NEW n \in [Queues -> Node], NEW r, NEW T, NEW lo, NEW hi, NEW up,
         Ordered(n, r, T, lo, hi, up), NEW p \in T
  PROVE  /\ p \in Below(n, T, lo, hi, p)
         /\ IsFiniteSet(Below(n, T, lo, hi, p))
         /\ Cardinality(Below(n, T, lo, hi, p)) \in Nat
         /\ Cardinality(Below(n, T, lo, hi, p)) > 0
         /\ Cardinality(Below(n, T, lo, hi, p)) <= Cardinality(Queues)
<1> DEFINE B == Below(n, T, lo, hi, p)
<1>1. B \subseteq Queues BY DEF Ordered, Below
<1>2. p \in B BY DEF Ordered, Bounded, Below
<1>3. IsFiniteSet(B) /\ Cardinality(B) <= Cardinality(Queues) BY <1>1, FS_Subset, Sizes
<1>4. Cardinality(B) \in Nat BY <1>3, FS_CardinalityType
<1>5. Cardinality(B) # 0 BY <1>2, <1>3, FS_EmptySet
<1> HIDE DEF B
<1>6. Cardinality(B) > 0 BY <1>4, <1>5
<1> QED BY <1>2, <1>3, <1>4, <1>6 DEF B

LEMMA ChildrenSmaller ==
  ASSUME NEW n \in [Queues -> Node], NEW r, NEW T, NEW lo, NEW hi, NEW up,
         Ordered(n, r, T, lo, hi, up),
         NEW p \in T, NEW c, IsNode(c), c = n[p].left \/ c = n[p].right
  PROVE  /\ c \in T /\ up[c] = p
         /\ Cardinality(Below(n, T, lo, hi, c)) < Cardinality(Below(n, T, lo, hi, p))
<1> DEFINE B == Below(n, T, lo, hi, p)
           C == Below(n, T, lo, hi, c)
<1>1. c \in T /\ up[c] = p /\ C \subseteq B \ {p} BY ChildrenBelow
<1>2. p \in B /\ IsFiniteSet(B) /\ Cardinality(B) \in Nat BY BelowCounts
<1>3. Cardinality(C) \in Nat BY <1>1, BelowCounts
<1> HIDE DEF B, C
<1>4. IsFiniteSet(B \ {p}) /\ Cardinality(B \ {p}) = Cardinality(B) - 1
  BY <1>2, FS_RemoveElement
<1>5. Cardinality(C) <= Cardinality(B \ {p}) BY <1>1, <1>4, FS_Subset
<1>6. Cardinality(C) < Cardinality(B) BY <1>2, <1>3, <1>4, <1>5
<1> QED BY <1>1, <1>6 DEF B, C

(* How far a place is from the bottom of the tree.                         *)
Depth(n, T, lo, hi) ==
    [s \in Places |-> IF s.at \in T THEN Cardinality(Below(n, T, lo, hi, s.at)) ELSE 0]

(* A wild pointer that a walk from the root may meet.                      *)
Astray(n, r, T) == r = Wild \/ \E p \in T : Wild \in {n[p].left, n[p].right}

(* A place in the tree, with the node above; or where a wild pointer led.  *)
Placed(n, r, T, up, s) ==
    \/ s.at \in T /\ s.parent = up[s.at]
    \/ s.at = Wild /\ Astray(n, r, T)

LEMMA DepthTyped ==
  ASSUME NEW n \in [Queues -> Node], NEW r, NEW T, NEW lo, NEW hi, NEW up,
         Ordered(n, r, T, lo, hi, up)
  PROVE  /\ Depth(n, T, lo, hi) \in [Places -> Nat]
         /\ \A s \in Places : Depth(n, T, lo, hi)[s] <= Cardinality(Queues)
         /\ \A s \in Places : s.at \in T => Depth(n, T, lo, hi)[s] > 0
<1>1. \A p \in T : /\ Cardinality(Below(n, T, lo, hi, p)) \in Nat
                   /\ Cardinality(Below(n, T, lo, hi, p)) > 0
                   /\ Cardinality(Below(n, T, lo, hi, p)) <= Cardinality(Queues)
  BY BelowCounts
<1> QED BY <1>1, Sizes DEF Depth

(* A step down from a node of the tree leads to one with fewer below it,   *)
(* or astray.                                                              *)
LEMMA StepDown ==
  ASSUME NEW n \in [Queues -> Node], NEW r, NEW T, NEW lo, NEW hi, NEW up,
         Ordered(n, r, T, lo, hi, up),
         NEW s \in Places, s.at \in T,
         NEW c, c # NULL, c = n[s.at].left \/ c = n[s.at].right,
         NEW s2, s2 = [at |-> c, parent |-> s.at]
  PROVE  /\ s2 \in Places
         /\ Placed(n, r, T, up, s2)
         /\ Depth(n, T, lo, hi)[s2] < Depth(n, T, lo, hi)[s]
<1> DEFINE p == s.at
<1>1. p \in Queues BY DEF Ordered
<1>2. c \in Pointers BY <1>1, NodeFields
<1>3. s2 \in Places BY <1>1, <1>2, PointerKinds DEF Places
<1>4. s2.at = c /\ s2.parent = p OBVIOUS
<1>5. CASE IsNode(c)
  <2>1. c \in T /\ up[c] = p
        /\ Cardinality(Below(n, T, lo, hi, c)) < Cardinality(Below(n, T, lo, hi, p))
    BY <1>5, ChildrenSmaller
  <2> QED BY <2>1, <1>3, <1>4 DEF Depth, Placed
<1>6. CASE c = Wild
  <2>1. Astray(n, r, T) BY <1>6 DEF Astray
  <2>2. Wild \notin T BY PointerKinds DEF Ordered
  <2>3. Depth(n, T, lo, hi)[s2] = 0 BY <2>2, <1>3, <1>4, <1>6 DEF Depth
  <2>4. Depth(n, T, lo, hi)[s] > 0 BY DepthTyped
  <2> QED BY <2>1, <2>3, <2>4, <1>3, <1>4, <1>6 DEF Placed
<1> QED BY <1>2, <1>5, <1>6, PointerKinds

LEMMA TopPlaced ==
  ASSUME NEW n \in [Queues -> Node], NEW r, NEW T, NEW lo, NEW hi, NEW up,
         Ordered(n, r, T, lo, hi, up), r # NULL
  PROVE  /\ Top(r) \in Places
         /\ Placed(n, r, T, up, Top(r))
         /\ Top(r).at = r
         /\ r \in T => lo[r] = -1 /\ hi[r] = -1
<1>1. r \in Pointers BY DEF Ordered, Rooted
<1>2. Top(r) \in Places /\ Top(r).at = r /\ Top(r).parent = NULL
  BY <1>1, PointerKinds DEF Top, Places
<1>3. CASE IsNode(r) BY <1>2, <1>3 DEF Placed, Ordered, Rooted
<1>4. CASE r = Wild BY <1>2, <1>4, PointerKinds DEF Placed, Astray, Ordered
<1> QED BY <1>1, <1>3, <1>4, PointerKinds

LEMMA DescendTyped ==
  ASSUME NEW n \in [Queues -> Node], NEW t \in Nat
  PROVE  Descend(n, t) \in [Places -> Places]
<1>1. ASSUME NEW s \in Places
      PROVE  Descend(n, t)[s] \in Places
  <2>1. CASE IsNode(s.at)
    <3>1. n[s.at][Side(n, s.at, t)] \in Pointers
      BY <2>1, SideIs, NodeFields, PointerKinds
    <3> QED BY <2>1, <3>1, PointerKinds DEF Descend, Places
  <2>2. CASE ~IsNode(s.at) BY <2>2 DEF Descend
  <2> QED BY <2>1, <2>2
<1> QED BY <1>1 DEF Descend

(* The loop of event_tree_rebalance ends at the node of the key, or at one *)
(* with room for it on the side the key belongs, and knows the node above; *)
(* it only gets lost where there is garbage.                               *)
LEMMA FindsPlace ==
  ASSUME NEW n \in [Queues -> Node], NEW r, NEW T, NEW lo, NEW hi, NEW up,
         Ordered(n, r, T, lo, hi, up), r # NULL, NEW t \in Nat,
         NEW f, f = Found(n, r, t)
  PROVE  \/ /\ f.at \in T /\ f.parent = up[f.at]
            /\ Within(t, lo[f.at], hi[f.at])
            /\ Key(n, f.at) = t \/ n[f.at][Side(n, f.at, t)] = NULL
         \/ f.at = Wild /\ Astray(n, r, T)
<1> DEFINE N == Cardinality(Queues)
           g == Descend(n, t)
           size == Depth(n, T, lo, hi)
           Good == {s \in Places : /\ Placed(n, r, T, up, s)
                                   /\ s.at \in T => Within(t, lo[s.at], hi[s.at])}
<1>1. N \in Nat /\ g \in [Places -> Places] /\ Top(r) \in Places
  BY Sizes, DescendTyped, TopPlaced
<1>2. Runs(Descent(n, r, t), N, Places, g, Top(r))
  <2> HIDE DEF g
  <2>1. Descent(n, r, t)
          = CHOOSE h : h = [d \in 0 .. N |-> IF d = 0 THEN Top(r) ELSE g[h[d - 1]]]
    BY Sizes DEF Descent, g
  <2> HIDE DEF N
  <2> QED BY <1>1, <2>1, LoopRuns
<1>3. Top(r) \in Good
  BY TopPlaced DEF Within, Beneath
<1>4. size \in [Places -> Nat] /\ size[Top(r)] <= N BY DepthTyped, TopPlaced
<1>5. ASSUME NEW s \in Good
      PROVE  g[s] \in Good /\ (g[s] = s \/ size[g[s]] < size[s])
  <2> DEFINE c == n[s.at][Side(n, s.at, t)]
  <2>1. CASE IsNode(s.at) /\ Key(n, s.at) # t /\ c # NULL
    <3>1. s.at \in T /\ Within(t, lo[s.at], hi[s.at]) BY <2>1, PointerKinds DEF Placed
    <3>2. g[s] = [at |-> c, parent |-> s.at] BY <2>1 DEF Descend, Key
    <3>3. c = IF t > Key(n, s.at) THEN n[s.at].right ELSE n[s.at].left BY SideIs
    <3>4. g[s] \in Places /\ Placed(n, r, T, up, g[s]) /\ size[g[s]] < size[s]
      <4> HIDE DEF g, size, c
      <4>1. c = n[s.at].left \/ c = n[s.at].right BY <3>3
      <4> QED BY <2>1, <3>1, <3>2, <4>1, StepDown DEF size
    <3>5. ASSUME c \in T PROVE Within(t, lo[c], hi[c])
      <4>1. s.at \in Queues /\ Key(n, s.at) \in Nat BY <3>1, NodeFields DEF Ordered
      <4>2. IsNode(c) BY <3>5 DEF Ordered, IsNode
      <4>3. CASE t > Key(n, s.at)
        <5>1. c = n[s.at].right BY <3>3, <4>3
        <5> HIDE DEF c, g, size
        <5>2. lo[c] = Key(n, s.at) /\ hi[c] = hi[s.at]
          BY <5>1, <4>2, <3>1 DEF Ordered, RightOf
        <5> QED BY <5>2, <3>1, <4>3 DEF Within
      <4>4. CASE t < Key(n, s.at)
        <5>1. c = n[s.at].left BY <3>3, <4>4, <4>1
        <5> HIDE DEF c, g, size
        <5>2. lo[c] = lo[s.at] /\ hi[c] = Key(n, s.at)
          BY <5>1, <4>2, <3>1 DEF Ordered, LeftOf
        <5> QED BY <5>2, <3>1, <4>4 DEF Within, Beneath
      <4> QED BY <4>1, <4>3, <4>4, <2>1
    <3>6. g[s].at = c BY <3>2
    <3> QED BY <3>4, <3>5, <3>6
  <2>2. CASE ~(IsNode(s.at) /\ Key(n, s.at) # t /\ c # NULL)
    <3>1. g[s] = s BY <2>2 DEF Descend, Key
    <3> QED BY <3>1
  <2> QED BY <2>1, <2>2
<1>6. f = Descent(n, r, t)[N] BY DEF Found
<1>7. f \in Good /\ g[f] = f
  <2>1. Good \in SUBSET Places OBVIOUS
  <2> HIDE DEF Good, g, size, N
  <2> QED BY <1>1, <1>2, <1>3, <1>4, <1>5, <1>6, <2>1, LoopSettles
<1>8. CASE f.at \in T
  <2>1. IsNode(f.at) BY <1>8 DEF Ordered, IsNode
  <2>2. Key(n, f.at) = t \/ n[f.at][Side(n, f.at, t)] = NULL
    <3>1. SUFFICES ASSUME Key(n, f.at) # t, n[f.at][Side(n, f.at, t)] # NULL PROVE FALSE
      OBVIOUS
    <3> DEFINE c == n[f.at][Side(n, f.at, t)]
    <3>2. g[f] = [at |-> c, parent |-> f.at] BY <3>1, <2>1, <1>7 DEF Descend, Key
    <3>3. f.at = c /\ f.at = f.parent
      <4> HIDE DEF c, g
      <4> QED BY <3>2, <1>7
    <3>4. c = n[f.at].left \/ c = n[f.at].right BY SideIs
    <3>5. f.at \in T /\ up[f.at] = f.at
          /\ Cardinality(Below(n, T, lo, hi, f.at)) < Cardinality(Below(n, T, lo, hi, f.at))
      <4> HIDE DEF c, g, Good, size
      <4> QED BY <1>8, <2>1, <3>3, <3>4, ChildrenSmaller
    <3>6. Cardinality(Below(n, T, lo, hi, f.at)) \in Nat BY <1>8, BelowCounts
    <3> QED BY <3>5, <3>6
  <2> QED BY <1>7, <1>8, <2>2, PointerKinds DEF Placed, Ordered
<1>9. CASE f.at \notin T BY <1>7, <1>9 DEF Placed
<1> QED BY <1>8, <1>9

LEMMA GoLeftTyped ==
  ASSUME NEW n \in [Queues -> Node]
  PROVE  GoLeft(n) \in [Places -> Places]
<1>1. ASSUME NEW s \in Places
      PROVE  GoLeft(n)[s] \in Places
  <2>1. CASE IsNode(s.at)
    <3>1. n[s.at].left \in Pointers BY <2>1, NodeFields, PointerKinds
    <3> QED BY <2>1, <3>1, PointerKinds DEF GoLeft, Places
  <2>2. CASE ~IsNode(s.at) BY <2>2 DEF GoLeft
  <2> QED BY <2>1, <2>2
<1> QED BY <1>1 DEF GoLeft

(* The loop of event_tree_read ends at the node with the smallest key,     *)
(* which is the left child of the node above, if there is one.             *)
LEMMA FindsLeftmost ==
  ASSUME NEW n \in [Queues -> Node], NEW r, NEW T, NEW lo, NEW hi, NEW up,
         Ordered(n, r, T, lo, hi, up), r # NULL,
         NEW f, f = LeftDescent(n, r)[Cardinality(Queues)]
  PROVE  \/ /\ f.at \in T /\ f.parent = up[f.at]
            /\ lo[f.at] = -1 /\ n[f.at].left = NULL
            /\ up[f.at] # NULL => up[f.at] \in T /\ n[up[f.at]].left = f.at
         \/ f.at = Wild /\ Astray(n, r, T)
<1> DEFINE N == Cardinality(Queues)
           g == GoLeft(n)
           size == Depth(n, T, lo, hi)
           Good == {s \in Places : /\ Placed(n, r, T, up, s)
                                   /\ s.at \in T => lo[s.at] = -1}
<1>1. N \in Nat /\ g \in [Places -> Places] /\ Top(r) \in Places
  BY Sizes, GoLeftTyped, TopPlaced
<1>2. Runs(LeftDescent(n, r), N, Places, g, Top(r))
  <2> HIDE DEF g
  <2>1. LeftDescent(n, r)
          = CHOOSE h : h = [d \in 0 .. N |-> IF d = 0 THEN Top(r) ELSE g[h[d - 1]]]
    BY Sizes DEF LeftDescent, g
  <2> HIDE DEF N
  <2> QED BY <1>1, <2>1, LoopRuns
<1>3. Top(r) \in Good BY TopPlaced
<1>4. size \in [Places -> Nat] /\ size[Top(r)] <= N BY DepthTyped, TopPlaced
<1>5. ASSUME NEW s \in Good
      PROVE  g[s] \in Good /\ (g[s] = s \/ size[g[s]] < size[s])
  <2> DEFINE c == n[s.at].left
  <2>1. CASE IsNode(s.at) /\ c # NULL
    <3>1. s.at \in T /\ lo[s.at] = -1 BY <2>1, PointerKinds DEF Placed
    <3>2. g[s] = [at |-> c, parent |-> s.at] BY <2>1 DEF GoLeft
    <3>3. g[s] \in Places /\ Placed(n, r, T, up, g[s]) /\ size[g[s]] < size[s]
      <4> HIDE DEF g, size
      <4> QED BY <2>1, <3>1, <3>2, StepDown DEF size
    <3>4. ASSUME c \in T PROVE lo[c] = -1
      <4>1. IsNode(c) BY <3>4 DEF Ordered, IsNode
      <4> QED BY <4>1, <3>1 DEF Ordered, LeftOf
    <3>5. g[s].at = c BY <3>2
    <3> QED BY <3>3, <3>4, <3>5
  <2>2. CASE ~(IsNode(s.at) /\ c # NULL)
    <3>1. g[s] = s BY <2>2 DEF GoLeft
    <3> QED BY <3>1
  <2> QED BY <2>1, <2>2
<1>6. f = LeftDescent(n, r)[N] OBVIOUS
<1>7. f \in Good /\ g[f] = f
  <2>1. Good \in SUBSET Places OBVIOUS
  <2> HIDE DEF Good, g, size, N
  <2> QED BY <1>1, <1>2, <1>3, <1>4, <1>5, <1>6, <2>1, LoopSettles
<1>8. CASE f.at \in T
  <2>1. IsNode(f.at) BY <1>8 DEF Ordered, IsNode
  <2>2. n[f.at].left = NULL
    <3>1. SUFFICES ASSUME n[f.at].left # NULL PROVE FALSE OBVIOUS
    <3>2. g[f] = [at |-> n[f.at].left, parent |-> f.at] BY <3>1, <2>1, <1>7 DEF GoLeft
    <3>3. f.at = n[f.at].left
      <4> HIDE DEF g
      <4> QED BY <3>2, <1>7
    <3>5. /\ f.at \in T /\ up[f.at] = f.at
          /\ Cardinality(Below(n, T, lo, hi, f.at)) < Cardinality(Below(n, T, lo, hi, f.at))
      <4> HIDE DEF g, Good, size
      <4> QED BY <1>8, <2>1, <3>3, ChildrenSmaller
    <3>6. Cardinality(Below(n, T, lo, hi, f.at)) \in Nat BY <1>8, BelowCounts
    <3> QED BY <3>5, <3>6
  <2>3. f.parent = up[f.at] /\ lo[f.at] = -1
    BY <1>7, <1>8, PointerKinds DEF Placed, Ordered
  <2>4. ASSUME up[f.at] # NULL
        PROVE  up[f.at] \in T /\ n[up[f.at]].left = f.at
    <3> DEFINE p == up[f.at]
    <3>1. p \in T /\ (n[p].left = f.at \/ n[p].right = f.at)
      BY <1>8, <2>4 DEF Ordered, Parents
    <3>2. ASSUME n[p].right = f.at PROVE FALSE
      <4>1. lo[f.at] = Key(n, p) BY <3>1, <3>2, <2>1 DEF Ordered, RightOf
      <4>2. Key(n, p) \in Nat BY <3>1, NodeFields DEF Ordered
      <4> QED BY <4>1, <4>2, <2>3
    <3> QED BY <3>1, <3>2
  <2> QED BY <1>8, <2>2, <2>3, <2>4
<1>9. CASE f.at \notin T BY <1>7, <1>9 DEF Placed
<1> QED BY <1>8, <1>9

(* m differs from n in that q, of key t, hangs to the left of p.                  *)
HungLeft(n, T, p, q, t, m) ==
    /\ Key(m, q) = t /\ m[q].left = NULL /\ m[q].right = NULL
    /\ \A x \in T : /\ Key(m, x) = Key(n, x) /\ m[x].right = n[x].right
                    /\ m[x].left = IF x = p THEN q ELSE n[x].left

(* A new node with a new key, hung to the left of a node that has none     *)
(* there and between whose bounds the key lies.                            *)
LEMMA HangLeft ==
  ASSUME NEW n \in [Queues -> Node], NEW r, NEW T, NEW lo, NEW hi, NEW up,
         Ordered(n, r, T, lo, hi, up),
         NEW p \in T, NEW q \in Queues \ T, NEW t \in Nat,
         Within(t, lo[p], hi[p]), t < Key(n, p), n[p].left = NULL,
         NEW m \in [Queues -> Node], HungLeft(n, T, p, q, t, m)
  PROVE  \E lo2, hi2, up2 : Ordered(m, r, T \cup {q}, lo2, hi2, up2)
<1>0. PICK lo2, hi2, up2 : /\ lo2 = [lo EXCEPT ![q] = lo[p]]
                           /\ hi2 = [hi EXCEPT ![q] = Key(n, p)]
                           /\ up2 = [up EXCEPT ![q] = p]
  OBVIOUS
<1> USE DEF HungLeft
<1> DEFINE U == T \cup {q}
<1>1. /\ T \subseteq Queues /\ p \in Queues /\ q \in Queues /\ q \notin T
      /\ lo \in [Queues -> Int] /\ hi \in [Queues -> Int] /\ up \in [Queues -> Queues \cup {NULL}]
  BY DEF Ordered
<1>2. \A x \in T : Key(n, x) \in Nat /\ lo[x] \in Int /\ hi[x] \in Int
  BY <1>1, NodeFields
<1>3. /\ lo2 \in [Queues -> Int] /\ hi2 \in [Queues -> Int]
      /\ up2 \in [Queues -> Queues \cup {NULL}]
      /\ lo2[q] = lo[p] /\ hi2[q] = Key(n, p) /\ up2[q] = p
      /\ \A x \in T : lo2[x] = lo[x] /\ hi2[x] = hi[x] /\ up2[x] = up[x]
  BY <1>0, <1>1, <1>2
<1>4. lo[p] < t /\ t < Key(n, p) /\ lo[p] >= -1 BY DEF Within, Ordered, Bounded
<1>5. \A x \in T : ~(lo[p] < Key(n, x) /\ Key(n, x) < Key(n, p))
  BY PointerKinds DEF Ordered, LeftOf
<1>6. \A x \in T : Key(n, x) # t BY <1>2, <1>4, <1>5
<1>7. \A x, y \in T : Key(n, x) = Key(n, y) => x = y BY DEF Ordered, Bounded
<1>8. Bounded(m, U, lo2, hi2)
  <2>1. \A x \in U : lo2[x] >= -1 /\ Within(Key(m, x), lo2[x], hi2[x])
    <3>1. TAKE x \in U
    <3>2. CASE x \in T BY <3>2, <1>3 DEF Ordered, Bounded
    <3>3. CASE x = q BY <3>3, <1>3, <1>4 DEF Within, Beneath
    <3> QED BY <3>2, <3>3
  <2>2. \A x, y \in U : Key(m, x) = Key(m, y) => x = y BY <1>6, <1>7
  <2> QED BY <2>1, <2>2 DEF Bounded
<1>9. Rooted(r, U, lo2, hi2, up2)
  <2>1. IsNode(r) BY DEF Ordered, Rooted
  <2> QED BY <2>1, <1>3 DEF Ordered, Rooted
<1>10. LeftOf(m, U, lo2, hi2, up2)
  <2>1. ASSUME NEW x \in U, IsNode(m[x].left), NEW c, c = m[x].left
        PROVE  c \in U /\ lo2[c] = lo2[x] /\ hi2[c] = Key(m, x) /\ up2[c] = x
    <3>1. x # q BY <2>1, PointerKinds
    <3>2. CASE x = p BY <3>2, <2>1, <1>3
    <3>3. CASE x # p
      <4>1. x \in T /\ c = n[x].left /\ IsNode(n[x].left) BY <3>1, <3>3, <2>1
      <4>2. c \in T /\ lo[c] = lo[x] /\ hi[c] = Key(n, x) /\ up[c] = x
        BY <4>1 DEF Ordered, LeftOf
      <4> QED BY <4>1, <4>2, <1>3
    <3> QED BY <3>2, <3>3
  <2>2. ASSUME NEW x \in U, ~IsNode(m[x].left), NEW y \in U,
               lo2[x] < Key(m, y), Key(m, y) < Key(m, x)
        PROVE  FALSE
    <3>1. CASE x = q
      <4>1. y # q BY <3>1, <2>2, <1>4
      <4>2. y \in T /\ lo[p] < Key(n, y) /\ Key(n, y) < t BY <4>1, <3>1, <2>2, <1>3
      <4> QED BY <4>2, <1>2, <1>4, <1>5
    <3>2. CASE x = p BY <3>2, <2>2, <1>1 DEF IsNode
    <3>3. CASE x \in T /\ x # p
      <4>1. \A z \in T : ~(lo[x] < Key(n, z) /\ Key(n, z) < Key(n, x))
        BY <3>3, <2>2 DEF Ordered, LeftOf
      <4>2. y = q BY <4>1, <3>3, <2>2, <1>3
      <4>3. lo[x] < t /\ t < Key(n, x) BY <4>2, <3>3, <2>2, <1>3
      <4>4. Key(n, x) >= Key(n, p) BY <4>3, <3>3, <1>2, <1>4, <1>5
      <4>5. Key(n, p) >= Key(n, x) BY <4>1, <4>3, <3>3, <1>2, <1>4
      <4>6. Key(n, p) = Key(n, x) BY <4>4, <4>5, <3>3, <1>2
      <4> QED BY <4>6, <3>3, <1>7
    <3> QED BY <3>1, <3>2, <3>3
  <2> QED BY <2>1, <2>2 DEF LeftOf
<1>11. RightOf(m, U, lo2, hi2, up2)
  <2>1. ASSUME NEW x \in U, IsNode(m[x].right), NEW c, c = m[x].right
        PROVE  c \in U /\ lo2[c] = Key(m, x) /\ hi2[c] = hi2[x] /\ up2[c] = x
    <3>1. x # q BY <2>1, PointerKinds
    <3>2. x \in T /\ c = n[x].right /\ IsNode(n[x].right) BY <3>1, <2>1
    <3>3. c \in T /\ lo[c] = Key(n, x) /\ hi[c] = hi[x] /\ up[c] = x
      BY <3>2 DEF Ordered, RightOf
    <3> QED BY <3>2, <3>3, <1>3
  <2>2. ASSUME NEW x \in U, ~IsNode(m[x].right), NEW y \in U,
               Key(m, x) < Key(m, y), Beneath(Key(m, y), hi2[x])
        PROVE  FALSE
    <3>1. CASE x = q
      <4>1. y # q BY <3>1, <2>2, <1>4
      <4>2. y \in T /\ t < Key(n, y) /\ Key(n, y) < Key(n, p)
        BY <4>1, <3>1, <2>2, <1>2, <1>3 DEF Beneath
      <4> QED BY <4>2, <1>2, <1>4, <1>5
    <3>2. CASE x \in T
      <4>1. \A z \in T : ~(Key(n, x) < Key(n, z) /\ Beneath(Key(n, z), hi[x]))
        BY <3>2, <2>2 DEF Ordered, RightOf
      <4>2. y = q BY <4>1, <3>2, <2>2, <1>3
      <4>3. Key(n, x) < t /\ Beneath(t, hi[x]) BY <4>2, <3>2, <2>2, <1>3
      <4>4. hi[x] # -1 /\ t < hi[x] /\ hi[x] <= Key(n, p)
        BY <4>1, <4>3, <3>2, <1>2, <1>4 DEF Beneath
      <4>5. PICK z \in T : Key(n, z) = hi[x] /\ IsNode(n[z].left)
        BY <4>4, <3>2 DEF Ordered, Threaded
      <4>6. Key(n, z) >= Key(n, p) BY <4>4, <4>5, <1>2, <1>4, <1>5
      <4>7. Key(n, z) = Key(n, p) BY <4>4, <4>5, <4>6, <1>2
      <4>8. z = p BY <4>7, <1>7
      <4> QED BY <4>5, <4>8, PointerKinds
    <3> QED BY <3>1, <3>2
  <2> QED BY <2>1, <2>2 DEF RightOf
<1>12. Parents(m, r, U, up2)
  <2>1. ASSUME NEW x \in T
        PROVE  IF up2[x] = NULL THEN x = r
               ELSE up2[x] \in U /\ (m[up2[x]].left = x \/ m[up2[x]].right = x)
    <3>1. up2[x] = up[x] BY <1>3
    <3>2. CASE up[x] = NULL BY <3>1, <3>2 DEF Ordered, Parents
    <3>3. CASE up[x] # NULL
      <4>1. up[x] \in T /\ (n[up[x]].left = x \/ n[up[x]].right = x)
        BY <3>3 DEF Ordered, Parents
      <4>2. x # NULL BY <1>1, PointerKinds
      <4>3. m[up[x]].left = x \/ m[up[x]].right = x BY <4>1, <4>2
      <4> QED BY <3>1, <3>3, <4>1, <4>3
    <3> QED BY <3>2, <3>3
  <2>2. up2[q] \in U /\ up2[q] # NULL /\ m[up2[q]].left = q BY <1>1, <1>3, PointerKinds
  <2> QED BY <2>1, <2>2 DEF Parents
<1>13. Threaded(m, U, lo2, hi2)
  <2>1. ASSUME NEW x \in T
        PROVE  /\ lo2[x] # -1 => \E z \in T : Key(m, z) = lo2[x] /\ IsNode(m[z].right)
               /\ hi2[x] # -1 => \E z \in T : Key(m, z) = hi2[x] /\ IsNode(m[z].left)
    <3>1. /\ lo[x] # -1 => \E z \in T : Key(n, z) = lo[x] /\ IsNode(n[z].right)
          /\ hi[x] # -1 => \E z \in T : Key(n, z) = hi[x] /\ IsNode(n[z].left)
      BY DEF Ordered, Threaded
    <3>2. \A z \in T : /\ IsNode(n[z].right) => IsNode(m[z].right)
                       /\ IsNode(n[z].left) => IsNode(m[z].left)
      BY PointerKinds
    <3> QED BY <3>1, <3>2, <1>3
  <2>2. lo2[q] # -1 => \E z \in T : Key(m, z) = lo2[q] /\ IsNode(m[z].right)
    BY <2>1, <1>3
  <2>3. Key(m, p) = hi2[q] /\ IsNode(m[p].left) BY <1>1, <1>3, PointerKinds
  <2> QED BY <2>1, <2>2, <2>3 DEF Threaded
<1>14. Ordered(m, r, U, lo2, hi2, up2)
  BY <1>1, <1>3, <1>8, <1>9, <1>10, <1>11, <1>12, <1>13 DEF Ordered
<1> QED BY <1>14

(* m differs from n in that q, of key t, hangs to the right of p.                 *)
HungRight(n, T, p, q, t, m) ==
    /\ Key(m, q) = t /\ m[q].left = NULL /\ m[q].right = NULL
    /\ \A x \in T : /\ Key(m, x) = Key(n, x) /\ m[x].left = n[x].left
                    /\ m[x].right = IF x = p THEN q ELSE n[x].right

(* A new node with a new key, hung to the right of a node that has none     *)
(* there and between whose bounds the key lies.                            *)
LEMMA HangRight ==
  ASSUME NEW n \in [Queues -> Node], NEW r, NEW T, NEW lo, NEW hi, NEW up,
         Ordered(n, r, T, lo, hi, up),
         NEW p \in T, NEW q \in Queues \ T, NEW t \in Nat,
         Within(t, lo[p], hi[p]), Key(n, p) < t, n[p].right = NULL,
         NEW m \in [Queues -> Node], HungRight(n, T, p, q, t, m)
  PROVE  \E lo2, hi2, up2 : Ordered(m, r, T \cup {q}, lo2, hi2, up2)
<1>0. PICK lo2, hi2, up2 : /\ lo2 = [lo EXCEPT ![q] = Key(n, p)]
                           /\ hi2 = [hi EXCEPT ![q] = hi[p]]
                           /\ up2 = [up EXCEPT ![q] = p]
  OBVIOUS
<1> USE DEF HungRight
<1> DEFINE U == T \cup {q}
<1>1. /\ T \subseteq Queues /\ p \in Queues /\ q \in Queues /\ q \notin T
      /\ lo \in [Queues -> Int] /\ hi \in [Queues -> Int] /\ up \in [Queues -> Queues \cup {NULL}]
  BY DEF Ordered
<1>2. \A x \in T : Key(n, x) \in Nat /\ lo[x] \in Int /\ hi[x] \in Int
  BY <1>1, NodeFields
<1>3. /\ lo2 \in [Queues -> Int] /\ hi2 \in [Queues -> Int]
      /\ up2 \in [Queues -> Queues \cup {NULL}]
      /\ lo2[q] = Key(n, p) /\ hi2[q] = hi[p] /\ up2[q] = p
      /\ \A x \in T : lo2[x] = lo[x] /\ hi2[x] = hi[x] /\ up2[x] = up[x]
  BY <1>0, <1>1, <1>2
<1>4. Key(n, p) < t /\ Beneath(t, hi[p]) /\ lo[p] >= -1 BY DEF Within, Ordered, Bounded
<1>5. \A x \in T : ~(Key(n, p) < Key(n, x) /\ Beneath(Key(n, x), hi[p]))
  BY PointerKinds DEF Ordered, RightOf
<1>6. \A x \in T : Key(n, x) # t BY <1>2, <1>4, <1>5
<1>7. \A x, y \in T : Key(n, x) = Key(n, y) => x = y BY DEF Ordered, Bounded
<1>8. Bounded(m, U, lo2, hi2)
  <2>1. \A x \in U : lo2[x] >= -1 /\ Within(Key(m, x), lo2[x], hi2[x])
    <3>1. TAKE x \in U
    <3>2. CASE x \in T BY <3>2, <1>3 DEF Ordered, Bounded
    <3>3. CASE x = q BY <3>3, <1>2, <1>3, <1>4 DEF Within
    <3> QED BY <3>2, <3>3
  <2>2. \A x, y \in U : Key(m, x) = Key(m, y) => x = y BY <1>6, <1>7
  <2> QED BY <2>1, <2>2 DEF Bounded
<1>9. Rooted(r, U, lo2, hi2, up2)
  <2>1. IsNode(r) BY DEF Ordered, Rooted
  <2> QED BY <2>1, <1>3 DEF Ordered, Rooted
<1>10. LeftOf(m, U, lo2, hi2, up2)
  <2>1. ASSUME NEW x \in U, IsNode(m[x].left), NEW c, c = m[x].left
        PROVE  c \in U /\ lo2[c] = lo2[x] /\ hi2[c] = Key(m, x) /\ up2[c] = x
    <3>1. x # q BY <2>1, PointerKinds
    <3>2. x \in T /\ c = n[x].left /\ IsNode(n[x].left) BY <3>1, <2>1
    <3>3. c \in T /\ lo[c] = lo[x] /\ hi[c] = Key(n, x) /\ up[c] = x
      BY <3>2 DEF Ordered, LeftOf
    <3> QED BY <3>2, <3>3, <1>3
  <2>2. ASSUME NEW x \in U, ~IsNode(m[x].left), NEW y \in U,
               lo2[x] < Key(m, y), Key(m, y) < Key(m, x)
        PROVE  FALSE
    <3>1. CASE x = q
      <4>1. y # q BY <3>1, <2>2
      <4>2. y \in T /\ Key(n, p) < Key(n, y) /\ Key(n, y) < t BY <4>1, <3>1, <2>2, <1>3
      <4>3. Beneath(Key(n, y), hi[p]) BY <4>2, <1>2, <1>4 DEF Beneath
      <4> QED BY <4>2, <4>3, <1>5
    <3>2. CASE x \in T
      <4>1. \A z \in T : ~(lo[x] < Key(n, z) /\ Key(n, z) < Key(n, x))
        BY <3>2, <2>2 DEF Ordered, LeftOf
      <4>2. y = q BY <4>1, <3>2, <2>2, <1>3
      <4>3. lo[x] < t /\ t < Key(n, x) BY <4>2, <3>2, <2>2, <1>3
      <4>4. lo[x] # -1 /\ Key(n, p) <= lo[x] BY <4>1, <4>3, <3>2, <1>2, <1>4
      <4>5. PICK z \in T : Key(n, z) = lo[x] /\ IsNode(n[z].right)
        BY <4>4, <3>2 DEF Ordered, Threaded
      <4>6. Beneath(Key(n, z), hi[p]) BY <4>3, <4>5, <1>2, <1>4 DEF Beneath
      <4>7. Key(n, z) = Key(n, p) BY <4>4, <4>5, <4>6, <1>2, <1>5
      <4>8. z = p BY <4>7, <1>7
      <4> QED BY <4>5, <4>8, PointerKinds
    <3> QED BY <3>1, <3>2
  <2> QED BY <2>1, <2>2 DEF LeftOf
<1>11. RightOf(m, U, lo2, hi2, up2)
  <2>1. ASSUME NEW x \in U, IsNode(m[x].right), NEW c, c = m[x].right
        PROVE  c \in U /\ lo2[c] = Key(m, x) /\ hi2[c] = hi2[x] /\ up2[c] = x
    <3>1. x # q BY <2>1, PointerKinds
    <3>2. CASE x = p BY <3>2, <2>1, <1>3
    <3>3. CASE x # p
      <4>1. x \in T /\ c = n[x].right /\ IsNode(n[x].right) BY <3>1, <3>3, <2>1
      <4>2. c \in T /\ lo[c] = Key(n, x) /\ hi[c] = hi[x] /\ up[c] = x
        BY <4>1 DEF Ordered, RightOf
      <4> QED BY <4>1, <4>2, <1>3
    <3> QED BY <3>2, <3>3
  <2>2. ASSUME NEW x \in U, ~IsNode(m[x].right), NEW y \in U,
               Key(m, x) < Key(m, y), Beneath(Key(m, y), hi2[x])
        PROVE  FALSE
    <3>1. CASE x = q
      <4>1. y # q BY <3>1, <2>2
      <4>2. y \in T /\ t < Key(n, y) /\ Beneath(Key(n, y), hi[p])
        BY <4>1, <3>1, <2>2, <1>3
      <4>3. Key(n, p) < Key(n, y) BY <4>2, <1>2, <1>4
      <4> QED BY <4>2, <4>3, <1>5
    <3>2. CASE x = p BY <3>2, <2>2, <1>1 DEF IsNode
    <3>3. CASE x \in T /\ x # p
      <4>1. \A z \in T : ~(Key(n, x) < Key(n, z) /\ Beneath(Key(n, z), hi[x]))
        BY <3>3, <2>2 DEF Ordered, RightOf
      <4>2. y = q BY <4>1, <3>3, <2>2, <1>3
      <4>3. Key(n, x) < t /\ Beneath(t, hi[x]) BY <4>2, <3>3, <2>2, <1>3
      <4>4. ~(Key(n, x) < Key(n, p)) BY <4>1, <4>3, <3>3, <1>2, <1>4 DEF Beneath
      <4>5. ~(Key(n, p) < Key(n, x)) BY <4>3, <3>3, <1>2, <1>4, <1>5 DEF Beneath
      <4>6. Key(n, p) = Key(n, x) BY <4>4, <4>5, <3>3, <1>2
      <4> QED BY <4>6, <3>3, <1>7
    <3> QED BY <3>1, <3>2, <3>3
  <2> QED BY <2>1, <2>2 DEF RightOf
<1>12. Parents(m, r, U, up2)
  <2>1. ASSUME NEW x \in T
        PROVE  IF up2[x] = NULL THEN x = r
               ELSE up2[x] \in U /\ (m[up2[x]].left = x \/ m[up2[x]].right = x)
    <3>1. up2[x] = up[x] BY <1>3
    <3>2. CASE up[x] = NULL BY <3>1, <3>2 DEF Ordered, Parents
    <3>3. CASE up[x] # NULL
      <4>1. up[x] \in T /\ (n[up[x]].left = x \/ n[up[x]].right = x)
        BY <3>3 DEF Ordered, Parents
      <4>2. x # NULL BY <1>1, PointerKinds
      <4>3. m[up[x]].left = x \/ m[up[x]].right = x BY <4>1, <4>2
      <4> QED BY <3>1, <3>3, <4>1, <4>3
    <3> QED BY <3>2, <3>3
  <2>2. up2[q] \in U /\ up2[q] # NULL /\ m[up2[q]].right = q BY <1>1, <1>3, PointerKinds
  <2> QED BY <2>1, <2>2 DEF Parents
<1>13. Threaded(m, U, lo2, hi2)
  <2>1. ASSUME NEW x \in T
        PROVE  /\ lo2[x] # -1 => \E z \in T : Key(m, z) = lo2[x] /\ IsNode(m[z].right)
               /\ hi2[x] # -1 => \E z \in T : Key(m, z) = hi2[x] /\ IsNode(m[z].left)
    <3>1. /\ lo[x] # -1 => \E z \in T : Key(n, z) = lo[x] /\ IsNode(n[z].right)
          /\ hi[x] # -1 => \E z \in T : Key(n, z) = hi[x] /\ IsNode(n[z].left)
      BY DEF Ordered, Threaded
    <3>2. \A z \in T : /\ IsNode(n[z].right) => IsNode(m[z].right)
                       /\ IsNode(n[z].left) => IsNode(m[z].left)
      BY PointerKinds
    <3> QED BY <3>1, <3>2, <1>3
  <2>2. hi2[q] # -1 => \E z \in T : Key(m, z) = hi2[q] /\ IsNode(m[z].left)
    BY <2>1, <1>3
  <2>3. Key(m, p) = lo2[q] /\ IsNode(m[p].right) BY <1>1, <1>3, PointerKinds
  <2> QED BY <2>1, <2>2, <2>3 DEF Threaded
<1>14. Ordered(m, r, U, lo2, hi2, up2)
  BY <1>1, <1>3, <1>8, <1>9, <1>10, <1>11, <1>12, <1>13 DEF Ordered
<1> QED BY <1>14

(* The nodes of a tree are other ones, each in the place of an old one.    *)
Renames(n, r, T, lo, hi, up, m, r2, U, lo2, hi2, up2, old) ==
    /\ m \in [Queues -> Node] /\ r2 \in Queues /\ U \subseteq Queues
    /\ lo2 \in [Queues -> Int] /\ hi2 \in [Queues -> Int]
    /\ up2 \in [Queues -> Queues \cup {NULL}]
    /\ old \in [U -> T]
    /\ \A x, y \in U : old[x] = old[y] => x = y
    /\ \A x \in T : \E y \in U : old[y] = x
    /\ r2 \in U /\ old[r2] = r
    /\ \A y \in U :
          /\ Key(m, y) = Key(n, old[y])
          /\ lo2[y] = lo[old[y]] /\ hi2[y] = hi[old[y]]
          /\ IsNode(m[y].left) <=> IsNode(n[old[y]].left)
          /\ IsNode(m[y].left) => m[y].left \in U /\ old[m[y].left] = n[old[y]].left
          /\ IsNode(m[y].right) <=> IsNode(n[old[y]].right)
          /\ IsNode(m[y].right) => m[y].right \in U /\ old[m[y].right] = n[old[y]].right
          /\ up2[y] = NULL <=> up[old[y]] = NULL
          /\ up2[y] # NULL => up2[y] \in U /\ old[up2[y]] = up[old[y]]

(* Such a tree is in order if the old one was.                             *)
LEMMA Renamed ==
  ASSUME NEW n \in [Queues -> Node], NEW r, NEW T, NEW lo, NEW hi, NEW up,
         Ordered(n, r, T, lo, hi, up),
         NEW m, NEW r2, NEW U, NEW lo2, NEW hi2, NEW up2, NEW old,
         Renames(n, r, T, lo, hi, up, m, r2, U, lo2, hi2, up2, old)
  PROVE  Ordered(m, r2, U, lo2, hi2, up2)
<1> USE DEF Renames
<1>1. T \subseteq Queues BY DEF Ordered
<1>2. Bounded(m, U, lo2, hi2) BY DEF Ordered, Bounded
<1>3. Rooted(r2, U, lo2, hi2, up2)
  <2>1. IsNode(r) BY <1>1, PointerKinds
  <2>2. IsNode(r2) /\ r2 \in Pointers BY PointerKinds
  <2>3. lo[r] = -1 /\ hi[r] = -1 /\ up[r] = NULL BY <2>1 DEF Ordered, Rooted
  <2> QED BY <2>2, <2>3 DEF Rooted
<1>4. LeftOf(m, U, lo2, hi2, up2)
  <2>1. ASSUME NEW y \in U, IsNode(m[y].left), NEW d, d = m[y].left
        PROVE  d \in U /\ lo2[d] = lo2[y] /\ hi2[d] = Key(m, y) /\ up2[d] = y
    <3>1. d \in U /\ old[d] = n[old[y]].left BY <2>1
    <3>2. lo[old[d]] = lo[old[y]] /\ hi[old[d]] = Key(n, old[y]) /\ up[old[d]] = old[y]
      BY <2>1, <3>1 DEF Ordered, LeftOf
    <3>3. old[y] # NULL BY <1>1, PointerKinds
    <3>4. up2[d] = y BY <3>1, <3>2, <3>3
    <3> QED BY <3>1, <3>2, <3>4
  <2>2. ASSUME NEW y \in U, ~IsNode(m[y].left), NEW z \in U,
               lo2[y] < Key(m, z), Key(m, z) < Key(m, y)
        PROVE  FALSE
    <3>1. ~IsNode(n[old[y]].left) BY <2>2
    <3>2. lo[old[y]] < Key(n, old[z]) /\ Key(n, old[z]) < Key(n, old[y]) BY <2>2
    <3> QED BY <3>1, <3>2 DEF Ordered, LeftOf
  <2> QED BY <2>1, <2>2 DEF LeftOf
<1>5. RightOf(m, U, lo2, hi2, up2)
  <2>1. ASSUME NEW y \in U, IsNode(m[y].right), NEW d, d = m[y].right
        PROVE  d \in U /\ lo2[d] = Key(m, y) /\ hi2[d] = hi2[y] /\ up2[d] = y
    <3>1. d \in U /\ old[d] = n[old[y]].right BY <2>1
    <3>2. lo[old[d]] = Key(n, old[y]) /\ hi[old[d]] = hi[old[y]] /\ up[old[d]] = old[y]
      BY <2>1, <3>1 DEF Ordered, RightOf
    <3>3. old[y] # NULL BY <1>1, PointerKinds
    <3>4. up2[d] = y BY <3>1, <3>2, <3>3
    <3> QED BY <3>1, <3>2, <3>4
  <2>2. ASSUME NEW y \in U, ~IsNode(m[y].right), NEW z \in U,
               Key(m, y) < Key(m, z), Beneath(Key(m, z), hi2[y])
        PROVE  FALSE
    <3>1. ~IsNode(n[old[y]].right) BY <2>2
    <3>2. Key(n, old[y]) < Key(n, old[z]) /\ Beneath(Key(n, old[z]), hi[old[y]]) BY <2>2
    <3> QED BY <3>1, <3>2 DEF Ordered, RightOf
  <2> QED BY <2>1, <2>2 DEF RightOf
<1>6. Parents(m, r2, U, up2)
  <2>1. ASSUME NEW y \in U, up2[y] = NULL PROVE y = r2
    BY <2>1 DEF Ordered, Parents
  <2>2. ASSUME NEW y \in U, up2[y] # NULL
        PROVE  up2[y] \in U /\ (m[up2[y]].left = y \/ m[up2[y]].right = y)
    <3> DEFINE p == up2[y]
    <3>1. p \in U /\ old[p] = up[old[y]] /\ up[old[y]] # NULL BY <2>2
    <3>2. n[old[p]].left = old[y] \/ n[old[p]].right = old[y]
      BY <3>1 DEF Ordered, Parents
    <3>3. IsNode(old[y]) BY <1>1, PointerKinds
    <3>4. CASE n[old[p]].left = old[y]
      <4>1. m[p].left \in U /\ old[m[p].left] = old[y] BY <3>1, <3>3, <3>4
      <4> QED BY <4>1, <3>1
    <3>5. CASE n[old[p]].right = old[y]
      <4>1. m[p].right \in U /\ old[m[p].right] = old[y] BY <3>1, <3>3, <3>5
      <4> QED BY <4>1, <3>1
    <3> QED BY <3>1, <3>2, <3>4, <3>5
  <2> QED BY <2>1, <2>2 DEF Parents
<1>7. Threaded(m, U, lo2, hi2)
  <2>1. ASSUME NEW y \in U, lo2[y] # -1
        PROVE  \E x \in U : Key(m, x) = lo2[y] /\ IsNode(m[x].right)
    <3>1. PICK x \in T : Key(n, x) = lo[old[y]] /\ IsNode(n[x].right)
      BY <2>1 DEF Ordered, Threaded
    <3>2. PICK z \in U : old[z] = x OBVIOUS
    <3> QED BY <3>1, <3>2
  <2>2. ASSUME NEW y \in U, hi2[y] # -1
        PROVE  \E x \in U : Key(m, x) = hi2[y] /\ IsNode(m[x].left)
    <3>1. PICK x \in T : Key(n, x) = hi[old[y]] /\ IsNode(n[x].left)
      BY <2>2 DEF Ordered, Threaded
    <3>2. PICK z \in U : old[z] = x OBVIOUS
    <3> QED BY <3>1, <3>2
  <2> QED BY <2>1, <2>2 DEF Threaded
<1> QED BY <1>2, <1>3, <1>4, <1>5, <1>6, <1>7 DEF Ordered

(* A node knows on which side of the one above it hangs.                   *)
LEMMA SideOfChild ==
  ASSUME NEW n \in [Queues -> Node], NEW r, NEW T, NEW lo, NEW hi, NEW up,
         Ordered(n, r, T, lo, hi, up), NEW c \in T
  PROVE  /\ up[c] # c /\ n[c].left # c /\ n[c].right # c
         /\ up[c] = NULL <=> c = r
         /\ \A x \in T : n[x].left = c <=> x = up[c] /\ ~(Key(n, c) > Key(n, x))
         /\ \A x \in T : n[x].right = c <=> x = up[c] /\ Key(n, c) > Key(n, x)
<1>1. T \subseteq Queues /\ IsNode(c) /\ c # NULL BY PointerKinds DEF Ordered
<1>2. \A x \in T : Key(n, x) \in Nat /\ lo[x] \in Int /\ hi[x] \in Int
  BY <1>1, NodeFields DEF Ordered
<1>3. \A x \in T : lo[x] < Key(n, x) /\ Beneath(Key(n, x), hi[x])
  BY DEF Ordered, Bounded, Within
<1>4. \A x \in T : n[x].left = c => up[c] = x /\ Key(n, c) < Key(n, x)
  <2>1. \A x \in T : n[x].left = c => up[c] = x /\ hi[c] = Key(n, x)
    BY <1>1 DEF Ordered, LeftOf
  <2> QED BY <2>1, <1>2, <1>3 DEF Beneath
<1>5. \A x \in T : n[x].right = c => up[c] = x /\ Key(n, c) > Key(n, x)
  <2>1. \A x \in T : n[x].right = c => up[c] = x /\ lo[c] = Key(n, x)
    BY <1>1 DEF Ordered, RightOf
  <2> QED BY <2>1, <1>2, <1>3
<1>6. up[c] # NULL => up[c] \in T /\ (n[up[c]].left = c \/ n[up[c]].right = c)
  BY DEF Ordered, Parents
<1>7. up[c] = NULL <=> c = r BY <1>1 DEF Ordered, Parents, Rooted
<1>8. n[c].left # c /\ n[c].right # c BY <1>2, <1>4, <1>5
<1>9. up[c] # c BY <1>6, <1>8, <1>1
<1>10. \A x \in T : x = up[c] => n[x].left = c \/ n[x].right = c
  BY <1>6, <1>1, PointerKinds
<1>11. \A x \in T : n[x].left = c <=> x = up[c] /\ ~(Key(n, c) > Key(n, x))
  BY <1>2, <1>4, <1>5, <1>10
<1>12. \A x \in T : n[x].right = c <=> x = up[c] /\ Key(n, c) > Key(n, x)
  BY <1>2, <1>4, <1>5, <1>10
<1> QED BY <1>7, <1>8, <1>9, <1>11, <1>12

(* q is in m, whose root is r2, where c is in n.                            *)
Supplants(n, r, T, c, q, m, r2) ==
    /\ Key(m, q) = Key(n, c)
    /\ m[q].left = n[c].left /\ m[q].right = n[c].right
    /\ \A x \in T \ {c} : /\ Key(m, x) = Key(n, x)
                          /\ m[x].left = IF n[x].left = c THEN q ELSE n[x].left
                          /\ m[x].right = IF n[x].right = c THEN q ELSE n[x].right
    /\ r2 = IF r = c THEN q ELSE r

(* A node takes the place of another one with the same key.                *)
LEMMA TakesPlace ==
  ASSUME NEW n \in [Queues -> Node], NEW r, NEW T, NEW lo, NEW hi, NEW up,
         Ordered(n, r, T, lo, hi, up),
         NEW c \in T, NEW q \in Queues \ T,
         NEW m \in [Queues -> Node], NEW r2, Supplants(n, r, T, c, q, m, r2)
  PROVE  \E lo2, hi2, up2 : Ordered(m, r2, (T \ {c}) \cup {q}, lo2, hi2, up2)
<1>0. PICK lo2, hi2, up2 :
         /\ lo2 = [lo EXCEPT ![q] = lo[c]]
         /\ hi2 = [hi EXCEPT ![q] = hi[c]]
         /\ up2 = [x \in Queues |-> IF x = q THEN up[c] ELSE IF up[x] = c THEN q ELSE up[x]]
  OBVIOUS
<1> USE DEF Supplants
<1> DEFINE U == (T \ {c}) \cup {q}
           old == [y \in U |-> IF y = q THEN c ELSE y]
<1>1. /\ T \subseteq Queues /\ c \in Queues /\ q \in Queues /\ q \notin T /\ c # q
      /\ lo \in [Queues -> Int] /\ hi \in [Queues -> Int] /\ up \in [Queues -> Queues \cup {NULL}]
  BY DEF Ordered
<1>2. lo2 \in [Queues -> Int] /\ hi2 \in [Queues -> Int] /\ up2 \in [Queues -> Queues \cup {NULL}]
  BY <1>0, <1>1
<1>3. old \in [U -> T] BY <1>1
<1>4. \A x, y \in U : old[x] = old[y] => x = y BY <1>1
<1>5. \A x \in T : \E y \in U : old[y] = x BY <1>1
<1>6. r2 \in U /\ old[r2] = r
  <2>1. r \in T BY DEF Ordered, Rooted
  <2> QED BY <2>1, <1>1
<1>7. /\ n[c].left # c /\ n[c].right # c /\ up[c] # c BY SideOfChild
<1>8. ASSUME NEW y \in U
      PROVE  /\ Key(m, y) = Key(n, old[y])
             /\ lo2[y] = lo[old[y]] /\ hi2[y] = hi[old[y]]
  BY <1>0, <1>1
<1>9. ASSUME NEW y \in U
      PROVE  /\ IsNode(m[y].left) <=> IsNode(n[old[y]].left)
             /\ IsNode(m[y].left) => m[y].left \in U /\ old[m[y].left] = n[old[y]].left
  <2> DEFINE x == old[y]
  <2>1. x \in T /\ (IsNode(n[x].left) => n[x].left \in T) BY <1>3 DEF Ordered, LeftOf
  <2>2. m[y].left = IF n[x].left = c THEN q ELSE n[x].left BY <1>1, <1>7
  <2>3. IsNode(c) /\ IsNode(q) BY <1>1, PointerKinds
  <2>4. n[x].left # q \/ ~IsNode(n[x].left) BY <2>1, <1>1
  <2> HIDE DEF x
  <2>5. CASE n[x].left = c
    <3>1. m[y].left = q /\ q \in U /\ old[q] = c BY <2>2, <2>5
    <3> HIDE DEF U, old
    <3> QED BY <3>1, <2>3, <2>5 DEF x
  <2>6. CASE n[x].left # c
    <3>1. m[y].left = n[x].left BY <2>2, <2>6
    <3>2. IsNode(n[x].left) => n[x].left \in U /\ old[n[x].left] = n[x].left
      BY <2>1, <2>4, <2>6
    <3> HIDE DEF U, old
    <3> QED BY <3>1, <3>2 DEF x
  <2> QED BY <2>5, <2>6
<1>10. ASSUME NEW y \in U
       PROVE  /\ IsNode(m[y].right) <=> IsNode(n[old[y]].right)
              /\ IsNode(m[y].right) => m[y].right \in U /\ old[m[y].right] = n[old[y]].right
  <2> DEFINE x == old[y]
  <2>1. x \in T /\ (IsNode(n[x].right) => n[x].right \in T) BY <1>3 DEF Ordered, RightOf
  <2>2. m[y].right = IF n[x].right = c THEN q ELSE n[x].right BY <1>1, <1>7
  <2>3. IsNode(c) /\ IsNode(q) BY <1>1, PointerKinds
  <2>4. n[x].right # q \/ ~IsNode(n[x].right) BY <2>1, <1>1
  <2> HIDE DEF x
  <2>5. CASE n[x].right = c
    <3>1. m[y].right = q /\ q \in U /\ old[q] = c BY <2>2, <2>5
    <3> HIDE DEF U, old
    <3> QED BY <3>1, <2>3, <2>5 DEF x
  <2>6. CASE n[x].right # c
    <3>1. m[y].right = n[x].right BY <2>2, <2>6
    <3>2. IsNode(n[x].right) => n[x].right \in U /\ old[n[x].right] = n[x].right
      BY <2>1, <2>4, <2>6
    <3> HIDE DEF U, old
    <3> QED BY <3>1, <3>2 DEF x
  <2> QED BY <2>5, <2>6
<1>11. ASSUME NEW y \in U
       PROVE  /\ up2[y] = NULL <=> up[old[y]] = NULL
              /\ up2[y] # NULL => up2[y] \in U /\ old[up2[y]] = up[old[y]]
  <2>1. old[y] \in T /\ (up[old[y]] # NULL => up[old[y]] \in T)
    BY <1>3 DEF Ordered, Parents
  <2>2. up2[y] = IF up[old[y]] = c THEN q ELSE up[old[y]] BY <1>0, <1>1, <1>7
  <2>3. c # NULL /\ q # NULL BY <1>1, PointerKinds
  <2> QED BY <2>1, <2>2, <2>3, <1>1
<1>12. U \in SUBSET Queues /\ r2 \in Queues BY <1>1, <1>6
<1>13. \A y \in U : /\ Key(m, y) = Key(n, old[y])
                    /\ lo2[y] = lo[old[y]] /\ hi2[y] = hi[old[y]]
                    /\ IsNode(m[y].left) <=> IsNode(n[old[y]].left)
                    /\ IsNode(m[y].left) => m[y].left \in U /\ old[m[y].left] = n[old[y]].left
                    /\ IsNode(m[y].right) <=> IsNode(n[old[y]].right)
                    /\ IsNode(m[y].right) => m[y].right \in U /\ old[m[y].right] = n[old[y]].right
                    /\ up2[y] = NULL <=> up[old[y]] = NULL
                    /\ up2[y] # NULL => up2[y] \in U /\ old[up2[y]] = up[old[y]]
  <2> HIDE DEF U, old
  <2> QED BY <1>8, <1>9, <1>10, <1>11
<1> HIDE DEF U, old
<1>14. Ordered(m, r2, U, lo2, hi2, up2)
  <2>1. Renames(n, r, T, lo, hi, up, m, r2, U, lo2, hi2, up2, old)
    BY <1>2, <1>3, <1>4, <1>5, <1>6, <1>12, <1>13 DEF Renames
  <2> QED BY <2>1, Renamed
<1> QED BY <1>14 DEF U

(* c is the leftmost of n, but not in m, whose root is r2; what was to the *)
(* right of it has come up in its place, below its parent.                 *)
CutOut(n, r, T, lo, up, c, m, r2) ==
    /\ c \in T /\ lo[c] = -1 /\ ~IsNode(n[c].left)
    /\ up[c] # NULL => up[c] \in T /\ n[up[c]].left = c
    /\ m \in [Queues -> Node]
    /\ \A x \in T \ {c} : /\ Key(m, x) = Key(n, x) /\ m[x].right = n[x].right
                          /\ m[x].left = IF x = up[c] THEN n[c].right ELSE n[x].left
    /\ r2 = IF up[c] = NULL THEN n[c].right ELSE r

(* The leftmost node comes out of a tree.                                  *)
LEMMA ComesOut ==
  ASSUME NEW n \in [Queues -> Node], NEW r, NEW T, NEW lo, NEW hi, NEW up,
         Ordered(n, r, T, lo, hi, up),
         NEW c, NEW m, NEW r2, CutOut(n, r, T, lo, up, c, m, r2)
  PROVE  \E lo2, up2 : Ordered(m, r2, T \ {c}, lo2, hi, up2)
<1>0. PICK lo2, up2 : /\ lo2 = [x \in Queues |-> IF lo[x] = Key(n, c) THEN -1 ELSE lo[x]]
                      /\ up2 = [x \in Queues |-> IF up[x] = c THEN up[c] ELSE up[x]]
  OBVIOUS
<1> USE DEF CutOut
<1> DEFINE U == T \ {c}
           d == n[c].right
<1>1. /\ T \subseteq Queues /\ c \in Queues
      /\ lo \in [Queues -> Int] /\ hi \in [Queues -> Int] /\ up \in [Queues -> Queues \cup {NULL}]
  BY DEF Ordered
<1>2. \A x \in T : Key(n, x) \in Nat /\ lo[x] \in Int /\ hi[x] \in Int /\ lo[x] >= -1
  BY <1>1, NodeFields DEF Ordered, Bounded
<1>3. lo2 \in [Queues -> Int] /\ up2 \in [Queues -> Queues \cup {NULL}] BY <1>0, <1>1
<1>4. d \in Pointers /\ (IsNode(d) => d \in U /\ lo[d] = Key(n, c) /\ hi[d] = hi[c] /\ up[d] = c)
  <2>1. IsNode(d) => d \in T /\ lo[d] = Key(n, c) /\ hi[d] = hi[c] /\ up[d] = c
    BY DEF Ordered, RightOf
  <2>2. d # c BY SideOfChild
  <2> QED BY <2>1, <2>2, <1>1, NodeFields
<1>5. ~IsNode(d) => \A x \in T : ~(Key(n, c) < Key(n, x) /\ Beneath(Key(n, x), hi[c]))
  BY DEF Ordered, RightOf
<1>6. \A x \in U : Key(n, x) > Key(n, c)
  <2>1. \A x \in T : ~(-1 < Key(n, x) /\ Key(n, x) < Key(n, c)) BY DEF Ordered, LeftOf
  <2>2. \A x \in U : Key(n, x) # Key(n, c) BY DEF Ordered, Bounded
  <2> QED BY <2>1, <2>2, <1>2
<1>7. \A x \in U : Key(m, x) = Key(n, x) /\ m[x].right = n[x].right OBVIOUS
<1>8. \A x \in U : lo2[x] = IF lo[x] = Key(n, c) THEN -1 ELSE lo[x] BY <1>0, <1>1
<1>9. \A x \in U : up2[x] = IF up[x] = c THEN up[c] ELSE up[x] BY <1>0, <1>1
<1>10. up[c] = NULL <=> c = r BY SideOfChild
<1>11. up[c] # NULL => up[c] \in U /\ lo[up[c]] = -1 /\ hi[c] = Key(n, up[c])
                       /\ m[up[c]].left = d
  <2>1. up[c] # c BY SideOfChild
  <2>2. IsNode(c) BY <1>1, PointerKinds
  <2> QED BY <2>1, <2>2 DEF Ordered, LeftOf
<1>12. Bounded(m, U, lo2, hi)
  <2>1. \A x \in U : lo2[x] >= -1 /\ Within(Key(m, x), lo2[x], hi[x])
    BY <1>2, <1>7, <1>8 DEF Ordered, Bounded, Within
  <2>2. \A x, y \in U : Key(m, x) = Key(m, y) => x = y BY <1>7 DEF Ordered, Bounded
  <2> QED BY <2>1, <2>2 DEF Bounded
<1>13. Rooted(r2, U, lo2, hi, up2)
  <2>1. r \in T /\ lo[r] = -1 /\ hi[r] = -1 /\ up[r] = NULL BY DEF Ordered, Rooted
  <2>2. CASE up[c] = NULL
    <3>1. r2 = d /\ c = r BY <2>2, <1>10
    <3>2. CASE IsNode(d)
      <4>1. d \in U /\ lo2[d] = -1 /\ hi[d] = -1 /\ up2[d] = NULL
        BY <3>1, <3>2, <2>1, <2>2, <1>4, <1>8, <1>9
      <4> QED BY <4>1, <3>1, <1>4, <3>2 DEF Rooted
    <3>3. CASE ~IsNode(d)
      <4>1. \A x \in U : FALSE BY <3>3, <3>1, <1>5, <1>6, <1>2, <2>1 DEF Beneath
      <4> QED BY <4>1, <3>1, <3>3, <1>4 DEF Rooted
    <3> QED BY <3>2, <3>3
  <2>3. CASE up[c] # NULL
    <3>1. r2 = r /\ r \in U BY <2>1, <2>3, <1>10
    <3>2. lo2[r] = -1 BY <3>1, <2>1, <1>8
    <3>3. up2[r] = NULL BY <3>1, <2>1, <1>1, <1>9, PointerKinds
    <3>4. r \in Queues BY <3>1, <1>1
    <3> QED BY <3>1, <3>2, <3>3, <3>4, <2>1, PointerKinds DEF Rooted
  <2> QED BY <2>2, <2>3
<1>14. LeftOf(m, U, lo2, hi, up2)
  <2>1. ASSUME NEW x \in U, x = up[c]
        PROVE  IF IsNode(m[x].left)
               THEN LET e == m[x].left
                    IN  e \in U /\ lo2[e] = lo2[x] /\ hi[e] = Key(m, x) /\ up2[e] = x
               ELSE \A y \in U : ~(lo2[x] < Key(m, y) /\ Key(m, y) < Key(m, x))
    <3>1. x # NULL BY <1>1, PointerKinds
    <3>2. m[x].left = d /\ lo[x] = -1 /\ hi[c] = Key(n, x) BY <2>1, <3>1, <1>11
    <3>3. lo2[x] = -1 BY <3>2, <1>8
    <3>4. CASE IsNode(d)
      <4>1. d \in U /\ lo2[d] = -1 /\ hi[d] = Key(n, x) /\ up2[d] = x
        BY <3>4, <3>2, <2>1, <1>4, <1>8, <1>9
      <4> QED BY <4>1, <3>2, <3>3, <3>4, <1>7
    <3>5. CASE ~IsNode(d)
      <4>1. \A y \in U : ~(Key(n, y) < Key(n, x)) BY <3>5, <3>2, <1>5, <1>6 DEF Beneath
      <4> QED BY <4>1, <3>2, <3>5, <1>7
    <3> QED BY <3>4, <3>5
  <2>2. ASSUME NEW x \in U, x # up[c]
        PROVE  IF IsNode(m[x].left)
               THEN LET e == m[x].left
                    IN  e \in U /\ lo2[e] = lo2[x] /\ hi[e] = Key(m, x) /\ up2[e] = x
               ELSE \A y \in U : ~(lo2[x] < Key(m, y) /\ Key(m, y) < Key(m, x))
    <3> DEFINE e == n[x].left
    <3>1. m[x].left = e BY <2>2
    <3>2. CASE IsNode(e)
      <4>1. e \in T /\ lo[e] = lo[x] /\ hi[e] = Key(n, x) /\ up[e] = x
        BY <3>2 DEF Ordered, LeftOf
      <4>2. e \in U BY <4>1, <2>2
      <4> HIDE DEF e
      <4> QED BY <4>1, <4>2, <3>1, <3>2, <1>7, <1>8, <1>9
    <3>3. CASE ~IsNode(e)
      <4>1. \A y \in T : ~(lo[x] < Key(n, y) /\ Key(n, y) < Key(n, x))
        BY <3>3 DEF Ordered, LeftOf
      <4>2. \A y \in U : ~(lo2[x] < Key(n, y) /\ Key(n, y) < Key(n, x))
        BY <4>1, <1>6, <1>8
      <4> QED BY <4>2, <3>1, <3>3, <1>7
    <3> QED BY <3>2, <3>3
  <2> QED BY <2>1, <2>2 DEF LeftOf
<1>15. RightOf(m, U, lo2, hi, up2)
  <2>1. ASSUME NEW x \in U
        PROVE  IF IsNode(m[x].right)
               THEN LET e == m[x].right
                    IN  e \in U /\ lo2[e] = Key(m, x) /\ hi[e] = hi[x] /\ up2[e] = x
               ELSE \A y \in U : ~(Key(m, x) < Key(m, y) /\ Beneath(Key(m, y), hi[x]))
    <3> DEFINE e == n[x].right
    <3>1. m[x].right = e BY <1>7
    <3>2. CASE IsNode(e)
      <4>1. e \in T /\ lo[e] = Key(n, x) /\ hi[e] = hi[x] /\ up[e] = x
        BY <3>2 DEF Ordered, RightOf
      <4>2. e # c
        <5>1. e = c => Key(n, c) > Key(n, x) BY SideOfChild
        <5> QED BY <5>1, <1>6, <1>2
      <4>3. lo2[e] = Key(n, x)
        <5>1. Key(n, x) # Key(n, c) BY <1>6, <1>2
        <5> HIDE DEF e
        <5> QED BY <5>1, <4>1, <4>2, <1>8
      <4> HIDE DEF e
      <4> QED BY <4>1, <4>2, <4>3, <3>1, <3>2, <1>7, <1>9
    <3>3. CASE ~IsNode(e)
      <4>1. \A y \in T : ~(Key(n, x) < Key(n, y) /\ Beneath(Key(n, y), hi[x]))
        BY <3>3 DEF Ordered, RightOf
      <4> QED BY <4>1, <3>1, <3>3, <1>7
    <3> QED BY <3>2, <3>3
  <2> QED BY <2>1 DEF RightOf
<1>16. Parents(m, r2, U, up2)
  <2>1. ASSUME NEW x \in U, up[x] = c
        PROVE  IF up2[x] = NULL THEN x = r2
               ELSE up2[x] \in U /\ (m[up2[x]].left = x \/ m[up2[x]].right = x)
    <3>1. c # NULL /\ IsNode(x) BY <1>1, PointerKinds
    <3>2. x = d BY <3>1, <2>1 DEF Ordered, Parents
    <3>3. up2[x] = up[c] BY <2>1, <1>9
    <3>4. CASE up[c] = NULL BY <3>2, <3>3, <3>4
    <3>5. CASE up[c] # NULL BY <3>2, <3>3, <3>5, <1>11
    <3> QED BY <3>4, <3>5
  <2>2. ASSUME NEW x \in U, up[x] # c
        PROVE  IF up2[x] = NULL THEN x = r2
               ELSE up2[x] \in U /\ (m[up2[x]].left = x \/ m[up2[x]].right = x)
    <3>1. up2[x] = up[x] BY <2>2, <1>9
    <3>2. CASE up[x] = NULL
      <4>1. x = r BY <3>2 DEF Ordered, Parents
      <4> QED BY <4>1, <3>1, <3>2, <1>10
    <3>3. CASE up[x] # NULL
      <4> DEFINE p == up[x]
      <4>1. p \in U /\ (n[p].left = x \/ n[p].right = x)
        BY <3>3, <2>2 DEF Ordered, Parents
      <4>2. n[p].left = x => p # up[c]
        <5>1. p = up[c] => n[p].left = c BY <3>3
        <5> QED BY <5>1
      <4>3. m[p].left = x \/ m[p].right = x BY <4>1, <4>2
      <4> QED BY <3>1, <3>3, <4>1, <4>3
    <3> QED BY <3>2, <3>3
  <2> QED BY <2>1, <2>2 DEF Parents
<1>17. Threaded(m, U, lo2, hi)
  <2>1. ASSUME NEW x \in U, lo2[x] # -1
        PROVE  \E y \in U : Key(m, y) = lo2[x] /\ IsNode(m[y].right)
    <3>1. lo2[x] = lo[x] /\ lo[x] # Key(n, c) /\ lo[x] # -1 BY <2>1, <1>8
    <3>2. PICK y \in T : Key(n, y) = lo[x] /\ IsNode(n[y].right)
      BY <3>1 DEF Ordered, Threaded
    <3>3. y \in U BY <3>1, <3>2
    <3> QED BY <3>1, <3>2, <3>3, <1>7
  <2>2. ASSUME NEW x \in U, hi[x] # -1
        PROVE  \E y \in U : Key(m, y) = hi[x] /\ IsNode(m[y].left)
    <3>1. PICK y \in T : Key(n, y) = hi[x] /\ IsNode(n[y].left)
      BY <2>2 DEF Ordered, Threaded
    <3>2. y \in U BY <3>1
    <3>3. CASE y # up[c] BY <3>1, <3>2, <3>3
    <3>4. CASE y = up[c]
      <4>1. up[c] # NULL BY <3>4, <1>1, PointerKinds
      <4>2. m[y].left = d /\ hi[c] = hi[x] BY <4>1, <3>1, <3>4, <1>11
      <4>3. Beneath(Key(n, x), hi[x]) BY DEF Ordered, Bounded, Within
      <4>4. IsNode(d) BY <4>2, <4>3, <1>5, <1>6, <1>2
      <4> QED BY <4>2, <4>4, <3>1, <3>2, <1>7
    <3> QED BY <3>3, <3>4
  <2> QED BY <2>1, <2>2 DEF Threaded
<1>18. hi \in [Queues -> Int] /\ U \subseteq Queues BY <1>1
<1>19. Ordered(m, r2, U, lo2, hi, up2)
  BY <1>3, <1>12, <1>13, <1>14, <1>15, <1>16, <1>17, <1>18 DEF Ordered
<1> QED BY <1>19

(* A tree of one node, which nobody has linked to another.                 *)
LEMMA OneNode ==
  ASSUME NEW q \in Queues, NEW m \in [Queues -> Node],
         ~IsNode(m[q].left), ~IsNode(m[q].right),
         NEW lo2, lo2 = [x \in Queues |-> -1],
         NEW up2, up2 = [x \in Queues |-> NULL]
  PROVE  Ordered(m, q, {q}, lo2, lo2, up2)
<1>1. Key(m, q) \in Nat BY NodeFields
<1>2. /\ lo2 \in [Queues -> Int] /\ up2 \in [Queues -> Queues \cup {NULL}]
      /\ lo2[q] = -1 /\ up2[q] = NULL
  OBVIOUS
<1>3. Bounded(m, {q}, lo2, lo2) BY <1>1, <1>2 DEF Bounded, Within, Beneath
<1>4. Rooted(q, {q}, lo2, lo2, up2) BY <1>2, PointerKinds DEF Rooted
<1>5. LeftOf(m, {q}, lo2, lo2, up2) BY <1>1, <1>2 DEF LeftOf
<1>6. RightOf(m, {q}, lo2, lo2, up2) BY <1>1, <1>2 DEF RightOf
<1>7. Parents(m, q, {q}, up2) BY <1>2 DEF Parents
<1>8. Threaded(m, {q}, lo2, lo2) BY <1>2 DEF Threaded
<1> QED BY <1>2, <1>3, <1>4, <1>5, <1>6, <1>7, <1>8 DEF Ordered

(* Nodes that are not in the tree do not matter.                           *)
LEMMA SameTree ==
  ASSUME NEW n, NEW r, NEW T, NEW lo, NEW hi, NEW up,
         Ordered(n, r, T, lo, hi, up),
         NEW m,
         \A x \in T : Key(m, x) = Key(n, x) /\ m[x].left = n[x].left /\ m[x].right = n[x].right
  PROVE  Ordered(m, r, T, lo, hi, up)
<1>1. Bounded(m, T, lo, hi) BY DEF Ordered, Bounded
<1>2. LeftOf(m, T, lo, hi, up) BY DEF Ordered, LeftOf
<1>3. RightOf(m, T, lo, hi, up) BY DEF Ordered, RightOf
<1>4. Parents(m, r, T, up) BY DEF Ordered, Parents
<1>5. Threaded(m, T, lo, hi) BY DEF Ordered, Threaded
<1> QED BY <1>1, <1>2, <1>3, <1>4, <1>5 DEF Ordered
-----------------------------------------------------------------------------
(* The lists of equal keys. *)

LEMMA SameGroups ==
  ASSUME NEW n, NEW M, NEW T, NEW pos, Grouped(n, M, T, pos),
         NEW m,
         \A x \in M : /\ Key(m, x) = Key(n, x) /\ m[x].next = n[x].next
                      /\ m[x].prev = n[x].prev /\ m[x].head = n[x].head
  PROVE  Grouped(m, M, T, pos)
BY DEF Grouped

(* q is new in m, and linked to none of M.                                 *)
Begins(n, M, T, q, m) ==
    /\ \A x \in M : /\ Key(m, x) = Key(n, x) /\ m[x].next = n[x].next
                    /\ m[x].prev = n[x].prev /\ m[x].head = n[x].head
    /\ \A x \in T : Key(n, x) # Key(m, q)
    /\ m[q].head = q /\ ~IsNode(m[q].prev) /\ ~IsNode(m[q].next)

(* A node of a new key is a list of its own.                               *)
LEMMA GroupBegins ==
  ASSUME NEW n, NEW M, NEW T, NEW pos, Grouped(n, M, T, pos),
         NEW q \in Queues \ M, NEW m, Begins(n, M, T, q, m)
  PROVE  Grouped(m, M \cup {q}, T \cup {q}, [pos EXCEPT ![q] = 0])
<1>0. PICK pos2 : pos2 = [pos EXCEPT ![q] = 0] OBVIOUS
<1> USE DEF Begins
<1>1. T \subseteq M /\ M \subseteq Queues /\ pos \in [Queues -> Int] BY DEF Grouped
<1>2. /\ pos2 \in [Queues -> Int] /\ pos2[q] = 0 /\ \A x \in M : pos2[x] = pos[x] BY <1>0, <1>1
<1>3. \A x \in M : Key(n, x) # Key(m, q) BY DEF Grouped
<1>4. \A x \in M \cup {q} : \E p \in T \cup {q} : Key(m, p) = Key(m, x) BY <1>1 DEF Grouped
<1>5. \A p \in T \cup {q}, x \in M \cup {q} : Key(m, x) = Key(m, p) => pos2[x] <= pos2[p]
  BY <1>1, <1>2, <1>3 DEF Grouped
<1>6. \A x, y \in M \cup {q} : Key(m, x) = Key(m, y) /\ pos2[x] = pos2[y] => x = y
  BY <1>1, <1>2, <1>3 DEF Grouped
<1>7. \A x \in (M \cup {q}) \ (T \cup {q}) : /\ m[x].next \in M \cup {q}
                                             /\ Key(m, m[x].next) = Key(m, x)
                                             /\ pos2[m[x].next] = pos2[x] + 1
  BY <1>1, <1>2 DEF Grouped
<1>8. \A p \in T : /\ m[p].head \in M \cup {q}
                   /\ Key(m, m[p].head) = Key(m, p)
                   /\ \A x \in M \cup {q} : Key(m, x) = Key(m, p) => pos2[m[p].head] <= pos2[x]
                   /\ ~IsNode(m[p].next)
                   /\ IsNode(m[p].prev) <=> m[p].head # p
  BY <1>1, <1>2, <1>3 DEF Grouped
<1>9. \A x \in M \cup {q} : Key(m, x) = Key(m, q) => pos2[q] <= pos2[x] BY <1>2, <1>3
<1>10. Grouped(m, M \cup {q}, T \cup {q}, pos2)
  BY <1>1, <1>2, <1>4, <1>5, <1>6, <1>7, <1>8, <1>9 DEF Grouped
<1> QED BY <1>0, <1>10

(* A node goes behind the newest of its key, and is then the newest.       *)
LEMMA GroupGrows ==
  ASSUME NEW n, NEW M, NEW T, NEW pos, Grouped(n, M, T, pos),
         \A x, y \in T : Key(n, x) = Key(n, y) => x = y,
         NEW c \in T, NEW q \in Queues \ M, NEW m,
         \A x \in M : Key(m, x) = Key(n, x),
         \A x \in M \ {c} : /\ m[x].next = n[x].next
                            /\ m[x].prev = n[x].prev /\ m[x].head = n[x].head,
         m[c].next = q, Key(m, q) = Key(n, c),
         m[q].head = n[c].head, IsNode(m[q].prev), ~IsNode(m[q].next),
         NEW pos2, pos2 = [pos EXCEPT ![q] = pos[c] + 1]
  PROVE  Grouped(m, M \cup {q}, (T \ {c}) \cup {q}, pos2)
<1> DEFINE N == M \cup {q}
           U == (T \ {c}) \cup {q}
<1>1. T \subseteq M /\ M \subseteq Queues /\ pos \in [Queues -> Int] /\ c \in M BY DEF Grouped
<1>2. /\ pos2 \in [Queues -> Int] /\ pos2[q] = pos[c] + 1 /\ \A x \in M : pos2[x] = pos[x]
      /\ \A x \in M : pos[x] \in Int
  BY <1>1
<1>3. \A x \in M : Key(n, x) = Key(n, c) => pos[x] <= pos[c] BY DEF Grouped
<1>4. \A x \in N : \E p \in U : Key(m, p) = Key(m, x)
  <2>1. ASSUME NEW x \in M PROVE \E p \in U : Key(m, p) = Key(m, x)
    <3>1. PICK p \in T : Key(n, p) = Key(n, x) BY DEF Grouped
    <3>2. CASE p = c BY <3>1, <3>2, <1>1
    <3>3. CASE p # c BY <3>1, <3>3, <1>1
    <3> QED BY <3>2, <3>3
  <2> QED BY <2>1
<1>5. \A p \in U, x \in N : Key(m, x) = Key(m, p) => pos2[x] <= pos2[p]
  <2>1. ASSUME NEW p \in T \ {c}, NEW x \in N, Key(m, x) = Key(m, p)
        PROVE  pos2[x] <= pos2[p]
    <3>1. x # q BY <2>1, <1>1
    <3> QED BY <3>1, <2>1, <1>1, <1>2 DEF Grouped
  <2>2. ASSUME NEW x \in N, Key(m, x) = Key(m, q)
        PROVE  pos2[x] <= pos2[q]
    BY <2>2, <1>1, <1>2, <1>3
  <2> QED BY <2>1, <2>2
<1>6. \A x, y \in N : Key(m, x) = Key(m, y) /\ pos2[x] = pos2[y] => x = y
  <2>1. ASSUME NEW x \in M, Key(m, x) = Key(m, q), pos2[x] = pos2[q] PROVE FALSE
    BY <2>1, <1>1, <1>2, <1>3
  <2>2. ASSUME NEW x \in M, NEW y \in M, Key(m, x) = Key(m, y), pos2[x] = pos2[y] PROVE x = y
    BY <2>2, <1>2 DEF Grouped
  <2> QED BY <2>1, <2>2
<1>7. \A x \in N \ U : /\ m[x].next \in N
                       /\ Key(m, m[x].next) = Key(m, x)
                       /\ pos2[m[x].next] = pos2[x] + 1
  <2>1. \A x \in N \ U : x = c \/ x \in M \ T OBVIOUS
  <2> QED BY <2>1, <1>1, <1>2 DEF Grouped
<1>8. \A p \in T \ {c} : /\ m[p].head \in N
                         /\ Key(m, m[p].head) = Key(m, p)
                         /\ \A x \in N : Key(m, x) = Key(m, p) => pos2[m[p].head] <= pos2[x]
                         /\ ~IsNode(m[p].next)
                         /\ IsNode(m[p].prev) <=> m[p].head # p
  <2>1. \A p \in T \ {c} : Key(m, p) # Key(m, q) BY <1>1
  <2> QED BY <2>1, <1>1, <1>2 DEF Grouped
<1>9. /\ m[q].head \in N /\ Key(m, m[q].head) = Key(m, q) /\ m[q].head # q
      /\ \A x \in M : Key(m, x) = Key(m, q) => pos2[m[q].head] <= pos2[x]
      /\ pos2[m[q].head] <= pos2[q]
  <2>1. /\ n[c].head \in M /\ Key(n, n[c].head) = Key(n, c)
        /\ \A x \in M : Key(n, x) = Key(n, c) => pos[n[c].head] <= pos[x]
    BY DEF Grouped
  <2>2. pos[n[c].head] <= pos[c] BY <2>1, <1>1
  <2> QED BY <2>1, <2>2, <1>1, <1>2
<1> QED BY <1>1, <1>2, <1>4, <1>5, <1>6, <1>7, <1>8, <1>9 DEF Grouped

(* o, the oldest of the list of c, is served in m; s is the next of it.    *)
Serves(n, M, c, o, s, m) ==
    /\ o = n[c].head /\ o # c /\ s = n[o].next
    /\ \A x \in M :
          /\ Key(m, x) = Key(n, x) /\ m[x].next = n[x].next
          /\ m[x].head = IF x = c THEN s ELSE n[x].head
          /\ m[x].prev = IF x = s THEN NULL ELSE n[x].prev

(* The oldest of several leaves, and the one after it is then the oldest.  *)
LEMMA GroupServed ==
  ASSUME NEW n, NEW M, NEW T, NEW pos, Grouped(n, M, T, pos),
         \A x, y \in T : Key(n, x) = Key(n, y) => x = y,
         NEW c \in T, NEW o, NEW s, NEW m, Serves(n, M, c, o, s, m)
  PROVE  /\ o \in M /\ o \notin T /\ s \in M /\ IsNode(s)
         /\ Key(n, o) = Key(n, c)
         /\ Grouped(m, M \ {o}, T, pos)
<1> USE DEF Serves
<1> DEFINE N == M \ {o}
<1>1. T \subseteq M /\ M \subseteq Queues /\ pos \in [Queues -> Int] /\ c \in M BY DEF Grouped
<1>2. \A x \in M : pos[x] \in Int BY <1>1
<1>3. /\ o \in M /\ Key(n, o) = Key(n, c)
      /\ \A x \in M : Key(n, x) = Key(n, c) => pos[o] <= pos[x]
      /\ IsNode(n[c].prev)
  BY DEF Grouped
<1>4. o \notin T BY <1>3
<1>5. s \in M /\ Key(n, s) = Key(n, o) /\ pos[s] = pos[o] + 1 BY <1>3, <1>4 DEF Grouped
<1>6. IsNode(s) /\ s # o BY <1>1, <1>2, <1>3, <1>5 DEF IsNode
<1>7. T \subseteq N /\ N \subseteq Queues BY <1>1, <1>4
<1>8. \A x \in N : \E p \in T : Key(m, p) = Key(m, x) BY <1>7, <1>1 DEF Grouped
<1>9. \A p \in T, x \in N : Key(m, x) = Key(m, p) => pos[x] <= pos[p] BY <1>7, <1>1 DEF Grouped
<1>10. \A x, y \in N : Key(m, x) = Key(m, y) /\ pos[x] = pos[y] => x = y BY DEF Grouped
<1>11. ASSUME NEW x \in N \ T
       PROVE  /\ m[x].next \in N /\ Key(m, m[x].next) = Key(m, x)
              /\ pos[m[x].next] = pos[x] + 1
  <2>1. /\ n[x].next \in M /\ Key(n, n[x].next) = Key(n, x) /\ pos[n[x].next] = pos[x] + 1
    BY DEF Grouped
  <2>2. n[x].next # o
    <3>1. SUFFICES ASSUME n[x].next = o PROVE FALSE OBVIOUS
    <3>2. pos[o] <= pos[x] BY <3>1, <2>1, <1>3
    <3> QED BY <3>1, <3>2, <2>1, <1>2, <1>3
  <2> QED BY <2>1, <2>2
<1>12. ASSUME NEW p \in T
       PROVE  /\ m[p].head \in N /\ Key(m, m[p].head) = Key(m, p)
              /\ \A x \in N : Key(m, x) = Key(m, p) => pos[m[p].head] <= pos[x]
              /\ ~IsNode(m[p].next)
              /\ IsNode(m[p].prev) <=> m[p].head # p
  <2>1. CASE p = c
    <3>1. m[p].head = s BY <2>1, <1>1
    <3>2. \A x \in N : Key(m, x) = Key(m, p) => pos[s] <= pos[x]
      <4>1. TAKE x \in N
      <4>2. HAVE Key(m, x) = Key(m, p)
      <4>3. Key(n, x) = Key(n, o) /\ pos[o] <= pos[x] BY <4>2, <2>1, <1>1, <1>3
      <4>4. pos[x] # pos[o] BY <4>3, <1>3 DEF Grouped
      <4> QED BY <4>3, <4>4, <1>2, <1>3, <1>5
    <3>3. IsNode(m[p].prev) <=> m[p].head # p
      BY <3>1, <2>1, <1>1, <1>3, PointerKinds
    <3>4. ~IsNode(m[p].next) BY <1>1 DEF Grouped
    <3> QED BY <3>1, <3>2, <3>3, <3>4, <2>1, <1>1, <1>3, <1>5, <1>6
  <2>2. CASE p # c
    <3>1. Key(n, p) # Key(n, o) BY <2>2, <1>3
    <3>2. m[p].head = n[p].head BY <2>2, <1>1
    <3>3. n[p].head \in M /\ Key(n, n[p].head) = Key(n, p) BY DEF Grouped
    <3>4. n[p].head # o BY <3>1, <3>3
    <3>5. m[p].prev = n[p].prev BY <3>1, <1>1, <1>5
    <3> QED BY <3>2, <3>3, <3>4, <3>5, <1>1 DEF Grouped
  <2> QED BY <2>1, <2>2
<1>13. Grouped(m, N, T, pos)
  BY <1>1, <1>7, <1>8, <1>9, <1>10, <1>11, <1>12 DEF Grouped
<1> QED BY <1>3, <1>4, <1>5, <1>6, <1>13

(* c, the only one of its list, is not linked to any other in m.           *)
Ends(n, M, c, m) ==
    /\ n[c].head = c
    /\ \A x \in M \ {c} : /\ Key(m, x) = Key(n, x) /\ m[x].next = n[x].next
                          /\ m[x].prev = n[x].prev /\ m[x].head = n[x].head

(* The only one of its key leaves.                                         *)
LEMMA GroupEnds ==
  ASSUME NEW n, NEW M, NEW T, NEW pos, Grouped(n, M, T, pos),
         NEW c \in T, NEW m, Ends(n, M, c, m)
  PROVE  Grouped(m, M \ {c}, T \ {c}, pos)
<1> USE DEF Ends
<1> DEFINE N == M \ {c}
<1>1. T \subseteq M /\ M \subseteq Queues /\ pos \in [Queues -> Int] /\ c \in M BY DEF Grouped
<1>2. \A x \in M : pos[x] \in Int BY <1>1
<1>3. \A x \in N : Key(n, x) # Key(n, c)
  <2>1. ASSUME NEW x \in N, Key(n, x) = Key(n, c) PROVE FALSE
    <3>1. pos[x] <= pos[c] /\ pos[c] <= pos[x] BY <2>1 DEF Grouped
    <3>2. pos[x] = pos[c] BY <3>1, <1>1, <1>2
    <3> QED BY <3>2, <2>1, <1>1 DEF Grouped
  <2> QED BY <2>1
<1>4. \A x \in N : \E p \in T \ {c} : Key(m, p) = Key(m, x)
  <2>1. TAKE x \in N
  <2>2. PICK p \in T : Key(n, p) = Key(n, x) BY DEF Grouped
  <2>3. p # c BY <2>2, <1>3
  <2> QED BY <2>2, <2>3, <1>1
<1>5. \A p \in T \ {c}, x \in N : Key(m, x) = Key(m, p) => pos[x] <= pos[p] BY <1>1 DEF Grouped
<1>6. \A x, y \in N : Key(m, x) = Key(m, y) /\ pos[x] = pos[y] => x = y BY DEF Grouped
<1>7. \A x \in N \ (T \ {c}) : /\ m[x].next \in N
                               /\ Key(m, m[x].next) = Key(m, x)
                               /\ pos[m[x].next] = pos[x] + 1
  <2>1. \A x \in N \ (T \ {c}) : /\ n[x].next \in M
                               /\ Key(n, n[x].next) = Key(n, x)
                               /\ pos[n[x].next] = pos[x] + 1
    BY DEF Grouped
  <2>2. \A x \in N \ (T \ {c}) : n[x].next # c BY <2>1, <1>3
  <2> QED BY <2>1, <2>2
<1>8. \A p \in T \ {c} : /\ m[p].head \in N
                         /\ Key(m, m[p].head) = Key(m, p)
                         /\ \A x \in N : Key(m, x) = Key(m, p) => pos[m[p].head] <= pos[x]
                         /\ ~IsNode(m[p].next)
                         /\ IsNode(m[p].prev) <=> m[p].head # p
  <2>1. \A p \in T \ {c} : /\ n[p].head \in M /\ Key(n, n[p].head) = Key(n, p)
                           /\ p \in N /\ n[p].head # c
    BY <1>1, <1>3 DEF Grouped
  <2> QED BY <2>1, <1>1 DEF Grouped
<1> QED BY <1>1, <1>4, <1>5, <1>6, <1>7, <1>8 DEF Grouped
-----------------------------------------------------------------------------
(* The tree as a whole: a search tree of the newest of each key.           *)
Shaped(n, r, M, pos) ==
    \E T, lo, hi, up : Ordered(n, r, T, lo, hi, up) /\ Grouped(n, M, T, pos)

(* q comes behind those of M that have the key t.                          *)
Joins(n, M, pos, q, t, pos2) ==
    \A x \in M : pos2[x] = pos[x] /\ (Key(n, x) = t => pos[x] < pos2[q])

(* What event_tree_rebalance makes of a node first.                        *)
Alone(n, q, t) ==
    /\ n[q].timestamp = t /\ n[q].left = NULL /\ n[q].right = NULL
    /\ n[q].next = NULL /\ n[q].prev = NULL /\ n[q].head = q

(* n with q below c, on the side that k says.                              *)
HungBelow(n, k, c, t, q) == [n EXCEPT ![c][Side(k, c, t)] = q]

(* All that holds when q, alone with the time t, is about to enter.        *)
Suits(m, r, T, lo, hi, up, M, pos, q, t) ==
    /\ m \in [Queues -> Node]
    /\ Ordered(m, r, T, lo, hi, up) /\ Grouped(m, M, T, pos)
    /\ q \in Queues \ M /\ t \in Nat /\ Alone(m, q, t)

(* q has entered the tree of n, which is n2 now.                           *)
Entered(n, r, M, pos, q, t, n2, r2) ==
    /\ n2 \in [Queues -> Node] /\ r2 \in Queues
    /\ \A x \in M : Key(n2, x) = Key(n, x)
    /\ Key(n2, q) = t
    /\ \E pos2 : Joins(n, M, pos, q, t, pos2) /\ Shaped(n2, r2, M \cup {q}, pos2)
    /\ Garbage(n2, r2, M \cup {q}) => Garbage(n, r, M)

LEMMA ResetIs ==
  ASSUME NEW n \in [Queues -> Node], NEW q \in Queues, NEW t \in Nat,
         NEW m, m = Reset(n, q, t)
  PROVE  /\ m \in [Queues -> Node]
         /\ \A x \in Queues \ {q} : m[x] = n[x]
         /\ Alone(m, q, t)
BY DEF Reset, Alone, Node, Pointers

LEMMA LinkIs ==
  ASSUME NEW n \in [Queues -> Node], NEW q \in Queues, NEW c \in Queues, q # c,
         NEW m, m = Link(n, q, c)
  PROVE  /\ m \in [Queues -> Node]
         /\ \A x \in Queues \ {q, c} : m[x] = n[x]
         /\ m[q].timestamp = n[q].timestamp
         /\ m[q].left = n[c].left /\ m[q].right = n[c].right
         /\ m[q].next = n[q].next /\ m[q].prev = c /\ m[q].head = n[c].head
         /\ m[c].timestamp = n[c].timestamp
         /\ m[c].left = n[c].left /\ m[c].right = n[c].right
         /\ m[c].next = q /\ m[c].prev = n[c].prev /\ m[c].head = n[c].head
BY DEF Link, Node, Pointers

LEMMA HungIs ==
  ASSUME NEW n \in [Queues -> Node], NEW k \in [Queues -> Node],
         NEW q \in Queues, NEW c \in Queues, NEW t \in Nat,
         NEW m, m = HungBelow(k, n, c, t, q)
  PROVE  /\ m \in [Queues -> Node]
         /\ \A x \in Queues \ {c} : m[x] = k[x]
         /\ m[c].timestamp = k[c].timestamp
         /\ m[c].left = IF t > Key(n, c) THEN k[c].left ELSE q
         /\ m[c].right = IF t > Key(n, c) THEN q ELSE k[c].right
         /\ m[c].next = k[c].next /\ m[c].prev = k[c].prev /\ m[c].head = k[c].head
BY DEF HungBelow, Side, Key, Node, Pointers

(* A queue whose key is new hangs itself at a leaf.                        *)
LEMMA HangsNewKey ==
  ASSUME NEW m, NEW r, NEW T, NEW lo, NEW hi, NEW up, NEW M, NEW pos, NEW q, NEW t,
         Suits(m, r, T, lo, hi, up, M, pos, q, t),
         NEW c \in T, Within(t, lo[c], hi[c]), Key(m, c) # t,
         m[c][Side(m, c, t)] = NULL,
         NEW b, b = HungBelow(m, m, c, t, q)
  PROVE  Entered(m, r, M, pos, q, t, b, r)
<1>0. /\ m \in [Queues -> Node]
      /\ Ordered(m, r, T, lo, hi, up) /\ Grouped(m, M, T, pos)
      /\ q \in Queues \ M /\ t \in Nat /\ Alone(m, q, t)
  BY DEF Suits
<1>1. /\ T \subseteq M /\ M \subseteq Queues /\ c \in M /\ c \in Queues /\ q # c /\ q \notin T
      /\ pos \in [Queues -> Int] /\ q \in Queues \ M /\ t \in Nat
  BY <1>0 DEF Grouped
<1>2. /\ b \in [Queues -> Node]
      /\ \A x \in Queues \ {c} : b[x] = m[x]
      /\ b[c].timestamp = m[c].timestamp
      /\ b[c].left = IF t > Key(m, c) THEN m[c].left ELSE q
      /\ b[c].right = IF t > Key(m, c) THEN q ELSE m[c].right
      /\ b[c].next = m[c].next /\ b[c].prev = m[c].prev /\ b[c].head = m[c].head
  BY <1>0, <1>1, HungIs
<1>3. m[c][Side(m, c, t)] = IF t > Key(m, c) THEN m[c].right ELSE m[c].left BY SideIs
<1>4. Key(m, c) \in Nat /\ t \in Nat /\ (\A x \in Queues : Key(b, x) = Key(m, x)) /\ Key(b, q) = t
  BY <1>0, <1>1, <1>2, NodeFields DEF Key, Alone
<1>5. PICK lo2, hi2, up2 : Ordered(b, r, T \cup {q}, lo2, hi2, up2)
  <2>1. CASE t < Key(m, c)
    <3>1. m[c].left = NULL BY <2>1, <1>3, <1>4
    <3>2. b[c].left = q /\ b[c].right = m[c].right BY <2>1, <1>2, <1>4
    <3>3. \A x \in T : /\ Key(b, x) = Key(m, x) /\ b[x].right = m[x].right
                       /\ b[x].left = IF x = c THEN q ELSE m[x].left
      BY <3>2, <1>1, <1>2, <1>4
    <3>4. Key(b, q) = t /\ b[q].left = NULL /\ b[q].right = NULL
      BY <1>0, <1>1, <1>2, <1>4 DEF Alone
    <3>5. HungLeft(m, T, c, q, t, b) BY <3>3, <3>4 DEF HungLeft
    <3>6. q \in Queues \ T BY <1>1
    <3> QED BY <2>1, <3>1, <3>5, <3>6, <1>0, <1>2, HangLeft
  <2>2. CASE Key(m, c) < t
    <3>1. m[c].right = NULL BY <2>2, <1>3, <1>4
    <3>2. b[c].right = q /\ b[c].left = m[c].left BY <2>2, <1>2, <1>4
    <3>3. \A x \in T : /\ Key(b, x) = Key(m, x) /\ b[x].left = m[x].left
                       /\ b[x].right = IF x = c THEN q ELSE m[x].right
      BY <3>2, <1>1, <1>2, <1>4
    <3>4. Key(b, q) = t /\ b[q].left = NULL /\ b[q].right = NULL
      BY <1>0, <1>1, <1>2, <1>4 DEF Alone
    <3>5. HungRight(m, T, c, q, t, b) BY <3>3, <3>4 DEF HungRight
    <3>6. q \in Queues \ T BY <1>1
    <3> QED BY <2>2, <3>1, <3>5, <3>6, <1>0, <1>2, HangRight
  <2> QED BY <2>1, <2>2, <1>4
<1>6. \A x \in T : Key(m, x) # Key(b, q)
  <2>1. \A x, y \in T \cup {q} : Key(b, x) = Key(b, y) => x = y BY <1>5 DEF Ordered, Bounded
  <2> QED BY <2>1, <1>1, <1>4
<1> DEFINE pos2 == [pos EXCEPT ![q] = 0]
<1>7. Grouped(b, M \cup {q}, T \cup {q}, pos2)
  <2>1. \A x \in M : /\ Key(b, x) = Key(m, x) /\ b[x].next = m[x].next
                     /\ b[x].prev = m[x].prev /\ b[x].head = m[x].head
    BY <1>1, <1>2, <1>4
  <2>2. b[q].head = q /\ ~IsNode(b[q].prev) /\ ~IsNode(b[q].next)
    BY <1>0, <1>1, <1>2, PointerKinds DEF Alone
  <2>3. Begins(m, M, T, q, b) BY <2>1, <2>2, <1>6 DEF Begins
  <2> QED BY <2>3, <1>0, GroupBegins
<1>8. Joins(m, M, pos, q, t, pos2)
  <2>1. \A x \in M : Key(m, x) # t
    <3>1. \A x \in M : \E p \in T : Key(m, p) = Key(m, x) BY <1>0 DEF Grouped
    <3> QED BY <3>1, <1>4, <1>6
  <2> QED BY <2>1, <1>1 DEF Joins
<1>9. Shaped(b, r, M \cup {q}, pos2) BY <1>5, <1>7 DEF Shaped
<1>10. ASSUME Garbage(b, r, M \cup {q}) PROVE Garbage(m, r, M)
  BY <1>0, <1>1, <1>2, <1>10, PointerKinds DEF Garbage, Alone
<1>11. r \in Queues
  <2>1. Rooted(r, T, lo, hi, up) BY <1>0 DEF Ordered
  <2> QED BY <2>1, <1>1 DEF Rooted, IsNode
<1> HIDE DEF pos2
<1> QED BY <1>1, <1>2, <1>4, <1>8, <1>9, <1>10, <1>11 DEF Entered

(* A queue whose key is there takes the place of the newest that has it.   *)
LEMMA SupersedesNewest ==
  ASSUME NEW m, NEW r, NEW T, NEW lo, NEW hi, NEW up, NEW M, NEW pos, NEW q, NEW t,
         Suits(m, r, T, lo, hi, up, M, pos, q, t),
         NEW c \in T, Key(m, c) = t
  PROVE  /\ Entered(m, r, M, pos, q, t, Supersede(m, r, q, c, up[c]).node,
                                        Supersede(m, r, q, c, up[c]).root)
         /\ Supersede(m, r, q, c, up[c]).sane = TRUE
<1> PICK b : b = Supersede(m, r, q, c, up[c]) OBVIOUS
<1>0. /\ m \in [Queues -> Node]
      /\ Ordered(m, r, T, lo, hi, up) /\ Grouped(m, M, T, pos)
      /\ q \in Queues \ M /\ t \in Nat /\ Alone(m, q, t)
  BY DEF Suits
<1> DEFINE k == Link(m, q, c)
           u == up[c]
           U == (T \ {c}) \cup {q}
<1>1. /\ T \subseteq M /\ M \subseteq Queues /\ c \in M /\ c \in Queues /\ q # c /\ q \notin T
      /\ pos \in [Queues -> Int] /\ q \in Queues \ M /\ t \in Nat
  BY <1>0 DEF Grouped
<1>2. /\ k \in [Queues -> Node]
      /\ \A x \in Queues \ {q, c} : k[x] = m[x]
      /\ k[q].timestamp = m[q].timestamp
      /\ k[q].left = m[c].left /\ k[q].right = m[c].right
      /\ k[q].next = m[q].next /\ k[q].prev = c /\ k[q].head = m[c].head
      /\ k[c].timestamp = m[c].timestamp
      /\ k[c].left = m[c].left /\ k[c].right = m[c].right
      /\ k[c].next = q /\ k[c].prev = m[c].prev /\ k[c].head = m[c].head
  BY <1>0, <1>1, LinkIs
<1>3. /\ up[c] # c /\ (up[c] = NULL <=> c = r)
      /\ \A x \in T : m[x].left = c <=> x = u /\ ~(t > Key(m, x))
      /\ \A x \in T : m[x].right = c <=> x = u /\ t > Key(m, x)
  BY <1>0, SideOfChild
<1>4. u # NULL => u \in T /\ u \in Queues /\ u # q /\ u # c
  BY <1>0, <1>1, <1>3 DEF Ordered, Parents
<1>5. /\ b.node \in [Queues -> Node] /\ b.sane = TRUE
      /\ b.root = IF r = c THEN q ELSE r
      /\ b.node[q] = k[q] /\ b.node[c] = k[c]
      /\ \A x \in M \ {c} : /\ b.node[x].timestamp = m[x].timestamp
                            /\ b.node[x].next = m[x].next /\ b.node[x].prev = m[x].prev
                            /\ b.node[x].head = m[x].head
                            /\ b.node[x].left = m[x].left \/ b.node[x].left = q
                            /\ b.node[x].right = m[x].right \/ b.node[x].right = q
      /\ \A x \in T \ {c} : /\ b.node[x].left = IF m[x].left = c THEN q ELSE m[x].left
                            /\ b.node[x].right = IF m[x].right = c THEN q ELSE m[x].right
  <2>1. CASE u = NULL
    <3>1. b = Tree(k, q) BY <2>1 DEF Supersede
    <3>2. b.node = k /\ b.root = q /\ b.sane = TRUE
      <4> HIDE DEF k
      <4> QED BY <3>1 DEF Tree
    <3>3. \A x \in T : m[x].left # c /\ m[x].right # c /\ x # NULL
      BY <2>1, <1>3, <1>1, PointerKinds
    <3>4. \A x \in M \ {c} : k[x] = m[x] BY <1>1, <1>2
    <3> HIDE DEF k
    <3> QED BY <2>1, <3>2, <3>3, <3>4, <1>1, <1>2, <1>3
  <2>2. CASE u # NULL
    <3> DEFINE h == HungBelow(k, m, u, t, q)
    <3>1. b = Tree(h, r) BY <2>2, <1>0 DEF Supersede, HungBelow, Alone
    <3>2. b.node = h /\ b.root = r /\ b.sane = TRUE
      <4> HIDE DEF h
      <4> QED BY <3>1 DEF Tree
    <3>3. /\ h \in [Queues -> Node]
          /\ \A x \in Queues \ {u} : h[x] = k[x]
          /\ h[u].timestamp = k[u].timestamp
          /\ h[u].left = IF t > Key(m, u) THEN k[u].left ELSE q
          /\ h[u].right = IF t > Key(m, u) THEN q ELSE k[u].right
          /\ h[u].next = k[u].next /\ h[u].prev = k[u].prev /\ h[u].head = k[u].head
      <4> HIDE DEF k
      <4> QED BY <2>2, <1>0, <1>2, <1>4, HungIs
    <3>4. \A x \in M \ {c} : k[x] = m[x] BY <1>1, <1>2
    <3>5. r # c BY <2>2, <1>3
    <3> HIDE DEF k, h
    <3>6. u \in T \ {c} /\ u \in M \ {c} /\ q # u BY <2>2, <1>1, <1>4
    <3>7. h[q] = k[q] /\ h[c] = k[c] BY <3>3, <3>6, <1>1
    <3>8. \A x \in (M \ {c}) \ {u} : h[x] = m[x] BY <3>3, <3>4, <1>1
    <3>9. /\ h[u].timestamp = m[u].timestamp /\ h[u].next = m[u].next
          /\ h[u].prev = m[u].prev /\ h[u].head = m[u].head
          /\ h[u].left = IF m[u].left = c THEN q ELSE m[u].left
          /\ h[u].right = IF m[u].right = c THEN q ELSE m[u].right
      BY <3>3, <3>4, <3>6, <1>3
    <3>10. \A x \in (T \ {c}) \ {u} : m[x].left # c /\ m[x].right # c BY <1>3
    <3> QED BY <3>2, <3>3, <3>5, <3>6, <3>7, <3>8, <3>9, <3>10, <1>1
  <2> QED BY <2>1, <2>2
<1> HIDE DEF k
<1>6. /\ \A x \in M : Key(b.node, x) = Key(m, x)
      /\ Key(b.node, q) = t
  BY <1>0, <1>1, <1>2, <1>5 DEF Key, Alone
<1>7. b.root \in Queues
  <2>1. Rooted(r, T, lo, hi, up) BY <1>0 DEF Ordered
  <2>2. r \in Queues BY <2>1 DEF Rooted, IsNode
  <2> QED BY <2>2, <1>1, <1>5
<1>8. PICK lo2, hi2, up2 : Ordered(b.node, b.root, U, lo2, hi2, up2)
  <2>1. q \in Queues \ T /\ Key(b.node, q) = Key(m, c) BY <1>1, <1>6
  <2>2. b.node[q].left = m[c].left /\ b.node[q].right = m[c].right BY <1>2, <1>5
  <2>3. \A x \in T \ {c} : /\ Key(b.node, x) = Key(m, x)
                           /\ b.node[x].left = IF m[x].left = c THEN q ELSE m[x].left
                           /\ b.node[x].right = IF m[x].right = c THEN q ELSE m[x].right
    BY <1>1, <1>5, <1>6
  <2>4. b.node \in [Queues -> Node] /\ b.root = IF r = c THEN q ELSE r BY <1>5
  <2>5. Supplants(m, r, T, c, q, b.node, b.root) BY <2>1, <2>2, <2>3, <2>4 DEF Supplants
  <2> QED BY <1>0, <2>1, <2>4, <2>5, TakesPlace
<1> DEFINE pos2 == [pos EXCEPT ![q] = pos[c] + 1]
<1>9. Grouped(b.node, M \cup {q}, U, pos2)
  <2>1. \A x, y \in T : Key(m, x) = Key(m, y) => x = y BY <1>0 DEF Ordered, Bounded
  <2>2. \A x \in M \ {c} : /\ b.node[x].next = m[x].next
                           /\ b.node[x].prev = m[x].prev /\ b.node[x].head = m[x].head
    BY <1>5
  <2>3. b.node[c].next = q /\ Key(b.node, q) = Key(m, c) BY <1>2, <1>5, <1>6
  <2>4. b.node[q].head = m[c].head /\ IsNode(b.node[q].prev) /\ ~IsNode(b.node[q].next)
    BY <1>0, <1>1, <1>2, <1>5, PointerKinds DEF Alone
  <2> QED BY <2>1, <2>2, <2>3, <2>4, <1>0, <1>6, GroupGrows
<1>10. Joins(m, M, pos, q, t, pos2)
  <2>1. \A x \in M : Key(m, x) = t => pos[x] <= pos[c] BY <1>0 DEF Grouped
  <2>2. \A x \in M : pos[x] \in Int BY <1>1
  <2> QED BY <2>1, <2>2, <1>1 DEF Joins
<1>11. Shaped(b.node, b.root, M \cup {q}, pos2) BY <1>8, <1>9 DEF Shaped
<1>12. ASSUME Garbage(b.node, b.root, M \cup {q}) PROVE Garbage(m, r, M)
  <2>1. b.root # Wild /\ q # Wild /\ c # Wild BY <1>1, <1>7, PointerKinds
  <2>2. PICK x \in M \cup {q} : Wild \in {b.node[x].left, b.node[x].right,
                                          b.node[x].next, b.node[x].prev}
    BY <2>1, <1>12 DEF Garbage
  <2>3. CASE x \in {q, c}
    <3>1. Wild \in {m[c].left, m[c].right, m[c].prev}
      BY <1>0, <2>1, <2>2, <2>3, <1>2, <1>5, PointerKinds DEF Alone
    <3> QED BY <3>1, <1>1 DEF Garbage
  <2>4. CASE x \in M \ {c}
    <3>1. Wild \in {m[x].left, m[x].right, m[x].next, m[x].prev}
      BY <2>1, <2>2, <2>4, <1>5
    <3> QED BY <3>1, <2>4 DEF Garbage
  <2> QED BY <2>3, <2>4
<1> HIDE DEF pos2
<1>13. Entered(m, r, M, pos, q, t, b.node, b.root)
  BY <1>5, <1>6, <1>7, <1>10, <1>11, <1>12 DEF Entered
<1> QED BY <1>5, <1>13

(* event_tree_rebalance puts a queue into the tree behind all others with  *)
(* its key, or stumbles over garbage that was in the tree.                 *)
LEMMA RebalanceJoins ==
  ASSUME NEW n \in [Queues -> Node], NEW r, NEW M, NEW pos, Shaped(n, r, M, pos),
         NEW q \in Queues \ M, NEW t \in Nat,
         NEW b, b = Rebalance(n, r, q, t)
  PROVE  /\ b.sane \in BOOLEAN
         /\ b.sane => Entered(n, r, M, pos, q, t, b.node, b.root)
         /\ ~b.sane => /\ b.node \in [Queues -> Node] /\ b.root = r
                       /\ \A x \in M : Key(b.node, x) = Key(n, x)
                       /\ Shaped(b.node, r, M, pos)
                       /\ Garbage(n, r, M) /\ Garbage(b.node, r, M)
<1>1. PICK T, lo, hi, up : Ordered(n, r, T, lo, hi, up) /\ Grouped(n, M, T, pos) BY DEF Shaped
<1> DEFINE m == Reset(n, q, t)
           f == Found(m, r, t)
           c == f.at
<1>2. /\ T \subseteq M /\ M \subseteq Queues /\ q \notin T /\ q \in Queues /\ r \in Pointers
      /\ pos \in [Queues -> Int]
  BY <1>1 DEF Ordered, Grouped, Rooted
<1>3. /\ m \in [Queues -> Node]
      /\ \A x \in Queues \ {q} : m[x] = n[x]
      /\ Alone(m, q, t)
  BY ResetIs
<1>4. b = IF r = NULL THEN Tree(m, q)
          ELSE IF ~IsNode(c) THEN Lost(Tree(m, r))
          ELSE IF m[c].timestamp = t THEN Supersede(m, r, q, c, f.parent)
          ELSE Tree(HungBelow(m, m, c, t, q), r)
  BY DEF Rebalance, HungBelow
<1> HIDE DEF m, f
<1>5. \A x \in M : m[x] = n[x] /\ Key(m, x) = Key(n, x) BY <1>2, <1>3 DEF Key
<1>6. Ordered(m, r, T, lo, hi, up)
  <2>1. \A x \in T : Key(m, x) = Key(n, x) /\ m[x].left = n[x].left /\ m[x].right = n[x].right
    BY <1>2, <1>5
  <2> QED BY <2>1, <1>1, SameTree
<1>7. Grouped(m, M, T, pos)
  <2>1. \A x \in M : /\ Key(m, x) = Key(n, x) /\ m[x].next = n[x].next
                     /\ m[x].prev = n[x].prev /\ m[x].head = n[x].head
    BY <1>5
  <2> QED BY <2>1, <1>1, SameGroups
<1>8. Garbage(m, r, M) <=> Garbage(n, r, M) BY <1>5 DEF Garbage
<1>9. Shaped(m, r, M, pos) BY <1>6, <1>7 DEF Shaped
<1>10. ASSUME NEW n2, NEW r2, Entered(m, r, M, pos, q, t, n2, r2)
       PROVE  Entered(n, r, M, pos, q, t, n2, r2)
  <2>1. \A pos2 : Joins(m, M, pos, q, t, pos2) => Joins(n, M, pos, q, t, pos2)
    BY <1>5 DEF Joins
  <2> QED BY <2>1, <1>10, <1>5, <1>8 DEF Entered
<1>16. Suits(m, r, T, lo, hi, up, M, pos, q, t) BY <1>3, <1>6, <1>7 DEF Suits
<1>11. CASE r = NULL
  <2>1. b = Tree(m, q) BY <1>11, <1>4
  <2>2. b.node = m /\ b.root = q /\ b.sane = TRUE BY <2>1 DEF Tree
  <2>3. T = {} /\ M = {}
    <3>1. T = {} BY <1>6, <1>11, PointerKinds DEF Ordered, Rooted
    <3> QED BY <3>1, <1>7 DEF Grouped
  <2> DEFINE lo2 == [x \in Queues |-> -1]
             up2 == [x \in Queues |-> NULL]
             pos2 == [pos EXCEPT ![q] = 0]
  <2>4. Ordered(m, q, {q}, lo2, lo2, up2)
    <3> HIDE DEF lo2, up2
    <3> QED BY <1>3, OneNode, PointerKinds DEF lo2, up2, Alone
  <2>5. Grouped(m, M \cup {q}, T \cup {q}, pos2)
    <3>1. ~IsNode(m[q].prev) /\ ~IsNode(m[q].next) /\ m[q].head = q
      BY <1>3, PointerKinds DEF Alone
    <3>2. Begins(m, M, T, q, m) BY <2>3, <3>1 DEF Begins
    <3> QED BY <3>2, <1>7, GroupBegins
  <2>6. Shaped(m, q, M \cup {q}, pos2)
    <3> HIDE DEF lo2, up2, pos2
    <3>1. T \cup {q} = {q} BY <2>3
    <3> QED BY <3>1, <2>4, <2>5 DEF Shaped
  <2>7. Joins(n, M, pos, q, t, pos2) BY <2>3 DEF Joins
  <2>8. ~Garbage(m, q, M \cup {q}) BY <2>3, <1>2, <1>3, PointerKinds DEF Garbage, Alone
  <2>9. Key(m, q) = t /\ q \in Pointers /\ q # NULL
    BY <1>2, <1>3, PointerKinds DEF Key, Alone
  <2> HIDE DEF pos2
  <2> QED BY <2>2, <2>6, <2>7, <2>8, <2>9, <1>2, <1>3, <1>5 DEF Entered
<1>12. ASSUME r # NULL
       PROVE  \/ /\ c \in T /\ f.parent = up[c]
                 /\ Within(t, lo[c], hi[c])
                 /\ Key(m, c) = t \/ m[c][Side(m, c, t)] = NULL
              \/ c = Wild /\ Astray(m, r, T)
  BY <1>3, <1>6, <1>12, FindsPlace DEF f
<1>13. CASE r # NULL /\ c \notin T
  <2>1. c = Wild /\ Astray(m, r, T) BY <1>12, <1>13
  <2>2. b = Lost(Tree(m, r)) BY <2>1, <1>4, <1>13, PointerKinds
  <2>3. b.node = m /\ b.root = r /\ b.sane = FALSE BY <2>2 DEF Tree, Lost
  <2>4. Garbage(m, r, M) BY <2>1, <1>2 DEF Astray, Garbage
  <2> QED BY <2>3, <2>4, <1>2, <1>3, <1>5, <1>8, <1>9, <1>13
<1>14. CASE r # NULL /\ c \in T /\ Key(m, c) = t
  <2>1. b = Supersede(m, r, q, c, up[c])
    <3>1. f.parent = up[c] BY <1>12, <1>14, <1>2, PointerKinds
    <3>2. IsNode(c) /\ m[c].timestamp = t BY <1>14, <1>2, PointerKinds DEF Key
    <3> QED BY <3>1, <3>2, <1>14, <1>4
  <2>2. Entered(m, r, M, pos, q, t, b.node, b.root) /\ b.sane = TRUE
    <3> HIDE DEF c
    <3>1. c \in T /\ Key(m, c) = t BY <1>14
    <3>2. /\ Entered(m, r, M, pos, q, t, Supersede(m, r, q, c, up[c]).node,
                                            Supersede(m, r, q, c, up[c]).root)
          /\ Supersede(m, r, q, c, up[c]).sane = TRUE
      BY <3>1, <1>16, SupersedesNewest
    <3> QED BY <3>2, <2>1
  <2> QED BY <2>2, <1>10
<1>15. CASE r # NULL /\ c \in T /\ Key(m, c) # t
  <2> DEFINE h == HungBelow(m, m, c, t, q)
  <2>1. b = Tree(h, r)
    <3>1. IsNode(c) /\ m[c].timestamp # t BY <1>15, <1>2, PointerKinds DEF Key
    <3> QED BY <3>1, <1>15, <1>4
  <2>2. Within(t, lo[c], hi[c]) /\ m[c][Side(m, c, t)] = NULL
    BY <1>12, <1>15, <1>2, PointerKinds
  <2>3. Entered(m, r, M, pos, q, t, h, r)
    <3> HIDE DEF c, h
    <3>1. c \in T /\ Key(m, c) # t /\ h = HungBelow(m, m, c, t, q) BY <1>15 DEF h
    <3> QED BY <3>1, <2>2, <1>16, HangsNewKey
  <2> HIDE DEF h
  <2>4. b.node = h /\ b.root = r /\ b.sane = TRUE BY <2>1 DEF Tree
  <2> QED BY <2>3, <2>4, <1>10
<1> QED BY <1>11, <1>13, <1>14, <1>15
-----------------------------------------------------------------------------
(* What event_tree_read takes out. *)

LEMMA EmptyTree ==
  ASSUME NEW n, NEW r, NEW M, NEW pos, Shaped(n, r, M, pos)
  PROVE  /\ M \subseteq Queues /\ pos \in [Queues -> Int] /\ r \in Pointers
         /\ ~IsNode(r) => M = {}
         /\ IsNode(r) => r \in M
<1>1. PICK T, lo, hi, up : Ordered(n, r, T, lo, hi, up) /\ Grouped(n, M, T, pos) BY DEF Shaped
<1>2. Rooted(r, T, lo, hi, up) BY <1>1 DEF Ordered
<1>3. /\ M \subseteq Queues /\ pos \in [Queues -> Int] /\ T \subseteq M
      /\ \A x \in M : \E p \in T : Key(n, p) = Key(n, x)
  BY <1>1 DEF Grouped
<1> QED BY <1>2, <1>3 DEF Rooted

(* q, the oldest of the smallest key, has left the tree of n, which is n2. *)
Leaves(n, r, M, pos, q, n2, r2) ==
    /\ n2 \in [Queues -> Node]
    /\ q \in M
    /\ \A x \in M : \/ Key(n, q) < Key(n, x)
                    \/ Key(n, q) = Key(n, x) /\ pos[q] <= pos[x]
    /\ \A x \in M \ {q} : Key(n2, x) = Key(n, x)
    /\ Shaped(n2, r2, M \ {q}, pos)
    /\ Garbage(n2, r2, M \ {q}) => Garbage(n, r, M)

(* The leftmost node has the smallest key.                                 *)
LEMMA SmallestKey ==
  ASSUME NEW n \in [Queues -> Node], NEW r, NEW T, NEW lo, NEW hi, NEW up,
         Ordered(n, r, T, lo, hi, up), NEW M, NEW pos, Grouped(n, M, T, pos),
         NEW c \in T, lo[c] = -1, n[c].left = NULL
  PROVE  \A x \in M : Key(n, c) <= Key(n, x)
<1>1. T \subseteq Queues /\ T \subseteq M /\ M \subseteq Queues BY DEF Ordered, Grouped
<1>2. \A x \in M : Key(n, x) \in Nat BY <1>1, NodeFields
<1>3. \A x \in T : ~(lo[c] < Key(n, x) /\ Key(n, x) < Key(n, c))
  BY PointerKinds DEF Ordered, LeftOf
<1>4. \A x \in T : Key(n, c) <= Key(n, x) BY <1>1, <1>2, <1>3
<1>5. \A x \in M : \E p \in T : Key(n, p) = Key(n, x) BY DEF Grouped
<1> QED BY <1>4, <1>5

(* The list of c has an older node, or a wild pointer to one.              *)
LEMMA OldestLeaves ==
  ASSUME node \in [Queues -> Node], NEW T, NEW lo, NEW hi, NEW up,
         Ordered(node, root, T, lo, hi, up), NEW M, NEW pos, Grouped(node, M, T, pos),
         NEW c \in T, lo[c] = -1, node[c].left = NULL, node[c].prev # NULL
  PROVE  /\ Unlist(c).sane \in BOOLEAN
         /\ Unlist(c).sane =>
              Leaves(node, root, M, pos, Unlist(c).queue, Unlist(c).node, Unlist(c).root)
         /\ ~Unlist(c).sane => Garbage(node, root, M)
<1>1. T \subseteq Queues /\ T \subseteq M /\ M \subseteq Queues /\ c \in M /\ c \in Queues
  BY DEF Ordered, Grouped
<1>2. node[c].prev \in Pointers BY <1>1, NodeFields
<1>3. PICK o, s, m : /\ o = node[c].head /\ s = node[o].next
                     /\ m = [node EXCEPT ![s].prev = NULL, ![c].head = s]
  OBVIOUS
<1>4. Unlist(c) = Taken(o, IF IsNode(s) THEN Tree(m, root) ELSE Lost(Tree(node, root)))
  BY <1>3 DEF Unlist
<1>5. CASE o = c
  <2>1. ~IsNode(s) /\ ~IsNode(node[c].prev) BY <1>3, <1>5 DEF Grouped
  <2>2. Garbage(node, root, M) BY <2>1, <1>1, <1>2, PointerKinds DEF Garbage
  <2>3. Unlist(c) = Taken(o, Lost(Tree(node, root))) BY <2>1, <1>4
  <2>4. Unlist(c).sane = FALSE BY <2>3 DEF Taken, Lost, Tree
  <2> QED BY <2>2, <2>4
<1>6. CASE o # c
  <2>1. \A x, y \in T : Key(node, x) = Key(node, y) => x = y BY DEF Ordered, Bounded
  <2>2. o \in M /\ Key(node, o) = Key(node, c) /\ s \in M
    <3>1. o \in M /\ Key(node, o) = Key(node, c) BY <1>3 DEF Grouped
    <3>2. o \notin T BY <3>1, <2>1, <1>6
    <3> QED BY <3>1, <3>2, <1>3 DEF Grouped
  <2>3. s \in Queues BY <2>2, <1>1
  <2>4. /\ m \in [Queues -> Node]
        /\ \A x \in Queues :
             /\ m[x].timestamp = node[x].timestamp
             /\ m[x].left = node[x].left /\ m[x].right = node[x].right
             /\ m[x].next = node[x].next
             /\ m[x].prev = IF x = s THEN NULL ELSE node[x].prev
             /\ m[x].head = IF x = c THEN s ELSE node[x].head
    <3>1. PICK k : k = [node EXCEPT ![s].prev = NULL] OBVIOUS
    <3>2. /\ k \in [Queues -> Node]
          /\ \A x \in Queues : /\ k[x].timestamp = node[x].timestamp
                               /\ k[x].left = node[x].left /\ k[x].right = node[x].right
                               /\ k[x].next = node[x].next /\ k[x].head = node[x].head
                               /\ k[x].prev = IF x = s THEN NULL ELSE node[x].prev
      BY <3>1, <2>3 DEF Node, Pointers
    <3>3. m = [k EXCEPT ![c].head = s] BY <3>1, <1>3
    <3>4. m \in [Queues -> Node]
      <4>1. k[c] \in Node BY <3>2, <1>1
      <4>2. [k[c] EXCEPT !.head = s] \in Node BY <4>1, <2>3 DEF Node
      <4> QED BY <4>2, <3>2, <3>3, <1>1
    <3>5. /\ \A x \in Queues \ {c} : m[x] = k[x]
          /\ m[c].timestamp = k[c].timestamp
          /\ m[c].left = k[c].left /\ m[c].right = k[c].right
          /\ m[c].next = k[c].next /\ m[c].prev = k[c].prev /\ m[c].head = s
      BY <3>2, <3>3, <1>1 DEF Node
    <3>6. \A x \in Queues : m[x].head = IF x = c THEN s ELSE k[x].head BY <3>5
    <3>7. \A x \in Queues : /\ m[x].timestamp = k[x].timestamp
                            /\ m[x].left = k[x].left /\ m[x].right = k[x].right
                            /\ m[x].next = k[x].next /\ m[x].prev = k[x].prev
      BY <3>5
    <3> QED BY <3>2, <3>4, <3>6, <3>7
  <2>5. \A x \in M : Key(m, x) = Key(node, x) BY <2>4, <1>1 DEF Key
  <2>6. o \notin T /\ Grouped(m, M \ {o}, T, pos)
    <3>1. \A x \in M : Key(m, x) = Key(node, x) /\ m[x].next = node[x].next BY <2>4, <2>5, <1>1
    <3>2. \A x \in M : m[x].head = IF x = c THEN s ELSE node[x].head BY <2>4, <1>1
    <3>3. \A x \in M : m[x].prev = IF x = s THEN NULL ELSE node[x].prev BY <2>4, <1>1
    <3>4. Serves(node, M, c, o, s, m) BY <1>3, <1>6, <3>1, <3>2, <3>3 DEF Serves
    <3> QED BY <2>1, <3>4, GroupServed
  <2>7. Ordered(m, root, T, lo, hi, up)
    <3>1. \A x \in T : /\ Key(m, x) = Key(node, x)
                       /\ m[x].left = node[x].left /\ m[x].right = node[x].right
      BY <2>4, <2>5, <1>1
    <3> QED BY <3>1, SameTree
  <2>8. Shaped(m, root, M \ {o}, pos) BY <2>6, <2>7 DEF Shaped
  <2>9. \A x \in M : \/ Key(node, o) < Key(node, x)
                     \/ Key(node, o) = Key(node, x) /\ pos[o] <= pos[x]
    <3>1. \A x \in M : Key(node, c) <= Key(node, x) BY SmallestKey
    <3>2. \A x \in M : Key(node, x) = Key(node, c) => pos[o] <= pos[x] BY <1>3 DEF Grouped
    <3>3. \A x \in M : Key(node, x) \in Nat BY <1>1, NodeFields
    <3> QED BY <3>1, <3>2, <3>3, <2>2, <1>1
  <2>10. Garbage(m, root, M \ {o}) => Garbage(node, root, M)
    BY <2>4, <1>1, PointerKinds DEF Garbage
  <2>11. Unlist(c) = Taken(o, Tree(m, root)) BY <1>4, <2>3, PointerKinds
  <2>12. /\ Unlist(c).queue = o /\ Unlist(c).node = m
         /\ Unlist(c).root = root /\ Unlist(c).sane = TRUE
    BY <2>11 DEF Taken, Tree
  <2>13. Leaves(node, root, M, pos, o, m, root)
    BY <2>2, <2>4, <2>5, <2>8, <2>9, <2>10 DEF Leaves
  <2> QED BY <2>12, <2>13
<1> QED BY <1>5, <1>6

(* c is alone.                                                             *)
LEMMA LeftmostLeaves ==
  ASSUME node \in [Queues -> Node], NEW T, NEW lo, NEW hi, NEW up,
         Ordered(node, root, T, lo, hi, up), NEW M, NEW pos, Grouped(node, M, T, pos),
         NEW c \in T, lo[c] = -1, node[c].left = NULL, node[c].prev = NULL,
         up[c] # NULL => up[c] \in T /\ node[up[c]].left = c
  PROVE  /\ Unhang(c, up[c]).sane = TRUE
         /\ Leaves(node, root, M, pos, Unhang(c, up[c]).queue,
                   Unhang(c, up[c]).node, Unhang(c, up[c]).root)
<1>1. T \subseteq Queues /\ T \subseteq M /\ M \subseteq Queues /\ c \in M /\ c \in Queues
  BY DEF Ordered, Grouped
<1>2. node[c].head = c BY PointerKinds DEF Grouped
<1>3. PICK u, d, k : u = up[c] /\ d = node[c].right /\ k = [node EXCEPT ![c].right = NULL]
  OBVIOUS
<1>4. PICK m, r2 : /\ m = IF u = NULL THEN k ELSE [k EXCEPT ![u].left = d]
                   /\ r2 = IF u = NULL THEN d ELSE root
  OBVIOUS
<1>5. Unhang(c, up[c]) = Taken(c, Tree(m, r2)) BY <1>3, <1>4 DEF Unhang
<1>6. /\ Unhang(c, up[c]).queue = c /\ Unhang(c, up[c]).node = m
      /\ Unhang(c, up[c]).root = r2 /\ Unhang(c, up[c]).sane = TRUE
  BY <1>5 DEF Taken, Tree
<1>7. d \in Pointers /\ u # c /\ (u # NULL => u \in T /\ u \in Queues /\ node[u].left = c)
  BY <1>1, <1>3, NodeFields, SideOfChild
<1>8. k \in [Queues -> Node] /\ \A x \in Queues \ {c} : k[x] = node[x]
  BY <1>1, <1>3 DEF Node, Pointers
<1>9. /\ m \in [Queues -> Node]
      /\ \A x \in Queues \ {c} :
           /\ m[x].timestamp = node[x].timestamp
           /\ m[x].left = IF x = u THEN d ELSE node[x].left
           /\ m[x].right = node[x].right /\ m[x].next = node[x].next
           /\ m[x].prev = node[x].prev /\ m[x].head = node[x].head
  <2>1. CASE u = NULL
    <3>1. \A x \in Queues : x # u BY <2>1, PointerKinds
    <3> QED BY <2>1, <3>1, <1>4, <1>8
  <2>2. CASE u # NULL
    <3>1. m = [k EXCEPT ![u].left = d] BY <2>2, <1>4
    <3> QED BY <3>1, <2>2, <1>7, <1>8 DEF Node
  <2> QED BY <2>1, <2>2
<1>10. \A x \in M \ {c} : Key(m, x) = Key(node, x) BY <1>1, <1>9 DEF Key
<1>11. \E lo2, up2 : Ordered(m, r2, T \ {c}, lo2, hi, up2)
  <2>1. CutOut(node, root, T, lo, up, c, m, r2)
    <3>1. \A x \in T \ {c} : /\ Key(m, x) = Key(node, x) /\ m[x].right = node[x].right
                             /\ m[x].left = IF x = up[c] THEN node[c].right ELSE node[x].left
      BY <1>1, <1>3, <1>9, <1>10
    <3>2. r2 = IF up[c] = NULL THEN node[c].right ELSE root BY <1>3, <1>4
    <3>3. ~IsNode(node[c].left) BY PointerKinds
    <3> QED BY <3>1, <3>2, <3>3, <1>9 DEF CutOut
  <2> QED BY <2>1, ComesOut
<1>12. Grouped(m, M \ {c}, T \ {c}, pos)
  <2>1. \A x \in M \ {c} : /\ Key(m, x) = Key(node, x) /\ m[x].next = node[x].next
                           /\ m[x].prev = node[x].prev /\ m[x].head = node[x].head
    BY <1>1, <1>9, <1>10
  <2>2. Ends(node, M, c, m) BY <2>1, <1>2 DEF Ends
  <2> QED BY <2>2, GroupEnds
<1>13. Shaped(m, r2, M \ {c}, pos) BY <1>11, <1>12 DEF Shaped
<1>14. \A x \in M : \/ Key(node, c) < Key(node, x)
                    \/ Key(node, c) = Key(node, x) /\ pos[c] <= pos[x]
  <2>1. \A x \in M : Key(node, c) <= Key(node, x) BY SmallestKey
  <2>2. \A x \in M : Key(node, x) = Key(node, c) => pos[c] <= pos[x] BY <1>2 DEF Grouped
  <2>3. \A x \in M : Key(node, x) \in Nat BY <1>1, NodeFields
  <2> QED BY <2>1, <2>2, <2>3, <1>1
<1>15. Garbage(m, r2, M \ {c}) => Garbage(node, root, M)
  BY <1>1, <1>3, <1>4, <1>9 DEF Garbage
<1>16. Leaves(node, root, M, pos, c, m, r2)
  BY <1>1, <1>9, <1>10, <1>13, <1>14, <1>15 DEF Leaves
<1> QED BY <1>6, <1>16

(* event_tree_read takes the queue out whose turn it is, or stumbles over  *)
(* garbage that was in the tree.                                           *)
LEMMA TakesOut ==
  ASSUME node \in [Queues -> Node], root # NULL, NEW M, NEW pos, Shaped(node, root, M, pos)
  PROVE  /\ TakeOut.sane \in BOOLEAN
         /\ TakeOut.sane => Leaves(node, root, M, pos, TakeOut.queue, TakeOut.node, TakeOut.root)
         /\ ~TakeOut.sane => Garbage(node, root, M)
<1>1. PICK T, lo, hi, up : Ordered(node, root, T, lo, hi, up) /\ Grouped(node, M, T, pos)
  BY DEF Shaped
<1>2. PICK f : f = Leftmost OBVIOUS
<1>3. \/ /\ f.at \in T /\ f.parent = up[f.at]
         /\ lo[f.at] = -1 /\ node[f.at].left = NULL
         /\ up[f.at] # NULL => up[f.at] \in T /\ node[up[f.at]].left = f.at
      \/ f.at = Wild /\ Astray(node, root, T)
  BY <1>1, <1>2, FindsLeftmost DEF Leftmost
<1>4. T \subseteq Queues /\ T \subseteq M BY <1>1 DEF Ordered, Grouped
<1>5. CASE f.at = Wild /\ Astray(node, root, T)
  <2>1. TakeOut = Taken(NULL, Lost(Tree(node, root))) BY <1>2, <1>5, PointerKinds DEF TakeOut
  <2>2. TakeOut.sane = FALSE BY <2>1 DEF Taken, Lost, Tree
  <2>3. Garbage(node, root, M) BY <1>4, <1>5 DEF Astray, Garbage
  <2> QED BY <2>2, <2>3
<1>6. CASE f.at \in T /\ node[f.at].prev # NULL
  <2>1. TakeOut = Unlist(f.at) BY <1>2, <1>4, <1>6, PointerKinds DEF TakeOut
  <2>2. lo[f.at] = -1 /\ node[f.at].left = NULL BY <1>3, <1>4, <1>6, PointerKinds
  <2> QED BY <2>1, <2>2, <1>1, <1>6, OldestLeaves
<1>7. CASE f.at \in T /\ node[f.at].prev = NULL
  <2>1. /\ lo[f.at] = -1 /\ node[f.at].left = NULL /\ f.parent = up[f.at]
        /\ up[f.at] # NULL => up[f.at] \in T /\ node[up[f.at]].left = f.at
    BY <1>3, <1>4, <1>7, PointerKinds
  <2>2. TakeOut = Unhang(f.at, up[f.at]) BY <2>1, <1>2, <1>4, <1>7, PointerKinds DEF TakeOut
  <2>3. PICK c : c = f.at OBVIOUS
  <2>4. /\ Unhang(c, up[c]).sane = TRUE
        /\ Leaves(node, root, M, pos, Unhang(c, up[c]).queue,
                  Unhang(c, up[c]).node, Unhang(c, up[c]).root)
    BY <2>1, <2>3, <1>1, <1>7, LeftmostLeaves
  <2> QED BY <2>2, <2>3, <2>4
<1> QED BY <1>3, <1>5, <1>6, <1>7
-----------------------------------------------------------------------------
(* The order in which the queues are served. *)

Before(n, pos, x, y) == Key(n, x) < Key(n, y) \/ (Key(n, x) = Key(n, y) /\ pos[x] < pos[y])

(* list holds the queues of A, once each, in the order of their turns.     *)
Listed(n, pos, list, A) ==
    /\ list \in Seq(Queues)
    /\ \A i \in 1 .. Len(list) : list[i] \in A
    /\ \A x \in A : \E i \in 1 .. Len(list) : list[i] = x
    /\ \A i, j \in 1 .. Len(list) : i < j => Before(n, pos, list[i], list[j])

LEMMA ListedOnce ==
  ASSUME NEW n \in [Queues -> Node], NEW pos \in [Queues -> Int],
         NEW A \in SUBSET Queues, NEW list, Listed(n, pos, list, A)
  PROVE  \A i, j \in 1 .. Len(list) : list[i] = list[j] => i = j
<1>1. \A i \in 1 .. Len(list) : Key(n, list[i]) \in Nat /\ pos[list[i]] \in Int
  BY NodeFields DEF Listed
<1>2. \A i, j \in 1 .. Len(list) : i < j => list[i] # list[j]
  <2>1. SUFFICES ASSUME NEW i \in 1 .. Len(list), NEW j \in 1 .. Len(list), i < j, list[i] = list[j]
                 PROVE  FALSE
    OBVIOUS
  <2>2. Before(n, pos, list[i], list[i]) BY <2>1 DEF Listed
  <2> QED BY <2>2, <1>1 DEF Before
<1>3. Len(list) \in Nat BY DEF Listed
<1> QED BY <1>2, <1>3

LEMMA NoLonger ==
  ASSUME NEW list \in Seq(Queues),
         \A i, j \in 1 .. Len(list) : list[i] = list[j] => i = j
  PROVE  Len(list) <= Cardinality(Queues)
<1>1. Len(list) \in Nat /\ list \in [1 .. Len(list) -> Queues] OBVIOUS
<1>2. list \in Injection(1 .. Len(list), Queues) BY <1>1 DEF Injection, IsInjective
<1>3. Cardinality(1 .. Len(list)) <= Cardinality(Queues) BY <1>2, Sizes, FS_Injection
<1>4. Cardinality(1 .. Len(list)) = Len(list)
  <2>1. Cardinality(1 .. Len(list)) = IF 1 > Len(list) THEN 0 ELSE Len(list) - 1 + 1
    BY <1>1, FS_Interval
  <2> QED BY <2>1, <1>1
<1> QED BY <1>3, <1>4

LEMMA ListedCounts ==
  ASSUME NEW n \in [Queues -> Node], NEW pos \in [Queues -> Int],
         NEW A \in SUBSET Queues, NEW list, Listed(n, pos, list, A)
  PROVE  ToSet(list) = A /\ Len(list) = Cardinality(A)
<1>1. list \in Seq(Queues) /\ Len(list) \in Nat /\ DOMAIN list = 1 .. Len(list) BY DEF Listed
<1>2. ToSet(list) = A BY <1>1 DEF ToSet, Listed
<1>3. list \in [1 .. Len(list) -> A] BY <1>1 DEF Listed
<1>4. \A i, j \in 1 .. Len(list) : list[i] = list[j] => i = j BY ListedOnce
<1>5. list \in Bijection(1 .. Len(list), A)
  BY <1>3, <1>4 DEF Listed, Bijection, Injection, Surjection, IsInjective
<1>6. IsFiniteSet(1 .. Len(list)) /\ Cardinality(1 .. Len(list)) = Len(list)
  <2>1. /\ IsFiniteSet(1 .. Len(list))
        /\ Cardinality(1 .. Len(list)) = IF 1 > Len(list) THEN 0 ELSE Len(list) - 1 + 1
    BY <1>1, FS_Interval
  <2> QED BY <2>1, <1>1
<1>7. ExistsBijection(1 .. Len(list), A) BY <1>5 DEF ExistsBijection
<1>8. Cardinality(A) = Cardinality(1 .. Len(list)) BY <1>6, <1>7, FS_Bijection
<1> QED BY <1>2, <1>6, <1>8

LEMMA ListedJoin ==
  ASSUME NEW n, NEW pos, NEW A, NEW s, Listed(n, pos, s, A),
         NEW B, NEW t, Listed(n, pos, t, B),
         \A a \in A, b \in B : Before(n, pos, a, b)
  PROVE  Listed(n, pos, s \o t, A \cup B)
<1>1. /\ s \in Seq(Queues) /\ t \in Seq(Queues) /\ Len(s) \in Nat /\ Len(t) \in Nat
      /\ s \o t \in Seq(Queues) /\ Len(s \o t) = Len(s) + Len(t)
  BY DEF Listed
<1> DEFINE u == s \o t
<1>2. /\ \A i \in 1 .. Len(s) : u[i] = s[i]
      /\ \A i \in Len(s) + 1 .. Len(s) + Len(t) : u[i] = t[i - Len(s)]
  BY <1>1, ConcatProperties
<1> HIDE DEF u
<1>3. ASSUME NEW i \in 1 .. Len(s) + Len(t)
      PROVE  \/ i \in 1 .. Len(s) /\ u[i] = s[i] /\ s[i] \in A
             \/ /\ i > Len(s) /\ i - Len(s) \in 1 .. Len(t)
                /\ u[i] = t[i - Len(s)] /\ t[i - Len(s)] \in B
  <2>1. CASE i <= Len(s) BY <2>1, <1>1, <1>2 DEF Listed
  <2>2. CASE i > Len(s)
    <3>1. i - Len(s) \in 1 .. Len(t) /\ i \in Len(s) + 1 .. Len(s) + Len(t) BY <2>2, <1>1
    <3> QED BY <2>2, <3>1, <1>2 DEF Listed
  <2> QED BY <2>1, <2>2, <1>1
<1>4. \A x \in A \cup B : \E i \in 1 .. Len(s) + Len(t) : u[i] = x
  <2>1. ASSUME NEW x \in A PROVE \E i \in 1 .. Len(s) + Len(t) : u[i] = x
    <3>1. PICK i \in 1 .. Len(s) : s[i] = x BY DEF Listed
    <3> QED BY <3>1, <1>1, <1>2
  <2>2. ASSUME NEW x \in B PROVE \E i \in 1 .. Len(s) + Len(t) : u[i] = x
    <3>1. PICK i \in 1 .. Len(t) : t[i] = x BY DEF Listed
    <3>2. i + Len(s) \in Len(s) + 1 .. Len(s) + Len(t) /\ (i + Len(s)) - Len(s) = i BY <1>1
    <3>3. u[i + Len(s)] = x /\ i + Len(s) \in 1 .. Len(s) + Len(t) BY <3>1, <3>2, <1>1, <1>2
    <3> QED BY <3>3
  <2> QED BY <2>1, <2>2
<1>5. ASSUME NEW i \in 1 .. Len(s) + Len(t), NEW j \in 1 .. Len(s) + Len(t), i < j
      PROVE  Before(n, pos, u[i], u[j])
  <2>1. CASE j <= Len(s)
    <3>1. i \in 1 .. Len(s) /\ j \in 1 .. Len(s) BY <2>1, <1>1, <1>5
    <3> QED BY <3>1, <1>2, <1>5 DEF Listed
  <2>2. CASE i <= Len(s) /\ j > Len(s)
    <3>1. u[i] \in A /\ u[j] \in B BY <2>2, <1>1, <1>3
    <3> QED BY <3>1
  <2>3. CASE i > Len(s)
    <3>1. /\ i - Len(s) \in 1 .. Len(t) /\ j - Len(s) \in 1 .. Len(t) /\ i - Len(s) < j - Len(s)
          /\ u[i] = t[i - Len(s)] /\ u[j] = t[j - Len(s)]
      BY <2>3, <1>1, <1>2, <1>5
    <3> QED BY <3>1 DEF Listed
  <2> QED BY <2>1, <2>2, <2>3, <1>1
<1>6. \A i \in 1 .. Len(s) + Len(t) : u[i] \in A \cup B BY <1>3
<1> QED BY <1>1, <1>4, <1>5, <1>6 DEF Listed, u

LEMMA NoneListed == ASSUME NEW n, NEW pos PROVE Listed(n, pos, <<>>, {})
BY DEF Listed

LEMMA LongerTyped ==
  ASSUME NEW n \in [Queues -> Node], NEW p
  PROVE  Longer(n, p) \in [Seq(Queues) -> Seq(Queues)]
<1>1. ASSUME NEW list \in Seq(Queues)
      PROVE  Longer(n, p)[list] \in Seq(Queues)
  <2>1. \A q \in Queues : Append(list, q) \in Seq(Queues) OBVIOUS
  <2> QED BY <2>1 DEF Longer, IsNode
<1> QED BY <1>1 DEF Longer

LEMMA ListingRuns ==
  ASSUME NEW n \in [Queues -> Node], NEW p \in Queues
  PROVE  /\ Runs(Listing(n, p), Cardinality(Queues), Seq(Queues), Longer(n, p), <<n[p].head>>)
         /\ Group(n, p) \in Seq(Queues)
<1> DEFINE N == Cardinality(Queues)
           g == Longer(n, p)
           first == <<n[p].head>>
<1>1. N \in Nat /\ g \in [Seq(Queues) -> Seq(Queues)] /\ first \in Seq(Queues)
  BY Sizes, LongerTyped, NodeFields
<1>2. Listing(n, p)
        = CHOOSE h : h = [d \in 0 .. N |-> IF d = 0 THEN first ELSE g[h[d - 1]]]
  BY Sizes DEF Listing, g
<1> HIDE DEF N, g, first
<1>3. Runs(Listing(n, p), N, Seq(Queues), g, first) BY <1>1, <1>2, LoopRuns
<1>4. Listing(n, p)[N] \in Seq(Queues) BY <1>1, <1>3 DEF Runs
<1> QED BY <1>3, <1>4 DEF N, g, first, Group

(* A list from the oldest towards the newest of a key.                     *)
Strung(n, M, p, pos, list) ==
    /\ list \in Seq(Queues) /\ Len(list) >= 1
    /\ \A i \in 1 .. Len(list) : /\ list[i] \in M /\ Key(n, list[i]) = Key(n, p)
                                 /\ pos[list[i]] = pos[n[p].head] + (i - 1)

LEMMA StrungShort ==
  ASSUME NEW n, NEW M, NEW p, NEW pos \in [Queues -> Int], NEW list,
         M \subseteq Queues, n[p].head \in Queues, Strung(n, M, p, pos, list)
  PROVE  Len(list) \in Nat /\ Len(list) <= Cardinality(Queues)
<1>1. list \in Seq(Queues) /\ Len(list) \in Nat BY DEF Strung
<1>2. \A i, j \in 1 .. Len(list) : list[i] = list[j] => i = j BY <1>1 DEF Strung
<1> QED BY <1>1, <1>2, NoLonger

(* A turn of the loop adds the next younger one, or is at the newest.      *)
LEMMA StrungGrows ==
  ASSUME NEW n \in [Queues -> Node], NEW r, NEW T, NEW lo, NEW hi, NEW up,
         Ordered(n, r, T, lo, hi, up), NEW M, NEW pos, Grouped(n, M, T, pos),
         NEW p \in T, NEW list, Strung(n, M, p, pos, list)
  PROVE  /\ Strung(n, M, p, pos, Longer(n, p)[list])
         /\ \/ Last(list) = p /\ Longer(n, p)[list] = list
            \/ Len(Longer(n, p)[list]) = Len(list) + 1
<1>1. /\ list \in Seq(Queues) /\ Len(list) \in Nat /\ Len(list) >= 1
      /\ T \subseteq M /\ M \subseteq Queues /\ pos \in [Queues -> Int]
  BY DEF Strung, Grouped
<1>2. PICK l : l = Last(list) OBVIOUS
<1>3. l \in M /\ Key(n, l) = Key(n, p) /\ pos[l] = pos[n[p].head] + (Len(list) - 1)
  <2>1. Len(list) \in 1 .. Len(list) BY <1>1
  <2> QED BY <2>1, <1>2 DEF Strung, Last
<1>4. CASE l = p
  <2>1. Longer(n, p)[list] = list BY <1>1, <1>2, <1>4 DEF Longer
  <2> QED BY <2>1, <1>2, <1>4
<1>5. CASE l # p
  <2>1. l \notin T BY <1>3, <1>5 DEF Ordered, Bounded
  <2>2. PICK x : x = n[l].next OBVIOUS
  <2>3. x \in M /\ Key(n, x) = Key(n, p) /\ pos[x] = pos[l] + 1
    BY <2>1, <2>2, <1>3 DEF Grouped
  <2>4. Longer(n, p)[list] = Append(list, x)
    BY <2>2, <2>3, <1>1, <1>2, <1>5, PointerKinds DEF Longer
  <2>5. PICK more : more = Append(list, x) OBVIOUS
  <2>6. /\ more \in Seq(Queues) /\ Len(more) = Len(list) + 1
        /\ \A i \in 1 .. Len(list) : more[i] = list[i]
        /\ more[Len(list) + 1] = x
    BY <2>3, <2>5, <1>1
  <2>7. pos[n[p].head] \in Int /\ pos[x] = pos[n[p].head] + ((Len(list) + 1) - 1)
    <3>1. n[p].head \in Queues BY <1>1, NodeFields
    <3> QED BY <3>1, <2>3, <1>1, <1>3
  <2>8. Strung(n, M, p, pos, more)
    <3>1. ASSUME NEW i \in 1 .. Len(list) + 1
          PROVE  /\ more[i] \in M /\ Key(n, more[i]) = Key(n, p)
                 /\ pos[more[i]] = pos[n[p].head] + (i - 1)
      <4>1. CASE i = Len(list) + 1 BY <4>1, <2>3, <2>6, <2>7
      <4>2. CASE i # Len(list) + 1
        <5>1. i \in 1 .. Len(list) BY <4>2, <1>1
        <5> QED BY <5>1, <2>6 DEF Strung
      <4> QED BY <4>1, <4>2
    <3> QED BY <3>1, <2>6, <1>1 DEF Strung
  <2> QED BY <2>4, <2>5, <2>6, <2>8
<1> QED BY <1>4, <1>5

(* The list at a node of the tree is that of its key.                      *)
LEMMA GroupLists ==
  ASSUME NEW n \in [Queues -> Node], NEW r, NEW T, NEW lo, NEW hi, NEW up,
         Ordered(n, r, T, lo, hi, up), NEW M, NEW pos, Grouped(n, M, T, pos),
         NEW p \in T
  PROVE  Listed(n, pos, Group(n, p), {x \in M : Key(n, x) = Key(n, p)})
<1> DEFINE N == Cardinality(Queues)
           g == Longer(n, p)
           first == <<n[p].head>>
           Good == {list \in Seq(Queues) : Strung(n, M, p, pos, list)}
           size == [list \in Seq(Queues) |-> IF Len(list) <= N THEN N - Len(list) ELSE 0]
           A == {x \in M : Key(n, x) = Key(n, p)}
<1>1. /\ N \in Nat /\ g \in [Seq(Queues) -> Seq(Queues)] /\ first \in Seq(Queues)
      /\ T \subseteq M /\ M \subseteq Queues /\ p \in Queues /\ pos \in [Queues -> Int]
  BY Sizes, LongerTyped, NodeFields DEF Grouped
<1>2. /\ n[p].head \in M /\ Key(n, n[p].head) = Key(n, p)
      /\ \A x \in M : Key(n, x) = Key(n, p) => pos[n[p].head] <= pos[x] /\ pos[x] <= pos[p]
  BY DEF Grouped
<1>3. Runs(Listing(n, p), N, Seq(Queues), g, first) BY <1>1, ListingRuns
<1>4. first \in Good
  <2>1. Len(first) = 1 /\ first[1] = n[p].head OBVIOUS
  <2>2. pos[n[p].head] \in Int BY <1>1, <1>2
  <2>3. Strung(n, M, p, pos, first)
    <3> HIDE DEF first
    <3> QED BY <2>1, <2>2, <1>1, <1>2 DEF Strung
  <2> QED BY <2>3, <1>1
<1>5. \A list \in Good : Len(list) \in Nat /\ Len(list) <= N BY <1>1, <1>2, StrungShort
<1>6. size \in [Seq(Queues) -> Nat] /\ size[first] <= N
  <2>1. \A list \in Seq(Queues) : Len(list) \in Nat OBVIOUS
  <2> HIDE DEF first
  <2> QED BY <2>1, <1>1
<1>7. ASSUME NEW list \in Good
      PROVE  /\ g[list] \in Good
             /\ (Last(list) = p /\ g[list] = list) \/ size[g[list]] < size[list]
  <2>1. Strung(n, M, p, pos, list) /\ list \in Seq(Queues) OBVIOUS
  <2>2. /\ Strung(n, M, p, pos, g[list])
        /\ (Last(list) = p /\ g[list] = list) \/ Len(g[list]) = Len(list) + 1
    BY <2>1, StrungGrows
  <2>3. g[list] \in Good BY <2>1, <2>2, <1>1
  <2>4. /\ Len(list) \in Nat /\ Len(list) <= N /\ Len(g[list]) \in Nat /\ Len(g[list]) <= N
        /\ g[list] \in Seq(Queues)
    BY <2>3, <1>5
  <2> HIDE DEF g, Good
  <2>5. size[list] = N - Len(list) /\ size[g[list]] = N - Len(g[list]) BY <2>1, <2>4
  <2> HIDE DEF size
  <2> QED BY <2>2, <2>3, <2>4, <2>5, <1>1
<1> HIDE DEF N, g, first, Good, size
<1>8. Good \in SUBSET Seq(Queues) BY DEF Good
<1>9. Listing(n, p)[N] \in Good /\ g[Listing(n, p)[N]] = Listing(n, p)[N]
  <2>1. \A s \in Good : g[s] \in Good /\ (g[s] = s \/ size[g[s]] < size[s]) BY <1>7
  <2>2. PICK f, S : f = Listing(n, p) /\ S = Seq(Queues) OBVIOUS
  <2>3. /\ Runs(f, N, S, g, first) /\ g \in [S -> S] /\ first \in S
        /\ Good \in SUBSET S /\ size \in [S -> Nat]
        /\ N \in Nat /\ size[first] <= N /\ first \in Good
    BY <2>2, <1>1, <1>3, <1>4, <1>6, <1>8
  <2>4. f[N] \in Good /\ g[f[N]] = f[N]
    BY <2>1, <2>3, LoopSettles
  <2> QED BY <2>2, <2>4
<1>10. PICK list : list = Group(n, p) OBVIOUS
<1>11. list \in Good /\ g[list] = list BY <1>9, <1>10 DEF Group, N
<1>12. Last(list) = p
  <2>1. size[list] \in Nat BY <1>6, <1>8, <1>11
  <2> QED BY <2>1, <1>7, <1>11
<1>13. Strung(n, M, p, pos, list) /\ list \in Seq(Queues) /\ Len(list) \in Nat /\ Len(list) >= 1
  BY <1>11 DEF Good, Strung
<1>14. pos[p] = pos[n[p].head] + (Len(list) - 1)
  <2>1. Len(list) \in 1 .. Len(list) BY <1>13
  <2> QED BY <2>1, <1>12, <1>13 DEF Strung, Last
<1>15. \A i \in 1 .. Len(list) : list[i] \in A BY <1>13 DEF Strung
<1>16. ASSUME NEW x \in A
       PROVE  \E i \in 1 .. Len(list) : list[i] = x
  <2>1. /\ pos[n[p].head] <= pos[x] /\ pos[x] <= pos[p] /\ x \in M /\ Key(n, x) = Key(n, p)
        /\ pos[x] \in Int /\ pos[n[p].head] \in Int /\ pos[p] \in Int
    BY <1>1, <1>2
  <2>2. PICK i : i = pos[x] - pos[n[p].head] + 1 OBVIOUS
  <2>3. i \in 1 .. Len(list) BY <2>1, <2>2, <1>13, <1>14
  <2>4. pos[list[i]] = pos[x] /\ list[i] \in M /\ Key(n, list[i]) = Key(n, x)
    BY <2>1, <2>2, <2>3, <1>13 DEF Strung
  <2>5. list[i] = x BY <2>1, <2>4 DEF Grouped
  <2> QED BY <2>3, <2>5
<1>17. ASSUME NEW i \in 1 .. Len(list), NEW j \in 1 .. Len(list), i < j
       PROVE  Before(n, pos, list[i], list[j])
  <2>1. pos[n[p].head] \in Int BY <1>1, <1>2
  <2> QED BY <2>1, <1>13, <1>17 DEF Strung, Before
<1>18. Listed(n, pos, list, A) BY <1>13, <1>15, <1>16, <1>17 DEF Listed
<1> QED BY <1>10, <1>18

LEMMA DeeperTyped ==
  ASSUME NEW n \in [Queues -> Node], NEW below \in [Pointers -> Seq(Queues)]
  PROVE  Deeper(n, below) \in [Pointers -> Seq(Queues)]
<1>1. ASSUME NEW p \in Pointers
      PROVE  Deeper(n, below)[p] \in Seq(Queues)
  <2>1. CASE IsNode(p)
    <3>1. /\ below[n[p].left] \in Seq(Queues) /\ below[n[p].right] \in Seq(Queues)
          /\ Group(n, p) \in Seq(Queues)
      BY <2>1, NodeFields, ListingRuns, PointerKinds
    <3>2. Deeper(n, below)[p] = below[n[p].left] \o Group(n, p) \o below[n[p].right]
      BY <2>1 DEF Deeper
    <3>3. below[n[p].left] \o Group(n, p) \in Seq(Queues) BY <3>1
    <3> QED BY <3>1, <3>2, <3>3
  <2>2. CASE ~IsNode(p) BY <2>2 DEF Deeper
  <2> QED BY <2>1, <2>2
<1> QED BY <1>1 DEF Deeper

LEMMA WalkIs ==
  ASSUME NEW n \in [Queues -> Node]
  PROVE  /\ Walk(n)[0] = [p \in Pointers |-> <<>>]
         /\ \A d \in Nat : d < Cardinality(Queues) => Walk(n)[d + 1] = Deeper(n, Walk(n)[d])
<1> DEFINE N == Cardinality(Queues)
           first == [p \in Pointers |-> <<>>]
           S == [Pointers -> Seq(Queues)]
           g == [below \in S |-> Deeper(n, below)]
           IsWalk(h) == h = [d \in 0 .. N |-> IF d = 0 THEN first ELSE Deeper(n, h[d - 1])]
<1>1. N \in Nat /\ first \in S /\ g \in [S -> S]
  <2>1. N \in Nat /\ first \in S BY Sizes
  <2>2. \A below \in S : Deeper(n, below) \in S BY DeeperTyped
  <2> HIDE DEF S, N, first
  <2> QED BY <2>1, <2>2
<1>2. \A below \in S : g[below] = Deeper(n, below) OBVIOUS
<1>3. PICK h : Runs(h, N, S, g, first)
  <2> HIDE DEF N, S, g, first
  <2> QED BY <1>1, StatesOfALoop
<1>4. IsWalk(h)
  <2> HIDE DEF N, S, g, first
  <2>1. h \in [0 .. N -> S] BY <1>3 DEF Runs
  <2>2. ASSUME NEW d \in 0 .. N
        PROVE  h[d] = IF d = 0 THEN first ELSE Deeper(n, h[d - 1])
    <3>1. CASE d = 0 BY <3>1, <1>3 DEF Runs
    <3>2. CASE d # 0
      <4>1. d - 1 \in Nat /\ d - 1 < N /\ d - 1 \in 0 .. N /\ (d - 1) + 1 = d BY <3>2, <1>1
      <4>2. h[d] = g[h[d - 1]] BY <4>1, <1>3 DEF Runs
      <4>3. h[d - 1] \in S BY <4>1, <2>1
      <4> QED BY <4>2, <4>3, <3>2, <1>2
    <3> QED BY <3>1, <3>2
  <2> QED BY <2>1, <2>2
<1>5. Walk(n) = CHOOSE x : IsWalk(x) BY Sizes DEF Walk
<1>6. IsWalk(Walk(n))
  <2> HIDE DEF IsWalk
  <2> QED BY <1>4, <1>5
<1>7. PICK f : f = Walk(n) OBVIOUS
<1> HIDE DEF N, S, g, first
<1>8. \A d \in 0 .. N : f[d] = IF d = 0 THEN first ELSE Deeper(n, f[d - 1]) BY <1>6, <1>7
<1>9. f[0] = first
  <2>1. 0 \in 0 .. N BY <1>1
  <2> QED BY <2>1, <1>8
<1>10. ASSUME NEW d \in Nat, d < N
       PROVE  f[d + 1] = Deeper(n, f[d])
  <2>1. d + 1 \in 0 .. N /\ d + 1 # 0 /\ (d + 1) - 1 = d BY <1>1, <1>10
  <2> QED BY <2>1, <1>8
<1> QED BY <1>7, <1>9, <1>10 DEF N, first

(* The queues between two keys.                                            *)
Share(n, M, l, h) == {x \in M : Within(Key(n, x), l, h)}

(* below lists what hangs at every node with no more than d below it.      *)
Lists(n, M, T, lo, hi, pos, d, below) ==
    /\ below \in [Pointers -> Seq(Queues)]
    /\ \A p \in Pointers : ~IsNode(p) => below[p] = <<>>
    /\ \A p \in T : Cardinality(Below(n, T, lo, hi, p)) <= d
                       => Listed(n, pos, below[p], Share(n, M, lo[p], hi[p]))

(* If the children of p are listed, so is p.                               *)
LEMMA DeeperLists ==
  ASSUME NEW n \in [Queues -> Node], NEW r, NEW T, NEW lo, NEW hi, NEW up,
         Ordered(n, r, T, lo, hi, up), NEW M, NEW pos, Grouped(n, M, T, pos),
         NEW d \in Nat, NEW below, Lists(n, M, T, lo, hi, pos, d, below)
  PROVE  Lists(n, M, T, lo, hi, pos, d + 1, Deeper(n, below))
<1>1. /\ T \subseteq M /\ M \subseteq Queues /\ pos \in [Queues -> Int]
      /\ \A x \in M : \E p \in T : Key(n, p) = Key(n, x)
  BY DEF Grouped
<1>2. \A x \in M : Key(n, x) \in Nat BY <1>1, NodeFields
<1>3. \A p \in T : /\ lo[p] \in Int /\ hi[p] \in Int /\ lo[p] >= -1
                   /\ Within(Key(n, p), lo[p], hi[p])
  BY <1>1 DEF Ordered, Bounded
<1>4. below \in [Pointers -> Seq(Queues)] /\ \A p \in Pointers : ~IsNode(p) => below[p] = <<>>
  BY DEF Lists
<1>5. ASSUME NEW p \in T, Cardinality(Below(n, T, lo, hi, p)) <= d + 1
      PROVE  Listed(n, pos, Deeper(n, below)[p], Share(n, M, lo[p], hi[p]))
  <2>1. PICK a, b, k : a = n[p].left /\ b = n[p].right /\ k = Key(n, p) OBVIOUS
  <2>2. /\ p \in Queues /\ p \in Pointers /\ IsNode(p)
        /\ a \in Pointers /\ b \in Pointers /\ k \in Nat
    BY <1>1, <2>1, NodeFields, PointerKinds
  <2>3. Deeper(n, below)[p] = below[a] \o Group(n, p) \o below[b]
    BY <2>1, <2>2 DEF Deeper
  <2>4. Listed(n, pos, below[a], Share(n, M, lo[p], k))
    <3>1. CASE IsNode(a)
      <4>1. a \in T /\ lo[a] = lo[p] /\ hi[a] = k BY <3>1, <2>1 DEF Ordered, LeftOf
      <4>2. Cardinality(Below(n, T, lo, hi, a)) < Cardinality(Below(n, T, lo, hi, p))
        BY <3>1, <2>1, ChildrenSmaller
      <4>3. /\ Cardinality(Below(n, T, lo, hi, a)) \in Nat
            /\ Cardinality(Below(n, T, lo, hi, p)) \in Nat
        BY <4>1, BelowCounts
      <4>4. Cardinality(Below(n, T, lo, hi, a)) <= d BY <4>2, <4>3, <1>5
      <4> QED BY <4>1, <4>4 DEF Lists
    <3>2. CASE ~IsNode(a)
      <4>1. \A q \in T : ~(lo[p] < Key(n, q) /\ Key(n, q) < k)
        BY <3>2, <2>1 DEF Ordered, LeftOf
      <4>2. \A x \in M : ~Within(Key(n, x), lo[p], k)
        <5>1. TAKE x \in M
        <5>2. PICK q \in T : Key(n, q) = Key(n, x) BY <1>1
        <5>3. k # -1 BY <2>2
        <5> QED BY <5>2, <5>3, <4>1 DEF Within, Beneath
      <4>3. Share(n, M, lo[p], k) = {} BY <4>2 DEF Share
      <4> QED BY <4>3, <3>2, <2>2, <1>4, NoneListed
    <3> QED BY <3>1, <3>2
  <2>5. Listed(n, pos, Group(n, p), {x \in M : Key(n, x) = k}) BY <2>1, GroupLists
  <2>6. Listed(n, pos, below[b], Share(n, M, k, hi[p]))
    <3>1. CASE IsNode(b)
      <4>1. b \in T /\ lo[b] = k /\ hi[b] = hi[p] BY <3>1, <2>1 DEF Ordered, RightOf
      <4>2. Cardinality(Below(n, T, lo, hi, b)) < Cardinality(Below(n, T, lo, hi, p))
        BY <3>1, <2>1, ChildrenSmaller
      <4>3. /\ Cardinality(Below(n, T, lo, hi, b)) \in Nat
            /\ Cardinality(Below(n, T, lo, hi, p)) \in Nat
        BY <4>1, BelowCounts
      <4>4. Cardinality(Below(n, T, lo, hi, b)) <= d BY <4>2, <4>3, <1>5
      <4> QED BY <4>1, <4>4 DEF Lists
    <3>2. CASE ~IsNode(b)
      <4>1. \A q \in T : ~(k < Key(n, q) /\ Beneath(Key(n, q), hi[p]))
        BY <3>2, <2>1 DEF Ordered, RightOf
      <4>2. \A x \in M : ~Within(Key(n, x), k, hi[p])
        <5>1. TAKE x \in M
        <5>2. PICK q \in T : Key(n, q) = Key(n, x) BY <1>1
        <5> QED BY <5>2, <4>1 DEF Within
      <4>3. Share(n, M, k, hi[p]) = {} BY <4>2 DEF Share
      <4> QED BY <4>3, <3>2, <2>2, <1>4, NoneListed
    <3> QED BY <3>1, <3>2
  <2> DEFINE A == Share(n, M, lo[p], k)
             G == {x \in M : Key(n, x) = k}
             B == Share(n, M, k, hi[p])
  <2>7. \A x \in A : x \in M /\ Key(n, x) < k
    BY <2>2 DEF Share, Within, Beneath
  <2>8. \A x \in B : x \in M /\ k < Key(n, x) BY DEF Share, Within
  <2>9. Listed(n, pos, below[a] \o Group(n, p), A \cup G)
    <3>1. \A x \in A, y \in G : Before(n, pos, x, y) BY <2>7 DEF Before
    <3> HIDE DEF A, G
    <3> QED BY <3>1, <2>4, <2>5, ListedJoin DEF A, G
  <2>10. Listed(n, pos, (below[a] \o Group(n, p)) \o below[b], (A \cup G) \cup B)
    <3>1. \A x \in A \cup G, y \in B : Before(n, pos, x, y)
      BY <2>2, <2>7, <2>8, <1>2 DEF Before
    <3>2. Listed(n, pos, below[b], B) BY <2>6
    <3> HIDE DEF A, G, B
    <3> QED BY <3>1, <3>2, <2>9, ListedJoin
  <2>11. (A \cup G) \cup B = Share(n, M, lo[p], hi[p])
    <3>1. Within(k, lo[p], hi[p]) /\ lo[p] \in Int /\ hi[p] \in Int /\ lo[p] >= -1 BY <2>1, <1>3
    <3>2. ASSUME NEW x \in M
          PROVE  Within(Key(n, x), lo[p], hi[p]) <=>
                   Within(Key(n, x), lo[p], k) \/ Key(n, x) = k \/ Within(Key(n, x), k, hi[p])
      BY <3>1, <2>2, <1>2 DEF Within, Beneath
    <3> QED BY <3>2 DEF Share
  <2> QED BY <2>3, <2>10, <2>11
<1>6. Deeper(n, below) \in [Pointers -> Seq(Queues)] BY <1>4, DeeperTyped
<1>7. \A p \in Pointers : ~IsNode(p) => Deeper(n, below)[p] = <<>> BY DEF Deeper
<1> QED BY <1>5, <1>6, <1>7 DEF Lists

(* The whole tree from left to right is M in the order of the turns.       *)
LEMMA OrderLists ==
  ASSUME NEW n \in [Queues -> Node], NEW r, NEW M, NEW pos, Shaped(n, r, M, pos)
  PROVE  Listed(n, pos, OrderOf(n, r), M)
<1>1. PICK T, lo, hi, up : Ordered(n, r, T, lo, hi, up) /\ Grouped(n, M, T, pos) BY DEF Shaped
<1> DEFINE N == Cardinality(Queues)
           w == Walk(n)
           G == {d \in 0 .. N : Lists(n, M, T, lo, hi, pos, d, w[d])}
<1>2. N \in Nat BY Sizes
<1>3. 0 \in G
  <2>1. w[0] = [p \in Pointers |-> <<>>] BY WalkIs
  <2>2. w[0] \in [Pointers -> Seq(Queues)] /\ \A p \in Pointers : w[0][p] = <<>> BY <2>1
  <2>3. \A p \in T : ~(Cardinality(Below(n, T, lo, hi, p)) <= 0)
    <3>1. \A p \in T : /\ Cardinality(Below(n, T, lo, hi, p)) \in Nat
                       /\ Cardinality(Below(n, T, lo, hi, p)) > 0
      BY <1>1, BelowCounts
    <3> QED BY <3>1
  <2>4. Lists(n, M, T, lo, hi, pos, 0, w[0]) BY <2>2, <2>3 DEF Lists
  <2> QED BY <2>4, <1>2
<1>4. ASSUME NEW d \in Nat, d < N, d \in G
      PROVE  d + 1 \in G
  <2>1. w[d + 1] = Deeper(n, w[d]) BY <1>4, WalkIs
  <2>2. Lists(n, M, T, lo, hi, pos, d, w[d]) BY <1>4
  <2>3. Lists(n, M, T, lo, hi, pos, d + 1, Deeper(n, w[d])) BY <2>2, <1>1, DeeperLists
  <2> QED BY <2>1, <2>3, <1>2, <1>4
<1>5. Lists(n, M, T, lo, hi, pos, N, w[N])
  <2>1. \A d \in 0 .. N : d \in G
    <3> HIDE DEF G, N
    <3> QED BY <1>2, <1>3, <1>4, TurnByTurn
  <2> QED BY <2>1, <1>2
<1>6. OrderOf(n, r) = w[N][r] BY DEF OrderOf
<1>7. Rooted(r, T, lo, hi, up) BY <1>1 DEF Ordered
<1>8. M \subseteq Queues /\ \A x \in M : Key(n, x) \in Nat BY <1>1, NodeFields DEF Grouped
<1>9. CASE IsNode(r)
  <2>1. r \in T /\ lo[r] = -1 /\ hi[r] = -1 BY <1>7, <1>9 DEF Rooted
  <2>2. Cardinality(Below(n, T, lo, hi, r)) <= N BY <2>1, <1>1, BelowCounts
  <2>3. Listed(n, pos, w[N][r], Share(n, M, lo[r], hi[r])) BY <2>1, <2>2, <1>5 DEF Lists
  <2>4. Share(n, M, lo[r], hi[r]) = M BY <2>1, <1>8 DEF Share, Within, Beneath
  <2> QED BY <2>3, <2>4, <1>6
<1>10. CASE ~IsNode(r)
  <2>1. M = {} /\ r \in Pointers BY <1>10, EmptyTree
  <2>2. w[N][r] = <<>> BY <2>1, <1>5, <1>10 DEF Lists
  <2> QED BY <2>1, <2>2, <1>6, NoneListed
<1> QED BY <1>9, <1>10

(* InOrder and InTree are M. *)
LEMMA ServedInOrder ==
  ASSUME node \in [Queues -> Node], NEW M, NEW pos, Shaped(node, root, M, pos)
  PROVE  /\ Listed(node, pos, InOrder, M)
         /\ InTree = M /\ Len(InOrder) = Cardinality(M)
<1>1. Listed(node, pos, OrderOf(node, root), M) BY OrderLists
<1>2. M \in SUBSET Queues /\ pos \in [Queues -> Int] BY EmptyTree
<1>3. PICK list : list = InOrder OBVIOUS
<1>4. Listed(node, pos, list, M) BY <1>1, <1>3 DEF InOrder
<1>5. ToSet(list) = M /\ Len(list) = Cardinality(M) BY <1>2, <1>4, ListedCounts
<1> QED BY <1>3, <1>4, <1>5 DEF InTree
-----------------------------------------------------------------------------
(* The inductive invariant: the nodes M are a search tree of lists, they   *)
(* are the queues to be served, and nothing but the memory of a new node   *)
(* ever brings garbage into it.                                            *)
Sound(M, pos) ==
    /\ Shaped(node, root, M, pos)
    /\ crashed => Garbage(node, root, M)
    /\ ~crashed => Accounts(M)
    /\ readable /\ ~crashed => last = NULL /\ root # NULL
    /\ Wild \notin Fresh => ~Garbage(node, root, M)

IInv == TypeOK /\ \E M, pos : Sound(M, pos)

LEMMA NoTree ==
  ASSUME NEW n
  PROVE  Shaped(n, NULL, {}, [q \in Queues |-> 0]) /\ ~Garbage(n, NULL, {})
<1>1. PICK lo, up : lo = [q \in Queues |-> -1] /\ up = [q \in Queues |-> NULL] OBVIOUS
<1>2. /\ lo \in [Queues -> Int] /\ up \in [Queues -> Queues \cup {NULL}]
      /\ NULL \in Pointers /\ ~IsNode(NULL) /\ NULL # Wild
  BY <1>1, PointerKinds
<1>3. Ordered(n, NULL, {}, lo, lo, up)
  BY <1>2 DEF Ordered, Bounded, Rooted, LeftOf, RightOf, Parents, Threaded
<1>4. Grouped(n, {}, {}, [q \in Queues |-> 0]) BY DEF Grouped
<1> QED BY <1>2, <1>3, <1>4 DEF Shaped, Garbage

LEMMA BlankNodes == [q \in Queues |-> Blank(q)] \in [Queues -> Node]
<1>1. \A q \in Queues : Blank(q) \in Node BY PointerKinds DEF Blank, Node
<1> QED BY <1>1

LEMMA Sequences ==
  ASSUME NEW S, NEW s \in Seq(S)
  PROVE  /\ Len(s) \in Nat
         /\ \A e \in S : Append(s, e) \in Seq(S) /\ Append(s, e) # <<>>
         /\ \A e \in S : s # <<>> => Head(Append(s, e)) = Head(s)
         /\ s # <<>> => Head(s) \in S /\ Tail(s) \in Seq(S)
         /\ Len(s) = 1 => Tail(s) = <<>>
         /\ Len(s) > 1 => s[2] \in S /\ Tail(s) # <<>> /\ Head(Tail(s)) = s[2]
<1>1. Len(s) \in Nat /\ \A e \in S : Append(s, e) \in Seq(S) /\ Append(s, e) # <<>> OBVIOUS
<1>2. ASSUME NEW e \in S, s # <<>> PROVE Head(Append(s, e)) = Head(s) BY <1>2
<1>3. s # <<>> => Head(s) \in S /\ Tail(s) \in Seq(S) OBVIOUS
<1>4. Len(s) = 1 => Tail(s) = <<>>
  <2>1. HAVE Len(s) = 1
  <2>2. Tail(s) \in Seq(S) /\ Len(Tail(s)) = 0 BY <2>1
  <2> QED BY <2>2, EmptySeq
<1>5. Len(s) > 1 => s[2] \in S /\ Tail(s) # <<>> /\ Head(Tail(s)) = s[2] OBVIOUS
<1> QED BY <1>1, <1>2, <1>3, <1>4, <1>5

LEMMA QueueTyped ==
  ASSUME TypeOK, NEW q \in Queues
  PROVE  /\ contents[q] \in Seq(Events(q))
         /\ \A e \in Events(q) : e.time \in Nat
BY EventTreeAssumption DEF TypeOK, Events

LEMMA Initially == Init => IInv
<1> SUFFICES ASSUME Init PROVE IInv OBVIOUS
<1>1. TypeOK
  <2>1. node \in [Queues -> Node] BY BlankNodes DEF Init
  <2>2. DOMAIN contents = Queues /\ \A q \in Queues : contents[q] \in Seq(Events(q)) BY DEF Init
  <2>3. sent \in [Queues -> 0 .. MaxEvents] BY EventTreeAssumption DEF Init
  <2> QED BY <2>1, <2>2, <2>3, PointerKinds DEF Init, TypeOK
<1>2. Shaped(node, root, {}, [q \in Queues |-> 0]) /\ ~Garbage(node, root, {})
  BY NoTree DEF Init
<1>3. Sound({}, [q \in Queues |-> 0])
  BY <1>2, EventTreeAssumption DEF Init, Sound, Accounts
<1> QED BY <1>1, <1>3 DEF IInv

(* A producer does not touch the tree, nor the head of a queue in it.      *)
LEMMA ProducerStep ==
  ASSUME IInv, NEW q \in Queues, Push(q) \/ Close(q)
  PROVE  IInv' /\ ~crashed'
<1>1. PICK M, pos : Sound(M, pos) BY DEF IInv
<1>2. PICK e \in Events(q) : contents' = [contents EXCEPT ![q] = Append(contents[q], e)]
  BY DEF Push, Close, Events
<1>3. /\ UNCHANGED <<treeVars, readable, returned, history, crashed>>
      /\ ~crashed
  BY DEF Push, Close
<1>4. \A x \in Queues : contents[x] \in Seq(Events(x)) BY QueueTyped DEF IInv
<1>5. /\ contents'[q] \in Seq(Events(q)) /\ contents'[q] # <<>>
      /\ contents[q] # <<>> => Head(contents'[q]) = Head(contents[q])
      /\ \A x \in Queues \ {q} : contents'[x] = contents[x]
  <2> HIDE DEF Events
  <2>1. contents'[q] = Append(contents[q], e)
    <3>1. q \in DOMAIN contents BY DEF IInv, TypeOK
    <3> QED BY <3>1, <1>2
  <2> QED BY <1>2, <1>4, <2>1, Sequences
<1>6. TypeOK'
  <2>1. /\ DOMAIN contents' = Queues
        /\ sent' \in [Queues -> 0 .. MaxEvents] /\ ended' \subseteq Queues
    <3>1. DOMAIN contents' = Queues BY <1>2 DEF IInv, TypeOK
    <3>2. sent \in [Queues -> 0 .. MaxEvents] /\ ended \subseteq Queues BY DEF IInv, TypeOK
    <3>3. ended' \subseteq Queues BY <3>2 DEF Push, Close
    <3>4. sent' \in [Queues -> 0 .. MaxEvents]
      <4>1. CASE Push(q)
        <5>1. sent' = [sent EXCEPT ![q] = sent[q] + 1] /\ sent[q] < MaxEvents BY <4>1 DEF Push
        <5>2. sent[q] + 1 \in 0 .. MaxEvents BY <5>1, <3>2, EventTreeAssumption
        <5> QED BY <5>1, <5>2, <3>2
      <4>2. CASE Close(q) BY <4>2, <3>2 DEF Close
      <4> QED BY <4>1, <4>2
    <3> QED BY <3>1, <3>3, <3>4
  <2>2. \A x \in Queues : contents'[x] \in Seq(Events(x)) BY <1>4, <1>5
  <2> QED BY <2>1, <2>2, <1>3 DEF IInv, TypeOK, treeVars, history
<1>7. Sound(M, pos)'
  <2>1. Accounts(M)'
    <3>1. Accounts(M) /\ M \subseteq Queues BY <1>1, <1>3, EmptyTree DEF Sound
    <3>2. \A x \in M : contents'[x] # <<>> /\ Head(contents'[x]) = Head(contents[x])
      BY <3>1, <1>5 DEF Accounts
    <3> QED BY <3>1, <3>2, <1>3 DEF Accounts, treeVars, history
  <2> QED BY <2>1, <1>1, <1>3 DEF Sound, treeVars, history
<1> QED BY <1>3, <1>6, <1>7 DEF IInv

LEMMA SoundFacts ==
  ASSUME IInv, NEW M, NEW pos, Sound(M, pos)
  PROVE  /\ TypeOK /\ node \in [Queues -> Node] /\ root \in Pointers
         /\ Shaped(node, root, M, pos) /\ M \subseteq Queues
         /\ accepted \subseteq Queues /\ drained \subseteq Queues
         /\ last \in Queues \cup {NULL}
         /\ DOMAIN contents = Queues
         /\ \A q \in Queues : contents[q] \in Seq(Events(q))
         /\ ~crashed => Accounts(M) /\ M \subseteq accepted
         /\ InTree = M /\ (Garbage(node, root, M) <=> Tainted)
<1>1. node \in [Queues -> Node] /\ Shaped(node, root, M, pos) BY DEF IInv, TypeOK, Sound
<1>2. InTree = M BY <1>1, ServedInOrder
<1> QED BY <1>1, <1>2, EmptyTree DEF IInv, TypeOK, Sound, Accounts, Tainted, Garbage

(* The owner asks, or nothing happens.                                     *)
LEMMA AskingStep ==
  ASSUME IInv, UNCHANGED <<queueVars, treeVars, returned, history, crashed>>,
         readable' \in BOOLEAN,
         readable' /\ ~crashed => last = NULL /\ root # NULL
  PROVE  IInv'
<1>1. PICK M, pos : Sound(M, pos) BY DEF IInv
<1>2. TypeOK' BY DEF IInv, TypeOK, queueVars, treeVars, history
<1>3. Sound(M, pos)' BY <1>1 DEF Sound, Accounts, queueVars, treeVars, history
<1> QED BY <1>2, <1>3 DEF IInv

(* The first queue of an empty tree.                                       *)
LEMMA AddFirstStep ==
  ASSUME IInv, NEW q \in Queues, AddFirst(q)
  PROVE  IInv' /\ ~crashed'
<1>1. PICK M, pos : Sound(M, pos) BY DEF IInv
<1>2. PICK new \in NewNodes(q) : node' = [node EXCEPT ![q] = new] BY DEF AddFirst
<1>3. /\ ~crashed /\ q \notin accepted /\ contents[q] # <<>> /\ root = NULL
      /\ root' = q /\ accepted' = accepted \cup {q} /\ unkeyed' = q
      /\ UNCHANGED <<queueVars, last, readable, returned, drained, crashed>>
  BY DEF AddFirst, IsEmptyQueue
<1>4. /\ new \in Node /\ new.head = q
      /\ new.left \in Fresh /\ new.right \in Fresh /\ new.next \in Fresh /\ new.prev \in Fresh
  BY EventTreeAssumption DEF NewNodes, Node, Pointers
<1>5. \A p \in Fresh : ~IsNode(p) BY EventTreeAssumption DEF IsNode
<1>6. /\ node \in [Queues -> Node] /\ Shaped(node, NULL, M, pos) /\ Accounts(M)
      /\ accepted \subseteq Queues
  BY <1>1, <1>3, SoundFacts
<1>7. M = {} BY <1>6, EmptyTree, PointerKinds
<1>8. node' \in [Queues -> Node] /\ node'[q] = new BY <1>2, <1>4, <1>6
<1>9. \E pos2 : Shaped(node', q, {q}, pos2)
  <2>1. PICK lo, up : lo = [x \in Queues |-> -1] /\ up = [x \in Queues |-> NULL] OBVIOUS
  <2>2. PICK m : m = node' OBVIOUS
  <2>3. m \in [Queues -> Node] /\ ~IsNode(m[q].left) /\ ~IsNode(m[q].right)
    BY <1>4, <1>5, <1>8, <2>2
  <2>4. Ordered(m, q, {q}, lo, lo, up) BY <2>1, <2>3, OneNode
  <2>5. PICK T : Grouped(node, {}, T, pos) BY <1>6, <1>7 DEF Shaped
  <2>6. T = {} BY <2>5 DEF Grouped
  <2>7. Begins(node, {}, {}, q, m) BY <1>4, <1>5, <1>8, <2>2 DEF Begins
  <2>8. Grouped(m, {} \cup {q}, {} \cup {q}, [pos EXCEPT ![q] = 0])
    BY <2>5, <2>6, <2>7, GroupBegins
  <2>9. Grouped(m, {q}, {q}, [pos EXCEPT ![q] = 0])
    <3>1. {} \cup {q} = {q} OBVIOUS
    <3> QED BY <2>8, <3>1
  <2> QED BY <2>2, <2>4, <2>9 DEF Shaped
<1>10. PICK pos2 : Shaped(node', q, {q}, pos2) BY <1>9
<1>11. TypeOK'
  BY <1>3, <1>8, PointerKinds DEF IInv, TypeOK, queueVars
<1>12. Wild \notin Fresh => ~Garbage(node', q, {q})
  BY <1>4, <1>8, PointerKinds DEF Garbage
<1>13. Accounts({q})'
  BY <1>3, <1>6, <1>7, PointerKinds DEF Accounts, queueVars
<1>14. Sound({q}, pos2)'
  BY <1>1, <1>3, <1>10, <1>12, <1>13 DEF Sound
<1> QED BY <1>3, <1>11, <1>14 DEF IInv

(* Any other queue.                                                        *)
LEMMA AddNextStep ==
  ASSUME IInv, NEW q \in Queues, AddNext(q)
  PROVE  IInv' /\ (crashed' => Tainted)
<1>1. PICK M, pos : Sound(M, pos) BY DEF IInv
<1>2. PICK t, b : t = PeekTime(q) /\ b = Rebalance(node, root, q, t) OBVIOUS
<1>3. /\ ~crashed /\ q \notin accepted /\ contents[q] # <<>> /\ root # NULL
      /\ node' = b.node /\ root' = b.root /\ crashed' = ~b.sane
      /\ accepted' = accepted \cup {q}
      /\ UNCHANGED <<queueVars, last, readable, returned, drained, unkeyed>>
  BY <1>2 DEF AddNext, IsEmptyQueue, Commit
<1>4. /\ node \in [Queues -> Node] /\ Shaped(node, root, M, pos) /\ Accounts(M)
      /\ accepted \subseteq Queues /\ M \subseteq accepted /\ M \subseteq Queues
      /\ contents[q] \in Seq(Events(q)) /\ root \in Pointers
      /\ Garbage(node, root, M) => Tainted
  BY <1>1, <1>3, SoundFacts
<1>5. t \in Nat
  <2>1. Head(contents[q]) \in Events(q) BY <1>3, <1>4, Sequences
  <2> QED BY <2>1, <1>2, QueueTyped DEF IInv, PeekTime
<1>6. /\ b.sane \in BOOLEAN
      /\ b.sane => Entered(node, root, M, pos, q, t, b.node, b.root)
      /\ ~b.sane => /\ b.node \in [Queues -> Node] /\ b.root = root
                    /\ \A x \in M : Key(b.node, x) = Key(node, x)
                    /\ Shaped(b.node, root, M, pos)
                    /\ Garbage(node, root, M) /\ Garbage(b.node, root, M)
  <2>1. q \in Queues \ M BY <1>3, <1>4
  <2> QED BY <2>1, <1>2, <1>4, <1>5, RebalanceJoins
<1>7. TypeOK'
  <2>1. node' \in [Queues -> Node] /\ root' \in Pointers /\ crashed' \in BOOLEAN
    BY <1>3, <1>4, <1>6, PointerKinds DEF Entered
  <2> QED BY <2>1, <1>3 DEF IInv, TypeOK, queueVars
<1>8. CASE b.sane
  <2>1. Entered(node, root, M, pos, q, t, b.node, b.root) BY <1>6, <1>8
  <2>2. PICK pos2 : Shaped(b.node, b.root, M \cup {q}, pos2) BY <2>1 DEF Entered
  <2>3. /\ \A x \in M : Key(b.node, x) = Key(node, x)
        /\ Key(b.node, q) = t /\ b.root \in Queues
        /\ Garbage(b.node, b.root, M \cup {q}) => Garbage(node, root, M)
    BY <2>1 DEF Entered
  <2>4. Accounts(M \cup {q})'
    BY <2>3, <1>2, <1>3, <1>4, PointerKinds DEF Accounts, PeekTime, queueVars
  <2>5. Sound(M \cup {q}, pos2)'
    BY <2>2, <2>3, <2>4, <1>1, <1>3, <1>8, PointerKinds DEF Sound
  <2> QED BY <2>5, <1>3, <1>7, <1>8 DEF IInv
<1>9. CASE ~b.sane
  <2>1. Sound(M, pos)' BY <1>1, <1>3, <1>6, <1>9 DEF Sound
  <2> QED BY <2>1, <1>4, <1>6, <1>7, <1>9 DEF IInv
<1> QED BY <1>6, <1>8, <1>9

(* The queue kept aside comes back.                                        *)
LEMMA ResumeStep ==
  ASSUME IInv, IsEmptyResume
  PROVE  IInv' /\ (crashed' => Tainted)
<1>1. PICK M, pos : Sound(M, pos) BY DEF IInv
<1>2. PICK q, t, b : q = last /\ t = PeekTime(q) /\ b = Rebalance(node, root, q, t) OBVIOUS
<1>3. /\ ~crashed /\ q # NULL /\ contents[q] # <<>> /\ last' = NULL /\ readable' = TRUE
      /\ node' = b.node /\ root' = b.root /\ crashed' = ~b.sane
      /\ UNCHANGED <<queueVars, returned, history>>
  BY <1>2 DEF IsEmptyResume, IsEmptyQueue, Commit
<1>4. /\ node \in [Queues -> Node] /\ Shaped(node, root, M, pos) /\ Accounts(M)
      /\ M \subseteq Queues /\ root \in Pointers /\ last \in Queues \cup {NULL}
      /\ Garbage(node, root, M) => Tainted
  BY <1>1, <1>3, SoundFacts
<1>5. q \in Queues \ M BY <1>2, <1>3, <1>4 DEF Accounts
<1>6. t \in Nat
  <2>1. contents[q] \in Seq(Events(q)) BY <1>1, <1>5, SoundFacts
  <2>2. Head(contents[q]) \in Events(q) BY <2>1, <1>3, Sequences
  <2> QED BY <2>2, <1>2, <1>5, QueueTyped DEF IInv, PeekTime
<1>7. /\ b.sane \in BOOLEAN
      /\ b.sane => Entered(node, root, M, pos, q, t, b.node, b.root)
      /\ ~b.sane => /\ b.node \in [Queues -> Node] /\ b.root = root
                    /\ \A x \in M : Key(b.node, x) = Key(node, x)
                    /\ Shaped(b.node, root, M, pos)
                    /\ Garbage(node, root, M) /\ Garbage(b.node, root, M)
  BY <1>2, <1>4, <1>5, <1>6, RebalanceJoins
<1>8. TypeOK'
  <2>1. node' \in [Queues -> Node] /\ root' \in Pointers /\ crashed' \in BOOLEAN
    BY <1>3, <1>4, <1>7, PointerKinds DEF Entered
  <2> QED BY <2>1, <1>3 DEF IInv, TypeOK, queueVars, history
<1>9. CASE b.sane
  <2>1. Entered(node, root, M, pos, q, t, b.node, b.root) BY <1>7, <1>9
  <2>2. PICK pos2 : Shaped(b.node, b.root, M \cup {q}, pos2) BY <2>1 DEF Entered
  <2>3. /\ \A x \in M : Key(b.node, x) = Key(node, x)
        /\ Key(b.node, q) = t /\ b.root \in Queues
        /\ Garbage(b.node, b.root, M \cup {q}) => Garbage(node, root, M)
    BY <2>1 DEF Entered
  <2>4. Accounts(M \cup {q})'
    <3>1. drained \subseteq Queues BY DEF IInv, TypeOK
    <3>2. NULL \notin M \cup {q} /\ NULL \notin drained BY <1>4, <1>5, <3>1, PointerKinds
    <3> QED BY <2>3, <3>2, <1>2, <1>3, <1>4, <1>5 DEF Accounts, PeekTime, queueVars, history
  <2>5. Sound(M \cup {q}, pos2)'
    BY <2>2, <2>3, <2>4, <1>1, <1>3, <1>9, PointerKinds DEF Sound
  <2> QED BY <2>5, <1>3, <1>8, <1>9 DEF IInv
<1>10. CASE ~b.sane
  <2>1. Sound(M, pos)' BY <1>1, <1>3, <1>7, <1>10 DEF Sound
  <2> QED BY <2>1, <1>4, <1>7, <1>8, <1>10 DEF IInv
<1> QED BY <1>7, <1>9, <1>10

(* What a read finds: the queue whose turn it is, and what its pop does.   *)
Popped(M, pos, q, e, o) ==
    /\ ~crashed /\ readable /\ readable' = FALSE
    /\ last = NULL /\ root # NULL
    /\ o = TakeOut /\ q = o.queue
    /\ Leaves(node, root, M, pos, q, o.node, o.root)
    /\ q \in M /\ M \subseteq Queues /\ Accounts(M)
    /\ e = Head(contents[q]) /\ e \in Events(q)
    /\ DOMAIN contents' = Queues
    /\ contents'[q] = Tail(contents[q]) /\ contents'[q] \in Seq(Events(q))
    /\ \A x \in Queues \ {q} : contents'[x] = contents[x]
    /\ unkeyed' \in Queues \cup {NULL} /\ unkeyed' # q
    /\ \A x \in Queues \ {q} : unkeyed' = x <=> unkeyed = x
    /\ UNCHANGED <<sent, ended, accepted>>

LEMMA PopsOldest ==
  ASSUME IInv, NEW q \in Queues, NEW e, Pop(q, e)
  PROVE  \E M, pos, o : Sound(M, pos) /\ Popped(M, pos, q, e, o)
<1>1. PICK M, pos : Sound(M, pos) BY DEF IInv
<1>2. PICK o : o = TakeOut OBVIOUS
<1>3. /\ ~crashed /\ readable /\ readable' = FALSE
      /\ o.sane /\ q = o.queue
      /\ contents[q] # <<>> /\ e = Head(contents[q])
      /\ contents' = [contents EXCEPT ![q] = Tail(contents[q])]
      /\ unkeyed' = IF unkeyed = q THEN NULL ELSE unkeyed
      /\ UNCHANGED <<sent, ended, accepted>>
  BY <1>2 DEF Pop, IsEmptyQueue, Keyed
<1>4. /\ node \in [Queues -> Node] /\ root \in Pointers
      /\ Shaped(node, root, M, pos) /\ M \subseteq Queues /\ Accounts(M)
      /\ DOMAIN contents = Queues
      /\ \A x \in Queues : contents[x] \in Seq(Events(x))
  BY <1>1, <1>3, SoundFacts
<1>5. last = NULL /\ root # NULL BY <1>1, <1>3 DEF Sound
<1>6. Leaves(node, root, M, pos, q, o.node, o.root) BY <1>2, <1>3, <1>4, <1>5, TakesOut
<1>7. q \in M BY <1>6 DEF Leaves
<1>8. Head(contents[q]) \in Events(q) /\ Tail(contents[q]) \in Seq(Events(q))
  BY <1>3, <1>4, Sequences
<1>9. /\ DOMAIN contents' = Queues /\ contents'[q] = Tail(contents[q])
      /\ \A x \in Queues \ {q} : contents'[x] = contents[x]
  BY <1>3, <1>4
<1>10. unkeyed \in Queues \cup {NULL} BY DEF IInv, TypeOK
<1>11. /\ unkeyed' \in Queues \cup {NULL} /\ unkeyed' # q
       /\ \A x \in Queues \ {q} : unkeyed' = x <=> unkeyed = x
  BY <1>3, <1>10, PointerKinds
<1> QED BY <1>1, <1>2, <1>3, <1>4, <1>5, <1>6, <1>7, <1>8, <1>9, <1>11 DEF Popped

(* The types, after a read.                                                *)
LEMMA PoppedTyped ==
  ASSUME IInv, NEW q \in Queues, NEW M, NEW pos, NEW e, NEW o, Popped(M, pos, q, e, o),
         node' \in [Queues -> Node], root' \in Pointers, last' \in Queues \cup {NULL},
         returned' \in {Stop, e}, drained' \in {drained, drained \cup {q}}, crashed' \in BOOLEAN
  PROVE  TypeOK'
<1>1. DOMAIN contents' = Queues /\ \A x \in Queues : contents'[x] \in Seq(Events(x))
  BY SoundFacts DEF Popped, IInv, TypeOK
<1>2. e \in Events(q) /\ readable' = FALSE /\ unkeyed' \in Queues \cup {NULL}
      /\ UNCHANGED <<sent, ended, accepted>>
  BY DEF Popped
<1>3. returned' \in {NULL, Stop} \cup UNION {Events(x) : x \in Queues} BY <1>2
<1> QED BY <1>1, <1>2, <1>3 DEF IInv, TypeOK

LEMMA ReadClosedStep ==
  ASSUME IInv, NEW q \in Queues, ReadClosed(q)
  PROVE  IInv' /\ ~crashed'
<1>1. PICK e \in Events(q) : /\ Pop(q, e) /\ e.closed
                             /\ Commit(Tree(TakeOut.node, TakeOut.root))
                             /\ returned' = IF TakeOut.root = NULL THEN Stop ELSE e
                             /\ drained' = drained \cup {q}
                             /\ UNCHANGED last
  BY DEF ReadClosed
<1>2. PICK M, pos, o : Sound(M, pos) /\ Popped(M, pos, q, e, o) BY <1>1, PopsOldest
<1>3. node' = o.node /\ root' = o.root /\ crashed' = FALSE
  BY <1>1, <1>2 DEF Commit, Tree, Popped
<1>4. /\ o.node \in [Queues -> Node]
      /\ \A x \in M \ {q} : Key(o.node, x) = Key(node, x)
      /\ Shaped(o.node, o.root, M \ {q}, pos)
      /\ Garbage(o.node, o.root, M \ {q}) => Garbage(node, root, M)
  BY <1>2 DEF Popped, Leaves
<1>5. TypeOK'
  <2>1. root' \in Pointers BY <1>3, <1>4, EmptyTree
  <2>2. last' \in Queues \cup {NULL} BY <1>1 DEF IInv, TypeOK
  <2> QED BY <2>1, <2>2, <1>1, <1>2, <1>3, <1>4, PoppedTyped
<1>6. Accounts(M \ {q})'
  BY <1>1, <1>2, <1>3, <1>4, PointerKinds DEF Popped, Accounts
<1>7. Sound(M \ {q}, pos)'
  BY <1>2, <1>3, <1>4, <1>6 DEF Sound, Popped
<1> QED BY <1>3, <1>5, <1>7 DEF IInv

LEMMA ReadLastStep ==
  ASSUME IInv, NEW q \in Queues, ReadLast(q)
  PROVE  IInv' /\ ~crashed'
<1>1. PICK e \in Events(q) : /\ Pop(q, e)
                             /\ Commit(Tree(TakeOut.node, TakeOut.root))
                             /\ last' = q /\ returned' = e
                             /\ UNCHANGED drained
  BY DEF ReadLast
<1>2. PICK M, pos, o : Sound(M, pos) /\ Popped(M, pos, q, e, o) BY <1>1, PopsOldest
<1>3. node' = o.node /\ root' = o.root /\ crashed' = FALSE
  BY <1>1, <1>2 DEF Commit, Tree, Popped
<1>4. /\ o.node \in [Queues -> Node]
      /\ \A x \in M \ {q} : Key(o.node, x) = Key(node, x)
      /\ Shaped(o.node, o.root, M \ {q}, pos)
      /\ Garbage(o.node, o.root, M \ {q}) => Garbage(node, root, M)
  BY <1>2 DEF Popped, Leaves
<1>5. TypeOK'
  <2>1. root' \in Pointers BY <1>3, <1>4, EmptyTree
  <2> QED BY <2>1, <1>1, <1>2, <1>3, <1>4, PoppedTyped
<1>6. Accounts(M \ {q})'
  BY <1>1, <1>2, <1>3, <1>4, PointerKinds DEF Popped, Accounts
<1>7. Sound(M \ {q}, pos)'
  BY <1>2, <1>3, <1>4, <1>6 DEF Sound, Popped
<1> QED BY <1>3, <1>5, <1>7 DEF IInv

LEMMA ReadMoreStep ==
  ASSUME IInv, NEW q \in Queues, ReadMore(q)
  PROVE  IInv' /\ (crashed' => Tainted)
<1>1. PICK e \in Events(q) : /\ Pop(q, e)
                             /\ Len(contents[q]) > 1
                             /\ Commit(Rebalance(TakeOut.node, TakeOut.root, q, contents[q][2].time))
                             /\ returned' = e
                             /\ UNCHANGED <<last, drained>>
  BY DEF ReadMore
<1>2. PICK M, pos, o : Sound(M, pos) /\ Popped(M, pos, q, e, o) BY <1>1, PopsOldest
<1>3. PICK t, b : t = contents[q][2].time /\ b = Rebalance(o.node, o.root, q, t) OBVIOUS
<1>4. node' = b.node /\ root' = b.root /\ crashed' = ~b.sane
  BY <1>1, <1>2, <1>3 DEF Commit, Popped
<1>5. /\ o.node \in [Queues -> Node]
      /\ \A x \in M \ {q} : Key(o.node, x) = Key(node, x)
      /\ Shaped(o.node, o.root, M \ {q}, pos)
      /\ Garbage(o.node, o.root, M \ {q}) => Garbage(node, root, M)
  BY <1>2 DEF Popped, Leaves
<1>6. t \in Nat /\ contents'[q] # <<>> /\ t = Head(contents'[q]).time
  <2>1. contents[q] \in Seq(Events(q)) BY <1>2, SoundFacts
  <2>2. /\ contents[q][2] \in Events(q)
        /\ Tail(contents[q]) # <<>> /\ Head(Tail(contents[q])) = contents[q][2]
    BY <2>1, <1>1, Sequences
  <2>3. contents'[q] = Tail(contents[q]) BY <1>2 DEF Popped
  <2> QED BY <2>2, <2>3, <1>3, QueueTyped DEF IInv
<1>7. /\ b.sane \in BOOLEAN
      /\ b.sane => Entered(o.node, o.root, M \ {q}, pos, q, t, b.node, b.root)
      /\ ~b.sane => /\ b.node \in [Queues -> Node] /\ b.root = o.root
                    /\ \A x \in M \ {q} : Key(b.node, x) = Key(o.node, x)
                    /\ Shaped(b.node, o.root, M \ {q}, pos)
                    /\ Garbage(o.node, o.root, M \ {q}) /\ Garbage(b.node, o.root, M \ {q})
  <2>1. q \in Queues \ (M \ {q}) OBVIOUS
  <2> QED BY <2>1, <1>3, <1>5, <1>6, RebalanceJoins
<1>8. o.root \in Pointers BY <1>5, EmptyTree
<1>9. TypeOK'
  <2>1. node' \in [Queues -> Node] /\ root' \in Pointers /\ crashed' \in BOOLEAN
    BY <1>4, <1>7, <1>8, PointerKinds DEF Entered
  <2>2. last' \in Queues \cup {NULL} BY <1>1 DEF IInv, TypeOK
  <2> QED BY <2>1, <2>2, <1>1, <1>2, PoppedTyped
<1>10. CASE b.sane
  <2>1. Entered(o.node, o.root, M \ {q}, pos, q, t, b.node, b.root) BY <1>7, <1>10
  <2>2. (M \ {q}) \cup {q} = M BY <1>2 DEF Popped
  <2>3. PICK pos2 : Shaped(b.node, b.root, M, pos2) BY <2>1, <2>2 DEF Entered
  <2>4. /\ \A x \in M \ {q} : Key(b.node, x) = Key(node, x)
        /\ Key(b.node, q) = t
        /\ Garbage(b.node, b.root, M) => Garbage(node, root, M)
    BY <2>1, <2>2, <1>5 DEF Entered
  <2>5. Accounts(M)'
    <3>1. \A x \in M : /\ contents'[x] # <<>>
                       /\ x = unkeyed' \/ Key(node', x) = Head(contents'[x]).time
      BY <2>4, <1>2, <1>4, <1>6 DEF Popped, Accounts
    <3> QED BY <3>1, <1>1, <1>2 DEF Popped, Accounts
  <2>6. Sound(M, pos2)'
    BY <2>3, <2>4, <2>5, <1>2, <1>4, <1>10 DEF Sound, Popped
  <2> QED BY <2>6, <1>4, <1>9, <1>10 DEF IInv
<1>11. CASE ~b.sane
  <2>1. Sound(M \ {q}, pos)' BY <1>2, <1>4, <1>5, <1>7, <1>11 DEF Sound, Popped
  <2>2. Tainted BY <1>2, <1>5, <1>7, <1>11, SoundFacts
  <2> QED BY <2>1, <2>2, <1>9 DEF IInv
<1> QED BY <1>7, <1>10, <1>11

LEMMA ReadCrashStep ==
  ASSUME IInv, ReadCrash
  PROVE  IInv' /\ Tainted
<1>1. PICK M, pos : Sound(M, pos) BY DEF IInv
<1>2. /\ ~crashed /\ readable /\ ~TakeOut.sane /\ crashed' = TRUE
      /\ UNCHANGED <<queueVars, treeVars, readable, returned, history>>
  BY DEF ReadCrash
<1>3. node \in [Queues -> Node] /\ Shaped(node, root, M, pos) BY <1>1, SoundFacts
<1>4. root # NULL BY <1>1, <1>2 DEF Sound
<1>5. Garbage(node, root, M) BY <1>2, <1>3, <1>4, TakesOut
<1>6. TypeOK' BY <1>2 DEF IInv, TypeOK, queueVars, treeVars, history
<1>7. Sound(M, pos)' BY <1>1, <1>2, <1>5 DEF Sound, treeVars
<1>8. Tainted BY <1>1, <1>5, SoundFacts
<1> QED BY <1>6, <1>7, <1>8 DEF IInv

LEMMA ClearStep ==
  ASSUME IInv, Clear
  PROVE  IInv' /\ ~crashed'
<1>1. /\ root' = NULL /\ last' = NULL /\ node' = [q \in Queues |-> Blank(q)]
      /\ readable' = FALSE /\ accepted' = drained /\ unkeyed' = NULL
      /\ ~crashed
      /\ UNCHANGED <<queueVars, returned, drained, crashed>>
  BY DEF Clear
<1>2. PICK pos : pos = [q \in Queues |-> 0] OBVIOUS
<1>3. Shaped(node', NULL, {}, pos) /\ ~Garbage(node', NULL, {}) BY <1>2, NoTree
<1>4. node' \in [Queues -> Node] BY <1>1, BlankNodes
<1>5. TypeOK' BY <1>1, <1>4, PointerKinds DEF IInv, TypeOK, queueVars
<1>6. drained \subseteq Queues BY DEF IInv, TypeOK
<1>7. Sound({}, pos)' BY <1>1, <1>3, <1>6, PointerKinds DEF Sound, Accounts
<1> QED BY <1>1, <1>5, <1>7 DEF IInv

(* Every step keeps the invariant, and needs garbage to crash the program. *)
LEMMA Preserved == IInv /\ [Next]_vars => IInv' /\ (crashed' /\ ~crashed => Tainted)
<1> SUFFICES ASSUME IInv, [Next]_vars PROVE IInv' /\ (crashed' /\ ~crashed => Tainted) OBVIOUS
<1>1. CASE \E q \in Queues : Push(q) BY <1>1, ProducerStep
<1>2. CASE \E q \in Queues : Close(q) BY <1>2, ProducerStep
<1>3. CASE \E q \in Queues : AddRefused(q)
  BY <1>3, AskingStep DEF AddRefused, vars, queueVars, treeVars, history, IInv, TypeOK, Sound
<1>4. CASE \E q \in Queues : AddFirst(q) BY <1>4, AddFirstStep
<1>5. CASE \E q \in Queues : AddNext(q) BY <1>5, AddNextStep
<1>6. CASE IsEmptyTrue BY <1>6, AskingStep DEF IsEmptyTrue, history
<1>7. CASE IsEmptyFalse BY <1>7, AskingStep DEF IsEmptyFalse, history
<1>8. CASE IsEmptyResume BY <1>8, ResumeStep
<1>9. CASE \E q \in Queues : ReadClosed(q) BY <1>9, ReadClosedStep
<1>10. CASE \E q \in Queues : ReadLast(q) BY <1>10, ReadLastStep
<1>11. CASE \E q \in Queues : ReadMore(q) BY <1>11, ReadMoreStep
<1>12. CASE ReadCrash BY <1>12, ReadCrashStep
<1>13. CASE Clear BY <1>13, ClearStep
<1>14. CASE UNCHANGED vars
  BY <1>14, AskingStep DEF vars, queueVars, treeVars, history, IInv, TypeOK, Sound
<1> QED BY <1>1, <1>2, <1>3, <1>4, <1>5, <1>6, <1>7, <1>8, <1>9, <1>10, <1>11, <1>12, <1>13, <1>14
        DEF Next
-----------------------------------------------------------------------------
(* The theorems. *)

(* The invariant holds in every reachable state, of any number of queues   *)
(* and whatever the memory of a new node holds (qtl_etree.c:60-165).       *)
THEOREM Invariance == Spec => []IInv
<1>1. Init => IInv BY Initially
<1>2. IInv /\ [Next]_vars => IInv' BY Preserved
<1> QED BY <1>1, <1>2, PTL DEF Spec

(* The tree is sound as long as the program has not crashed.               *)
LEMMA SoundTree ==
  ASSUME IInv
  PROVE  /\ TypeOK
         /\ ~crashed => NoQueueLost /\ HeadsPresent
         /\ crashed => Tainted
<1>1. PICK M, pos : Sound(M, pos) BY DEF IInv
<1>2. /\ TypeOK /\ node \in [Queues -> Node] /\ Shaped(node, root, M, pos)
      /\ ~crashed => Accounts(M)
      /\ InTree = M /\ (Garbage(node, root, M) <=> Tainted)
  BY <1>1, SoundFacts
<1>3. Len(InOrder) = Cardinality(InTree) BY <1>2, ServedInOrder
<1>4. ASSUME ~crashed PROVE NoQueueLost /\ HeadsPresent
  <2>1. Accounts(M) BY <1>2, <1>4
  <2>2. NoQueueLost BY <2>1, <1>2, <1>3 DEF Accounts, NoQueueLost
  <2>3. HeadsPresent
    BY <2>1, <1>2 DEF Accounts, HeadsPresent, IsEmptyQueue, PeekTime, Key
  <2> QED BY <2>2, <2>3
<1>5. crashed => Tainted BY <1>1, <1>2 DEF Sound
<1> QED BY <1>2, <1>4, <1>5

(* A tree that no garbage is left in has lost no queue and every queue in  *)
(* it has its head event, whatever was in the memory of its nodes.         *)
THEOREM SoundWithoutGarbage == Spec => []SoundUnlessTainted
<1>1. IInv => SoundUnlessTainted BY SoundTree DEF SoundUnlessTainted
<1> QED BY <1>1, Invariance, PTL

(* The tree follows no bad pointer but one that was there when a node was  *)
(* made (qtl_etree.c:69-74, 122-141).                                      *)
THEOREM OnlyGarbageCrashes == Spec => CrashNeedsGarbage
<1>1. IInv /\ [Next]_vars => [crashed' /\ ~crashed => Tainted]_vars BY Preserved
<1> QED BY <1>1, Invariance, PTL DEF Spec, CrashNeedsGarbage

(* Where no memory holds garbage ...                                       *)
LEMMA NeverCrashed == ASSUME Wild \notin Fresh, IInv PROVE ~crashed
BY DEF IInv, Sound

(* ... no queue is lost or served twice (qtl_etree.c:75-88) ...            *)
THEOREM NoneLost == ASSUME Wild \notin Fresh PROVE Spec => []NoQueueLost
<1>1. IInv => NoQueueLost BY SoundTree, NeverCrashed
<1> QED BY <1>1, Invariance, PTL

(* ... and the pop of qtl_etree.c:90 never fails.                          *)
THEOREM PopsNeverFail == ASSUME Wild \notin Fresh PROVE Spec => []HeadsPresent
<1>1. IInv => HeadsPresent BY SoundTree, NeverCrashed
<1> QED BY <1>1, Invariance, PTL

(* Only a read takes an event off a queue.                                 *)
LEMMA OnlyReadsTake ==
  ASSUME IInv, [Next]_vars, NEW q \in Queues,
         contents[q] # <<>>, contents'[q] = Tail(contents[q])
  PROVE  \E e : Pop(q, e)
<1>1. /\ DOMAIN contents = Queues
      /\ \A x \in Queues : contents[x] \in Seq(Events(x))
  BY DEF IInv, TypeOK
<1>2. /\ contents'[q] # contents[q]
      /\ \A e \in Events(q) : contents'[q] # Append(contents[q], e)
  <2>1. PICK S, s, t : S = Events(q) /\ s = contents[q] /\ t = contents'[q] OBVIOUS
  <2>2. s \in Seq(S) /\ s # <<>> /\ t = Tail(s) BY <2>1, <1>1
  <2>3. t \in Seq(S) /\ Len(t) = Len(s) - 1 /\ Len(s) \in Nat BY <2>2
  <2>4. \A e \in S : Len(Append(s, e)) = Len(s) + 1 BY <2>2
  <2>5. t # s /\ \A e \in S : t # Append(s, e) BY <2>3, <2>4
  <2> QED BY <2>1, <2>5
<1>3. ASSUME NEW x \in Queues, NEW e \in Events(x),
             contents' = [contents EXCEPT ![x] = Append(contents[x], e)]
      PROVE  FALSE
  <2>1. CASE x = q BY <2>1, <1>1, <1>2, <1>3
  <2>2. CASE x # q BY <2>2, <1>1, <1>2, <1>3
  <2> QED BY <2>1, <2>2
<1>4. contents' # contents BY <1>2
<1>5. \A x \in Queues : ~Push(x) BY <1>3 DEF Push, Events
<1>6. \A x \in Queues : ~Close(x) BY <1>3 DEF Close, Events
<1>7. \E x \in Queues : \E e : Pop(x, e)
  BY <1>4, <1>5, <1>6
     DEF Next, vars, queueVars, AddRefused, AddFirst, AddNext, IsEmptyTrue, IsEmptyFalse,
         IsEmptyResume, ReadClosed, ReadLast, ReadMore, ReadCrash, Clear
<1>8. PICK x \in Queues : \E e : Pop(x, e) BY <1>7
<1>9. contents' = [contents EXCEPT ![x] = Tail(contents[x])] BY <1>8 DEF Pop
<1>10. x = q BY <1>1, <1>2, <1>9
<1> QED BY <1>8, <1>10

(* What a read hands out is no later than what any other queue offers,     *)
(* whatever garbage is in the tree, once the keys are given.               *)
LEMMA HandsOutOldest ==
  ASSUME IInv, [Next]_vars,
         NEW q \in Queues \ {unkeyed},
         contents[q] # <<>>, contents'[q] = Tail(contents[q]),
         NEW other \in (InTree \cup {last}) \ {unkeyed, NULL}
  PROVE  contents[other] # <<>> /\ Head(contents[q]).time <= PeekTime(other)
<1>1. PICK e : Pop(q, e) BY OnlyReadsTake
<1>2. PICK M, pos, o : Sound(M, pos) /\ Popped(M, pos, q, e, o) BY <1>1, PopsOldest
<1>3. /\ last = NULL /\ q \in M /\ M \subseteq Queues /\ Accounts(M)
      /\ Leaves(node, root, M, pos, q, o.node, o.root)
  BY <1>2 DEF Popped
<1>4. InTree = M BY <1>2, SoundFacts
<1>5. other \in M BY <1>3, <1>4
<1>6. /\ contents[other] # <<>>
      /\ Key(node, other) = Head(contents[other]).time
      /\ Key(node, q) = Head(contents[q]).time
  BY <1>3, <1>5 DEF Accounts
<1>7. Key(node, q) <= Key(node, other)
  <2>1. Key(node, q) \in Nat /\ Key(node, other) \in Nat
    BY <1>2, <1>3, <1>5, SoundFacts, NodeFields
  <2>2. Key(node, q) < Key(node, other) \/ Key(node, q) = Key(node, other)
    BY <1>3, <1>5 DEF Leaves
  <2> QED BY <2>1, <2>2
<1> QED BY <1>6, <1>7 DEF PeekTime

(* A read hands out the oldest event there is (qtl_etree.c:60-109).        *)
THEOREM OldestFirst == Spec => DeliversOldest
<1>1. ASSUME IInv, [Next]_vars
      PROVE  [\A q \in Queues \ {unkeyed} :
                ~IsEmptyQueue(q) /\ contents'[q] = Tail(contents[q]) =>
                    \A other \in (InTree \cup {last}) \ {unkeyed, NULL} :
                        /\ ~IsEmptyQueue(other)
                        /\ Head(contents[q]).time <= PeekTime(other)]_vars
  BY <1>1, HandsOutOldest DEF IsEmptyQueue
<1> QED BY <1>1, Invariance, PTL DEF Spec, DeliversOldest

(* The stop event means that every queue accepted has been drained         *)
(* (qtl_etree.c:93-96).                                                    *)
THEOREM StopComesLast == Spec => StopMeansDone
<1>1. ASSUME IInv, [Next]_vars, drained' # drained, returned' = Stop
      PROVE  drained' = accepted
  <2>1. \E q \in Queues : ReadClosed(q)
    BY <1>1 DEF Next, vars, history, Push, Close, AddRefused, AddFirst, AddNext, IsEmptyTrue,
                IsEmptyFalse, IsEmptyResume, ReadLast, ReadMore, ReadCrash, Clear
  <2>0. PICK q \in Queues : ReadClosed(q) BY <2>1
  <2>2. PICK e \in Events(q) :
                /\ Pop(q, e)
                /\ returned' = IF TakeOut.root = NULL THEN Stop ELSE e
                /\ drained' = drained \cup {q}
    BY <2>0 DEF ReadClosed
  <2>3. TakeOut.root = NULL BY <1>1, <2>2, EventTreeAssumption
  <2>4. PICK M, pos, o : Sound(M, pos) /\ Popped(M, pos, q, e, o) BY <1>1, <2>2, PopsOldest
  <2>5. /\ last = NULL /\ q \in M /\ o = TakeOut /\ Accounts(M)
        /\ Shaped(o.node, o.root, M \ {q}, pos)
    BY <2>4 DEF Popped, Leaves
  <2>6. M \ {q} = {} BY <2>3, <2>5, EmptyTree, PointerKinds
  <2> QED BY <2>2, <2>5, <2>6 DEF Accounts
<1>2. IInv /\ [Next]_vars => [drained' # drained /\ returned' = Stop => drained' = accepted]_vars
  BY <1>1
<1> QED BY <1>2, Invariance, PTL DEF Spec, StopMeansDone
-----------------------------------------------------------------------------
(* The tree implements EventMerge. *)

(* The order of the turns leaves no choice. *)
LEMMA SameList ==
  ASSUME NEW n \in [Queues -> Node], NEW pos \in [Queues -> Int],
         NEW A \in SUBSET Queues,
         NEW s, Listed(n, pos, s, A), NEW t, Listed(n, pos, t, A)
  PROVE  s = t
<1>1. /\ s \in Seq(Queues) /\ t \in Seq(Queues) /\ Len(s) \in Nat /\ Len(t) \in Nat
      /\ Len(s) = Len(t)
  <2>1. Len(s) = Cardinality(A) /\ Len(t) = Cardinality(A) BY ListedCounts
  <2> QED BY <2>1 DEF Listed
<1> DEFINE B == {i \in 0 .. Len(s) : i # 0 /\ s[i] # t[i]}
<1>2. ASSUME B # {} PROVE FALSE
  <2>1. PICK m \in B : \A k \in B : m <= k
    <3>1. B \in SUBSET (0 .. Len(s)) OBVIOUS
    <3> HIDE DEF B
    <3> QED BY <1>1, <1>2, <3>1, SmallestOf
  <2>2. /\ m \in 1 .. Len(s) /\ m \in 1 .. Len(t) /\ s[m] # t[m]
        /\ \A k \in 1 .. Len(s) : k < m => s[k] = t[k]
    BY <2>1, <1>1
  <2>3. /\ \A i, j \in 1 .. Len(s) : s[i] = s[j] => i = j
        /\ \A i, j \in 1 .. Len(t) : t[i] = t[j] => i = j
    BY ListedOnce
  <2>4. s[m] \in A /\ t[m] \in A BY <2>2 DEF Listed
  <2>5. Before(n, pos, t[m], s[m])
    <3>1. PICK j \in 1 .. Len(t) : t[j] = s[m] BY <2>4 DEF Listed
    <3>2. ~(j < m) BY <3>1, <2>2, <2>3, <1>1
    <3>3. m < j BY <3>1, <3>2, <2>2, <1>1
    <3> QED BY <3>1, <3>3, <2>2 DEF Listed
  <2>6. Before(n, pos, s[m], t[m])
    <3>1. PICK j \in 1 .. Len(s) : s[j] = t[m] BY <2>4 DEF Listed
    <3>2. ~(j < m) BY <3>1, <2>2, <2>3, <1>1
    <3>3. m < j BY <3>1, <3>2, <2>2, <1>1
    <3> QED BY <3>1, <3>3, <2>2 DEF Listed
  <2>7. /\ Key(n, s[m]) \in Nat /\ Key(n, t[m]) \in Nat
        /\ pos[s[m]] \in Int /\ pos[t[m]] \in Int
    BY <2>4, NodeFields
  <2> QED BY <2>5, <2>6, <2>7 DEF Before
<1>3. \A i \in 1 .. Len(s) : s[i] = t[i] BY <1>2
<1> QED BY <1>1, <1>3, SeqEqual

(* u is s with e behind its first k elements.                              *)
HasIn(u, s, k, e) ==
    /\ Len(u) = Len(s) + 1
    /\ \A i \in 1 .. Len(s) + 1 :
          u[i] = IF i <= k THEN s[i] ELSE IF i = k + 1 THEN e ELSE s[i - 1]

(* What InsertAt returns.                                                  *)
LEMMA Inserted ==
  ASSUME NEW S, NEW s \in Seq(S), NEW k \in 0 .. Len(s), NEW e \in S
  PROVE  /\ InsertAt(s, k + 1, e) \in Seq(S)
         /\ HasIn(InsertAt(s, k + 1, e), s, k, e)
<1> DEFINE a == SubSeq(s, 1, (k + 1) - 1)
           b == SubSeq(s, k + 1, Len(s))
           c == a \o <<e>>
<1>1. Len(s) \in Nat /\ k \in Nat /\ k <= Len(s) /\ (k + 1) - 1 = k OBVIOUS
<1>2. a \in Seq(S) /\ Len(a) = k /\ \A i \in 1 .. k : a[i] = s[i]
  <2>1. \A i \in 1 .. k : s[i] \in S BY <1>1
  <2>2. /\ SubSeq(s, 1, k) \in Seq(S)
        /\ Len(SubSeq(s, 1, k)) = IF 1 <= k THEN k - 1 + 1 ELSE 0
        /\ \A i \in 1 .. k - 1 + 1 : SubSeq(s, 1, k)[i] = s[1 + i - 1]
    BY <1>1, <2>1, SubSeqProperties
  <2> QED BY <1>1, <2>2
<1>3. /\ b \in Seq(S) /\ Len(b) = Len(s) - k
      /\ \A i \in 1 .. Len(s) - k : b[i] = s[k + i]
  <2>1. \A i \in k + 1 .. Len(s) : s[i] \in S BY <1>1
  <2>2. PICK m : m = k + 1 OBVIOUS
  <2>3. /\ SubSeq(s, m, Len(s)) \in Seq(S)
        /\ Len(SubSeq(s, m, Len(s))) = IF m <= Len(s) THEN Len(s) - m + 1 ELSE 0
        /\ \A i \in 1 .. Len(s) - m + 1 : SubSeq(s, m, Len(s))[i] = s[m + i - 1]
    BY <1>1, <2>1, <2>2, SubSeqProperties
  <2>4. \A i \in 1 .. Len(s) - k : m + i - 1 = k + i /\ i \in 1 .. Len(s) - m + 1 BY <1>1, <2>2
  <2> QED BY <1>1, <2>2, <2>3, <2>4
<1>4. InsertAt(s, k + 1, e) = c \o b BY DEF InsertAt
<1> HIDE DEF a, b
<1>5. /\ <<e>> \in Seq(S) /\ Len(<<e>>) = 1 /\ <<e>>[1] = e OBVIOUS
<1>6. /\ c \in Seq(S) /\ Len(c) = k + 1
      /\ \A i \in 1 .. k + 1 : c[i] = IF i <= k THEN s[i] ELSE e
  <2>1. /\ c \in Seq(S) /\ Len(c) = Len(a) + 1
        /\ \A i \in 1 .. Len(a) + 1 : c[i] = IF i <= Len(a) THEN a[i] ELSE <<e>>[i - Len(a)]
    BY <1>2, <1>5, ConcatProperties
  <2>2. \A i \in 1 .. k + 1 : i <= k \/ i - k = 1 BY <1>1
  <2> QED BY <1>1, <1>2, <1>5, <2>1, <2>2
<1> HIDE DEF c
<1>7. PICK u : u = c \o b OBVIOUS
<1>8. /\ u \in Seq(S) /\ Len(u) = Len(s) + 1
      /\ \A i \in 1 .. Len(s) + 1 : u[i] = IF i <= k + 1 THEN c[i] ELSE b[i - (k + 1)]
  <2>1. /\ c \o b \in Seq(S) /\ Len(c \o b) = Len(c) + Len(b)
        /\ \A i \in 1 .. Len(c) + Len(b) : (c \o b)[i] = IF i <= Len(c) THEN c[i] ELSE b[i - Len(c)]
    BY <1>3, <1>6, ConcatProperties
  <2>2. Len(c) + Len(b) = Len(s) + 1 BY <1>1, <1>3, <1>6
  <2> QED BY <2>1, <2>2, <1>6, <1>7
<1>9. ASSUME NEW i \in 1 .. Len(s) + 1
      PROVE  u[i] = IF i <= k THEN s[i] ELSE IF i = k + 1 THEN e ELSE s[i - 1]
  <2>1. CASE i <= k + 1 BY <2>1, <1>1, <1>6, <1>8
  <2>2. CASE i > k + 1
    <3>1. i - (k + 1) \in 1 .. Len(s) - k /\ k + (i - (k + 1)) = i - 1 BY <2>2, <1>1
    <3>2. b[i - (k + 1)] = s[i - 1] BY <3>1, <1>3
    <3> QED BY <2>2, <3>2, <1>1, <1>8
  <2>3. i <= k + 1 \/ i > k + 1 BY <1>1
  <2> QED BY <2>1, <2>2, <2>3
<1>10. InsertAt(s, k + 1, e) = u BY <1>4, <1>7
<1>11. u \in Seq(S) /\ HasIn(u, s, k, e) BY <1>8, <1>9 DEF HasIn
<1> QED BY <1>10, <1>11

(* A set of numbers that leaves no smaller one out. *)
LEMMA Prefix ==
  ASSUME NEW L \in Nat, NEW D \in SUBSET (1 .. L),
         \A i \in D, j \in 1 .. L : j < i => j \in D
  PROVE  Cardinality(D) \in 0 .. L /\ D = 1 .. Cardinality(D)
<1> DEFINE B == {i \in 0 .. L + 1 : i # 0 /\ i \notin D}
<1>1. PICK m \in B : \A k \in B : m <= k
  <2>1. B \in SUBSET (0 .. L + 1) /\ L + 1 \in B OBVIOUS
  <2>2. B # {} /\ L + 1 \in Nat BY <2>1
  <2> HIDE DEF B
  <2> QED BY <2>1, <2>2, SmallestOf
<1>2. m \in 1 .. L + 1 /\ m \notin D OBVIOUS
<1>3. D = 1 .. m - 1
  <2>1. ASSUME NEW i \in D PROVE i \in 1 .. m - 1
    <3>1. i \in 1 .. L /\ ~(m < i) /\ i # m BY <1>2
    <3> QED BY <3>1, <1>2
  <2>2. ASSUME NEW i \in 1 .. m - 1 PROVE i \in D
    <3>1. i \in 0 .. L + 1 /\ i # 0 /\ ~(m <= i) BY <1>2
    <3> QED BY <3>1, <1>1
  <2> QED BY <2>1, <2>2, <1>2
<1>4. Cardinality(1 .. m - 1) = m - 1
  <2>1. Cardinality(1 .. m - 1) = IF 1 > m - 1 THEN 0 ELSE m - 1 - 1 + 1 BY <1>2, FS_Interval
  <2> QED BY <2>1, <1>2
<1> QED BY <1>2, <1>3, <1>4

(* The line that EventMerge sees in a list of queues.                      *)
LEMMA LineIs ==
  ASSUME NEW n \in [Queues -> Node], NEW list \in Seq(Queues)
  PROVE  /\ Line(n, list) \in Seq([queue : Queues, key : Nat])
         /\ Len(Line(n, list)) = Len(list) /\ DOMAIN Line(n, list) = 1 .. Len(list)
         /\ \A i \in 1 .. Len(list) :
                /\ Line(n, list)[i] = [queue |-> list[i], key |-> Key(n, list[i])]
                /\ Line(n, list)[i].queue = list[i] /\ Line(n, list)[i].key = Key(n, list[i])
<1>1. /\ Len(list) \in Nat /\ DOMAIN list = 1 .. Len(list)
      /\ \A i \in 1 .. Len(list) : list[i] \in Queues
  OBVIOUS
<1>2. \A i \in 1 .. Len(list) :
          [queue |-> list[i], key |-> Key(n, list[i])] \in [queue : Queues, key : Nat]
  BY <1>1, NodeFields
<1>3. Line(n, list) = [i \in 1 .. Len(list) |-> [queue |-> list[i], key |-> Key(n, list[i])]]
  BY <1>1 DEF Line, Key
<1>4. PICK f, L, S : f = Line(n, list) /\ L = Len(list) /\ S = [queue : Queues, key : Nat] OBVIOUS
<1>5. L \in Nat /\ f = [i \in 1 .. L |-> f[i]] /\ \A i \in 1 .. L : f[i] \in S
  BY <1>1, <1>2, <1>3, <1>4
<1>6. f \in Seq(S) /\ Len(f) = L BY <1>5
<1>7. \A i \in 1 .. L : f[i] = [queue |-> list[i], key |-> Key(n, list[i])] BY <1>3, <1>4
<1> QED BY <1>4, <1>5, <1>6, <1>7

(* The places in the list of the queues whose key is not larger than t.    *)
Ahead(n, list, t) == {i \in 1 .. Len(list) : Key(n, list[i]) <= t}

(* A queue enters the list behind them.                                    *)
LEMMA EntersList ==
  ASSUME NEW n \in [Queues -> Node], NEW pos \in [Queues -> Int],
         NEW M \in SUBSET Queues, NEW list, Listed(n, pos, list, M),
         NEW q \in Queues \ M, NEW t \in Nat,
         NEW n2 \in [Queues -> Node], NEW pos2 \in [Queues -> Int],
         Joins(n, M, pos, q, t, pos2), Key(n2, q) = t,
         \A x \in M : Key(n2, x) = Key(n, x)
  PROVE  /\ Cardinality(Ahead(n, list, t)) \in 0 .. Len(list)
         /\ Listed(n2, pos2, InsertAt(list, Cardinality(Ahead(n, list, t)) + 1, q), M \cup {q})
<1>1. PICK D : D = Ahead(n, list, t) OBVIOUS
<1>2. PICK L : L = Len(list) /\ D = {i \in 1 .. L : Key(n, list[i]) <= t}
  BY <1>1 DEF Ahead
<1>3. /\ list \in Seq(Queues) /\ L \in Nat
      /\ \A i \in 1 .. L : /\ list[i] \in M /\ list[i] # q /\ Key(n, list[i]) \in Nat
                           /\ pos[list[i]] \in Int
  <2>1. list \in Seq(Queues) /\ L \in Nat BY <1>2 DEF Listed
  <2>2. \A i \in 1 .. L : list[i] \in M BY <1>2 DEF Listed
  <2>3. \A x \in M : x # q /\ x \in Queues /\ Key(n, x) \in Nat /\ pos[x] \in Int BY NodeFields
  <2> QED BY <2>1, <2>2, <2>3
<1>4. \A i, j \in 1 .. L :
          i < j => Before(n, pos, list[i], list[j]) /\ Before(n2, pos2, list[i], list[j])
  BY <1>2, <1>3 DEF Listed, Joins, Before
<1>5. PICK k : k = Cardinality(D) OBVIOUS
<1>6. k \in 0 .. L /\ D = 1 .. k
  <2>1. \A i \in D, j \in 1 .. L : j < i => j \in D
    <3>1. SUFFICES ASSUME NEW i \in D, NEW j \in 1 .. L, j < i PROVE j \in D OBVIOUS
    <3>2. i \in 1 .. L /\ Key(n, list[i]) <= t BY <1>2
    <3>3. Before(n, pos, list[j], list[i]) BY <3>1, <3>2, <1>4
    <3> QED BY <3>2, <3>3, <1>2, <1>3 DEF Before
  <2>2. D \in SUBSET (1 .. L) BY <1>2
  <2> QED BY <2>1, <2>2, <1>3, <1>5, Prefix
<1>7. PICK u : u = InsertAt(list, k + 1, q) OBVIOUS
<1>8. /\ u \in Seq(Queues) /\ Len(u) = L + 1
      /\ \A i \in 1 .. k : u[i] = list[i]
      /\ u[k + 1] = q
      /\ \A i \in k + 1 .. L : u[i + 1] = list[i]
      /\ \A i \in k + 2 .. L + 1 : u[i] = list[i - 1]
  <2>1. /\ u \in Seq(Queues) /\ Len(u) = L + 1
        /\ \A i \in 1 .. L + 1 :
              u[i] = IF i <= k THEN list[i] ELSE IF i = k + 1 THEN q ELSE list[i - 1]
    <3>1. list \in Seq(Queues) /\ k \in 0 .. Len(list) /\ q \in Queues BY <1>2, <1>3, <1>6
    <3>2. /\ InsertAt(list, k + 1, q) \in Seq(Queues)
          /\ HasIn(InsertAt(list, k + 1, q), list, k, q)
      BY <3>1, Inserted
    <3>3. u \in Seq(Queues) /\ HasIn(u, list, k, q) BY <3>2, <1>7
    <3> QED BY <3>3, <1>2 DEF HasIn
  <2>2. \A i \in 1 .. k : i \in 1 .. L + 1 /\ i <= k BY <1>3, <1>6
  <2>3. k + 1 \in 1 .. L + 1 /\ ~(k + 1 <= k) BY <1>3, <1>6
  <2>4. \A i \in k + 2 .. L + 1 : i \in 1 .. L + 1 /\ ~(i <= k) /\ i # k + 1 BY <1>3, <1>6
  <2>5. \A i \in k + 1 .. L : i + 1 \in k + 2 .. L + 1 /\ (i + 1) - 1 = i BY <1>3, <1>6
  <2>6. \A i \in k + 2 .. L + 1 : u[i] = list[i - 1] BY <2>1, <2>4
  <2>7. \A i \in k + 1 .. L : u[i + 1] = list[i] BY <2>5, <2>6
  <2>8. \A i \in 1 .. k : u[i] = list[i] BY <2>1, <2>2
  <2>9. u[k + 1] = q BY <2>1, <2>3
  <2>10. u \in Seq(Queues) /\ Len(u) = L + 1 BY <2>1
  <2> QED BY <2>6, <2>7, <2>8, <2>9, <2>10, Zenon
<1>9. \A i \in 1 .. k : Before(n2, pos2, list[i], q)
  <2>1. TAKE i \in 1 .. k
  <2>4. i \in 1 .. L BY <1>3, <1>6
  <2>5. i \in D BY <1>6
  <2>2. i \in 1 .. L /\ i \in D BY <2>4, <2>5
  <2>3. Key(n, list[i]) <= t BY <2>2, <1>2
  <2> QED BY <2>2, <2>3, <1>3 DEF Before, Joins
<1>10. \A i \in k + 1 .. L : Before(n2, pos2, q, list[i])
  <2>1. TAKE i \in k + 1 .. L
  <2>2. i \in 1 .. L /\ i \notin 1 .. k BY <1>3, <1>6
  <2>3. ~(Key(n, list[i]) <= t) BY <2>2, <1>2, <1>6
  <2> QED BY <2>2, <2>3, <1>3 DEF Before
<1>11. \A i \in 1 .. Len(u) : u[i] \in M \cup {q}
  <2>1. TAKE i \in 1 .. Len(u)
  <2>2. CASE i <= k
    <3>1. i \in 1 .. k /\ i \in 1 .. L BY <2>2, <1>3, <1>6, <1>8
    <3> QED BY <3>1, <1>3, <1>8
  <2>3. CASE i = k + 1 BY <2>3, <1>3, <1>6, <1>8
  <2>4. CASE i > k + 1
    <3>1. i - 1 \in 1 .. L /\ i \in k + 2 .. L + 1 BY <2>4, <1>3, <1>6, <1>8
    <3> QED BY <3>1, <1>3, <1>8
  <2> QED BY <2>2, <2>3, <2>4, <1>3, <1>6, <1>8
<1>12. \A x \in M \cup {q} : \E i \in 1 .. Len(u) : u[i] = x
  <2>1. ASSUME NEW x \in M PROVE \E i \in 1 .. Len(u) : u[i] = x
    <3>1. PICK i \in 1 .. L : list[i] = x BY <1>2 DEF Listed
    <3>2. CASE i <= k
      <4>1. i \in 1 .. k /\ i \in 1 .. Len(u) BY <3>2, <1>3, <1>6, <1>8
      <4> QED BY <4>1, <3>1, <1>8
    <3>3. CASE i > k
      <4>1. i + 1 \in 1 .. Len(u) /\ i \in k + 1 .. L
        BY <3>3, <1>3, <1>6, <1>8
      <4>2. u[i + 1] = x BY <4>1, <3>1, <1>8
      <4> QED BY <4>1, <4>2
    <3> QED BY <3>2, <3>3, <1>3, <1>6
  <2>2. k + 1 \in 1 .. Len(u) /\ u[k + 1] = q BY <1>3, <1>6, <1>8
  <2> QED BY <2>1, <2>2
<1>13. ASSUME NEW i \in 1 .. Len(u), NEW j \in 1 .. Len(u), i < j
       PROVE  Before(n2, pos2, u[i], u[j])
  <2>1. CASE j <= k
    <3>1. i \in 1 .. L /\ j \in 1 .. L /\ i \in 1 .. k /\ j \in 1 .. k
      BY <2>1, <1>3, <1>6, <1>8, <1>13
    <3> QED BY <3>1, <1>4, <1>8, <1>13
  <2>2. CASE i <= k /\ j = k + 1
    <3>1. i \in 1 .. k /\ u[i] = list[i] /\ u[j] = q BY <2>2, <1>8
    <3> QED BY <3>1, <1>9
  <2>3. CASE i <= k /\ j > k + 1
    <3>1. /\ i \in 1 .. L /\ j - 1 \in 1 .. L /\ i < j - 1
          /\ i \in 1 .. k /\ j \in k + 2 .. L + 1
      BY <2>3, <1>3, <1>6, <1>8
    <3> QED BY <3>1, <1>4, <1>8
  <2>4. CASE i = k + 1
    <3>0. j \in Int /\ k \in Int /\ k + 1 < j /\ j <= L + 1 BY <2>4, <1>3, <1>6, <1>8, <1>13
    <3>1. j - 1 \in k + 1 .. L /\ j \in k + 2 .. L + 1 BY <3>0, <1>3
    <3> QED BY <2>4, <3>1, <1>8, <1>10
  <2>5. CASE i > k + 1
    <3>1. /\ i - 1 \in 1 .. L /\ j - 1 \in 1 .. L /\ i - 1 < j - 1
          /\ i \in k + 2 .. L + 1 /\ j \in k + 2 .. L + 1
      BY <2>5, <1>3, <1>6, <1>8, <1>13
    <3> QED BY <3>1, <1>4, <1>8
  <2> QED BY <2>1, <2>2, <2>3, <2>4, <2>5, <1>3, <1>6, <1>8
<1>14. Listed(n2, pos2, u, M \cup {q}) BY <1>8, <1>11, <1>12, <1>13 DEF Listed
<1> QED BY <1>1, <1>2, <1>5, <1>6, <1>7, <1>14

(* Insert, in the words of this module.                                    *)
LEMMA InsertIs ==
  ASSUME NEW s, NEW q, NEW t
  PROVE  Merge!Insert(s, q, t) = InsertAt(s, Cardinality({i \in DOMAIN s : s[i].key <= t}) + 1,
                                          [queue |-> q, key |-> t])
BY DEF Merge!Insert, Merge!Entry, InsertAt, Merge!InsertAt, Cardinality, Merge!Cardinality

(* event_tree_rebalance puts a queue where EventMerge does.                *)
LEMMA EntersLine ==
  ASSUME NEW n \in [Queues -> Node], NEW r, NEW M, NEW pos, Shaped(n, r, M, pos),
         NEW q \in Queues \ M, NEW t \in Nat,
         NEW n2, NEW r2, Entered(n, r, M, pos, q, t, n2, r2)
  PROVE  Line(n2, OrderOf(n2, r2)) = Merge!Insert(Line(n, OrderOf(n, r)), q, t)
<1>1. PICK list, u, list2, k, D :
          /\ list = OrderOf(n, r) /\ list2 = OrderOf(n2, r2)
          /\ D = Ahead(n, list, t)
          /\ k = Cardinality(D) /\ u = InsertAt(list, k + 1, q)
  OBVIOUS
<1>2. PICK pos2 : Joins(n, M, pos, q, t, pos2) /\ Shaped(n2, r2, M \cup {q}, pos2)
  BY DEF Entered
<1>3. /\ n2 \in [Queues -> Node] /\ Key(n2, q) = t
      /\ \A x \in M : Key(n2, x) = Key(n, x)
  BY DEF Entered
<1>4. M \in SUBSET Queues /\ pos \in [Queues -> Int] /\ pos2 \in [Queues -> Int]
  BY <1>2, EmptyTree
<1>5. Listed(n, pos, list, M) /\ Listed(n2, pos2, list2, M \cup {q})
  BY <1>1, <1>2, <1>3, OrderLists
<1>6. k \in 0 .. Len(list) /\ Listed(n2, pos2, u, M \cup {q})
  <2>1. /\ Listed(n, pos, list, M) /\ Joins(n, M, pos, q, t, pos2) /\ Key(n2, q) = t
        /\ \A x \in M : Key(n2, x) = Key(n, x)
    BY <1>2, <1>3, <1>5
  <2>2. /\ Cardinality(Ahead(n, list, t)) \in 0 .. Len(list)
        /\ Listed(n2, pos2, InsertAt(list, Cardinality(Ahead(n, list, t)) + 1, q), M \cup {q})
    BY <2>1, <1>3, <1>4, EntersList
  <2> QED BY <2>2, <1>1, Zenon
<1>7. u = list2
  <2>1. M \cup {q} \in SUBSET Queues BY <1>4
  <2> QED BY <2>1, <1>3, <1>4, <1>5, <1>6, SameList
<1>8. /\ list \in Seq(Queues) /\ list2 \in Seq(Queues) /\ Len(list) \in Nat
      /\ \A i \in 1 .. Len(list) : list[i] \in M
  BY <1>5 DEF Listed
<1>9. /\ Len(list2) = Len(list) + 1
      /\ \A i \in 1 .. Len(list) + 1 :
            list2[i] = IF i <= k THEN list[i] ELSE IF i = k + 1 THEN q ELSE list[i - 1]
  <2>1. q \in Queues OBVIOUS
  <2>2. HasIn(InsertAt(list, k + 1, q), list, k, q) BY <2>1, <1>6, <1>8, Inserted
  <2>3. HasIn(list2, list, k, q) BY <2>2, <1>1, <1>7
  <2> QED BY <2>3 DEF HasIn
<1>10. PICK E, e, line, line2, v :
          /\ E = [queue : Queues, key : Nat] /\ e = [queue |-> q, key |-> t]
          /\ line = Line(n, list) /\ line2 = Line(n2, list2)
          /\ v = InsertAt(line, k + 1, e)
  OBVIOUS
<1>11. /\ line \in Seq(E) /\ Len(line) = Len(list) /\ DOMAIN line = 1 .. Len(list)
       /\ \A i \in 1 .. Len(list) : /\ line[i] = [queue |-> list[i], key |-> Key(n, list[i])]
                                    /\ line[i].key = Key(n, list[i])
  BY <1>8, <1>10, LineIs
<1>12. /\ line2 \in Seq(E) /\ Len(line2) = Len(list) + 1
       /\ \A i \in 1 .. Len(list) + 1 :
             line2[i] = [queue |-> list2[i], key |-> Key(n2, list2[i])]
  <2>1. /\ Line(n2, list2) \in Seq([queue : Queues, key : Nat])
        /\ Len(Line(n2, list2)) = Len(list2)
        /\ \A i \in 1 .. Len(list2) :
              Line(n2, list2)[i] = [queue |-> list2[i], key |-> Key(n2, list2[i])]
    BY <1>3, <1>8, LineIs
  <2> QED BY <2>1, <1>9, <1>10, Zenon
<1>13. v = Merge!Insert(line, q, t)
  <2>1. {i \in DOMAIN line : line[i].key <= t} = D BY <1>1, <1>11 DEF Ahead
  <2> QED BY <2>1, <1>1, <1>10, InsertIs
<1>14. /\ v \in Seq(E) /\ Len(v) = Len(list) + 1
       /\ \A i \in 1 .. Len(list) + 1 :
             v[i] = IF i <= k THEN line[i] ELSE IF i = k + 1 THEN e ELSE line[i - 1]
  <2>1. e \in E /\ k \in 0 .. Len(line) /\ line \in Seq(E) BY <1>6, <1>10, <1>11
  <2>2. InsertAt(line, k + 1, e) \in Seq(E) /\ HasIn(InsertAt(line, k + 1, e), line, k, e)
    BY <2>1, Inserted
  <2>3. v \in Seq(E) /\ HasIn(v, line, k, e) BY <2>2, <1>10
  <2>4. Len(line) = Len(list) BY <1>11
  <2> QED BY <2>3, <2>4 DEF HasIn
<1>15. ASSUME NEW i \in 1 .. Len(list) + 1
       PROVE  v[i] = line2[i]
  <2>1. CASE i <= k
    <3>1. i \in 1 .. Len(list) BY <2>1, <1>6, <1>8
    <3>2. list2[i] = list[i] /\ Key(n2, list[i]) = Key(n, list[i]) BY <2>1, <3>1, <1>3, <1>8, <1>9
    <3>3. v[i] = line[i] BY <2>1, <1>14
    <3> QED BY <3>1, <3>2, <3>3, <1>11, <1>12
  <2>2. CASE i = k + 1
    <3>1. ~(i <= k) BY <2>2, <1>6
    <3> QED BY <2>2, <3>1, <1>3, <1>9, <1>10, <1>12, <1>14
  <2>3. CASE i > k + 1
    <3>1. i - 1 \in 1 .. Len(list) /\ ~(i <= k) /\ i # k + 1 BY <2>3, <1>6, <1>8
    <3>2. list2[i] = list[i - 1] BY <3>1, <1>9
    <3>3. Key(n2, list[i - 1]) = Key(n, list[i - 1]) BY <3>1, <1>3, <1>8
    <3>4. v[i] = line[i - 1] BY <3>1, <1>14
    <3>5. line[i - 1] = [queue |-> list[i - 1], key |-> Key(n, list[i - 1])] BY <3>1, <1>11
    <3> QED BY <3>2, <3>3, <3>4, <3>5, <1>12
  <2> QED BY <2>1, <2>2, <2>3, <1>6
<1>16. v = line2 BY <1>12, <1>14, <1>15, SeqEqual
<1> QED BY <1>1, <1>10, <1>13, <1>16

(* event_tree_read takes the queue at the front of the line.               *)
LEMMA LeavesLine ==
  ASSUME NEW n \in [Queues -> Node], NEW r, NEW M, NEW pos, Shaped(n, r, M, pos),
         NEW q, NEW n2, NEW r2, Leaves(n, r, M, pos, q, n2, r2)
  PROVE  /\ Line(n, OrderOf(n, r)) # <<>>
         /\ Head(Line(n, OrderOf(n, r))).queue = q
         /\ Tail(Line(n, OrderOf(n, r))) = Line(n2, OrderOf(n2, r2))
<1>1. PICK list, list2 : list = OrderOf(n, r) /\ list2 = OrderOf(n2, r2) OBVIOUS
<1>2. /\ n2 \in [Queues -> Node] /\ q \in M
      /\ \A x \in M \ {q} : Key(n2, x) = Key(n, x)
      /\ Shaped(n2, r2, M \ {q}, pos)
      /\ \A x \in M : \/ Key(n, q) < Key(n, x)
                      \/ Key(n, q) = Key(n, x) /\ pos[q] <= pos[x]
  BY DEF Leaves
<1>3. M \in SUBSET Queues /\ pos \in [Queues -> Int] BY EmptyTree
<1>4. Listed(n, pos, list, M) /\ Listed(n2, pos, list2, M \ {q}) BY <1>1, <1>2, OrderLists
<1>5. Listed(n, pos, list2, M \ {q})
  <2>1. \A x, y \in M \ {q} : Before(n2, pos, x, y) <=> Before(n, pos, x, y) BY <1>2 DEF Before
  <2>2. PICK N : N = M \ {q} OBVIOUS
  <2>3. Listed(n2, pos, list2, N) /\ \A x, y \in N : Before(n2, pos, x, y) => Before(n, pos, x, y)
    BY <1>4, <2>1, <2>2
  <2>4. Listed(n, pos, list2, N) BY <2>3 DEF Listed
  <2> QED BY <2>2, <2>4
<1>6. \A x \in M \ {q} : Before(n, pos, q, x)
  <2>1. TAKE x \in M \ {q}
  <2>2. Key(n, q) < Key(n, x) \/ (Key(n, q) = Key(n, x) /\ pos[q] <= pos[x]) BY <1>2
  <2>3. pos[q] \in Int /\ pos[x] \in Int BY <1>2, <1>3
  <2>4. Key(n, q) = Key(n, x) => pos[q] # pos[x]
    <3>1. PICK T : Grouped(n, M, T, pos) BY DEF Shaped
    <3> QED BY <3>1, <1>2 DEF Grouped
  <2> QED BY <2>2, <2>3, <2>4 DEF Before
<1>7. Listed(n, pos, <<q>>, {q})
  <2>1. <<q>> \in Seq(Queues) /\ Len(<<q>>) = 1 /\ <<q>>[1] = q BY <1>2, <1>3
  <2>2. PICK s : s = <<q>> OBVIOUS
  <2>3. Listed(n, pos, s, {q}) BY <2>1, <2>2 DEF Listed
  <2> QED BY <2>2, <2>3
<1>8. Listed(n, pos, <<q>> \o list2, M)
  <2>1. {q} \cup (M \ {q}) = M BY <1>2
  <2>2. PICK A, B, s : A = {q} /\ B = M \ {q} /\ s = <<q>> OBVIOUS
  <2>3. /\ Listed(n, pos, s, A) /\ Listed(n, pos, list2, B)
        /\ \A a \in A, b \in B : Before(n, pos, a, b)
    BY <2>2, <1>5, <1>6, <1>7
  <2>4. Listed(n, pos, s \o list2, A \cup B) BY <2>3, ListedJoin
  <2> QED BY <2>1, <2>2, <2>4
<1>9. list = <<q>> \o list2 BY <1>3, <1>4, <1>8, SameList
<1>10. /\ list \in Seq(Queues) /\ list2 \in Seq(Queues) /\ Len(list2) \in Nat
       /\ \A i \in 1 .. Len(list2) : list2[i] \in M \ {q}
  BY <1>4 DEF Listed
<1>11. /\ Len(list) = Len(list2) + 1 /\ list[1] = q
       /\ \A i \in 1 .. Len(list2) : list[i + 1] = list2[i]
  <2>1. <<q>> \in Seq(Queues) /\ Len(<<q>>) = 1 /\ <<q>>[1] = q BY <1>2, <1>3
  <2>2. PICK s : s = <<q>> OBVIOUS
  <2>3. /\ Len(s \o list2) = 1 + Len(list2)
        /\ \A i \in 1 .. 1 + Len(list2) :
              (s \o list2)[i] = IF i <= 1 THEN s[i] ELSE list2[i - 1]
    BY <2>1, <2>2, <1>10, ConcatProperties
  <2>4. /\ Len(list) = 1 + Len(list2)
        /\ \A i \in 1 .. 1 + Len(list2) : list[i] = IF i <= 1 THEN s[i] ELSE list2[i - 1]
    BY <2>2, <2>3, <1>9
  <2>5. ASSUME NEW i \in 1 .. Len(list2) PROVE list[i + 1] = list2[i]
    <3>1. i + 1 \in 1 .. 1 + Len(list2) /\ ~(i + 1 <= 1) /\ (i + 1) - 1 = i BY <1>10
    <3> QED BY <3>1, <2>4
  <2> QED BY <2>1, <2>2, <2>4, <2>5, <1>10
<1>12. PICK E, line, line2 :
          /\ E = [queue : Queues, key : Nat]
          /\ line = Line(n, list) /\ line2 = Line(n2, list2)
  OBVIOUS
<1>13. /\ line \in Seq(E) /\ Len(line) = Len(list)
       /\ \A i \in 1 .. Len(list) : /\ line[i] = [queue |-> list[i], key |-> Key(n, list[i])]
                                    /\ line[i].queue = list[i]
  BY <1>10, <1>12, LineIs
<1>14. /\ line2 \in Seq(E) /\ Len(line2) = Len(list2)
       /\ \A i \in 1 .. Len(list2) :
             line2[i] = [queue |-> list2[i], key |-> Key(n2, list2[i])]
  BY <1>2, <1>10, <1>12, LineIs
<1>15. line # <<>> /\ Head(line).queue = q
  <2>1. Len(line) > 0 /\ 1 \in 1 .. Len(list) BY <1>10, <1>11, <1>13
  <2>2. line # <<>> /\ Head(line) = line[1] BY <2>1, <1>13
  <2> QED BY <2>1, <2>2, <1>11, <1>13
<1>16. Tail(line) = line2
  <2>1. PICK v : v = Tail(line) OBVIOUS
  <2>2. /\ v \in Seq(E) /\ Len(v) = Len(line) - 1
        /\ \A i \in 1 .. Len(v) : v[i] = line[i + 1]
    BY <2>1, <1>13, <1>15, HeadTailProperties
  <2>3. Len(v) = Len(list2) BY <2>2, <1>10, <1>11, <1>13
  <2>4. ASSUME NEW i \in 1 .. Len(v) PROVE v[i] = line2[i]
    <3>1. i \in 1 .. Len(list2) /\ i + 1 \in 1 .. Len(list) BY <2>3, <1>10, <1>11
    <3>2. v[i] = [queue |-> list2[i], key |-> Key(n, list2[i])]
      BY <3>1, <2>2, <1>11, <1>13
    <3> QED BY <3>1, <3>2, <1>2, <1>10, <1>14
  <2>5. v = line2 BY <2>2, <2>3, <2>4, <1>14, SeqEqual
  <2> QED BY <2>1, <2>5
<1> QED BY <1>1, <1>12, <1>15, <1>16

(* What EventMerge sees in a tree without garbage.                         *)
LEMMA LineOfTree ==
  ASSUME NEW n \in [Queues -> Node], NEW r, NEW M, NEW pos, Shaped(n, r, M, pos),
         ~Garbage(n, r, M), NEW line, line = Line(n, OrderOf(n, r))
  PROVE  /\ \A i \in DOMAIN line : line[i].queue \in M
         /\ line = <<>> <=> r = NULL
<1>1. PICK list : list = OrderOf(n, r) OBVIOUS
<1>2. Listed(n, pos, list, M) BY <1>1, OrderLists
<1>3. /\ list \in Seq(Queues) /\ Len(list) \in Nat
      /\ \A i \in 1 .. Len(list) : list[i] \in M
      /\ \A x \in M : 1 \in 1 .. Len(list)
  BY <1>2 DEF Listed
<1>4. /\ line \in Seq([queue : Queues, key : Nat])
      /\ Len(line) = Len(list) /\ DOMAIN line = 1 .. Len(list)
      /\ \A i \in 1 .. Len(list) : line[i].queue = list[i]
  BY <1>1, <1>3, LineIs
<1>5. r = NULL <=> M = {}
  <2>1. /\ r \in Pointers /\ r # Wild
        /\ ~IsNode(r) => M = {}
        /\ IsNode(r) => r \in M
    BY EmptyTree DEF Garbage
  <2> QED BY <2>1, PointerKinds
<1>6. line = <<>> <=> M = {}
  <2>1. PICK S : S = [queue : Queues, key : Nat] OBVIOUS
  <2>2. line \in Seq(S) BY <2>1, <1>4
  <2>3. line = <<>> <=> Len(line) = 0 BY <2>2, EmptySeq
  <2>4. Len(list) = 0 <=> M = {}
    <3>1. Len(list) = 0 => M = {} BY <1>3
    <3>2. M = {} => ~(1 \in 1 .. Len(list)) BY <1>3
    <3> QED BY <3>1, <3>2, <1>3
  <2> QED BY <2>3, <2>4, <1>4
<1> QED BY <1>3, <1>4, <1>5, <1>6

(* The same, of a state and of the one after it.                           *)
LEMMA LineNow ==
  ASSUME Wild \notin Fresh, IInv, NEW M, NEW pos, Sound(M, pos)
  PROVE  /\ ~crashed /\ Accounts(M) /\ M \subseteq accepted
         /\ node \in [Queues -> Node] /\ Shaped(node, root, M, pos) /\ ~Garbage(node, root, M)
         /\ \A i \in DOMAIN Line(node, InOrder) : Line(node, InOrder)[i].queue \in M
         /\ Line(node, InOrder) = <<>> <=> root = NULL
<1>1. /\ ~crashed /\ node \in [Queues -> Node]
      /\ Shaped(node, root, M, pos) /\ ~Garbage(node, root, M)
      /\ Accounts(M) /\ M \subseteq accepted
  BY NeverCrashed, SoundFacts DEF Sound
<1>2. PICK line : line = Line(node, OrderOf(node, root)) OBVIOUS
<1>3. /\ \A i \in DOMAIN line : line[i].queue \in M
      /\ line = <<>> <=> root = NULL
  BY <1>1, <1>2, LineOfTree
<1> QED BY <1>1, <1>2, <1>3 DEF InOrder

LEMMA LineNext == Line(node, InOrder)' = Line(node', OrderOf(node', root'))
BY DEF InOrder

(* An empty tree is an empty line.                                         *)
LEMMA EmptyLine ==
  ASSUME NEW n \in [Queues -> Node]
  PROVE  Line(n, OrderOf(n, NULL)) = <<>>
<1>1. /\ Shaped(n, NULL, {}, [q \in Queues |-> 0]) /\ ~Garbage(n, NULL, {}) BY NoTree
<1>2. PICK line, pos : line = Line(n, OrderOf(n, NULL)) /\ pos = [q \in Queues |-> 0] OBVIOUS
<1>3. line = <<>> BY <1>1, <1>2, LineOfTree
<1> QED BY <1>2, <1>3

LEMMA InitMerges == Init => Merge!Init
<1> SUFFICES ASSUME Init PROVE Merge!Init OBVIOUS
<1>1. node \in [Queues -> Node] /\ root = NULL BY BlankNodes DEF Init
<1>2. Line(node, InOrder) = <<>> BY <1>1, EmptyLine DEF InOrder
<1> QED BY <1>2 DEF Init, Merge!Init

LEMMA PushMerges ==
  ASSUME NEW q \in Queues, Push(q) \/ Close(q)
  PROVE  Merge!Push(q)
<1>1. /\ \E e \in Events(q) : contents' = [contents EXCEPT ![q] = Append(contents[q], e)]
      /\ UNCHANGED <<treeVars, returned>>
  BY DEF Push, Close, Events
<1>2. Line(node, InOrder)' = Line(node, InOrder) BY <1>1 DEF InOrder, treeVars
<1>3. Merge!Events(q) = Events(q) BY DEF Merge!Events, Events
<1> QED BY <1>1, <1>2, <1>3 DEF Merge!Push, treeVars

LEMMA AddFirstMerges ==
  ASSUME Wild \notin Fresh, IInv, NEW q \in Queues, AddFirst(q)
  PROVE  Merge!Add(q)
<1>1. PICK M, pos : Sound(M, pos) BY DEF IInv
<1>2. PICK new \in NewNodes(q) : node' = [node EXCEPT ![q] = new] BY DEF AddFirst
<1>3. /\ q \notin accepted /\ contents[q] # <<>> /\ root = NULL /\ root' = q
      /\ accepted' = accepted \cup {q} /\ drained' = drained
      /\ UNCHANGED <<contents, last, returned>>
  BY DEF AddFirst, IsEmptyQueue, queueVars
<1>4. /\ node \in [Queues -> Node] /\ Accounts(M)
      /\ Line(node, InOrder) = <<>>
  BY <1>1, <1>3, LineNow
<1>5. q # last BY <1>3, <1>4, PointerKinds DEF Accounts
<1>6. /\ new.timestamp \in FreshTimes /\ new.timestamp \in Nat
      /\ node' \in [Queues -> Node] /\ Key(node', q) = new.timestamp
  <2>1. new.timestamp \in FreshTimes BY DEF NewNodes
  <2>2. IInv' BY AddFirstStep
  <2>3. node' \in [Queues -> Node] BY <2>2 DEF IInv, TypeOK
  <2>4. node'[q] = new BY <1>2, <1>4
  <2> QED BY <2>1, <2>3, <2>4, EventTreeAssumption DEF Key
<1>7. Line(node, InOrder)' = <<[queue |-> q, key |-> new.timestamp]>>
  <2>1. PICK n, list, k : n = node' /\ list = InOrder' /\ k = new.timestamp OBVIOUS
  <2>2. PICK M2, pos2 : Sound(M2, pos2)' BY AddFirstStep DEF IInv
  <2>3. /\ Shaped(n, q, M2, pos2) /\ n \in [Queues -> Node]
        /\ list = OrderOf(n, q) /\ Key(n, q) = k
    BY <2>1, <2>2, <1>3, <1>6 DEF Sound, InOrder
  <2>4. Listed(n, pos2, list, M2) BY <2>3, OrderLists
  <2>5. M2 = {q}
    <3>1. M = {} BY <1>1, <1>3, LineNow, EmptyTree, PointerKinds
    <3>2. accepted = drained \cup ({last} \ {NULL}) BY <3>1, <1>4 DEF Accounts
    <3>3. ~crashed' BY AddFirstStep
    <3>4. /\ accepted' = M2 \cup drained' \cup ({last'} \ {NULL})
          /\ M2 \cap drained' = {} /\ last' \notin M2
      BY <2>2, <3>3 DEF Sound, Accounts
    <3> QED BY <3>2, <3>4, <1>3
  <2>6. list \in Seq(Queues) /\ Len(list) = 1 /\ list[1] = q
    <3>1. M2 \in SUBSET Queues /\ pos2 \in [Queues -> Int] BY <2>5, <2>3, EmptyTree
    <3>2. Len(list) = Cardinality({q}) BY <3>1, <2>3, <2>4, <2>5, ListedCounts
    <3>3. Cardinality({q}) = 1 BY FS_Singleton
    <3> QED BY <3>2, <3>3, <2>4, <2>5 DEF Listed
  <2>7. PICK line, E, e : /\ line = Line(n, list) /\ E = [queue : Queues, key : Nat]
                          /\ e = [queue |-> q, key |-> k]
    OBVIOUS
  <2>8. line \in Seq(E) /\ Len(line) = 1 /\ line[1] = e
    <3>1. 1 \in 1 .. Len(list) BY <2>6
    <3>2. /\ Line(n, list) \in Seq([queue : Queues, key : Nat])
          /\ Len(Line(n, list)) = Len(list)
          /\ Line(n, list)[1] = [queue |-> list[1], key |-> Key(n, list[1])]
      BY <3>1, <2>3, <2>6, LineIs
    <3> QED BY <3>2, <2>3, <2>6, <2>7, Zenon
  <2>9. line = <<e>> BY <2>8
  <2> QED BY <2>1, <2>7, <2>9
<1>8. Merge!Entry(q, new.timestamp) = [queue |-> q, key |-> new.timestamp] BY DEF Merge!Entry
<1>9. \A i \in DOMAIN Line(node, InOrder) : Line(node, InOrder)[i].queue # q
  BY <1>1, <1>3, LineNow
<1> QED BY <1>3, <1>4, <1>5, <1>6, <1>7, <1>8, <1>9 DEF Merge!Add

(* A queue that enters the tree goes where EventMerge puts it.             *)
LEMMA AddNextMerges ==
  ASSUME Wild \notin Fresh, IInv, NEW q \in Queues, AddNext(q)
  PROVE  Merge!Add(q)
<1>1. PICK M, pos : Sound(M, pos) BY DEF IInv
<1>2. PICK t, b : t = PeekTime(q) /\ b = Rebalance(node, root, q, t) OBVIOUS
<1>3. /\ q \notin accepted /\ contents[q] # <<>> /\ root # NULL
      /\ node' = b.node /\ root' = b.root
      /\ UNCHANGED <<contents, last, returned>>
  BY <1>2 DEF AddNext, IsEmptyQueue, Commit, queueVars
<1>4. /\ node \in [Queues -> Node] /\ Shaped(node, root, M, pos) /\ ~Garbage(node, root, M)
      /\ Accounts(M) /\ M \subseteq accepted
      /\ \A i \in DOMAIN Line(node, InOrder) : Line(node, InOrder)[i].queue \in M
      /\ Line(node, InOrder) # <<>>
  BY <1>1, <1>3, LineNow
<1>5. q # last BY <1>3, <1>4, PointerKinds DEF Accounts
<1>6. q \in Queues \ M /\ t \in Nat
  <2>1. contents[q] \in Seq(Events(q)) BY <1>1, SoundFacts
  <2>2. Head(contents[q]) \in Events(q) BY <2>1, <1>3, Sequences
  <2> QED BY <2>2, <1>2, <1>3, <1>4, QueueTyped DEF IInv, PeekTime
<1>7. Entered(node, root, M, pos, q, t, b.node, b.root) BY <1>2, <1>4, <1>6, RebalanceJoins
<1>8. Line(b.node, OrderOf(b.node, b.root)) = Merge!Insert(Line(node, OrderOf(node, root)), q, t)
  BY <1>4, <1>6, <1>7, EntersLine
<1>9. Line(node, InOrder)' = Merge!Insert(Line(node, InOrder), q, Merge!HeadTime(contents, q))
  BY <1>2, <1>3, <1>8, LineNext DEF InOrder, PeekTime, Merge!HeadTime
<1> QED BY <1>3, <1>4, <1>5, <1>6, <1>9 DEF Merge!Add

LEMMA ResumeMerges ==
  ASSUME Wild \notin Fresh, IInv, IsEmptyResume
  PROVE  Merge!Resume
<1>1. PICK M, pos : Sound(M, pos) BY DEF IInv
<1>2. PICK q, t, b : q = last /\ t = PeekTime(q) /\ b = Rebalance(node, root, q, t) OBVIOUS
<1>3. /\ q # NULL /\ contents[q] # <<>> /\ last' = NULL
      /\ node' = b.node /\ root' = b.root
      /\ UNCHANGED <<contents, returned>>
  BY <1>2 DEF IsEmptyResume, IsEmptyQueue, Commit, queueVars
<1>4. /\ node \in [Queues -> Node] /\ Shaped(node, root, M, pos) /\ ~Garbage(node, root, M)
      /\ Accounts(M) /\ last \in Queues \cup {NULL}
  BY <1>1, LineNow, SoundFacts
<1>5. q \in Queues \ M BY <1>2, <1>3, <1>4 DEF Accounts
<1>6. t \in Nat
  <2>1. contents[q] \in Seq(Events(q)) BY <1>1, <1>5, SoundFacts
  <2>2. Head(contents[q]) \in Events(q) BY <2>1, <1>3, Sequences
  <2> QED BY <2>2, <1>2, <1>5, QueueTyped DEF IInv, PeekTime
<1>7. Entered(node, root, M, pos, q, t, b.node, b.root)
  BY <1>2, <1>4, <1>5, <1>6, RebalanceJoins
<1>8. Line(b.node, OrderOf(b.node, b.root)) = Merge!Insert(Line(node, OrderOf(node, root)), q, t)
  BY <1>4, <1>5, <1>6, <1>7, EntersLine
<1>9. Line(node, InOrder)' = Merge!Insert(Line(node, InOrder), q, Merge!HeadTime(contents, q))
  BY <1>2, <1>3, <1>8, LineNext DEF InOrder, PeekTime, Merge!HeadTime
<1> QED BY <1>2, <1>3, <1>9 DEF Merge!Resume

(* A read takes the event of the queue at the front ...                    *)
LEMMA FrontOfLine ==
  ASSUME Wild \notin Fresh, IInv, NEW q \in Queues, NEW e, NEW M, NEW pos, NEW o,
         Sound(M, pos), Popped(M, pos, q, e, o)
  PROVE  /\ last = NULL /\ contents[q] # <<>> /\ e = Head(contents[q])
         /\ Line(node, InOrder) # <<>> /\ Head(Line(node, InOrder)).queue = q
         /\ Tail(Line(node, InOrder)) = Line(o.node, OrderOf(o.node, o.root))
         /\ o.node \in [Queues -> Node] /\ q \in M
         /\ Shaped(o.node, o.root, M \ {q}, pos) /\ ~Garbage(o.node, o.root, M \ {q})
         /\ Tail(Line(node, InOrder)) = <<>> <=> o.root = NULL
<1>1. /\ Shaped(node, root, M, pos) /\ node \in [Queues -> Node] /\ ~Garbage(node, root, M)
  BY LineNow
<1>2. /\ last = NULL /\ contents[q] # <<>> /\ e = Head(contents[q])
      /\ Leaves(node, root, M, pos, q, o.node, o.root)
  BY DEF Popped, Accounts
<1>3. /\ o.node \in [Queues -> Node] /\ q \in M
      /\ Shaped(o.node, o.root, M \ {q}, pos) /\ ~Garbage(o.node, o.root, M \ {q})
  BY <1>1, <1>2 DEF Leaves
<1>4. /\ Line(node, OrderOf(node, root)) # <<>>
      /\ Head(Line(node, OrderOf(node, root))).queue = q
      /\ Tail(Line(node, OrderOf(node, root))) = Line(o.node, OrderOf(o.node, o.root))
  BY <1>1, <1>2, LeavesLine
<1>5. PICK line : line = Line(o.node, OrderOf(o.node, o.root)) OBVIOUS
<1>6. line = <<>> <=> o.root = NULL BY <1>3, <1>5, LineOfTree
<1> QED BY <1>2, <1>3, <1>4, <1>5, <1>6 DEF InOrder

(* ... and its queue goes back in line, holds it up, or leaves it.         *)
LEMMA ReadClosedMerges ==
  ASSUME Wild \notin Fresh, IInv, NEW q \in Queues, ReadClosed(q)
  PROVE  Merge!Read
<1>1. PICK e \in Events(q) : /\ Pop(q, e) /\ e.closed
                             /\ Commit(Tree(TakeOut.node, TakeOut.root))
                             /\ returned' = IF TakeOut.root = NULL THEN Stop ELSE e
                             /\ UNCHANGED last
  BY DEF ReadClosed
<1>2. PICK M, pos, o : Sound(M, pos) /\ Popped(M, pos, q, e, o) BY <1>1, PopsOldest
<1>3. /\ o = TakeOut /\ node' = o.node /\ root' = o.root
      /\ contents' = [contents EXCEPT ![q] = Tail(contents[q])]
  BY <1>1, <1>2 DEF Commit, Tree, Popped, Pop
<1>4. PICK line, line2 : line = Line(node, InOrder) /\ line2 = Line(node, InOrder)' OBVIOUS
<1>5. line2 = Line(o.node, OrderOf(o.node, o.root)) BY <1>3, <1>4, LineNext
<1>6. /\ last = NULL /\ contents[q] # <<>> /\ e = Head(contents[q])
      /\ line # <<>> /\ Head(line).queue = q /\ Tail(line) = line2
      /\ Tail(line) = <<>> <=> o.root = NULL
  BY <1>2, <1>4, <1>5, FrontOfLine
<1>7. last' = NULL /\ returned' = IF Tail(line) = <<>> THEN Stop ELSE e BY <1>1, <1>3, <1>6
<1> QED BY <1>1, <1>3, <1>4, <1>6, <1>7 DEF Merge!Read

LEMMA ReadLastMerges ==
  ASSUME Wild \notin Fresh, IInv, NEW q \in Queues, ReadLast(q)
  PROVE  Merge!Read
<1>1. PICK e \in Events(q) : /\ Pop(q, e) /\ ~e.closed
                             /\ Len(contents[q]) = 1
                             /\ Commit(Tree(TakeOut.node, TakeOut.root))
                             /\ last' = q /\ returned' = e
  BY DEF ReadLast
<1>2. PICK M, pos, o : Sound(M, pos) /\ Popped(M, pos, q, e, o) BY <1>1, PopsOldest
<1>3. /\ node' = o.node /\ root' = o.root
      /\ contents' = [contents EXCEPT ![q] = Tail(contents[q])]
  BY <1>1, <1>2 DEF Commit, Tree, Popped, Pop
<1>4. PICK line, line2 : line = Line(node, InOrder) /\ line2 = Line(node, InOrder)' OBVIOUS
<1>5. line2 = Line(o.node, OrderOf(o.node, o.root)) BY <1>3, <1>4, LineNext
<1>6. /\ last = NULL /\ contents[q] # <<>> /\ e = Head(contents[q])
      /\ line # <<>> /\ Head(line).queue = q /\ Tail(line) = line2
  BY <1>2, <1>4, <1>5, FrontOfLine
<1>7. Tail(contents[q]) = <<>> BY <1>1, <1>2, SoundFacts, Sequences
<1> QED BY <1>1, <1>3, <1>4, <1>6, <1>7 DEF Merge!Read

LEMMA ReadMoreMerges ==
  ASSUME Wild \notin Fresh, IInv, NEW q \in Queues, ReadMore(q)
  PROVE  Merge!Read
<1>1. PICK e \in Events(q) : /\ Pop(q, e) /\ ~e.closed
                             /\ Len(contents[q]) > 1
                             /\ Commit(Rebalance(TakeOut.node, TakeOut.root, q,
                                                 contents[q][2].time))
                             /\ returned' = e
                             /\ UNCHANGED last
  BY DEF ReadMore
<1>2. PICK M, pos, o : Sound(M, pos) /\ Popped(M, pos, q, e, o) BY <1>1, PopsOldest
<1>3. PICK t, b : t = contents[q][2].time /\ b = Rebalance(o.node, o.root, q, t) OBVIOUS
<1>4. /\ node' = b.node /\ root' = b.root
      /\ contents' = [contents EXCEPT ![q] = Tail(contents[q])]
  BY <1>1, <1>2, <1>3 DEF Commit, Popped, Pop
<1>5. PICK line, line2 : line = Line(node, InOrder) /\ line2 = Line(node, InOrder)' OBVIOUS
<1>6. /\ last = NULL /\ contents[q] # <<>> /\ e = Head(contents[q])
      /\ line # <<>> /\ Head(line).queue = q
      /\ Tail(line) = Line(o.node, OrderOf(o.node, o.root))
      /\ o.node \in [Queues -> Node]
      /\ Shaped(o.node, o.root, M \ {q}, pos) /\ ~Garbage(o.node, o.root, M \ {q})
  BY <1>2, <1>5, FrontOfLine
<1>7. PICK more : more = Tail(contents[q]) OBVIOUS
<1>8. more # <<>> /\ t = Merge!HeadTime([contents EXCEPT ![q] = more], q) /\ t \in Nat
      /\ t = Head(more).time
  <2>1. contents[q] \in Seq(Events(q)) /\ DOMAIN contents = Queues BY <1>2, SoundFacts
  <2>2. contents[q][2] \in Events(q) /\ more # <<>> /\ Head(more) = contents[q][2]
    BY <2>1, <1>1, <1>7, Sequences
  <2>3. contents[q][2].time \in Nat BY <2>2, QueueTyped DEF IInv
  <2> QED BY <2>1, <2>2, <2>3, <1>3 DEF Merge!HeadTime
<1>9. Entered(o.node, o.root, M \ {q}, pos, q, t, b.node, b.root)
  <2>1. PICK N, n, r : N = M \ {q} /\ n = o.node /\ r = o.root OBVIOUS
  <2>2. /\ n \in [Queues -> Node] /\ Shaped(n, r, N, pos) /\ ~Garbage(n, r, N)
        /\ q \in Queues \ N /\ t \in Nat /\ b = Rebalance(n, r, q, t)
    BY <2>1, <1>3, <1>6, <1>8
  <2>3. Entered(n, r, N, pos, q, t, b.node, b.root) BY <2>2, RebalanceJoins
  <2> QED BY <2>1, <2>3
<1>10. Line(b.node, OrderOf(b.node, b.root))
         = Merge!Insert(Line(o.node, OrderOf(o.node, o.root)), q, t)
  <2>1. q \in Queues \ (M \ {q}) OBVIOUS
  <2> QED BY <2>1, <1>6, <1>8, <1>9, EntersLine
<1>11. line2 = Merge!Insert(Tail(line), q, Head(more).time)
  BY <1>4, <1>5, <1>6, <1>8, <1>10, LineNext
<1> QED BY <1>1, <1>4, <1>5, <1>6, <1>7, <1>8, <1>11 DEF Merge!Read

LEMMA ClearMerges ==
  ASSUME Clear
  PROVE  Merge!Clear
<1>1. /\ node' = [q \in Queues |-> Blank(q)] /\ root' = NULL /\ last' = NULL
      /\ UNCHANGED <<contents, returned>>
  BY DEF Clear, queueVars
<1>2. node' \in [Queues -> Node] BY <1>1, BlankNodes
<1>3. PICK n : n = node' OBVIOUS
<1>4. Line(n, OrderOf(n, NULL)) = <<>> BY <1>2, <1>3, EmptyLine
<1> QED BY <1>1, <1>3, <1>4, LineNext DEF Merge!Clear

(* What does not touch the queues and the tree, EventMerge does not see.   *)
LEMMA Unseen ==
  ASSUME UNCHANGED <<contents, node, root, last, returned>>
  PROVE  UNCHANGED Merge!vars
<1>1. Line(node, InOrder)' = Line(node, InOrder) BY DEF InOrder
<1> QED BY <1>1 DEF Merge!vars

(* Where no memory holds garbage, the tree is the merge that EventMerge    *)
(* promises: each of its steps, every loop and relinking of                *)
(* qtl_etree.c:60-165 in it, is one of EventMerge or changes nothing that  *)
(* EventMerge knows of.                                                    *)
THEOREM Implements == ASSUME Wild \notin Fresh PROVE Spec => ImplementsMerge
<1>1. Init => Merge!Init BY InitMerges
<1>2. IInv /\ [Next]_vars => [Merge!Next]_Merge!vars
  <2> SUFFICES ASSUME IInv, [Next]_vars PROVE [Merge!Next]_Merge!vars OBVIOUS
  <2>1. CASE \E q \in Queues : Push(q) \/ Close(q) BY <2>1, PushMerges DEF Merge!Next
  <2>2. CASE \E q \in Queues : AddFirst(q) BY <2>2, AddFirstMerges DEF Merge!Next
  <2>3. CASE \E q \in Queues : AddNext(q) BY <2>3, AddNextMerges DEF Merge!Next
  <2>4. CASE IsEmptyResume BY <2>4, ResumeMerges DEF Merge!Next
  <2>5. CASE \E q \in Queues : ReadClosed(q) BY <2>5, ReadClosedMerges DEF Merge!Next
  <2>6. CASE \E q \in Queues : ReadLast(q) BY <2>6, ReadLastMerges DEF Merge!Next
  <2>7. CASE \E q \in Queues : ReadMore(q) BY <2>7, ReadMoreMerges DEF Merge!Next
  <2>8. CASE ReadCrash
    <3>1. IInv' BY <2>8, ReadCrashStep
    <3>2. ~crashed' BY <3>1 DEF IInv, Sound
    <3> QED BY <2>8, <3>2 DEF ReadCrash
  <2>9. CASE Clear BY <2>9, ClearMerges DEF Merge!Next
  <2>10. CASE \/ \E q \in Queues : AddRefused(q)
              \/ IsEmptyTrue \/ IsEmptyFalse \/ UNCHANGED vars
    <3>1. UNCHANGED <<contents, node, root, last, returned>>
      BY <2>10 DEF AddRefused, IsEmptyTrue, IsEmptyFalse, vars, queueVars, treeVars
    <3> QED BY <3>1, Unseen
  <2> QED BY <2>1, <2>2, <2>3, <2>4, <2>5, <2>6, <2>7, <2>8, <2>9, <2>10 DEF Next
<1> QED BY <1>1, <1>2, Invariance, PTL DEF Spec, ImplementsMerge, Merge!Spec
=============================================================================
