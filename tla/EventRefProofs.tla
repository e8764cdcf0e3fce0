--------------------------- MODULE EventRefProofs ---------------------------
(***************************************************************************)
(* Events are freed once, by the last holder, and their counts are right,  *)
(* for any number of events and pointers and any width of the count.       *)
(***************************************************************************)
EXTENDS EventRef, FiniteSetTheorems, TLAPS

(* The count is the number of references but for its width. *)
Congruent(n, c) == \E k \in Nat : n = c + k * Wrap

PointersLive == \A h \in Handles : at[h] # NULL => at[h] \in live
CountsAgree  == \A e \in live : Congruent(Cardinality(References(e)), ref[e])
WithinWrap   == ~overloaded => \A e \in Events : Cardinality(References(e)) <= Wrap

(* Who is about to free an event is alone with it. *)
FreeingAlone ==
    ~overloaded => \A h \in Handles :
        at[h] # NULL /\ place[h] = "freeing" => Pointers(at[h]) = {h}

Pointed      == \A e \in live : Pointers(e) # {}

(* What is given up where. *)
GivenUp == \A h \in Handles :
    at[h] # NULL => /\ place[h] = "closed" => at[h] \in Closes
                    /\ place[h] = "noted" => at[h] \in Stops

Sound == PointersLive /\ CountsAgree /\ WithinWrap /\ FreeingAlone /\ Pointed /\ GivenUp

IInv == TypeOK /\ CorruptNeedsCause /\ (~corrupt => Sound)
-----------------------------------------------------------------------------
(* Arithmetic of the count. *)

LEMMA CongruentInc ==
    ASSUME NEW n \in Nat, NEW c \in 0 .. Wrap - 1, Congruent(n, c)
    PROVE  Congruent(n + 1, Inc(c)) /\ Inc(c) \in 0 .. Wrap - 1
<1>1. PICK k \in Nat : n = c + k * Wrap BY DEF Congruent
<1>2. Wrap \in Nat /\ Wrap >= 2 BY EventRefAssumption
<1>3. CASE c = Wrap - 1
  <2>1. n + 1 = 0 + (k + 1) * Wrap BY <1>1, <1>2, <1>3
  <2>2. k + 1 \in Nat OBVIOUS
  <2> QED BY <2>1, <2>2, <1>2, <1>3 DEF Congruent, Inc
<1>4. CASE c # Wrap - 1
  <2>1. n + 1 = (c + 1) + k * Wrap BY <1>1, <1>2
  <2> QED BY <2>1, <1>2, <1>4 DEF Congruent, Inc
<1> QED BY <1>3, <1>4

LEMMA CongruentDec ==
    ASSUME NEW n \in Nat, n >= 1, NEW c \in 0 .. Wrap - 1, Congruent(n, c)
    PROVE  Congruent(n - 1, Dec(c)) /\ Dec(c) \in 0 .. Wrap - 1
<1>1. PICK k \in Nat : n = c + k * Wrap BY DEF Congruent
<1>2. Wrap \in Nat /\ Wrap >= 2 BY EventRefAssumption
<1>3. CASE c = 0
  <2>1. k # 0 BY <1>1, <1>2, <1>3
  <2>2. k - 1 \in Nat BY <2>1
  <2>3. n - 1 = (Wrap - 1) + (k - 1) * Wrap BY <1>1, <1>2, <1>3
  <2> QED BY <2>2, <2>3, <1>2, <1>3 DEF Congruent, Dec
<1>4. CASE c # 0
  <2>1. n - 1 = (c - 1) + k * Wrap BY <1>1, <1>2
  <2> QED BY <2>1, <1>2, <1>4 DEF Congruent, Dec
<1> QED BY <1>3, <1>4

(* A single reference is counted as one, and so are no more than one       *)
(* within the width.                                                       *)
LEMMA CongruentSmall ==
    ASSUME NEW n \in Nat, NEW c \in 0 .. Wrap - 1, Congruent(n, c), n <= Wrap
    PROVE  c = IF n = Wrap THEN 0 ELSE n
<1>1. PICK k \in Nat : n = c + k * Wrap BY DEF Congruent
<1>2. Wrap \in Nat /\ Wrap >= 2 BY EventRefAssumption
<1>3. CASE k = 0 BY <1>1, <1>2, <1>3
<1>4. CASE k = 1 BY <1>1, <1>2, <1>4
<1>5. CASE k >= 2
  <2>1. k * Wrap = 2 * Wrap + (k - 2) * Wrap BY <1>2
  <2>2. (k - 2) * Wrap >= 0
    <3>1. k - 2 \in Nat BY <1>5
    <3>2. \A i, j \in Nat : i * j \in Nat OBVIOUS
    <3> QED BY <3>1, <3>2, <1>2
  <2> QED BY <2>1, <2>2, <1>1, <1>2
<1> QED BY <1>3, <1>4, <1>5

LEMMA CongruentOne ==
    ASSUME NEW c \in 0 .. Wrap - 1
    PROVE  Congruent(1, c) <=> c = 1
<1>1. Wrap \in Nat /\ Wrap >= 2 BY EventRefAssumption
<1>2. ASSUME Congruent(1, c) PROVE c = 1 BY <1>1, <1>2, CongruentSmall
<1>3. 1 = 1 + 0 * Wrap BY <1>1
<1> QED BY <1>2, <1>3 DEF Congruent
-----------------------------------------------------------------------------
(* Sets of handles. *)

LEMMA Counted ==
    ASSUME NEW e
    PROVE  /\ IsFiniteSet(Pointers(e)) /\ IsFiniteSet(References(e))
           /\ Cardinality(References(e)) \in Nat
<1>1. Pointers(e) \in SUBSET Handles /\ References(e) \in SUBSET Handles
  BY DEF Pointers, References
<1> QED BY <1>1, FS_Subset, FS_CardinalityType, EventRefAssumption

(* A step that only concerns one handle leaves the others where they are. *)
LEMMA OneHandle ==
    ASSUME TypeOK, NEW h \in Handles, NEW a, NEW p,
           at' = [at EXCEPT ![h] = a], place' = [place EXCEPT ![h] = p]
    PROVE  /\ at'[h] = a /\ place'[h] = p
           /\ \A g \in Handles \ {h} : at'[g] = at[g] /\ place'[g] = place[g]
           /\ \A e : /\ Pointers(e)' = IF a = e THEN Pointers(e) \cup {h} ELSE Pointers(e) \ {h}
                     /\ References(e)' = IF a = e /\ p # "freeing" THEN References(e) \cup {h}
                                         ELSE References(e) \ {h}
BY DEF TypeOK, Pointers, References

LEMMA NullIsNoEvent == NULL \notin Events
BY EventRefAssumption

LEMMA InitSound == Init => IInv
<1> SUFFICES ASSUME Init PROVE IInv OBVIOUS
<1>1. Wrap \in Nat /\ Wrap >= 2 BY EventRefAssumption
<1>2. TypeOK
  <2>1. 0 \in 0 .. Wrap - 1 BY <1>1
  <2>2. ref \in [Events -> 0 .. Wrap - 1] BY <2>1 DEF Init
  <2>3. /\ live \subseteq Events /\ at \in [Handles -> Events \cup {NULL}]
        /\ place \in [Handles -> Places]
    BY DEF Init, Places
  <2> QED BY <2>2, <2>3 DEF Init, TypeOK
<1>3. \A e \in Events : References(e) = {}
  BY NullIsNoEvent DEF Init, References, Pointers
<1>4. WithinWrap BY <1>1, <1>3, FS_EmptySet DEF WithinWrap
<1> QED BY <1>2, <1>4
    DEF Init, IInv, CorruptNeedsCause, Sound, PointersLive, CountsAgree, FreeingAlone,
        Pointed, GivenUp
-----------------------------------------------------------------------------
(* The steps. *)

(* A step of one handle that moves it from one place to another, none of   *)
(* them "freeing", and gives it up only where it may, changes no set.      *)
LEMMA MoveSound ==
    ASSUME IInv, NEW h \in Handles, NEW from \in Places \ {"freeing"}, NEW to \in Places \ {"freeing"},
           Move(h, from, to), to # "closed", to = "noted" => at[h] \in Stops
    PROVE  IInv'
<1> USE DEF Move
<1>1. TypeOK /\ Sound /\ ~corrupt' BY DEF IInv
<1>2. TypeOK' BY <1>1 DEF TypeOK
<1>4. /\ place'[h] = to
      /\ \A g \in Handles \ {h} : place'[g] = place[g]
      /\ \A e : Pointers(e)' = Pointers(e) /\ References(e)' = References(e)
  <2>1. place'[h] = to /\ \A g \in Handles \ {h} : place'[g] = place[g] BY <1>1 DEF TypeOK
  <2>2. \A g \in Handles : place'[g] # "freeing" <=> place[g] # "freeing" BY <2>1
  <2> QED BY <2>1, <2>2 DEF Pointers, References
<1>5. PointersLive' /\ CountsAgree' /\ WithinWrap' /\ Pointed'
  BY <1>1, <1>4 DEF Sound, PointersLive, CountsAgree, WithinWrap, Pointed
<1>6. FreeingAlone' BY <1>1, <1>4 DEF Sound, FreeingAlone
<1>7. GivenUp' BY <1>1, <1>4 DEF Sound, GivenUp
<1> QED BY <1>1, <1>2, <1>5, <1>6, <1>7 DEF IInv, Sound, CorruptNeedsCause

(* A new event with a single pointer h is sound, though another pointer    *)
(* than h may be moved in the same step, if only none to or from           *)
(* "freeing".                                                              *)
LEMMA MadeSound ==
    ASSUME IInv, ~corrupt, NEW h \in Handles, NEW e \in Events \ live, at[h] = NULL,
           live' = live \cup {e}, ref' = [ref EXCEPT ![e] = 1], at' = [at EXCEPT ![h] = e],
           UNCHANGED <<corrupt, overloaded, cleared>>,
           place' \in [Handles -> Places], place'[h] # "freeing",
           \A g \in Handles \ {h} : place'[g] = "freeing" <=> place[g] = "freeing",
           GivenUp'
    PROVE  IInv'
<1>1. TypeOK /\ Sound /\ ~corrupt' BY DEF IInv
<1>2. Wrap \in Nat /\ Wrap >= 2 BY EventRefAssumption
<1>3. TypeOK' BY <1>1, <1>2 DEF TypeOK
<1>4. /\ at'[h] = e /\ place'[h] # "freeing"
      /\ \A g \in Handles \ {h} : at'[g] = at[g] /\ (place'[g] = "freeing" <=> place[g] = "freeing")
      /\ \A d : /\ Pointers(d)' = IF e = d THEN Pointers(d) \cup {h} ELSE Pointers(d) \ {h}
                /\ References(d)' = IF e = d THEN References(d) \cup {h} ELSE References(d) \ {h}
  <2>1. at'[h] = e /\ \A g \in Handles \ {h} : at'[g] = at[g] BY <1>1 DEF TypeOK
  <2>2. \A d : Pointers(d)' = IF e = d THEN Pointers(d) \cup {h} ELSE Pointers(d) \ {h}
    BY <2>1 DEF Pointers
  <2> QED BY <2>1, <2>2 DEF References, Pointers
<1>5. Pointers(e) = {} /\ References(e) = {}
  BY <1>1, NullIsNoEvent DEF Sound, PointersLive, Pointers, References
<1>6. \A d \in Events : h \notin Pointers(d) /\ h \notin References(d)
  BY NullIsNoEvent DEF Pointers, References
<1>7. /\ Pointers(e)' = {h} /\ References(e)' = {h}
      /\ \A d \in Events \ {e} : Pointers(d)' = Pointers(d) /\ References(d)' = References(d)
  BY <1>4, <1>5, <1>6
<1>8. Cardinality(References(e)') = 1 BY <1>7, FS_Singleton
<1>9. PointersLive' BY <1>1, <1>4 DEF Sound, PointersLive
<1>10. CountsAgree'
  <2> SUFFICES ASSUME NEW d \in live' PROVE Congruent(Cardinality(References(d)'), ref'[d])
    BY DEF CountsAgree
  <2>1. CASE d = e
    <3>1. ref'[e] = 1 /\ 1 \in 0 .. Wrap - 1 BY <1>1, <1>2 DEF TypeOK
    <3> QED BY <2>1, <3>1, <1>8, CongruentOne
  <2>2. CASE d # e BY <2>2, <1>1, <1>7 DEF TypeOK, Sound, CountsAgree
  <2> QED BY <2>1, <2>2
<1>11. WithinWrap'
  <2> SUFFICES ASSUME ~overloaded, NEW d \in Events PROVE Cardinality(References(d)') <= Wrap
    BY DEF WithinWrap
  <2>1. CASE d = e BY <2>1, <1>2, <1>8
  <2>2. CASE d # e BY <2>2, <1>1, <1>7 DEF Sound, WithinWrap
  <2> QED BY <2>1, <2>2
<1>12. FreeingAlone'
  <2> SUFFICES ASSUME ~overloaded, NEW g \in Handles, at'[g] # NULL, place'[g] = "freeing"
               PROVE  Pointers(at[g])' = {g}
    BY DEF FreeingAlone
  <2>1. g # h /\ at'[g] = at[g] /\ place[g] = "freeing" BY <1>4
  <2>2. Pointers(at[g]) = {g} BY <1>1, <2>1 DEF Sound, FreeingAlone
  <2>3. at[g] \in Events \ {e} BY <1>1, <1>5, <2>1, <2>2 DEF TypeOK
  <2> QED BY <1>7, <2>1, <2>2, <2>3
<1>13. Pointed' BY <1>1, <1>7 DEF Sound, Pointed, TypeOK
<1> QED BY <1>1, <1>3, <1>9, <1>10, <1>11, <1>12, <1>13 DEF IInv, Sound, CorruptNeedsCause

LEMMA NewSound ==
    ASSUME IInv, NEW h \in Handles, NEW e \in Events, New(h, e)
    PROVE  IInv'
<1> USE DEF New
<1>1. TypeOK /\ Sound /\ "thread" \in Places BY DEF IInv, Places
<1>2. /\ place' \in [Handles -> Places] /\ place'[h] = "thread"
      /\ \A g \in Handles \ {h} : at'[g] = at[g] /\ place'[g] = place[g]
  BY <1>1 DEF TypeOK
<1>3. GivenUp' BY <1>1, <1>2 DEF Sound, GivenUp
<1> QED BY <1>2, <1>3, MadeSound

LEMMA ReadLastCloseSound ==
    ASSUME IInv, NEW h \in Handles, NEW g \in Handles, NEW e \in Events,
           NEW to \in {"thread", "read"}, ReadLastClose(h, g, e, to)
    PROVE  IInv'
<1> USE DEF ReadLastClose
<1>1. TypeOK /\ Sound /\ to \in Places /\ "closed" \in Places BY DEF IInv, Places
<1>2. g # h BY EventRefAssumption
<1>3. /\ place' \in [Handles -> Places] /\ place'[g] = to /\ place'[h] = "closed"
      /\ \A f \in Handles \ {g, h} : place'[f] = place[f]
      /\ \A f \in Handles \ {g} : at'[f] = at[f]
  BY <1>1, <1>2 DEF TypeOK
<1>4. GivenUp' BY <1>1, <1>2, <1>3 DEF Sound, GivenUp
<1>5. \A f \in Handles \ {g} : place'[f] = "freeing" <=> place[f] = "freeing" BY <1>3
<1> QED BY <1>3, <1>4, <1>5, MadeSound

LEMMA RefSound ==
    ASSUME IInv, NEW g \in Handles, NEW h \in Handles, Ref(g, h)
    PROVE  IInv'
<1> DEFINE e == at[g]
<1> USE DEF Ref
<1>1. TypeOK /\ Sound /\ ~corrupt' BY DEF IInv
<1>2. Wrap \in Nat /\ Wrap >= 2 BY EventRefAssumption
<1>3. e \in Events /\ e \in live BY <1>1 DEF TypeOK, Sound, PointersLive
<1>4. /\ at'[h] = e /\ place'[h] = "thread"
      /\ \A f \in Handles \ {h} : at'[f] = at[f] /\ place'[f] = place[f]
      /\ \A d : /\ Pointers(d)' = IF e = d THEN Pointers(d) \cup {h} ELSE Pointers(d) \ {h}
                /\ References(d)' = IF e = d THEN References(d) \cup {h} ELSE References(d) \ {h}
  BY <1>1, OneHandle
<1>5. \A d \in Events : h \notin Pointers(d) /\ h \notin References(d)
  BY NullIsNoEvent DEF Pointers, References
<1>6. /\ Pointers(e)' = Pointers(e) \cup {h} /\ References(e)' = References(e) \cup {h}
      /\ \A d \in Events \ {e} : Pointers(d)' = Pointers(d) /\ References(d)' = References(d)
  BY <1>4, <1>5
<1>7. Cardinality(References(e)') = Cardinality(References(e)) + 1
  BY <1>3, <1>5, <1>6, Counted, FS_AddElement
<1>8. Congruent(Cardinality(References(e)), ref[e]) /\ ref[e] \in 0 .. Wrap - 1
  BY <1>1, <1>3 DEF Sound, CountsAgree, TypeOK
<1>9. Congruent(Cardinality(References(e)'), ref'[e]) /\ ref'[e] \in 0 .. Wrap - 1
  BY <1>1, <1>3, <1>7, <1>8, Counted, CongruentInc DEF TypeOK
<1>10. TypeOK' BY <1>1, <1>3, <1>9 DEF TypeOK, Places
<1>11. PointersLive' BY <1>1, <1>3, <1>4 DEF Sound, PointersLive
<1>12. CountsAgree'
  <2> SUFFICES ASSUME NEW d \in live' PROVE Congruent(Cardinality(References(d)'), ref'[d])
    BY DEF CountsAgree
  <2>1. CASE d # e BY <2>1, <1>1, <1>6 DEF TypeOK, Sound, CountsAgree
  <2> QED BY <2>1, <1>9
<1>13. WithinWrap'
  <2> SUFFICES ASSUME ~overloaded', NEW d \in Events PROVE Cardinality(References(d)') <= Wrap
    BY DEF WithinWrap
  <2>1. ~overloaded /\ ~(Cardinality(References(e)) >= Wrap) OBVIOUS
  <2>2. CASE d = e BY <2>1, <2>2, <1>2, <1>7, Counted
  <2>3. CASE d # e BY <2>1, <2>3, <1>1, <1>6 DEF Sound, WithinWrap
  <2> QED BY <2>2, <2>3
<1>14. FreeingAlone'
  <2> SUFFICES ASSUME ~overloaded', NEW f \in Handles, at'[f] # NULL, place'[f] = "freeing"
               PROVE  Pointers(at[f])' = {f}
    BY DEF FreeingAlone
  <2>1. f # h /\ at'[f] = at[f] /\ place[f] = "freeing" /\ ~overloaded BY <1>4
  <2>2. Pointers(at[f]) = {f} BY <1>1, <2>1 DEF Sound, FreeingAlone
  <2>3. g \in Pointers(e) /\ g # f BY <2>1 DEF Pointers
  <2>4. at[f] \in Events \ {e} BY <1>1, <2>1, <2>2, <2>3 DEF TypeOK
  <2> QED BY <1>6, <2>1, <2>2, <2>4
<1>15. Pointed' BY <1>1, <1>6 DEF Sound, Pointed, TypeOK
<1>16. GivenUp' BY <1>1, <1>4 DEF Sound, GivenUp
<1> QED BY <1>1, <1>10, <1>11, <1>12, <1>13, <1>14, <1>15, <1>16 DEF IInv, Sound, CorruptNeedsCause

(* The last reference is dropped: its holder is about to free the event.   *)
LEMMA UnrefLastSound ==
    ASSUME IInv, NEW h \in Handles, Unref(h), IsLast(ref[at[h]])
    PROVE  IInv'
<1>0. PICK e : e = at[h] OBVIOUS
<1> USE DEF Unref, IsLast
<1>1. TypeOK /\ Sound /\ ~corrupt' BY DEF IInv
<1>2. Wrap \in Nat /\ Wrap >= 2 BY EventRefAssumption
<1>3. e \in Events /\ e \in live BY <1>0, <1>1 DEF TypeOK, Sound, PointersLive
<1>4. /\ at' = at /\ place'[h] = "freeing"
      /\ \A f \in Handles \ {h} : place'[f] = place[f]
  BY <1>1 DEF TypeOK
<1>5. h \in References(e) BY <1>0 DEF References, Pointers
<1>6. /\ \A d : Pointers(d)' = Pointers(d)
      /\ References(e)' = References(e) \ {h}
      /\ \A d \in Events \ {e} : References(d)' = References(d)
  BY <1>0, <1>4 DEF Pointers, References
<1>7. Cardinality(References(e)') = Cardinality(References(e)) - 1 /\ Cardinality(References(e)) >= 1
  <2>1. IsFiniteSet(References(e)) /\ Cardinality(References(e)) \in Nat BY Counted
  <2>2. Cardinality(References(e) \ {h}) = Cardinality(References(e)) - 1
    BY <2>1, <1>5, FS_RemoveElement
  <2>3. Cardinality(References(e)) # 0 BY <2>1, <1>5, FS_EmptySet
  <2> QED BY <2>1, <2>2, <2>3, <1>6
<1>8. Congruent(Cardinality(References(e)), ref[e]) /\ ref[e] \in 0 .. Wrap - 1
  BY <1>1, <1>3 DEF Sound, CountsAgree, TypeOK
<1>9. Congruent(Cardinality(References(e)'), ref'[e]) /\ ref'[e] \in 0 .. Wrap - 1
  BY <1>0, <1>1, <1>3, <1>7, <1>8, Counted, CongruentDec DEF TypeOK
<1>10. TypeOK' BY <1>0, <1>1, <1>3, <1>9 DEF TypeOK, Places
<1>11. PointersLive' BY <1>1, <1>4 DEF Sound, PointersLive
<1>12. CountsAgree'
  <2> SUFFICES ASSUME NEW d \in live' PROVE Congruent(Cardinality(References(d)'), ref'[d])
    BY DEF CountsAgree
  <2>1. CASE d # e BY <1>0, <2>1, <1>1, <1>6 DEF TypeOK, Sound, CountsAgree
  <2> QED BY <2>1, <1>9
<1>13. WithinWrap'
  <2> SUFFICES ASSUME ~overloaded, NEW d \in Events PROVE Cardinality(References(d)') <= Wrap
    BY DEF WithinWrap
  <2>1. Cardinality(References(d)) <= Wrap BY <1>1 DEF Sound, WithinWrap
  <2>2. CASE d = e BY <2>1, <2>2, <1>2, <1>7, Counted
  <2>3. CASE d # e BY <2>1, <2>3, <1>6
  <2> QED BY <2>2, <2>3
<1>14. FreeingAlone'
  <2> SUFFICES ASSUME ~overloaded, NEW f \in Handles, at[f] # NULL, place'[f] = "freeing"
               PROVE  Pointers(at[f]) = {f}
    BY <1>4, <1>6 DEF FreeingAlone
  <2>1. CASE f # h BY <2>1, <1>1, <1>4 DEF Sound, FreeingAlone
  <2>2. CASE f = h
    <3>1. Cardinality(References(e)) <= Wrap BY <1>1, <1>3 DEF Sound, WithinWrap
    <3>2. ref[e] = IF Cardinality(References(e)) = Wrap THEN 0 ELSE Cardinality(References(e))
      BY <1>8, <3>1, Counted, CongruentSmall
    <3>3. Cardinality(References(e)) = 1 BY <1>0, <3>2
    <3>4. References(e) = {h} BY <3>3, <1>5, Counted, FS_Singleton
    <3>5. ASSUME NEW g \in Pointers(e), g # h PROVE FALSE
      <4>1. g \in Handles /\ at[g] = e /\ place[g] = "freeing"
        BY <3>4, <3>5 DEF Pointers, References
      <4>2. Pointers(e) = {g} BY <1>0, <4>1, <1>1 DEF Sound, FreeingAlone
      <4> QED BY <4>2, <3>5, <1>5 DEF References
    <3> QED BY <1>0, <2>2, <3>5, <1>5 DEF References
  <2> QED BY <2>1, <2>2
<1>15. Pointed' BY <1>1, <1>6 DEF Sound, Pointed, TypeOK
<1>16. GivenUp' BY <1>1, <1>4 DEF Sound, GivenUp
<1> QED BY <1>1, <1>10, <1>11, <1>12, <1>13, <1>14, <1>15, <1>16 DEF IInv, Sound, CorruptNeedsCause

(* Another reference remains. *)
LEMMA UnrefOtherSound ==
    ASSUME IInv, NEW h \in Handles, Unref(h), ~IsLast(ref[at[h]])
    PROVE  IInv'
<1>0. PICK e : e = at[h] OBVIOUS
<1> USE DEF Unref, IsLast
<1>1. TypeOK /\ Sound /\ ~corrupt' BY DEF IInv
<1>2. Wrap \in Nat /\ Wrap >= 2 BY EventRefAssumption
<1>3. e \in Events /\ e \in live BY <1>0, <1>1 DEF TypeOK, Sound, PointersLive
<1>4. /\ at'[h] = NULL /\ place'[h] = "thread"
      /\ \A f \in Handles \ {h} : at'[f] = at[f] /\ place'[f] = place[f]
      /\ \A d \in Events : /\ Pointers(d)' = Pointers(d) \ {h}
                          /\ References(d)' = References(d) \ {h}
  <2>1. at' = [at EXCEPT ![h] = NULL] /\ place' = [place EXCEPT ![h] = "thread"]
    OBVIOUS
  <2> HIDE DEF Unref, IsLast
  <2>2. /\ at'[h] = NULL /\ place'[h] = "thread"
        /\ \A f \in Handles \ {h} : at'[f] = at[f] /\ place'[f] = place[f]
    BY <2>1, <1>1 DEF TypeOK
  <2>3. ASSUME NEW d \in Events
        PROVE  Pointers(d)' = Pointers(d) \ {h} /\ References(d)' = References(d) \ {h}
    <3>1. d # NULL BY NullIsNoEvent
    <3> QED BY <3>1, <2>2 DEF Pointers, References
  <2> QED BY <2>2, <2>3
<1>5. h \in References(e) /\ \A d \in Events \ {e} : h \notin Pointers(d) /\ h \notin References(d)
  BY <1>0 DEF References, Pointers
<1>6. /\ Pointers(e)' = Pointers(e) \ {h} /\ References(e)' = References(e) \ {h}
      /\ \A d \in Events \ {e} : Pointers(d)' = Pointers(d) /\ References(d)' = References(d)
  BY <1>0, <1>3, <1>4, <1>5
<1>7. Cardinality(References(e)') = Cardinality(References(e)) - 1 /\ Cardinality(References(e)) >= 1
  <2>1. IsFiniteSet(References(e)) /\ Cardinality(References(e)) \in Nat BY Counted
  <2>2. Cardinality(References(e) \ {h}) = Cardinality(References(e)) - 1
    BY <2>1, <1>5, FS_RemoveElement
  <2>3. Cardinality(References(e)) # 0 BY <2>1, <1>5, FS_EmptySet
  <2> QED BY <2>1, <2>2, <2>3, <1>6
<1>8. Congruent(Cardinality(References(e)), ref[e]) /\ ref[e] \in 0 .. Wrap - 1
  BY <1>1, <1>3 DEF Sound, CountsAgree, TypeOK
<1>9. Congruent(Cardinality(References(e)'), ref'[e]) /\ ref'[e] \in 0 .. Wrap - 1
  BY <1>0, <1>1, <1>3, <1>7, <1>8, Counted, CongruentDec DEF TypeOK
<1>10. TypeOK' BY <1>0, <1>1, <1>3, <1>9 DEF TypeOK, Places
<1>11. PointersLive' BY <1>1, <1>4 DEF Sound, PointersLive
<1>12. CountsAgree'
  <2> SUFFICES ASSUME NEW d \in live' PROVE Congruent(Cardinality(References(d)'), ref'[d])
    BY DEF CountsAgree
  <2>1. CASE d # e BY <1>0, <2>1, <1>1, <1>6 DEF TypeOK, Sound, CountsAgree
  <2> QED BY <2>1, <1>9
<1>13. WithinWrap'
  <2> SUFFICES ASSUME ~overloaded, NEW d \in Events PROVE Cardinality(References(d)') <= Wrap
    BY DEF WithinWrap
  <2>1. Cardinality(References(d)) <= Wrap BY <1>1 DEF Sound, WithinWrap
  <2>2. CASE d = e BY <2>1, <2>2, <1>2, <1>7, Counted
  <2>3. CASE d # e BY <2>1, <2>3, <1>6
  <2> QED BY <2>2, <2>3
<1>14. FreeingAlone'
  <2> SUFFICES ASSUME ~overloaded, NEW f \in Handles, at'[f] # NULL, place'[f] = "freeing"
               PROVE  Pointers(at[f])' = {f}
    BY DEF FreeingAlone
  <2>1. f # h /\ at'[f] = at[f] /\ place[f] = "freeing" BY <1>4
  <2>2. Pointers(at[f]) = {f} BY <1>1, <2>1 DEF Sound, FreeingAlone
  <2>3. at[f] \in Events \ {e} BY <1>1, <1>5, <2>1, <2>2 DEF TypeOK, References
  <2> QED BY <1>6, <2>1, <2>2, <2>3
<1>15. Pointed'
  <2> SUFFICES ASSUME NEW d \in live PROVE Pointers(d)' # {}
    BY DEF Pointed
  <2>1. CASE d # e BY <2>1, <1>1, <1>6 DEF Sound, Pointed, TypeOK
  <2>2. CASE d = e
    <3>1. Cardinality(References(e)) # 1 BY <1>0, <1>8, CongruentOne
    <3>2. References(e) # {h} BY <3>1, FS_Singleton
    <3> QED BY <2>2, <3>2, <1>5, <1>6 DEF References
  <2> QED BY <2>1, <2>2
<1>16. GivenUp' BY <1>1, <1>4 DEF Sound, GivenUp
<1> QED BY <1>1, <1>10, <1>11, <1>12, <1>13, <1>14, <1>15, <1>16 DEF IInv, Sound, CorruptNeedsCause

(* A free through the only pointer leaves everything sound. *)
LEMMA ReleaseSound ==
    ASSUME IInv, NEW h \in Handles, ~corrupt, at[h] # NULL, Release(h), ~corrupt'
    PROVE  Sound'
<1>0. PICK e : e = at[h] OBVIOUS
<1> USE DEF Release
<1>1. TypeOK /\ Sound BY DEF IInv
<1>2. e \in Events /\ Pointers(e) = {h} /\ References(e) \subseteq {h}
  BY <1>0, <1>1 DEF TypeOK, References
<1>4. /\ at'[h] = NULL /\ place'[h] = "thread"
      /\ \A f \in Handles \ {h} : at'[f] = at[f] /\ place'[f] = place[f]
      /\ \A d \in Events : /\ Pointers(d)' = Pointers(d) \ {h}
                          /\ References(d)' = References(d) \ {h}
  <2>1. at' = [at EXCEPT ![h] = NULL] /\ place' = [place EXCEPT ![h] = "thread"]
    OBVIOUS
  <2>2. /\ at'[h] = NULL /\ place'[h] = "thread"
        /\ \A f \in Handles \ {h} : at'[f] = at[f] /\ place'[f] = place[f]
    BY <2>1, <1>1 DEF TypeOK
  <2>3. ASSUME NEW d \in Events
        PROVE  Pointers(d)' = Pointers(d) \ {h} /\ References(d)' = References(d) \ {h}
    <3>1. d # NULL BY NullIsNoEvent
    <3> QED BY <3>1, <2>2 DEF Pointers, References
  <2> QED BY <2>2, <2>3
<1>5. /\ Pointers(e)' = {} /\ References(e)' = {}
      /\ \A d \in Events \ {e} : Pointers(d)' = Pointers(d) /\ References(d)' = References(d)
  <2>1. \A d \in Events \ {e} : h \notin Pointers(d) /\ h \notin References(d)
    BY <1>0 DEF Pointers, References
  <2> QED BY <1>0, <2>1, <1>2, <1>4
<1>6. PointersLive'
  <2> SUFFICES ASSUME NEW f \in Handles, at'[f] # NULL PROVE at'[f] \in live'
    BY DEF PointersLive
  <2>1. f # h /\ at'[f] = at[f] BY <1>4
  <2>2. at[f] # e BY <2>1, <1>2 DEF Pointers
  <2> QED BY <1>0, <2>1, <2>2, <1>1 DEF Sound, PointersLive
<1>7. CountsAgree' BY <1>0, <1>1, <1>5 DEF Sound, CountsAgree, TypeOK
<1>8. WithinWrap'
  <2> SUFFICES ASSUME ~overloaded, NEW d \in Events PROVE Cardinality(References(d)') <= Wrap
    BY DEF WithinWrap
  <2>1. CASE d = e BY <2>1, <1>5, FS_EmptySet, EventRefAssumption
  <2>2. CASE d # e BY <2>2, <1>1, <1>5 DEF Sound, WithinWrap
  <2> QED BY <2>1, <2>2
<1>9. FreeingAlone'
  <2> SUFFICES ASSUME ~overloaded, NEW f \in Handles, at'[f] # NULL, place'[f] = "freeing"
               PROVE  Pointers(at[f])' = {f}
    BY DEF FreeingAlone
  <2>1. f # h /\ at'[f] = at[f] /\ place[f] = "freeing" BY <1>4
  <2>2. Pointers(at[f]) = {f} BY <1>1, <2>1 DEF Sound, FreeingAlone
  <2>3. at[f] \in Events \ {e} BY <1>1, <1>2, <2>1, <2>2 DEF TypeOK
  <2> QED BY <1>5, <2>1, <2>2, <2>3
<1>10. Pointed' BY <1>0, <1>1, <1>5 DEF Sound, Pointed, TypeOK
<1>11. GivenUp' BY <1>1, <1>4 DEF Sound, GivenUp
<1> QED BY <1>6, <1>7, <1>8, <1>9, <1>10, <1>11 DEF Sound

LEMMA FreeSound ==
    ASSUME IInv, NEW h \in Handles, Free(h)
    PROVE  IInv'
<1> USE DEF Free
<1>1. TypeOK /\ Sound BY DEF IInv
<1>2. TypeOK' BY <1>1 DEF TypeOK, Places, Release
<1>3. corrupt' => overloaded BY <1>1 DEF Release, Sound, FreeingAlone
<1>4. ~corrupt' => Sound' BY ReleaseSound
<1> QED BY <1>2, <1>3, <1>4 DEF IInv, CorruptNeedsCause, Release

LEMMA BusClearSound ==
    ASSUME IInv, NEW h \in Handles, BusClear(h)
    PROVE  IInv'
<1> USE DEF BusClear
<1>1. TypeOK /\ Sound BY DEF IInv
<1>2. TypeOK' BY <1>1 DEF TypeOK, Places, Release
<1>3. corrupt' => cleared' BY DEF Release
<1>4. ~corrupt' => Sound' BY ReleaseSound
<1> QED BY <1>2, <1>3, <1>4 DEF IInv, CorruptNeedsCause
-----------------------------------------------------------------------------
LEMMA NextSound == IInv /\ [Next]_vars => IInv'
<1> SUFFICES ASSUME IInv, [Next]_vars PROVE IInv' OBVIOUS
<1>1. ASSUME NEW h \in Handles, NEW e \in Events, New(h, e) PROVE IInv' BY <1>1, NewSound
<1>2. ASSUME NEW g \in Handles, NEW h \in Handles, Ref(g, h) PROVE IInv' BY <1>2, RefSound
<1>3. ASSUME NEW h \in Handles, Unref(h) PROVE IInv' BY <1>3, UnrefLastSound, UnrefOtherSound
<1>4. ASSUME NEW h \in Handles, Free(h) PROVE IInv' BY <1>4, FreeSound
<1>5. ASSUME NEW h \in Handles,
             \/ Push(h) \/ Pop(h) \/ Read(h)
             \/ Save(h) \/ ForgetStop(h) \/ ReturnSaved(h) \/ BusFree(h)
      PROVE  IInv'
  <2>1. CASE Push(h) BY <2>1, MoveSound DEF Push, Places
  <2>2. CASE Pop(h) BY <2>2, MoveSound DEF Pop, Places
  <2>3. CASE Save(h) BY <2>3, MoveSound DEF Save, Places
  <2>4. CASE ReturnSaved(h) BY <2>4, MoveSound DEF ReturnSaved, Places
  <2>5. CASE ForgetStop(h) BY <2>5, MoveSound DEF ForgetStop, Places
  <2>6. CASE Read(h) BY <2>6, MoveSound DEF Read, Places
  <2>7. CASE BusFree(h) BY <2>7, MoveSound DEF BusFree, Places
  <2> QED BY <1>5, <2>1, <2>2, <2>3, <2>4, <2>5, <2>6, <2>7
<1>6. ASSUME NEW h \in Handles, BusClear(h) PROVE IInv' BY <1>6, BusClearSound
<1>7. ASSUME NEW h \in Handles, NEW g \in Handles, NEW e \in Events,
             NEW to \in {"thread", "read"}, ReadLastClose(h, g, e, to)
      PROVE  IInv'
  BY <1>7, ReadLastCloseSound
<1>8. CASE UNCHANGED vars
  BY <1>8 DEF vars, IInv, TypeOK, CorruptNeedsCause, Sound, PointersLive, CountsAgree, WithinWrap,
              FreeingAlone, Pointed, GivenUp, Pointers, References
<1> QED BY <1>1, <1>2, <1>3, <1>4, <1>5, <1>6, <1>7, <1>8 DEF Next

THEOREM SpecSound == Spec => []IInv
BY InitSound, NextSound, PTL DEF Spec

(* The count stays within its type (qtl_event.h:24). *)
THEOREM SpecTypeOK == Spec => []TypeOK
BY SpecSound, PTL DEF IInv

(* An event is only freed under another pointer after more than 2^16       *)
(* references, or by event_bus_clear (qtl_event.h:63-70, qtl_bus.c:212).   *)
THEOREM SpecCorruptNeedsCause == Spec => []CorruptNeedsCause
BY SpecSound, PTL DEF IInv

(* Until then the count is the number of references, so that a single one  *)
(* is single (qtl_event.h:72-74).                                          *)
THEOREM SpecCountIsReferences == Spec => []CountIsReferences
<1>1. ASSUME IInv PROVE CountIsReferences
  <2> SUFFICES ASSUME ~corrupt, ~overloaded, NEW e \in live
               PROVE  ref[e] = IF Cardinality(References(e)) = Wrap THEN 0
                               ELSE Cardinality(References(e))
    BY DEF CountIsReferences
  <2>1. TypeOK /\ Sound BY <1>1 DEF IInv
  <2>2. Cardinality(References(e)) <= Wrap BY <2>1 DEF Sound, WithinWrap, TypeOK
  <2>3. ref[e] \in 0 .. Wrap - 1 /\ Congruent(Cardinality(References(e)), ref[e])
    BY <2>1 DEF Sound, CountsAgree, TypeOK
  <2> QED BY <2>2, <2>3, Counted, CongruentSmall
<1> QED BY <1>1, SpecSound, PTL

(* Only three kinds of event are left without anyone to free them: the     *)
(* last close event, the stop of a simulation and the saved event of a bus *)
(* that is freed (qtl_etree.c:93-96, qtl_bus.c:66-81, 106-109).            *)
THEOREM SpecLeaksNeedCause == Spec => []LeaksNeedCause
<1>1. ASSUME IInv PROVE LeaksNeedCause
  <2> SUFFICES ASSUME ~corrupt, NEW e \in live, \A h \in Pointers(e) : ~Held(h)
               PROVE  \E h \in Pointers(e) : \/ place[h] = "closed" /\ e \in Closes
                                             \/ place[h] = "noted" /\ e \in Stops
                                             \/ place[h] = "abandoned"
    BY DEF LeaksNeedCause
  <2>1. TypeOK /\ Sound BY <1>1 DEF IInv
  <2>2. PICK h \in Pointers(e) : TRUE BY <2>1 DEF Sound, Pointed
  <2>3. e # NULL /\ at[h] = e /\ h \in Handles BY <2>1, NullIsNoEvent DEF TypeOK, Pointers
  <2>4. place[h] \in {"closed", "noted", "abandoned"} BY <2>2 DEF Held
  <2> QED BY <2>1, <2>3, <2>4 DEF Sound, GivenUp, Pointers
<1> QED BY <1>1, SpecSound, PTL
=============================================================================
