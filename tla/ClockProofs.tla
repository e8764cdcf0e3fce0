---------------------------- MODULE ClockProofs -----------------------------
(***************************************************************************)
(* Proofs about Clock, for every range of times and every set of           *)
(* reminders.  The invariant adds to the type that a clock whose time      *)
(* somebody has written has as its time the latest one it took.            *)
(***************************************************************************)
EXTENDS Clock, TLAPS

(* The time is the latest that the clock took. *)
TimeIsLatest == known => time = latest

IInv == TypeOK /\ TimeIsLatest /\ RefusedNeedsCause

(* A typed answer. *)
LEMMA AnswerTyped ==
    ASSUME NEW call \in {"none", "get", "set", "mode", "clear"}, NEW t \in Times,
           NEW ok \in BOOLEAN
    PROVE  Answer(call, t, ok) \in
             [call : {"none", "get", "set", "mode", "clear"}, time : Times, ok : BOOLEAN]
BY DEF Answer

(* The first time is one of the times. *)
LEMMA MinIsTime == MIN_DATE_TIME \in Times
BY ClockAssumption DEF MIN_DATE_TIME, Times

LEMMA NothingTyped ==
    Nothing \in [call : {"none", "get", "set", "mode", "clear"}, time : Times, ok : BOOLEAN]
BY AnswerTyped, MinIsTime DEF Nothing

(* The initial states satisfy the invariant. *)
LEMMA InitIInv == Init => IInv
<1> SUFFICES ASSUME Init PROVE IInv
  OBVIOUS
<1>1. TypeOK
  BY MinIsTime, NothingTyped DEF Init, TypeOK
<1>2. TimeIsLatest
  BY DEF Init, TimeIsLatest
<1>3. RefusedNeedsCause
  BY DEF Init, RefusedNeedsCause, Nothing, Answer
<1> QED BY <1>1, <1>2, <1>3 DEF IInv

(* Every step preserves the invariant. *)
LEMMA NextIInv == IInv /\ [Next]_vars => IInv'
<1> SUFFICES ASSUME IInv, [Next]_vars PROVE IInv'
  OBVIOUS
<1> USE DEF IInv
<1>1. CASE Get
  <2>1. Reading \in Times
    BY DEF TypeOK, Reading
  <2>2. TypeOK'
    BY <1>1, <2>1, AnswerTyped DEF Get, TypeOK
  <2>3. TimeIsLatest' /\ RefusedNeedsCause'
    BY <1>1 DEF Get, TimeIsLatest, RefusedNeedsCause, Answer
  <2> QED BY <2>2, <2>3
<1>2. ASSUME NEW t \in Times, Set(t) PROVE IInv'
  <2>1. TypeOK'
    <3>1. answer' \in [call : {"none", "get", "set", "mode", "clear"}, time : Times,
                       ok : BOOLEAN]
      BY <1>2, AnswerTyped DEF Set
    <3>2. known' \in BOOLEAN
      BY <1>2 DEF Set
    <3> QED BY <1>2, <3>1, <3>2 DEF Set, TypeOK
  <2>2. TimeIsLatest' /\ RefusedNeedsCause'
    BY <1>2 DEF Set, TimeIsLatest, RefusedNeedsCause, Answer
  <2> QED BY <2>1, <2>2
<1>3. ASSUME NEW t \in Times, SetRefused(t) PROVE IInv'
  <2>1. TypeOK'
    BY <1>3, AnswerTyped DEF SetRefused, TypeOK
  <2>2. TimeIsLatest'
    BY <1>3 DEF SetRefused, TimeIsLatest
  <2>3. RefusedNeedsCause'
    <3>1. (type \in {"local", "busLocal"} /\ mode = "realtime") \/ t < time
      BY <1>3 DEF SetRefused, Takes, SetAnyTime, TypeOK, Types, OwnTypes, BusTypes, Times
    <3>2. known => time = latest
      BY DEF TimeIsLatest
    <3> QED BY <1>3, <3>1, <3>2 DEF SetRefused, RefusedNeedsCause, Answer, TypeOK
  <2> QED BY <2>1, <2>2, <2>3
<1>4. ASSUME NEW m \in {"realtime", "simulation"}, SetMode(m) PROVE IInv'
  <2>1. TypeOK'
    <3>1. answer' \in [call : {"none", "get", "set", "mode", "clear"}, time : Times,
                       ok : BOOLEAN]
      BY <1>4, AnswerTyped, MinIsTime DEF SetMode
    <3>2. known' \in BOOLEAN
      BY <1>4 DEF SetMode, TypeOK
    <3>3. time' \in Times /\ latest' \in Times
      BY <1>4, MinIsTime DEF SetMode, TimeIn, TypeOK
    <3> QED BY <1>4, <3>1, <3>2, <3>3 DEF SetMode, TypeOK
  <2>2. TimeIsLatest' /\ RefusedNeedsCause'
    BY <1>4 DEF SetMode, TimeIn, TimeIsLatest, RefusedNeedsCause, Answer
  <2> QED BY <2>1, <2>2
<1>5. CASE Clear
  <2>1. TypeOK'
    <3>1. known' \in BOOLEAN
      BY <1>5 DEF Clear, TypeOK
    <3>2. time' \in Times /\ latest' \in Times
      BY <1>5, MinIsTime DEF Clear, TypeOK
    <3>3. answer' \in [call : {"none", "get", "set", "mode", "clear"}, time : Times,
                       ok : BOOLEAN]
      BY <1>5, AnswerTyped, MinIsTime DEF Clear
    <3> QED BY <1>5, <3>1, <3>2, <3>3 DEF Clear, TypeOK
  <2>2. TimeIsLatest' /\ RefusedNeedsCause'
    BY <1>5 DEF Clear, TimeIsLatest, RefusedNeedsCause, Answer
  <2> QED BY <2>1, <2>2
<1>6. ASSUME NEW r \in Reminders, Push(r) PROVE IInv'
  <2>1. TypeOK'
    BY <1>6, NothingTyped DEF Push, TypeOK, OwnTypes, BusTypes
  <2>2. TimeIsLatest' /\ RefusedNeedsCause'
    BY <1>6 DEF Push, TimeIsLatest, RefusedNeedsCause, Nothing, Answer
  <2> QED BY <2>1, <2>2
<1>7. ASSUME NEW r \in Reminders, Pop(r) PROVE IInv'
  <2>1. TypeOK'
    BY <1>7, NothingTyped DEF Pop, TypeOK
  <2>2. TimeIsLatest' /\ RefusedNeedsCause'
    BY <1>7 DEF Pop, TimeIsLatest, RefusedNeedsCause, Nothing, Answer
  <2> QED BY <2>1, <2>2
<1>8. ASSUME NEW t \in Times, Machine(t) PROVE IInv'
  <2>1. TypeOK'
    BY <1>8, NothingTyped DEF Machine, TypeOK
  <2>2. TimeIsLatest' /\ RefusedNeedsCause'
    BY <1>8 DEF Machine, TimeIsLatest, RefusedNeedsCause, Nothing, Answer
  <2> QED BY <2>1, <2>2
<1>9. CASE UNCHANGED vars
  BY <1>9 DEF vars, TypeOK, TimeIsLatest, RefusedNeedsCause
<1> QED BY <1>1, <1>2, <1>3, <1>4, <1>5, <1>6, <1>7, <1>8, <1>9 DEF Next

(* The invariant holds in every run. *)
THEOREM SpecIInv == Spec => []IInv
BY InitIInv, NextIInv, PTL DEF Spec

(* Clock is type correct. *)
THEOREM SpecTypeOK == Spec => []TypeOK
BY SpecIInv, PTL DEF IInv

(* A time is refused only for the three causes RefusedNeedsCause names.    *)
THEOREM SpecRefusedNeedsCause == Spec => []RefusedNeedsCause
BY SpecIInv, PTL DEF IInv

(* A clock shows the last time it took, an exchange clock in simulation,   *)
(* and the local one of a bus in real time.                                *)
THEOREM SpecShowsWhatItTook == Spec => []ShowsWhatItTook
<1>1. IInv => ShowsWhatItTook
  BY DEF IInv, TypeOK, TimeIsLatest, ShowsWhatItTook, Reading
<1> QED BY <1>1, SpecIInv, PTL

(* No step makes a clock show an earlier time, but for a restart, a clock  *)
(* that turns to the clock of the machine or away, and that clock itself.  *)
THEOREM SpecBackOnlyForCause == Spec => BackOnlyForCause
<1> DEFINE Excused == \/ type \in OwnTypes /\ Reading' = MIN_DATE_TIME
                      \/ /\ type = "exchange" /\ mode' = "realtime"
                         /\ mode = "simulation" \/ utc' < utc
                      \/ /\ type = "busLocal"
                         /\ mode' # mode \/ (mode = "simulation" /\ utc' < utc)
<1>1. ASSUME IInv, [Next]_vars, Reading' < Reading PROVE Excused
  <2> USE DEF Reading
  <2>1. time \in Int /\ utc \in Int /\ MIN_DATE_TIME \in Int
    BY <1>1 DEF IInv, TypeOK, Times, MIN_DATE_TIME
  <2>2. CASE Get
    BY <1>1, <2>1, <2>2 DEF Get
  <2>3. ASSUME NEW t \in Times, Set(t) PROVE Excused
    BY <1>1, <2>1, <2>3 DEF Set, Takes, Times
  <2>4. ASSUME NEW t \in Times, SetRefused(t) PROVE Excused
    BY <1>1, <2>1, <2>4 DEF SetRefused
  <2>5. ASSUME NEW m \in {"realtime", "simulation"}, SetMode(m) PROVE Excused
    BY <1>1, <2>1, <2>5 DEF SetMode, TimeIn, IInv, TypeOK, OwnTypes
  <2>6. CASE Clear
    BY <1>1, <2>1, <2>6 DEF Clear, OwnTypes
  <2>7. ASSUME NEW r \in Reminders, Push(r) \/ Pop(r) PROVE Excused
    BY <1>1, <2>1, <2>7 DEF Push, Pop
  <2>8. ASSUME NEW t \in Times, Machine(t) PROVE Excused
    BY <1>1, <2>1, <2>8 DEF Machine
  <2>9. CASE UNCHANGED vars
    BY <1>1, <2>1, <2>9 DEF vars
  <2> QED BY <1>1, <2>2, <2>3, <2>4, <2>5, <2>6, <2>7, <2>8, <2>9 DEF Next
<1>2. IInv /\ [Next]_vars => [Reading' < Reading => Excused]_vars
  BY <1>1
<1> QED BY <1>2, SpecIInv, PTL DEF Spec, BackOnlyForCause
=============================================================================
