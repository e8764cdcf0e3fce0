-------------------------- MODULE SpscQueueProofs --------------------------
(***************************************************************************)
(* The ring of spsc_queue.c is correct for every capacity of at least two, *)
(* every set of items and every number of writes.                          *)
(*                                                                         *)
(* Store k of write_pos is the position after k - 1 writes, store j of     *)
(* read_pos the position after j - 1 reads.  Positions wrap, so a position *)
(* alone does not tell a full queue from an empty one a lap later; the     *)
(* invariant recovers the distance: while it is less than the capacity,    *)
(* store k of write_pos is k - j slots after store j of read_pos, for      *)
(* every pair of stores the two threads may still load.                    *)
(***************************************************************************)
EXTENDS SpscQueue, TLAPS

W == Len(write_pos)
R == Len(read_pos)

(* The slot d places after slot p. *)
Slot(p, d) == IF p + d >= Capacity THEN p + d - Capacity ELSE p + d

(* One position is stored per item; the queue never holds Capacity items.  *)
Counts ==
    /\ W = Len(pushed) + 1 /\ R = Len(popped) + 1
    /\ R <= W /\ W - R <= Capacity - 1

(* Every store is a release store, so what is seen is acquired. *)
Released ==
    /\ \A k \in 1 .. W : write_pos[k].release
    /\ \A j \in 1 .. R : read_pos[j].release
    /\ acqRead = seenRead /\ acqWrite = seenWrite

(* What each thread knows of the other, even when it is stale. *)
Views ==
    /\ W - seenRead <= Capacity - 1
    /\ pcP # "idle" => W - seenRead < Capacity - 1
    /\ R <= seenWrite
    /\ pcC # "idle" => R < seenWrite

Positions ==
    \A j \in 1 .. R, k \in 1 .. W :
        j <= k /\ k - j <= Capacity - 1 =>
            write_pos[k].pos = Slot(read_pos[j].pos, k - j)

Locals ==
    /\ pcP # "idle" => currentWrite = write_pos[W].pos /\ e \in Values
    /\ pcC # "idle" => currentRead = read_pos[R].pos
    /\ pcC = "publish" => item = pushed[R]
    /\ peeked # Unset => R < W /\ peeked = pushed[R]

(* Item i sits in the slot its write loaded, until it is read. *)
Contents ==
    /\ \A i \in R .. W - 1 : records[write_pos[i].pos] = pushed[i]
    /\ pcP = "publish" => records[currentWrite] = e

(* The last write to an unread slot was its item's; a read the producer    *)
(* has not acquired was of an item the producer still counts as inside.    *)
Epochs ==
    /\ \A i \in R .. W - 1 : lastWrite[write_pos[i].pos] = i
    /\ pcP = "publish" => lastWrite[currentWrite] = W
    /\ \A s \in Slots : lastRead[s] <= R
    /\ \A j \in seenRead .. R, s \in Slots :
          lastRead[s] >= j => \E i \in j .. W - 1 : s = write_pos[i].pos

(* The size a thread was given is the distance of the stores it compared.  *)
Distances ==
    /\ answerP # Unset =>
          /\ W - answerP.size \in 1 .. seenRead
          /\ answerP.empty <=> answerP.size = 0
          /\ answerP.full <=> answerP.size = Capacity - 1
    /\ answerC # Unset =>
          /\ R + answerC.size \in 1 .. seenWrite
          /\ answerC.empty <=> answerC.size = 0
          /\ answerC.full <=> answerC.size = Capacity - 1

IInv == /\ TypeOK /\ Counts /\ Released /\ Views /\ Positions
        /\ Locals /\ Contents /\ Epochs /\ Distances
-----------------------------------------------------------------------------
(* Arithmetic of positions. *)

(* Slots are closed under Slot and Succ. *)
LEMMA SlotType ==
    ASSUME NEW p \in Slots, NEW d \in 0 .. Capacity - 1
    PROVE  Slot(p, d) \in Slots /\ Succ(p) \in Slots
BY SpscAssumption DEF Slot, Slots, Succ

(* One more step on the right, and one more on the left. *)
LEMMA SlotStep ==
    ASSUME NEW p \in Slots, NEW d \in 0 .. Capacity - 2
    PROVE  /\ Succ(Slot(p, d)) = Slot(p, d + 1)
           /\ Slot(Succ(p), d) = Slot(p, d + 1)
BY SpscAssumption DEF Slot, Slots, Succ

(* Less than a lap apart, different distances are different slots. *)
LEMMA SlotDistinct ==
    ASSUME NEW p \in Slots, NEW c \in 0 .. Capacity - 1,
           NEW d \in 0 .. Capacity - 1, c # d
    PROVE  Slot(p, c) # Slot(p, d)
BY SpscAssumption DEF Slot, Slots

(* The three queries recover the distance. *)
LEMMA SlotAnswer ==
    ASSUME NEW p \in Slots, NEW d \in 0 .. Capacity - 1
    PROVE  /\ SizeAt(p, Slot(p, d)) = d
           /\ p = Slot(p, d) <=> d = 0
           /\ Succ(Slot(p, d)) = p <=> d = Capacity - 1
BY SpscAssumption DEF Slot, Slots, SizeAt, Succ

(* A release store appends one position to a modification order. *)
LEMMA StoreProperties ==
    ASSUME NEW log \in Seq(Stores), NEW pos \in Slots
    PROVE  /\ StoreRelease(log, pos) \in Seq(Stores)
           /\ Len(StoreRelease(log, pos)) = Len(log) + 1
           /\ \A k \in 1 .. Len(log) : StoreRelease(log, pos)[k] = log[k]
           /\ StoreRelease(log, pos)[Len(log) + 1] = [pos |-> pos, release |-> TRUE]
<1>1. [pos |-> pos, release |-> TRUE] \in Stores
  BY DEF Stores
<1>2. QED
  BY <1>1 DEF StoreRelease

(* A store of a modification order holds a position. *)
LEMMA StoreType ==
    ASSUME NEW log \in Seq(Stores), NEW i \in 1 .. Len(log)
    PROVE  log[i].pos \in Slots
<1>1. log[i] \in Stores
  OBVIOUS
<1>2. QED
  BY <1>1 DEF Stores

(* The facts of the invariant about counts and types most steps rest on. *)
LEMMA Facts ==
    ASSUME IInv
    PROVE  /\ W \in Nat /\ R \in Nat /\ 1 <= R /\ R <= W /\ W - R <= Capacity - 1
           /\ W = Len(pushed) + 1 /\ R = Len(popped) + 1
           /\ seenRead \in 1 .. R /\ W - seenRead <= Capacity - 1
           /\ seenWrite \in R .. W
           /\ acqRead = seenRead /\ acqWrite = seenWrite
           /\ \A k \in 1 .. W : write_pos[k].pos \in Slots
           /\ \A j \in 1 .. R : read_pos[j].pos \in Slots
           /\ answerP # Unset => answerP.size \in 0 .. Capacity - 1
           /\ answerC # Unset => answerC.size \in 0 .. Capacity - 1
           /\ write_pos[W].pos \in Slots /\ read_pos[R].pos \in Slots
           /\ write_pos[R].pos = read_pos[R].pos
<1>1. \A k \in 1 .. W : write_pos[k].pos \in Slots
  BY StoreType DEF IInv, TypeOK, W
<1>2. \A j \in 1 .. R : read_pos[j].pos \in Slots
  BY StoreType DEF IInv, TypeOK, R
<1>3. W \in Nat /\ R \in Nat /\ seenRead \in 1 .. R /\ seenWrite \in 1 .. W
  BY DEF IInv, TypeOK, W, R
<1>4. /\ answerP # Unset => answerP.size \in 0 .. Capacity - 1
      /\ answerC # Unset => answerC.size \in 0 .. Capacity - 1
  BY DEF IInv, TypeOK, Answers
<1>5. W - R \in 0 .. Capacity - 1
  BY <1>3, SpscAssumption DEF IInv, Counts
<1>6. write_pos[R].pos = read_pos[R].pos
  <2>1. write_pos[R].pos = Slot(read_pos[R].pos, R - R)
    BY <1>3, <1>5, SpscAssumption DEF IInv, Positions
  <2>2. read_pos[R].pos \in Slots
    BY <1>2, <1>3
  <2>3. QED
    BY <1>3, <2>1, <2>2, SpscAssumption DEF Slot, Slots
<1>7. QED
  BY <1>1, <1>2, <1>3, <1>4, <1>5, <1>6 DEF IInv, TypeOK, Counts, Released, Views

(* The initial state satisfies the invariant. *)
LEMMA InitInv == Init => IInv
<1> SUFFICES ASSUME Init PROVE IInv
  OBVIOUS
<1> USE SpscAssumption DEF Init, Slots, W, R
<1>1. write_pos \in Seq(Stores) /\ read_pos \in Seq(Stores) /\ W = 1 /\ R = 1
  BY DEF Stores
<1>2. TypeOK
  BY <1>1 DEF TypeOK
<1>3. Counts /\ Released /\ Views
  BY <1>1 DEF Counts, Released, Views
<1>4. Positions
  BY <1>1 DEF Positions, Slot
<1>5. Locals /\ Contents /\ Epochs /\ Distances
  BY <1>1 DEF Locals, Contents, Epochs, Distances
<1>6. QED
  BY <1>2, <1>3, <1>4, <1>5 DEF IInv
-----------------------------------------------------------------------------
(* Each step of the producer preserves the invariant. *)

(* Loading read_pos only moves the producer's view forward. *)
LEMMA LoadReadPosView ==
    ASSUME IInv, NEW i \in seenRead .. Len(read_pos), LoadReadPos(i)
    PROVE  /\ i \in seenRead .. R /\ i \in 1 .. R /\ seenRead' = i /\ acqRead' = i
           /\ W - i \in 0 .. Capacity - 1
           /\ read_pos[i].pos \in Slots
           /\ write_pos[W].pos = Slot(read_pos[i].pos, W - i)
           /\ Last(write_pos).pos = write_pos[W].pos
<1>1. i \in seenRead .. R /\ i \in 1 .. R /\ seenRead' = i
  BY Facts DEF LoadReadPos, R
<1>2. acqRead' = i
  <2>1. read_pos[i].release
    BY <1>1 DEF IInv, Released
  <2>2. acqRead = seenRead /\ seenRead \in 1 .. R
    BY Facts
  <2>3. acqRead' = LoadAcquire(read_pos, acqRead, i)
    BY DEF LoadReadPos
  <2>4. acqRead' = IF i > acqRead THEN i ELSE acqRead
    BY <2>1, <2>3 DEF LoadAcquire
  <2>5. QED
    BY <1>1, <2>2, <2>4
<1>3. W - i \in 0 .. Capacity - 1
  BY <1>1, Facts, SpscAssumption
<1>4. read_pos[i].pos \in Slots
  BY <1>1, Facts
<1>5. write_pos[W].pos = Slot(read_pos[i].pos, W - i)
  <2>1. W \in 1 .. W /\ i <= W
    BY <1>1, <1>3, Facts
  <2>2. Positions
    BY DEF IInv
  <2>3. QED
    BY <1>1, <1>3, <2>1, <2>2 DEF Positions
<1>6. QED
  BY <1>1, <1>2, <1>3, <1>4, <1>5 DEF Last, W

(* What a longer view of read_pos leaves true of the parts it appears in.  *)
LEMMA ViewEpochs ==
    ASSUME IInv, NEW i \in seenRead .. R, seenRead' = i,
           UNCHANGED <<write_pos, read_pos, lastWrite, lastRead>>,
           pcP' # "publish"
    PROVE  Epochs'
<1>1. W' = W /\ R' = R
  BY DEF W, R
<1>2. seenRead \in 1 .. R /\ R \in Nat
  BY Facts
<1>3. Epochs
  BY DEF IInv
<1>4. \A j \in i .. R : j \in seenRead .. R
  BY <1>2
<1>5. QED
  BY <1>1, <1>3, <1>4 DEF Epochs

LEMMA WriteBeginInv ==
    ASSUME IInv, NEW v \in Values, WriteBegin(v)
    PROVE  IInv'
<1>1. PICK i \in seenRead .. Len(read_pos) :
          LoadReadPos(i) /\ Succ(Last(write_pos).pos) # read_pos[i].pos
  BY DEF WriteBegin
<1>2. /\ i \in seenRead .. R /\ i \in 1 .. R /\ seenRead' = i /\ acqRead' = i
      /\ W - i \in 0 .. Capacity - 1
      /\ read_pos[i].pos \in Slots
      /\ write_pos[W].pos = Slot(read_pos[i].pos, W - i)
      /\ Last(write_pos).pos = write_pos[W].pos
  BY <1>1, LoadReadPosView
<1>3. W - i < Capacity - 1
  BY <1>1, <1>2, SlotAnswer, SpscAssumption
<1>4. /\ W' = W /\ R' = R /\ UNCHANGED <<records, answerP, consumerVars, producerShared, consumerShared>>
      /\ currentWrite' = write_pos[W].pos /\ e' = v /\ pcP' = "store"
  BY <1>2 DEF WriteBegin, producerShared, consumerShared, W, R
<1>5. TypeOK'
  BY <1>2, <1>4, Facts DEF IInv, TypeOK, producerShared, consumerShared, consumerVars, R
<1>6. Counts' /\ Positions' /\ Contents'
  BY <1>4 DEF IInv, Counts, Positions, Contents, producerShared, consumerShared
<1>7. Released'
  BY <1>2, <1>4 DEF IInv, Released, producerShared, consumerShared, consumerVars
<1>8. Views'
  BY <1>2, <1>3, <1>4, Facts, SpscAssumption
     DEF IInv, Views, producerShared, consumerShared, consumerVars
<1>9. Locals'
  BY <1>2, <1>4 DEF IInv, Locals, producerShared, consumerShared, consumerVars
<1>10. Epochs'
  BY <1>2, <1>4, ViewEpochs DEF producerShared, consumerShared
<1>11. Distances'
  <2>1. W' - answerP'.size = W - answerP.size /\ answerP' = answerP /\ answerC' = answerC /\ seenWrite' = seenWrite
    BY <1>4 DEF consumerVars
  <2>2. 1 .. seenRead \subseteq 1 .. i
    BY <1>2, Facts
  <2>3. QED
    BY <1>2, <1>4, <2>1, <2>2 DEF IInv, Distances
<1>12. QED
  BY <1>5, <1>6, <1>7, <1>8, <1>9, <1>10, <1>11 DEF IInv

LEMMA WriteFullInv ==
    ASSUME IInv, WriteFull
    PROVE  IInv'
<1>1. PICK i \in seenRead .. Len(read_pos) : LoadReadPos(i)
  BY DEF WriteFull
<1>2. /\ i \in seenRead .. R /\ i \in 1 .. R /\ seenRead' = i /\ acqRead' = i
      /\ W - i \in 0 .. Capacity - 1
  BY <1>1, LoadReadPosView
<1>3. /\ W' = W /\ R' = R /\ pcP = "idle"
      /\ UNCHANGED <<records, pcP, currentWrite, e, answerP,
                     consumerVars, producerShared, consumerShared>>
  BY DEF WriteFull, producerShared, consumerShared, W, R
<1>4. TypeOK'
  BY <1>2, <1>3 DEF IInv, TypeOK, producerShared, consumerShared, consumerVars, R
<1>5. Counts' /\ Positions' /\ Contents'
  BY <1>3 DEF IInv, Counts, Positions, Contents, producerShared, consumerShared
<1>6. Released'
  BY <1>2, <1>3 DEF IInv, Released, producerShared, consumerShared, consumerVars
<1>7. Views'
  BY <1>2, <1>3, Facts, SpscAssumption
     DEF IInv, Views, producerShared, consumerShared, consumerVars
<1>8. Locals'
  BY <1>3 DEF IInv, Locals, producerShared, consumerShared, consumerVars
<1>9. Epochs'
  BY <1>2, <1>3, ViewEpochs DEF producerShared, consumerShared
<1>10. Distances'
  <2>1. 1 .. seenRead \subseteq 1 .. i
    BY <1>2, Facts
  <2>2. QED
    BY <1>2, <1>3, <2>1 DEF IInv, Distances, consumerVars
<1>11. QED
  BY <1>4, <1>5, <1>6, <1>7, <1>8, <1>9, <1>10 DEF IInv

LEMMA ProducerQueryInv ==
    ASSUME IInv, ProducerQuery
    PROVE  IInv'
<1>1. PICK i \in seenRead .. Len(read_pos) :
          /\ LoadReadPos(i)
          /\ answerP' = Answer(read_pos[i].pos, Last(write_pos).pos)
  BY DEF ProducerQuery
<1>2. /\ i \in seenRead .. R /\ i \in 1 .. R /\ seenRead' = i /\ acqRead' = i
      /\ W - i \in 0 .. Capacity - 1
      /\ read_pos[i].pos \in Slots
      /\ write_pos[W].pos = Slot(read_pos[i].pos, W - i)
      /\ Last(write_pos).pos = write_pos[W].pos
  BY <1>1, LoadReadPosView
<1>3. answerP' = [empty |-> W - i = 0, full |-> W - i = Capacity - 1, size |-> W - i]
  BY <1>1, <1>2, SlotAnswer DEF Answer
<1>4. /\ W' = W /\ R' = R /\ pcP = "idle"
      /\ UNCHANGED <<records, pcP, currentWrite, e,
                     consumerVars, producerShared, consumerShared>>
  BY DEF ProducerQuery, producerShared, consumerShared, W, R
<1>5. answerP' \in Answers
  BY <1>2, <1>3 DEF Answers
<1>6. TypeOK'
  BY <1>2, <1>4, <1>5 DEF IInv, TypeOK, producerShared, consumerShared, consumerVars, R
<1>7. Counts' /\ Positions' /\ Contents'
  BY <1>4 DEF IInv, Counts, Positions, Contents, producerShared, consumerShared
<1>8. Released'
  BY <1>2, <1>4 DEF IInv, Released, producerShared, consumerShared, consumerVars
<1>9. Views'
  BY <1>2, <1>4, Facts, SpscAssumption
     DEF IInv, Views, producerShared, consumerShared, consumerVars
<1>10. Locals'
  BY <1>4 DEF IInv, Locals, producerShared, consumerShared, consumerVars
<1>11. Epochs'
  BY <1>2, <1>4, ViewEpochs DEF producerShared, consumerShared
<1>12. Distances'
  <2>1. /\ W - answerP'.size \in 1 .. i
        /\ answerP'.empty <=> answerP'.size = 0
        /\ answerP'.full <=> answerP'.size = Capacity - 1
    <3>1. /\ answerP'.size = W - i
          /\ answerP'.empty = (W - i = 0)
          /\ answerP'.full = (W - i = Capacity - 1)
      BY <1>3
    <3>2. W - (W - i) = i /\ i \in 1 .. i
      BY <1>2, Facts
    <3>3. QED
      BY <3>1, <3>2
  <2>2. QED
    BY <1>2, <1>4, <2>1 DEF IInv, Distances, consumerVars
<1>13. QED
  BY <1>6, <1>7, <1>8, <1>9, <1>10, <1>11, <1>12 DEF IInv

(* The slot the producer writes holds no item the consumer may still read, *)
(* even as stale as the producer's view of the consumer is.                *)
LEMMA CurrentWriteFree ==
    ASSUME IInv, pcP # "idle"
    PROVE  /\ currentWrite = write_pos[W].pos /\ currentWrite \in Slots
           /\ \A i \in seenRead .. W - 1 : write_pos[i].pos # currentWrite
<1>1. currentWrite = write_pos[W].pos /\ currentWrite \in Slots
  BY DEF IInv, Locals, TypeOK
<1>2. ASSUME NEW i \in seenRead .. W - 1
      PROVE  write_pos[i].pos # currentWrite
  <2>1. /\ seenRead \in 1 .. R /\ i \in 1 .. W /\ W \in 1 .. W
        /\ seenRead <= i /\ seenRead <= W
        /\ i - seenRead \in 0 .. Capacity - 1 /\ W - seenRead \in 0 .. Capacity - 1
        /\ i - seenRead # W - seenRead
        /\ read_pos[seenRead].pos \in Slots
    BY Facts, SpscAssumption
  <2>2. write_pos[W].pos = Slot(read_pos[seenRead].pos, W - seenRead)
    BY <2>1 DEF IInv, Positions
  <2>3. write_pos[i].pos = Slot(read_pos[seenRead].pos, i - seenRead)
    BY <2>1 DEF IInv, Positions
  <2>4. QED
    BY <1>1, <2>1, <2>2, <2>3, SlotDistinct
<1>3. QED
  BY <1>1, <1>2

LEMMA WriteRecordInv ==
    ASSUME IInv, WriteRecord
    PROVE  IInv'
<1>1. /\ currentWrite = write_pos[W].pos /\ currentWrite \in Slots
      /\ \A i \in seenRead .. W - 1 : write_pos[i].pos # currentWrite
  BY CurrentWriteFree DEF WriteRecord
<1>2. /\ W' = W /\ R' = R /\ pcP = "store" /\ pcP' = "publish"
      /\ records' = [records EXCEPT ![currentWrite] = e]
      /\ lastWrite' = [lastWrite EXCEPT ![currentWrite] = W]
      /\ UNCHANGED <<write_pos, pushed, currentWrite, e, seenRead, acqRead,
                     answerP, consumerVars, consumerShared>>
  BY DEF WriteRecord, consumerShared, W, R
<1>3. /\ records \in [Slots -> Values \cup {Unset}] /\ lastWrite \in [Slots -> Nat]
  BY DEF IInv, TypeOK
<1>4. TypeOK'
  BY <1>1, <1>2 DEF IInv, TypeOK, consumerShared, consumerVars, W
<1>5. Counts' /\ Released' /\ Positions' /\ Distances'
  BY <1>2 DEF IInv, Counts, Released, Positions, Distances, consumerShared, consumerVars
<1>6. Views' /\ Locals'
  BY <1>2 DEF IInv, Views, Locals, consumerShared, consumerVars
<1>7. \A i \in R .. W - 1 : write_pos[i].pos \in Slots /\ write_pos[i].pos # currentWrite
  BY <1>1, Facts
<1>8. /\ \A i \in R .. W - 1 : /\ records'[write_pos[i].pos] = records[write_pos[i].pos]
                               /\ lastWrite'[write_pos[i].pos] = lastWrite[write_pos[i].pos]
      /\ records'[currentWrite] = e /\ lastWrite'[currentWrite] = W
  BY <1>1, <1>2, <1>3, <1>7
<1>9. Contents'
  BY <1>2, <1>8 DEF IInv, Contents
<1>10. Epochs'
  BY <1>2, <1>8 DEF IInv, Epochs, consumerShared
<1>11. QED
  BY <1>4, <1>5, <1>6, <1>9, <1>10 DEF IInv

LEMMA WritePublishInv ==
    ASSUME IInv, WritePublish
    PROVE  IInv'
<1>1. /\ currentWrite = write_pos[W].pos /\ currentWrite \in Slots
      /\ \A i \in seenRead .. W - 1 : write_pos[i].pos # currentWrite
  BY CurrentWriteFree DEF WritePublish
<1>2. Succ(currentWrite) \in Slots
  BY <1>1, SpscAssumption DEF Succ, Slots
<1>3. /\ R' = R /\ pcP = "publish" /\ pcP' = "idle" /\ answerP' = Unset
      /\ write_pos' = StoreRelease(write_pos, Succ(currentWrite))
      /\ pushed' = Append(pushed, e)
      /\ UNCHANGED <<records, lastWrite, currentWrite, e, seenRead, acqRead,
                     consumerVars, consumerShared>>
  BY DEF WritePublish, consumerShared, R
<1>4. /\ write_pos' \in Seq(Stores) /\ W' = W + 1
      /\ \A k \in 1 .. W : write_pos'[k] = write_pos[k]
      /\ write_pos'[W + 1] = [pos |-> Succ(currentWrite), release |-> TRUE]
  <2>1. write_pos \in Seq(Stores)
    BY DEF IInv, TypeOK
  <2>2. QED
    BY <1>2, <1>3, <2>1, StoreProperties DEF W
<1>5. /\ R \in Nat /\ W \in Nat /\ 1 <= R /\ R <= W /\ W = Len(pushed) + 1
      /\ R = Len(popped) + 1 /\ seenRead \in 1 .. R
  BY Facts
<1>6. W - seenRead < Capacity - 1 /\ e \in Values /\ pushed \in Seq(Values)
  BY <1>3 DEF IInv, Views, Locals, TypeOK
<1>7. /\ pushed' \in Seq(Values) /\ Len(pushed') = W
      /\ \A i \in 1 .. W - 1 : pushed'[i] = pushed[i]
      /\ pushed'[W] = e
  BY <1>3, <1>5, <1>6
<1>8. TypeOK'
  <2>1. seenWrite \in 1 .. Len(write_pos') /\ acqWrite \in 1 .. Len(write_pos')
    BY <1>4, <1>5 DEF IInv, TypeOK, W
  <2>2. QED
    BY <1>3, <1>4, <1>7, <2>1 DEF IInv, TypeOK, consumerShared, consumerVars
<1>9. Counts'
  BY <1>3, <1>4, <1>5, <1>6, <1>7, SpscAssumption DEF Counts, consumerShared
<1>10. Views'
  BY <1>3, <1>4, <1>5, <1>6, SpscAssumption DEF IInv, Views, consumerVars
<1>11. Released'
  <2>1. \A k \in 1 .. W + 1 : write_pos'[k].release
    <3>1. ASSUME NEW k \in 1 .. W + 1 PROVE write_pos'[k].release
      <4>1. CASE k \in 1 .. W
        BY <4>1, <1>4 DEF IInv, Released
      <4>2. CASE k = W + 1
        BY <4>2, <1>4
      <4>3. QED
        BY <4>1, <4>2, <1>5
    <3>2. QED
      BY <3>1
  <2>2. QED
    BY <1>3, <1>4, <2>1 DEF IInv, Released, consumerShared, consumerVars
<1>12. Positions'
  <2>1. ASSUME NEW j \in 1 .. R, NEW k \in 1 .. W + 1,
               j <= k, k - j <= Capacity - 1
        PROVE  write_pos'[k].pos = Slot(read_pos[j].pos, k - j)
    <3>1. CASE k \in 1 .. W
      BY <2>1, <3>1, <1>4 DEF IInv, Positions
    <3>2. CASE k = W + 1
      <4>1. /\ j <= W /\ W \in 1 .. W /\ W - j <= Capacity - 1
            /\ W - j \in 0 .. Capacity - 2 /\ (W - j) + 1 = k - j
        BY <2>1, <3>2, <1>5, SpscAssumption
      <4>2. read_pos[j].pos \in Slots
        BY Facts
      <4>3. write_pos[W].pos = Slot(read_pos[j].pos, W - j)
        BY <4>1 DEF IInv, Positions
      <4>4. Succ(write_pos[W].pos) = Slot(read_pos[j].pos, k - j)
        BY <4>1, <4>2, <4>3, SlotStep
      <4>5. QED
        BY <3>2, <4>4, <1>1, <1>4
    <3>3. QED
      BY <3>1, <3>2, <1>5
  <2>2. QED
    BY <1>3, <1>4, <2>1 DEF Positions, consumerShared
<1>13. Locals'
  <2>1. pcC = "publish" => pushed'[R] = pushed[R]
    BY <1>5, <1>7, Facts DEF IInv, Views
  <2>2. peeked # Unset => R < W + 1 /\ peeked = pushed'[R]
    BY <1>5, <1>7 DEF IInv, Locals
  <2>3. QED
    BY <1>3, <1>4, <2>1, <2>2 DEF IInv, Locals, consumerVars, consumerShared
<1>14. \A i \in 1 .. W : write_pos'[i].pos = write_pos[i].pos
  BY <1>4
<1>15. Contents'
  <2>1. records[write_pos'[W].pos] = pushed'[W]
    BY <1>1, <1>3, <1>5, <1>7, <1>14 DEF IInv, Contents
  <2>2. \A i \in R .. W - 1 : records[write_pos'[i].pos] = pushed'[i]
    BY <1>5, <1>7, <1>14 DEF IInv, Contents
  <2>3. \A i \in R .. W : i = W \/ i \in R .. W - 1
    BY <1>5
  <2>4. QED
    BY <1>3, <1>4, <1>5, <2>1, <2>2, <2>3 DEF Contents
<1>16. Epochs'
  <2>1. lastWrite[write_pos'[W].pos] = W
    BY <1>1, <1>3, <1>5, <1>14 DEF IInv, Epochs
  <2>2. \A i \in R .. W - 1 : lastWrite[write_pos'[i].pos] = i
    BY <1>5, <1>14 DEF IInv, Epochs
  <2>3. \A i \in R .. W : i = W \/ i \in R .. W - 1
    BY <1>5
  <2>4. \A j \in seenRead .. R, s \in Slots :
            lastRead[s] >= j => \E i \in j .. W : s = write_pos'[i].pos
    BY <1>5, <1>14 DEF IInv, Epochs
  <2>5. \A s \in Slots : lastRead[s] <= R
    BY DEF IInv, Epochs
  <2>6. QED
    BY <1>3, <1>4, <1>5, <2>1, <2>2, <2>3, <2>4, <2>5 DEF Epochs, consumerShared
<1>17. Distances'
  BY <1>3 DEF IInv, Distances, consumerVars
<1>18. QED
  BY <1>8, <1>9, <1>10, <1>11, <1>12, <1>13, <1>15, <1>16, <1>17 DEF IInv
-----------------------------------------------------------------------------
(* Each step of the consumer preserves the invariant. *)

(* Loading write_pos only moves the consumer's view forward. *)
LEMMA LoadWritePosView ==
    ASSUME IInv, NEW i \in seenWrite .. Len(write_pos), LoadWritePos(i)
    PROVE  /\ i \in seenWrite .. W /\ i \in 1 .. W /\ seenWrite' = i /\ acqWrite' = i
           /\ i - R \in 0 .. Capacity - 1
           /\ write_pos[i].pos = Slot(read_pos[R].pos, i - R)
           /\ Last(read_pos).pos = read_pos[R].pos
<1>1. i \in seenWrite .. W /\ i \in 1 .. W /\ seenWrite' = i
  BY Facts DEF LoadWritePos, W
<1>2. acqWrite' = i
  <2>1. write_pos[i].release
    BY <1>1 DEF IInv, Released
  <2>2. acqWrite = seenWrite /\ seenWrite \in R .. W
    BY Facts
  <2>3. acqWrite' = LoadAcquire(write_pos, acqWrite, i)
    BY DEF LoadWritePos
  <2>4. acqWrite' = IF i > acqWrite THEN i ELSE acqWrite
    BY <2>1, <2>3 DEF LoadAcquire
  <2>5. QED
    BY <1>1, <2>2, <2>4
<1>3. i - R \in 0 .. Capacity - 1
  BY <1>1, Facts, SpscAssumption
<1>4. write_pos[i].pos = Slot(read_pos[R].pos, i - R)
  <2>1. R \in 1 .. R /\ R <= i
    BY <1>1, <1>3, Facts
  <2>2. Positions
    BY DEF IInv
  <2>3. QED
    BY <1>1, <1>3, <2>1, <2>2 DEF Positions
<1>5. QED
  BY <1>1, <1>2, <1>3, <1>4 DEF Last, R

LEMMA ReadBeginInv ==
    ASSUME IInv, NEW pc \in {"copy", "peek"}, ReadBegin(pc)
    PROVE  IInv'
<1>1. PICK i \in seenWrite .. Len(write_pos) :
          LoadWritePos(i) /\ Last(read_pos).pos # write_pos[i].pos
  BY DEF ReadBegin
<1>2. /\ i \in seenWrite .. W /\ i \in 1 .. W /\ seenWrite' = i /\ acqWrite' = i
      /\ i - R \in 0 .. Capacity - 1
      /\ write_pos[i].pos = Slot(read_pos[R].pos, i - R)
      /\ Last(read_pos).pos = read_pos[R].pos
  BY <1>1, LoadWritePosView
<1>3. R < i
  <2>1. i - R # 0
    BY <1>1, <1>2, Facts, SlotAnswer
  <2>2. QED
    BY <1>2, <2>1, Facts
<1>4. /\ W' = W /\ R' = R /\ currentRead' = read_pos[R].pos /\ pcC' = pc
      /\ UNCHANGED <<records, item, peeked, answerC,
                     producerVars, producerShared, consumerShared>>
  BY <1>2 DEF ReadBegin, producerShared, consumerShared, W, R
<1>5. TypeOK'
  BY <1>2, <1>4, Facts DEF IInv, TypeOK, producerShared, consumerShared, producerVars, W
<1>6. Counts' /\ Positions' /\ Contents' /\ Epochs'
  BY <1>4 DEF IInv, Counts, Positions, Contents, Epochs, producerShared,
              consumerShared, producerVars
<1>7. Released'
  BY <1>2, <1>4 DEF IInv, Released, producerShared, consumerShared, producerVars
<1>8. Views'
  BY <1>2, <1>3, <1>4, Facts DEF IInv, Views, producerVars
<1>9. Locals'
  BY <1>4 DEF IInv, Locals, producerShared, consumerShared, producerVars
<1>10. Distances'
  <2>1. 1 .. seenWrite \subseteq 1 .. i
    BY <1>2, Facts
  <2>2. QED
    BY <1>2, <1>4, <2>1 DEF IInv, Distances, producerVars
<1>11. QED
  BY <1>5, <1>6, <1>7, <1>8, <1>9, <1>10 DEF IInv

LEMMA ReadEmptyInv ==
    ASSUME IInv, ReadEmpty
    PROVE  IInv'
<1>1. PICK i \in seenWrite .. Len(write_pos) : LoadWritePos(i)
  BY DEF ReadEmpty
<1>2. /\ i \in seenWrite .. W /\ i \in 1 .. W /\ seenWrite' = i /\ acqWrite' = i
      /\ i - R \in 0 .. Capacity - 1
  BY <1>1, LoadWritePosView
<1>3. /\ W' = W /\ R' = R /\ pcC = "idle"
      /\ UNCHANGED <<records, pcC, currentRead, item, peeked, answerC,
                     producerVars, producerShared, consumerShared>>
  BY DEF ReadEmpty, producerShared, consumerShared, W, R
<1>4. TypeOK'
  BY <1>2, <1>3 DEF IInv, TypeOK, producerShared, consumerShared, producerVars, W
<1>5. Counts' /\ Positions' /\ Contents' /\ Epochs'
  BY <1>3 DEF IInv, Counts, Positions, Contents, Epochs, producerShared,
              consumerShared, producerVars
<1>6. Released'
  BY <1>2, <1>3 DEF IInv, Released, producerShared, consumerShared, producerVars
<1>7. Views'
  BY <1>2, <1>3, Facts DEF IInv, Views, producerVars
<1>8. Locals'
  BY <1>3 DEF IInv, Locals, producerShared, consumerShared, producerVars
<1>9. Distances'
  <2>1. 1 .. seenWrite \subseteq 1 .. i
    BY <1>2, Facts
  <2>2. QED
    BY <1>2, <1>3, <2>1 DEF IInv, Distances, producerVars
<1>10. QED
  BY <1>4, <1>5, <1>6, <1>7, <1>8, <1>9 DEF IInv

LEMMA ConsumerQueryInv ==
    ASSUME IInv, ConsumerQuery
    PROVE  IInv'
<1>1. PICK i \in seenWrite .. Len(write_pos) :
          /\ LoadWritePos(i)
          /\ answerC' = Answer(Last(read_pos).pos, write_pos[i].pos)
  BY DEF ConsumerQuery
<1>2. /\ i \in seenWrite .. W /\ i \in 1 .. W /\ seenWrite' = i /\ acqWrite' = i
      /\ i - R \in 0 .. Capacity - 1
      /\ write_pos[i].pos = Slot(read_pos[R].pos, i - R)
      /\ Last(read_pos).pos = read_pos[R].pos
  BY <1>1, LoadWritePosView
<1>3. answerC' = [empty |-> i - R = 0, full |-> i - R = Capacity - 1, size |-> i - R]
  <2>1. read_pos[R].pos \in Slots
    BY Facts
  <2>2. QED
    BY <1>1, <1>2, <2>1, SlotAnswer DEF Answer
<1>4. /\ W' = W /\ R' = R /\ pcC = "idle"
      /\ UNCHANGED <<records, pcC, currentRead, item, peeked,
                     producerVars, producerShared, consumerShared>>
  BY DEF ConsumerQuery, producerShared, consumerShared, W, R
<1>5. answerC' \in Answers
  BY <1>2, <1>3 DEF Answers
<1>6. TypeOK'
  BY <1>2, <1>4, <1>5 DEF IInv, TypeOK, producerShared, consumerShared, producerVars, W
<1>7. Counts' /\ Positions' /\ Contents' /\ Epochs'
  BY <1>4 DEF IInv, Counts, Positions, Contents, Epochs, producerShared,
              consumerShared, producerVars
<1>8. Released'
  BY <1>2, <1>4 DEF IInv, Released, producerShared, consumerShared, producerVars
<1>9. Views'
  BY <1>2, <1>4, Facts DEF IInv, Views, producerVars
<1>10. Locals'
  BY <1>4 DEF IInv, Locals, producerShared, consumerShared, producerVars
<1>11. Distances'
  <2>1. /\ R + answerC'.size \in 1 .. i
        /\ answerC'.empty <=> answerC'.size = 0
        /\ answerC'.full <=> answerC'.size = Capacity - 1
    <3>1. /\ answerC'.size = i - R
          /\ answerC'.empty = (i - R = 0)
          /\ answerC'.full = (i - R = Capacity - 1)
      BY <1>3
    <3>2. R + (i - R) = i /\ i \in 1 .. i
      BY <1>2, Facts
    <3>3. QED
      BY <3>1, <3>2
  <2>2. QED
    BY <1>2, <1>4, <2>1 DEF IInv, Distances, producerVars
<1>12. QED
  BY <1>6, <1>7, <1>8, <1>9, <1>10, <1>11 DEF IInv

(* The slot the consumer reads holds the oldest unread item. *)
LEMMA CurrentReadHead ==
    ASSUME IInv, pcC # "idle"
    PROVE  /\ currentRead \in Slots /\ R \in R .. W - 1
           /\ currentRead = write_pos[R].pos
           /\ records[currentRead] = pushed[R] /\ pushed[R] \in Values
           /\ lastWrite[currentRead] = R
<1>1. currentRead = write_pos[R].pos /\ currentRead \in Slots
  BY Facts DEF IInv, Locals
<1>2. R < seenWrite /\ R \in R .. W - 1
  BY Facts DEF IInv, Views
<1>3. pushed[R] \in Values
  <2>1. pushed \in Seq(Values) /\ R \in 1 .. Len(pushed)
    BY <1>2, Facts DEF IInv, TypeOK
  <2>2. QED
    BY <2>1
<1>4. QED
  BY <1>1, <1>2, <1>3 DEF IInv, Contents, Epochs

(* A read of the oldest unread item disturbs none of the epochs. *)
LEMMA TouchEpochs ==
    ASSUME IInv, pcC # "idle", TouchRecord,
           UNCHANGED <<write_pos, read_pos, lastWrite, pcP, currentWrite, seenRead>>
    PROVE  Epochs' /\ lastRead' \in [Slots -> Nat]
<1>1. /\ currentRead \in Slots /\ R \in R .. W - 1 /\ currentRead = write_pos[R].pos
  BY CurrentReadHead
<1>2. /\ lastRead' = [lastRead EXCEPT ![currentRead] = R] /\ lastRead \in [Slots -> Nat]
      /\ R \in Nat /\ seenRead \in 1 .. R
  BY Facts DEF TouchRecord, IInv, TypeOK, R
<1>3. W' = W /\ R' = R
  BY DEF W, R
<1>4. \A s \in Slots : lastRead'[s] = IF s = currentRead THEN R ELSE lastRead[s]
  BY <1>2
<1>5. \A s \in Slots : lastRead'[s] <= R
  BY <1>2, <1>4 DEF IInv, Epochs
<1>6. ASSUME NEW j \in seenRead .. R, NEW s \in Slots, lastRead'[s] >= j
      PROVE  \E i \in j .. W - 1 : s = write_pos[i].pos
  <2>1. CASE s = currentRead
    <3>1. R \in j .. W - 1
      BY <1>1, <1>2, Facts
    <3>2. QED
      BY <2>1, <3>1, <1>1
  <2>2. CASE s # currentRead
    BY <2>2, <1>4, <1>6 DEF IInv, Epochs
  <2>3. QED
    BY <2>1, <2>2
<1>7. QED
  BY <1>1, <1>2, <1>3, <1>5, <1>6 DEF IInv, Epochs

LEMMA ReadRecordInv ==
    ASSUME IInv, ReadRecord
    PROVE  IInv'
<1>1. /\ R \in R .. W - 1
      /\ records[currentRead] = pushed[R] /\ pushed[R] \in Values
  BY CurrentReadHead DEF ReadRecord
<1>2. /\ W' = W /\ R' = R /\ pcC = "copy" /\ pcC' = "publish" /\ item' = pushed[R]
      /\ UNCHANGED <<records, read_pos, popped, currentRead, peeked, seenWrite,
                     acqWrite, answerC, producerVars, producerShared>>
  BY <1>1 DEF ReadRecord, producerShared, W, R
<1>3. Epochs' /\ lastRead' \in [Slots -> Nat]
  BY <1>2, TouchEpochs DEF ReadRecord, producerShared, producerVars
<1>4. TypeOK'
  BY <1>1, <1>2, <1>3 DEF IInv, TypeOK, producerShared, producerVars
<1>5. Counts' /\ Positions' /\ Contents' /\ Released' /\ Distances'
  BY <1>2 DEF IInv, Counts, Positions, Contents, Released, Distances,
              producerShared, producerVars
<1>6. Views' /\ Locals'
  BY <1>2 DEF IInv, Views, Locals, producerShared, producerVars
<1>7. QED
  BY <1>3, <1>4, <1>5, <1>6 DEF IInv

LEMMA PeekRecordInv ==
    ASSUME IInv, PeekRecord
    PROVE  IInv'
<1>1. /\ R \in R .. W - 1
      /\ records[currentRead] = pushed[R] /\ pushed[R] \in Values
  BY CurrentReadHead DEF PeekRecord
<1>2. /\ W' = W /\ R' = R /\ pcC = "peek" /\ pcC' = "idle" /\ peeked' = pushed[R]
      /\ UNCHANGED <<records, read_pos, popped, currentRead, item, seenWrite,
                     acqWrite, answerC, producerVars, producerShared>>
  BY <1>1 DEF PeekRecord, producerShared, W, R
<1>3. Epochs' /\ lastRead' \in [Slots -> Nat]
  BY <1>2, TouchEpochs DEF PeekRecord, producerShared, producerVars
<1>4. TypeOK'
  BY <1>1, <1>2, <1>3 DEF IInv, TypeOK, producerShared, producerVars
<1>5. Counts' /\ Positions' /\ Contents' /\ Released' /\ Distances'
  BY <1>2 DEF IInv, Counts, Positions, Contents, Released, Distances,
              producerShared, producerVars
<1>6. Views'
  BY <1>2 DEF IInv, Views, producerShared, producerVars
<1>7. Locals'
  BY <1>1, <1>2, Facts DEF IInv, Locals, producerShared, producerVars
<1>8. QED
  BY <1>3, <1>4, <1>5, <1>6, <1>7 DEF IInv

LEMMA ReadPublishInv ==
    ASSUME IInv, ReadPublish
    PROVE  IInv'
<1>1. /\ W' = W /\ pcC = "publish" /\ pcC' = "idle" /\ peeked' = Unset /\ answerC' = Unset
      /\ read_pos' = StoreRelease(read_pos, Succ(currentRead))
      /\ popped' = Append(popped, item)
      /\ UNCHANGED <<records, lastRead, currentRead, item, seenWrite, acqWrite,
                     producerVars, producerShared>>
  BY DEF ReadPublish, producerShared, W
<1>2. /\ currentRead = read_pos[R].pos /\ currentRead \in Slots
      /\ item = pushed[R] /\ pushed[R] \in Values /\ R < seenWrite
  BY <1>1, CurrentReadHead DEF IInv, Locals, Views
<1>3. Succ(currentRead) \in Slots
  BY <1>2, SpscAssumption DEF Succ, Slots
<1>4. /\ read_pos' \in Seq(Stores) /\ R' = R + 1
      /\ \A j \in 1 .. R : read_pos'[j] = read_pos[j]
      /\ read_pos'[R + 1] = [pos |-> Succ(currentRead), release |-> TRUE]
  <2>1. read_pos \in Seq(Stores)
    BY DEF IInv, TypeOK
  <2>2. QED
    BY <1>1, <1>3, <2>1, StoreProperties DEF R
<1>5. /\ R \in Nat /\ W \in Nat /\ 1 <= R /\ R < W /\ W - R <= Capacity - 1
      /\ seenWrite \in R .. W /\ seenRead \in 1 .. R
  BY <1>2, Facts
<1>6. popped' \in Seq(Values) /\ Len(popped') = R
  BY <1>1, <1>2, Facts DEF IInv, TypeOK
<1>7. TypeOK'
  <2>1. seenRead \in 1 .. Len(read_pos') /\ acqRead \in 1 .. Len(read_pos')
    BY <1>4, <1>5 DEF IInv, TypeOK, R
  <2>2. QED
    BY <1>1, <1>4, <1>6, <2>1 DEF IInv, TypeOK, producerShared, producerVars
<1>8. Counts'
  BY <1>1, <1>4, <1>5, <1>6, SpscAssumption DEF IInv, Counts, producerShared
<1>9. Released'
  <2>1. \A j \in 1 .. R + 1 : read_pos'[j].release
    <3>1. ASSUME NEW j \in 1 .. R + 1 PROVE read_pos'[j].release
      <4>1. CASE j \in 1 .. R
        BY <4>1, <1>4 DEF IInv, Released
      <4>2. CASE j = R + 1
        BY <4>2, <1>4
      <4>3. QED
        BY <4>1, <4>2, <1>5
    <3>2. QED
      BY <3>1
  <2>2. QED
    BY <1>1, <1>4, <2>1 DEF IInv, Released, producerShared, producerVars
<1>10. Views'
  BY <1>1, <1>2, <1>4, <1>5 DEF IInv, Views, producerVars
<1>11. Positions'
  <2>1. ASSUME NEW j \in 1 .. R + 1, NEW k \in 1 .. W,
               j <= k, k - j <= Capacity - 1
        PROVE  write_pos[k].pos = Slot(read_pos'[j].pos, k - j)
    <3>1. CASE j \in 1 .. R
      BY <2>1, <3>1, <1>4 DEF IInv, Positions
    <3>2. CASE j = R + 1
      <4>1. /\ R \in 1 .. R /\ R <= k /\ k - R <= Capacity - 1
            /\ k - j \in 0 .. Capacity - 2 /\ (k - j) + 1 = k - R
        BY <2>1, <3>2, <1>5, SpscAssumption
      <4>2. write_pos[k].pos = Slot(currentRead, k - R)
        BY <4>1, <1>2 DEF IInv, Positions
      <4>3. Slot(Succ(currentRead), k - j) = Slot(currentRead, k - R)
        BY <4>1, <1>2, SlotStep
      <4>4. QED
        BY <3>2, <4>2, <4>3, <1>4
    <3>3. QED
      BY <3>1, <3>2, <1>5
  <2>2. QED
    BY <1>1, <1>4, <2>1 DEF Positions, producerShared
<1>12. Locals'
  BY <1>1 DEF IInv, Locals, producerVars, producerShared
<1>13. Contents'
  <2>1. (R + 1) .. W - 1 \subseteq R .. W - 1
    BY <1>5
  <2>2. QED
    BY <1>1, <1>4, <2>1 DEF IInv, Contents, producerVars, producerShared
<1>14. Epochs'
  <2>1. (R + 1) .. W - 1 \subseteq R .. W - 1
    BY <1>5
  <2>2. \A s \in Slots : lastRead[s] \in Nat /\ lastRead[s] <= R
    BY Facts DEF IInv, Epochs, TypeOK
  <2>3. ASSUME NEW j \in seenRead .. R + 1, NEW s \in Slots, lastRead[s] >= j
        PROVE  \E i \in j .. W - 1 : s = write_pos[i].pos
    <3>1. j \in seenRead .. R
      BY <2>2, <2>3, <1>5
    <3>2. QED
      BY <3>1, <2>3 DEF IInv, Epochs
  <2>4. \A s \in Slots : lastRead[s] <= R + 1
    BY <2>2, <1>5
  <2>5. QED
    BY <1>1, <1>4, <2>1, <2>3, <2>4 DEF IInv, Epochs, producerVars, producerShared
<1>15. Distances'
  BY <1>1 DEF IInv, Distances, producerVars
<1>16. QED
  BY <1>7, <1>8, <1>9, <1>10, <1>11, <1>12, <1>13, <1>14, <1>15 DEF IInv
-----------------------------------------------------------------------------
(* The invariant is inductive. *)
LEMMA NextInv == IInv /\ [Next]_vars => IInv'
<1> SUFFICES ASSUME IInv, [Next]_vars PROVE IInv'
  OBVIOUS
<1>1. ASSUME NEW v \in Values, WriteBegin(v) PROVE IInv'
  BY <1>1, WriteBeginInv
<1>2. CASE WriteFull
  BY <1>2, WriteFullInv
<1>3. CASE WriteRecord
  BY <1>3, WriteRecordInv
<1>4. CASE WritePublish
  BY <1>4, WritePublishInv
<1>5. CASE ProducerQuery
  BY <1>5, ProducerQueryInv
<1>6. ASSUME NEW pc \in {"copy", "peek"}, ReadBegin(pc) PROVE IInv'
  BY <1>6, ReadBeginInv
<1>7. CASE ReadEmpty
  BY <1>7, ReadEmptyInv
<1>8. CASE ReadRecord
  BY <1>8, ReadRecordInv
<1>9. CASE ReadPublish
  BY <1>9, ReadPublishInv
<1>10. CASE PeekRecord
  BY <1>10, PeekRecordInv
<1>11. CASE ConsumerQuery
  BY <1>11, ConsumerQueryInv
<1>12. ASSUME UNCHANGED vars PROVE IInv'
  <2>1. UNCHANGED <<records, producerVars, consumerVars, producerShared,
                    consumerShared>> /\ W' = W /\ R' = R
    BY <1>12 DEF vars, producerShared, consumerShared, W, R
  <2>2. TypeOK' /\ Counts' /\ Released' /\ Views' /\ Positions'
    BY <2>1 DEF IInv, TypeOK, Counts, Released, Views, Positions,
                producerVars, consumerVars, producerShared, consumerShared
  <2>3. Locals' /\ Contents' /\ Epochs' /\ Distances'
    BY <2>1 DEF IInv, Locals, Contents, Epochs, Distances,
                producerVars, consumerVars, producerShared, consumerShared
  <2>4. QED
    BY <2>2, <2>3 DEF IInv
<1>13. QED
  BY <1>1, <1>2, <1>3, <1>4, <1>5, <1>6, <1>7, <1>8, <1>9, <1>10, <1>11, <1>12
     DEF Next

(* The inductive invariant holds in every reachable state. *)
THEOREM Invariance == Spec => []IInv
<1>1. QED
  BY InitInv, NextInv, PTL DEF Spec

(* Every variable keeps its type: positions stay inside the ring, a thread *)
(* never remembers a store that was not made.                              *)
THEOREM TypeCorrect == Spec => []TypeOK
<1>1. IInv => TypeOK
  BY DEF IInv
<1>2. QED
  BY <1>1, Invariance, PTL

(* No plain access to q->records races with one of the other thread        *)
(* (spsc_queue.c:42, :64, :78): the release and acquire orders suffice.    *)
THEOREM RaceFreedom == Spec => []RaceFree
<1>1. IInv => RaceFree
  <2> SUFFICES ASSUME IInv PROVE RaceFree
    OBVIOUS
  <2>1. ASSUME pcP = "store" PROVE lastRead[currentWrite] < acqRead
    <3>1. /\ currentWrite \in Slots
          /\ \A i \in seenRead .. W - 1 : write_pos[i].pos # currentWrite
      BY <2>1, CurrentWriteFree
    <3>2. seenRead \in seenRead .. R /\ acqRead = seenRead /\ lastRead[currentWrite] \in Nat
      BY <3>1, Facts DEF IInv, TypeOK
    <3>3. ~(lastRead[currentWrite] >= seenRead)
      BY <3>1, <3>2 DEF IInv, Epochs
    <3>4. QED
      BY <3>2, <3>3, Facts
  <2>2. ASSUME pcC \in {"copy", "peek"} PROVE lastWrite[currentRead] < acqWrite
    BY <2>2, CurrentReadHead, Facts DEF IInv, Views
  <2>3. QED
    BY <2>1, <2>2 DEF RaceFree
<1>2. QED
  BY <1>1, Invariance, PTL

(* What is_empty, is_full and size told a thread stays true until that     *)
(* thread's own next success (qtl_queue.h:51-54).                          *)
THEOREM AnswersStand == Spec => []AnswersHold
<1>1. IInv => AnswersHold
  <2> SUFFICES ASSUME IInv PROVE AnswersHold
    OBVIOUS
  <2>1. Occupancy = W - R /\ W \in Nat /\ R \in Nat /\ R <= W
        /\ W - R <= Capacity - 1 /\ seenRead \in 1 .. R /\ seenWrite \in R .. W
    BY Facts DEF Occupancy
  <2>2. ASSUME answerP # Unset
        PROVE  /\ answerP.size >= Occupancy
               /\ answerP.empty => Occupancy = 0
               /\ ~answerP.full => Occupancy < Capacity - 1
    <3>1. /\ W - answerP.size \in 1 .. seenRead
          /\ answerP.size \in 0 .. Capacity - 1
          /\ answerP.empty <=> answerP.size = 0
          /\ answerP.full <=> answerP.size = Capacity - 1
      BY <2>2, Facts DEF IInv, Distances
    <3>2. answerP.size >= Occupancy
      BY <3>1, <2>1, SpscAssumption
    <3>3. answerP.size = 0 => Occupancy = 0
      BY <3>2, <2>1
    <3>4. answerP.size # Capacity - 1 => Occupancy < Capacity - 1
      BY <3>1, <3>2, <2>1, SpscAssumption
    <3>5. QED
      BY <3>1, <3>2, <3>3, <3>4
  <2>3. ASSUME answerC # Unset
        PROVE  /\ answerC.size <= Occupancy
               /\ ~answerC.empty => Occupancy > 0
               /\ answerC.full => Occupancy = Capacity - 1
    <3>1. /\ R + answerC.size \in 1 .. seenWrite
          /\ answerC.size \in 0 .. Capacity - 1
          /\ answerC.empty <=> answerC.size = 0
          /\ answerC.full <=> answerC.size = Capacity - 1
      BY <2>3, Facts DEF IInv, Distances
    <3>2. answerC.size <= Occupancy
      BY <3>1, <2>1, SpscAssumption
    <3>3. answerC.size # 0 => Occupancy > 0
      BY <3>1, <3>2, <2>1, SpscAssumption
    <3>4. answerC.size = Capacity - 1 => Occupancy = Capacity - 1
      BY <3>1, <3>2, <2>1, SpscAssumption
    <3>5. QED
      BY <3>1, <3>2, <3>3, <3>4
  <2>4. QED
    BY <2>2, <2>3 DEF AnswersHold
<1>2. QED
  BY <1>1, Invariance, PTL

(* A peeked item is the one the next read hands out (qtl_queue.c:125-130). *)
THEOREM PeekIsNext == Spec => []PeekAgrees
<1>1. IInv => PeekAgrees
  BY Facts DEF IInv, Locals, PeekAgrees, Occupancy
<1>2. QED
  BY <1>1, Invariance, PTL

(* No call fails once the matching query has said that it would not:       *)
(* event_tree_add and event_tree_is_empty rest on it (qtl_etree.c:58-61).  *)
THEOREM NoFalseAlarm == Spec => []NoSpuriousFailure
<1>1. IInv => NoSpuriousFailure
  <2> SUFFICES ASSUME IInv PROVE NoSpuriousFailure
    OBVIOUS
  <2>1. ASSUME answerP # Unset, ~answerP.full, NEW i \in seenRead .. Len(read_pos)
        PROVE  Succ(Last(write_pos).pos) # read_pos[i].pos
    <3>1. /\ W - answerP.size \in 1 .. seenRead
          /\ answerP.size \in 0 .. Capacity - 1 /\ answerP.size # Capacity - 1
      BY <2>1, Facts DEF IInv, Distances
    <3>2. i \in 1 .. R /\ i <= W /\ W \in 1 .. W /\ W - i \in 0 .. Capacity - 2
      BY <3>1, Facts, SpscAssumption DEF R
    <3>3. read_pos[i].pos \in Slots /\ W - i \in 0 .. Capacity - 1
          /\ W - i # Capacity - 1 /\ W - i <= Capacity - 1
      BY <3>2, Facts, SpscAssumption
    <3>4. write_pos[W].pos = Slot(read_pos[i].pos, W - i)
      BY <3>2, <3>3 DEF IInv, Positions
    <3>5. Succ(write_pos[W].pos) # read_pos[i].pos
      BY <3>3, <3>4, SlotAnswer
    <3>6. QED
      BY <3>5 DEF Last, W
  <2>2. ASSUME answerC # Unset, ~answerC.empty, NEW i \in seenWrite .. Len(write_pos)
        PROVE  Last(read_pos).pos # write_pos[i].pos
    <3>1. /\ R + answerC.size \in 1 .. seenWrite
          /\ answerC.size \in 0 .. Capacity - 1 /\ answerC.size # 0
      BY <2>2, Facts DEF IInv, Distances
    <3>2. i \in 1 .. W /\ R \in 1 .. R /\ R <= i /\ i - R \in 1 .. Capacity - 1
      <4>1. /\ R \in Nat /\ W \in Nat /\ 1 <= R /\ W - R <= Capacity - 1
            /\ seenWrite \in R .. W
        BY Facts
      <4>2. i \in seenWrite .. W
        BY DEF W
      <4>3. R < seenWrite
        BY <3>1, <4>1, SpscAssumption
      <4>4. QED
        BY <4>1, <4>2, <4>3, SpscAssumption
    <3>3. read_pos[R].pos \in Slots /\ i - R \in 0 .. Capacity - 1
          /\ i - R # 0 /\ i - R <= Capacity - 1
      BY <3>2, Facts, SpscAssumption
    <3>4. write_pos[i].pos = Slot(read_pos[R].pos, i - R)
      BY <3>2, <3>3 DEF IInv, Positions
    <3>5. read_pos[R].pos # write_pos[i].pos
      BY <3>3, <3>4, SlotAnswer
    <3>6. QED
      BY <3>5 DEF Last, R
  <2>3. QED
    BY <2>1, <2>2 DEF NoSpuriousFailure
<1>2. QED
  BY <1>1, Invariance, PTL

(* The ring implements the bounded FIFO of Capacity - 1 items: the write   *)
(* takes effect at its release store, the read at its own, and nothing is  *)
(* lost, duplicated, reordered or overwritten.                             *)
THEOREM Refinement == Spec => ImplementsFifo
<1>1. Init => Fifo!Init
  BY DEF Init, Fifo!Init
<1>2. IInv /\ [Next]_vars => [Fifo!Next]_(Fifo!vars)
  <2> SUFFICES ASSUME IInv, [Next]_vars PROVE [Fifo!Next]_(Fifo!vars)
    OBVIOUS
  <2> USE DEF Fifo!vars
  <2>1. ASSUME WritePublish PROVE Fifo!Next
    <3>1. /\ e \in Values /\ pcP # "idle" /\ popped' = popped /\ pushed' = Append(pushed, e)
      BY <2>1 DEF IInv, Locals, WritePublish, consumerShared
    <3>2. Len(pushed) - Len(popped) < Capacity - 1
      <4>1. W - seenRead < Capacity - 1
        BY <3>1 DEF IInv, Views
      <4>2. /\ W = Len(pushed) + 1 /\ R = Len(popped) + 1 /\ seenRead \in 1 .. R
            /\ W \in Nat /\ R \in Nat
        BY Facts
      <4>3. Len(pushed) \in Nat /\ Len(popped) \in Nat
        BY DEF IInv, TypeOK
      <4>4. QED
        BY <4>1, <4>2, <4>3, SpscAssumption
    <3>3. Fifo!Push(e)
      BY <3>1, <3>2 DEF Fifo!Push
    <3>4. QED
      BY <3>1, <3>3 DEF Fifo!Next
  <2>2. ASSUME ReadPublish PROVE Fifo!Next
    <3>1. /\ item = pushed[R] /\ popped' = Append(popped, item) /\ pushed' = pushed
          /\ pcC # "idle"
      BY <2>2 DEF IInv, Locals, ReadPublish, producerShared
    <3>2. Len(popped) < Len(pushed) /\ R = Len(popped) + 1
      <4>1. R \in R .. W - 1
        BY <3>1, CurrentReadHead
      <4>2. W = Len(pushed) + 1 /\ R = Len(popped) + 1 /\ R \in Nat /\ W \in Nat
        BY Facts
      <4>3. Len(pushed) \in Nat /\ Len(popped) \in Nat
        BY DEF IInv, TypeOK
      <4>4. QED
        BY <4>1, <4>2, <4>3
    <3>3. Fifo!Pop
      BY <3>1, <3>2 DEF Fifo!Pop
    <3>4. QED
      BY <3>3 DEF Fifo!Next
  <2>3. ASSUME NEW v \in Values, WriteBegin(v) PROVE UNCHANGED <<pushed, popped>>
    BY <2>3 DEF WriteBegin, producerShared, consumerShared
  <2>4. ASSUME WriteFull \/ WriteRecord \/ ProducerQuery
        PROVE  UNCHANGED <<pushed, popped>>
    BY <2>4 DEF WriteFull, WriteRecord, ProducerQuery, producerShared, consumerShared
  <2>5. ASSUME NEW pc \in {"copy", "peek"}, ReadBegin(pc)
        PROVE  UNCHANGED <<pushed, popped>>
    BY <2>5 DEF ReadBegin, producerShared, consumerShared
  <2>6. ASSUME ReadEmpty \/ ReadRecord \/ PeekRecord \/ ConsumerQuery
        PROVE  UNCHANGED <<pushed, popped>>
    BY <2>6 DEF ReadEmpty, ReadRecord, PeekRecord, ConsumerQuery,
                producerShared, consumerShared
  <2>7. ASSUME UNCHANGED vars PROVE UNCHANGED <<pushed, popped>>
    BY <2>7 DEF vars, producerShared, consumerShared
  <2>8. QED
    BY <2>1, <2>2, <2>3, <2>4, <2>5, <2>6, <2>7 DEF Next
<1>3. QED
  BY <1>1, <1>2, Invariance, PTL DEF Spec, ImplementsFifo, Fifo!Spec
=============================================================================
