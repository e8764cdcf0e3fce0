--------------------------- MODULE PipeAddProofs ---------------------------
(***************************************************************************)
(* Adds that take turns reach the pipe, each in its place, for any number  *)
(* of threads and queues and any capacity of at least two: spsc_queue is   *)
(* safe for many producers as long as each of them has synchronised with   *)
(* the one before it.                                                      *)
(*                                                                         *)
(* After a race nothing but the types holds.  Until then store k of        *)
(* write_pos is the position after k - 1 writes and store j of read_pos    *)
(* that after j - 1 reads, less than a lap apart for all that a thread may *)
(* still compare; what has to be added to the ring's own invariant is that *)
(* this stays so when the right to write is handed from thread to thread.  *)
(***************************************************************************)
EXTENDS PipeAdd, TLAPS

W == Len(write_pos)
R == Len(read_pos)

(* The slot d places after slot p. *)
Slot(p, d) == IF p + d >= Capacity THEN p + d - Capacity ELSE p + d

(* A thread inside spsc_queue_write carries a queue. *)
Carried == \A t \in Threads : pc[t] # "idle" => queue[t] \in Queues

Typed == TypeOK /\ Carried

(* One position is stored per queue; the ring never holds Capacity queues. *)
Counts ==
    /\ W = Len(added) + 1 /\ R = Len(tree) + 1
    /\ R <= W /\ W - R <= Capacity - 1

Positions ==
    \A j \in 1 .. R, k \in 1 .. W :
        j <= k /\ k - j <= Capacity - 1 => write_pos[k] = Slot(read_pos[j], k - j)

(* A thread that has synchronised knows the last write, and of the reads   *)
(* enough to tell a full ring; so does whoever it hands the ring to.       *)
Views ==
    /\ \A t \in fresh : seen[t].write = W /\ W - seen[t].read <= Capacity - 1
    /\ W - handed <= Capacity - 1
    /\ R <= seenC /\ (pcC # "idle" => R < seenC)

(* At most one thread is adding, and where the last write left off. *)
Adder ==
    \A t \in Threads :
        pc[t] # "idle" =>
            /\ t \in fresh /\ W - seen[t].read < Capacity - 1
            /\ \A u \in Threads : pc[u] # "idle" => u = t
            /\ currentWrite[t] = write_pos[W]
            /\ pc[t] = "publish" => records[currentWrite[t]] = queue[t]

(* Queue i sits in the slot its write loaded until it goes into the tree.  *)
Contents ==
    /\ \A i \in R .. W - 1 : records[write_pos[i]] = added[i]
    /\ pcC = "advance" => item = added[R]
    /\ \A i \in 1 .. R - 1 : tree[i] = added[i]

InTurn == Counts /\ Positions /\ Views /\ Adder /\ Contents

IInv == Typed /\ (~race => InTurn)
-----------------------------------------------------------------------------
(* Arithmetic of positions. *)

(* Slots are closed under Slot and Succ. *)
LEMMA SlotType ==
    ASSUME NEW p \in Slots, NEW d \in 0 .. Capacity - 1
    PROVE  Slot(p, d) \in Slots /\ Succ(p) \in Slots
BY PipeAddAssumption DEF Slot, Slots, Succ

(* One more step on the right, and one more on the left. *)
LEMMA SlotStep ==
    ASSUME NEW p \in Slots, NEW d \in 0 .. Capacity - 2
    PROVE  /\ Succ(Slot(p, d)) = Slot(p, d + 1)
           /\ Slot(Succ(p), d) = Slot(p, d + 1)
BY PipeAddAssumption DEF Slot, Slots, Succ

(* Less than a lap apart, different distances are different slots. *)
LEMMA SlotDistinct ==
    ASSUME NEW p \in Slots, NEW c \in 0 .. Capacity - 1,
           NEW d \in 0 .. Capacity - 1, c # d
    PROVE  Slot(p, c) # Slot(p, d)
BY PipeAddAssumption DEF Slot, Slots

(* Both comparisons of the positions tell the distance. *)
LEMMA SlotCompare ==
    ASSUME NEW p \in Slots, NEW d \in 0 .. Capacity - 1
    PROVE  /\ p = Slot(p, d) <=> d = 0
           /\ Succ(Slot(p, d)) = p <=> d = Capacity - 1
BY PipeAddAssumption DEF Slot, Slots, Succ

(* The slots of a ring are numbered modulo its capacity. *)
LEMMA SlotModulo ==
    ASSUME NEW p \in Slots, NEW d \in 0 .. Capacity - 1
    PROVE  Slot(p, d) = (p + d) % Capacity
<1>1. p \in Nat /\ d \in Nat /\ p + d < 2 * Capacity
  BY PipeAddAssumption DEF Slots
<1>2. CASE p + d < Capacity
  BY <1>1, <1>2, PipeAddAssumption DEF Slot
<1>3. CASE p + d >= Capacity
  BY <1>1, <1>3, PipeAddAssumption DEF Slot
<1> QED BY <1>1, <1>2, <1>3, PipeAddAssumption

(* The newer of two stores. *)
LEMMA MaxOfTwo ==
    ASSUME NEW a \in Nat, NEW b \in Nat
    PROVE  Max({a, b}) \in {a, b} /\ a <= Max({a, b}) /\ b <= Max({a, b})
<1>1. \E x \in {a, b} : \A y \in {a, b} : x >= y
  OBVIOUS
<1> QED BY <1>1 DEF Max

(* A store is appended to its position's stores. *)
LEMMA StoreProperties ==
    ASSUME NEW S, NEW log \in Seq(S), NEW x \in S
    PROVE  /\ Append(log, x) \in Seq(S) /\ Len(log) \in Nat
           /\ Len(Append(log, x)) = Len(log) + 1
           /\ \A k \in 1 .. Len(log) : Append(log, x)[k] = log[k]
           /\ Append(log, x)[Len(log) + 1] = x
OBVIOUS

(* What the types say of the positions. *)
LEMMA TypeFacts ==
    ASSUME Typed
    PROVE  /\ W \in Nat /\ R \in Nat /\ 1 <= W /\ 1 <= R
           /\ \A k \in 1 .. W : write_pos[k] \in Slots
           /\ \A j \in 1 .. R : read_pos[j] \in Slots
           /\ Last(write_pos) = write_pos[W] /\ Last(write_pos) \in Slots
           /\ Last(read_pos) = read_pos[R] /\ Last(read_pos) \in Slots
           /\ \A t \in Threads : seen[t].write \in 1 .. W /\ seen[t].read \in 1 .. R
           /\ handed \in 1 .. R /\ seenC \in 1 .. W
<1>1. W \in Nat /\ R \in Nat /\ 1 <= W /\ 1 <= R /\ handed \in 1 .. R /\ seenC \in 1 .. W
  BY DEF Typed, TypeOK, W, R
<1>2. /\ \A k \in 1 .. W : write_pos[k] \in Slots
      /\ \A j \in 1 .. R : read_pos[j] \in Slots
  BY DEF Typed, TypeOK, W, R
<1>3. \A t \in Threads : seen[t].write \in 1 .. W /\ seen[t].read \in 1 .. R
  BY DEF Typed, TypeOK, W, R
<1> QED BY <1>1, <1>2, <1>3 DEF Last, W, R

(* Less than a lap after a store to read_pos. *)
LEMMA Distance ==
    ASSUME Typed, Positions, NEW j \in 1 .. R, NEW k \in 1 .. W, j <= k, k - j <= Capacity - 1
    PROVE  /\ k - j \in 0 .. Capacity - 1
           /\ write_pos[k] = Slot(read_pos[j], k - j)
           /\ read_pos[j] \in Slots /\ write_pos[k] \in Slots
<1>1. k - j \in 0 .. Capacity - 1
  BY TypeFacts, PipeAddAssumption
<1> QED BY <1>1, TypeFacts DEF Positions
-----------------------------------------------------------------------------
(* The types. *)

LEMMA InitTyped == Init => Typed
<1> SUFFICES ASSUME Init PROVE Typed
  OBVIOUS
<1>1. 0 \in Slots
  BY PipeAddAssumption DEF Slots
<1>2. write_pos \in Seq(Slots) /\ read_pos \in Seq(Slots) /\ Len(write_pos) = 1 /\ Len(read_pos) = 1
  BY <1>1 DEF Init
<1>3. seen \in [Threads -> [write : 1 .. Len(write_pos), read : 1 .. Len(read_pos)]]
  BY <1>2 DEF Init
<1>4. tree \in Seq(Queues \cup {Unset}) /\ added \in Seq(Queues)
  BY DEF Init
<1>5. handed \in 1 .. Len(read_pos) /\ seenC \in 1 .. Len(write_pos)
  BY <1>2 DEF Init
<1>6. /\ records \in [Slots -> Queues \cup {Unset}]
      /\ pc \in [Threads -> {"idle", "store", "publish"}]
      /\ queue \in [Threads -> Queues \cup {Unset}] /\ currentWrite \in [Threads -> Slots]
      /\ fresh \subseteq Threads /\ pcC \in {"idle", "copy", "advance"}
      /\ item \in Queues \cup {Unset} /\ dropped \subseteq Queues /\ race \in BOOLEAN
  BY <1>1 DEF Init
<1>7. Carried
  BY DEF Init, Carried
<1> QED BY <1>2, <1>3, <1>4, <1>5, <1>6, <1>7 DEF Typed, TypeOK

(* A load only moves the thread's view forward. *)
LEMMA LoadView ==
    ASSUME Typed, NEW t \in Threads, NEW q \in Queues, NEW i, NEW j, Load(t, q, i, j)
    PROVE  /\ i \in 1 .. W /\ j \in 1 .. R /\ seen[t].write <= i /\ seen[t].read <= j
           /\ pc[t] = "idle" /\ race' = (race \/ Races(t)) /\ (Races(t) => race')
           /\ seen' = [seen EXCEPT ![t] = [write |-> i, read |-> j]]
           /\ seen' \in [Threads -> [write : 1 .. W, read : 1 .. R]]
<1>1. i \in seen[t].write .. W /\ j \in seen[t].read .. R
  BY DEF Load, W, R
<1>2. i \in 1 .. W /\ j \in 1 .. R /\ seen[t].write <= i /\ seen[t].read <= j
  BY <1>1, TypeFacts
<1>3. seen' = [seen EXCEPT ![t] = [write |-> i, read |-> j]]
  BY DEF Load
<1>4. seen' \in [Threads -> [write : 1 .. W, read : 1 .. R]]
  BY <1>2, <1>3 DEF Typed, TypeOK, W, R
<1> QED BY <1>2, <1>3, <1>4 DEF Load

LEMMA SynchroniseTyped ==
    ASSUME Typed, NEW t \in Threads, Synchronise(t)
    PROVE  /\ Typed' /\ W' = W /\ R' = R
           /\ seen' = [seen EXCEPT ![t] = [write |-> W, read |-> Max({seen[t].read, handed})]]
           /\ Max({seen[t].read, handed}) \in 1 .. R /\ handed <= Max({seen[t].read, handed})
<1>1. Max({seen[t].read, handed}) \in 1 .. R /\ handed <= Max({seen[t].read, handed})
  <2>1. seen[t].read \in 1 .. R /\ handed \in 1 .. R /\ R \in Nat
    BY TypeFacts
  <2>2. seen[t].read \in Nat /\ handed \in Nat
    BY <2>1
  <2> QED BY <2>1, <2>2, MaxOfTwo
<1>2. /\ seen' = [seen EXCEPT ![t] = [write |-> W, read |-> Max({seen[t].read, handed})]]
      /\ W' = W /\ R' = R
  BY DEF Synchronise, W, R
<1>3. seen' \in [Threads -> [write : 1 .. W, read : 1 .. R]]
  <2>1. W \in 1 .. W
    BY TypeFacts
  <2> QED BY <1>1, <1>2, <2>1 DEF Typed, TypeOK, W, R
<1>4. Typed'
  BY <1>2, <1>3 DEF Synchronise, Typed, TypeOK, Carried, pipeVars, W, R
<1> QED BY <1>1, <1>2, <1>4

LEMMA AddBeginTyped ==
    ASSUME Typed, NEW t \in Threads, NEW q \in Queues, AddBegin(t, q)
    PROVE  Typed'
<1>1. PICK i \in 1 .. W, j \in 1 .. R :
         /\ Load(t, q, i, j)
         /\ currentWrite' = [currentWrite EXCEPT ![t] = write_pos[i]]
  BY DEF AddBegin, W, R
<1>2. /\ seen' \in [Threads -> [write : 1 .. W, read : 1 .. R]]
      /\ race' = (race \/ Races(t))
  BY <1>1, LoadView
<1>3. currentWrite' \in [Threads -> Slots]
  BY <1>1, TypeFacts DEF Typed, TypeOK
<1>4. race' \in BOOLEAN
  BY <1>2
<1>5. pc' = [pc EXCEPT ![t] = "store"] /\ queue' = [queue EXCEPT ![t] = q]
      /\ UNCHANGED <<records, write_pos, read_pos, fresh, handed, pipeVars, added, dropped>>
  BY DEF AddBegin
<1>6. Carried'
  BY <1>5 DEF Typed, TypeOK, Carried
<1> QED BY <1>2, <1>3, <1>4, <1>5, <1>6 DEF Typed, TypeOK, pipeVars, W, R

LEMMA AddFullTyped ==
    ASSUME Typed, NEW t \in Threads, NEW q \in Queues, AddFull(t, q)
    PROVE  Typed'
<1>1. PICK i \in 1 .. W, j \in 1 .. R : Load(t, q, i, j)
  BY DEF AddFull, W, R
<1>2. /\ seen' \in [Threads -> [write : 1 .. W, read : 1 .. R]]
      /\ race' = (race \/ Races(t))
  BY <1>1, LoadView
<1>3. race' \in BOOLEAN
  BY <1>2
<1> QED BY <1>2, <1>3 DEF AddFull, Typed, TypeOK, Carried, pipeVars, W, R

LEMMA AddRecordTyped ==
    ASSUME Typed, NEW t \in Threads, AddRecord(t)
    PROVE  Typed'
BY DEF AddRecord, Typed, TypeOK, Carried, pipeVars

LEMMA AddPublishTyped ==
    ASSUME Typed, NEW t \in Threads, AddPublish(t)
    PROVE  /\ Typed' /\ queue[t] \in Queues /\ currentWrite[t] \in Slots
           /\ W' = W + 1 /\ R' = R
           /\ \A k \in 1 .. W : write_pos'[k] = write_pos[k]
           /\ write_pos'[W + 1] = Succ(currentWrite[t])
           /\ seen' = [seen EXCEPT ![t].write = W + 1]
<1>1. queue[t] \in Queues /\ currentWrite[t] \in Slots
  BY DEF AddPublish, Typed, TypeOK, Carried
<1>2. Succ(currentWrite[t]) \in Slots
  BY <1>1, PipeAddAssumption DEF Succ, Slots
<1>3. /\ write_pos' \in Seq(Slots) /\ Len(write_pos') = W + 1
      /\ \A k \in 1 .. W : write_pos'[k] = write_pos[k]
      /\ write_pos'[W + 1] = Succ(currentWrite[t])
  BY <1>2, StoreProperties DEF AddPublish, Typed, TypeOK, W
<1>4. added' \in Seq(Queues)
  BY <1>1, StoreProperties DEF AddPublish, Typed, TypeOK
<1>5. seen' = [seen EXCEPT ![t].write = W + 1]
  BY <1>3 DEF AddPublish
<1>6. seen' \in [Threads -> [write : 1 .. W + 1, read : 1 .. R]]
  <2>1. seen \in [Threads -> [write : 1 .. W, read : 1 .. R]] /\ W \in Nat
    BY TypeFacts DEF Typed, TypeOK, W, R
  <2>2. seen \in [Threads -> [write : 1 .. W + 1, read : 1 .. R]] /\ W + 1 \in 1 .. W + 1
    BY <2>1
  <2> QED BY <1>5, <2>2
<1>7. handed' \in 1 .. R /\ seenC' \in 1 .. W + 1
  BY TypeFacts DEF AddPublish, pipeVars
<1>8. Carried'
  BY DEF AddPublish, Typed, TypeOK, Carried
<1>9. Typed'
  BY <1>1, <1>3, <1>4, <1>6, <1>7, <1>8 DEF AddPublish, Typed, TypeOK, pipeVars, R
<1> QED BY <1>1, <1>3, <1>5, <1>9 DEF W, R, AddPublish

LEMMA LookTyped ==
    ASSUME Typed, NEW i \in 1 .. Len(write_pos), Look(i) \/ LookEmpty(i)
    PROVE  Typed'
BY DEF Look, LookEmpty, Typed, TypeOK, Carried, adderVars

LEMMA CopyTyped ==
    ASSUME Typed, Copy
    PROVE  Typed'
<1>1. records[Last(read_pos)] \in Queues \cup {Unset}
  BY TypeFacts DEF Typed, TypeOK
<1> QED BY <1>1 DEF Copy, Typed, TypeOK, Carried, adderVars

LEMMA AdvanceTyped ==
    ASSUME Typed, Advance
    PROVE  /\ Typed' /\ W' = W /\ R' = R + 1
           /\ \A j \in 1 .. R : read_pos'[j] = read_pos[j]
           /\ read_pos'[R + 1] = Succ(read_pos[R])
<1>1. Last(read_pos) = read_pos[R] /\ read_pos[R] \in Slots
  BY TypeFacts
<1>2. Succ(read_pos[R]) \in Slots
  BY <1>1, PipeAddAssumption DEF Succ, Slots
<1>3. /\ read_pos' \in Seq(Slots) /\ Len(read_pos') = R + 1
      /\ \A j \in 1 .. R : read_pos'[j] = read_pos[j]
      /\ read_pos'[R + 1] = Succ(read_pos[R])
  BY <1>1, <1>2, StoreProperties DEF Advance, Typed, TypeOK, R
<1>4. tree' \in Seq(Queues \cup {Unset})
  BY StoreProperties DEF Advance, Typed, TypeOK
<1>5. seen' \in [Threads -> [write : 1 .. W, read : 1 .. R + 1]]
  <2>1. seen \in [Threads -> [write : 1 .. W, read : 1 .. R]] /\ R \in Nat
    BY TypeFacts DEF Typed, TypeOK, W, R
  <2>2. seen \in [Threads -> [write : 1 .. W, read : 1 .. R + 1]]
    BY <2>1
  <2> QED BY <2>2 DEF Advance, adderVars
<1>6. handed' \in 1 .. R + 1
  BY TypeFacts DEF Advance, adderVars
<1>7. Typed'
  BY <1>3, <1>4, <1>5, <1>6 DEF Advance, Typed, TypeOK, Carried, adderVars, W
<1> QED BY <1>3, <1>7 DEF W, R, Advance
-----------------------------------------------------------------------------
(* As long as the adds take turns. *)

LEMMA InitInTurn == Init => InTurn
<1> SUFFICES ASSUME Init PROVE InTurn
  OBVIOUS
<1>1. W = 1 /\ R = 1 /\ write_pos[1] = 0 /\ read_pos[1] = 0
  BY DEF Init, W, R
<1>2. Counts /\ Views /\ Adder
  BY <1>1, PipeAddAssumption DEF Init, Counts, Views, Adder
<1>3. Positions
  BY <1>1, PipeAddAssumption DEF Positions, Slot
<1>4. Contents
  BY <1>1 DEF Init, Contents
<1> QED BY <1>2, <1>3, <1>4 DEF InTurn

LEMMA SynchroniseInTurn ==
    ASSUME Typed, InTurn, NEW t \in Threads, Synchronise(t)
    PROVE  InTurn'
<1> DEFINE newest == Max({seen[t].read, handed})
<1>1. /\ W' = W /\ R' = R /\ newest \in 1 .. R /\ handed <= newest
      /\ seen' = [seen EXCEPT ![t] = [write |-> W, read |-> newest]]
  BY SynchroniseTyped
<1>2. /\ pc[t] = "idle" /\ t \notin fresh /\ fresh' = fresh \cup {t}
      /\ UNCHANGED <<records, write_pos, read_pos, pc, queue, currentWrite, handed, pipeVars,
                     added, dropped, race>>
  BY DEF Synchronise
<1>3. /\ seen'[t] = [write |-> W, read |-> newest]
      /\ \A u \in Threads : u # t => seen'[u] = seen[u]
      /\ t \in Threads /\ fresh \subseteq Threads
  BY <1>1 DEF Typed, TypeOK
<1>4. W - newest <= Capacity - 1
  <2>1. W - handed <= Capacity - 1
    BY DEF InTurn, Views
  <2> QED BY <1>1, <2>1, TypeFacts, PipeAddAssumption
<1> HIDE DEF newest
<1>5. Counts' /\ Positions' /\ Contents'
  BY <1>1, <1>2 DEF InTurn, Counts, Positions, Contents, pipeVars
<1>6. Views'
  <2>1. ASSUME NEW u \in fresh' PROVE seen'[u].write = W /\ W - seen'[u].read <= Capacity - 1
    BY <1>2, <1>3, <1>4 DEF InTurn, Views
  <2> QED BY <1>1, <1>2, <2>1 DEF InTurn, Views, pipeVars
<1>7. Adder'
  BY <1>1, <1>2, <1>3 DEF InTurn, Adder
<1> QED BY <1>5, <1>6, <1>7 DEF InTurn

(* A load that does not race finds the last write, less than a lap ahead.  *)
LEMMA LoadInTurn ==
    ASSUME Typed, InTurn, NEW t \in Threads, NEW q \in Queues, NEW i \in 1 .. W, NEW j \in 1 .. R,
           Load(t, q, i, j), ~race'
    PROVE  /\ t \in fresh /\ i = W /\ j <= W /\ W - j <= Capacity - 1
           /\ \A u \in Threads : pc[u] = "idle"
           /\ HasRoom(read_pos[j], write_pos[i]) <=> W - j < Capacity - 1
           /\ seen' = [seen EXCEPT ![t] = [write |-> W, read |-> j]]
<1>1. ~Races(t) /\ pc[t] = "idle" /\ seen[t].write <= i /\ seen[t].read <= j
      /\ seen' = [seen EXCEPT ![t] = [write |-> i, read |-> j]]
  BY LoadView
<1>2. t \in fresh /\ \A u \in Threads : pc[u] = "idle"
  BY <1>1 DEF Races
<1>3. seen[t].write = W /\ W - seen[t].read <= Capacity - 1 /\ R <= W
  BY <1>2 DEF InTurn, Views, Counts
<1>4. i = W /\ j <= W /\ W - j <= Capacity - 1 /\ W \in 1 .. W
  BY <1>1, <1>3, TypeFacts, PipeAddAssumption
<1>5. HasRoom(read_pos[j], write_pos[i]) <=> W - j < Capacity - 1
  <2>1. /\ W - j \in 0 .. Capacity - 1 /\ write_pos[W] = Slot(read_pos[j], W - j)
        /\ read_pos[j] \in Slots
    BY <1>4, Distance DEF InTurn
  <2>2. Succ(write_pos[W]) = read_pos[j] <=> W - j = Capacity - 1
    BY <2>1, SlotCompare
  <2>3. HasRoom(read_pos[j], write_pos[W]) <=> Succ(write_pos[W]) # read_pos[j]
    BY DEF HasRoom
  <2> QED BY <1>4, <2>1, <2>2, <2>3, PipeAddAssumption
<1> QED BY <1>1, <1>2, <1>4, <1>5

(* A longer view of the positions leaves everything else. *)
LEMMA LoadViews ==
    ASSUME Typed, InTurn, NEW t \in Threads, NEW j \in 1 .. R, W - j <= Capacity - 1,
           seen' = [seen EXCEPT ![t] = [write |-> W, read |-> j]],
           UNCHANGED <<records, write_pos, read_pos, fresh, handed, pipeVars, added>>
    PROVE  /\ Counts' /\ Positions' /\ Contents' /\ Views' /\ W' = W
           /\ seen'[t].read = j
<1>1. W' = W /\ R' = R
  BY DEF W, R
<1>2. /\ seen'[t] = [write |-> W, read |-> j]
      /\ \A u \in Threads : u # t => seen'[u] = seen[u]
      /\ fresh \subseteq Threads
  BY DEF Typed, TypeOK
<1>3. Counts' /\ Positions' /\ Contents'
  BY <1>1 DEF InTurn, Counts, Positions, Contents, pipeVars
<1>4. Views'
  <2>1. ASSUME NEW u \in fresh PROVE seen'[u].write = W /\ W - seen'[u].read <= Capacity - 1
    BY <1>2 DEF InTurn, Views
  <2> QED BY <1>1, <2>1 DEF InTurn, Views, pipeVars
<1> QED BY <1>1, <1>2, <1>3, <1>4

LEMMA AddBeginInTurn ==
    ASSUME Typed, InTurn, NEW t \in Threads, NEW q \in Queues, AddBegin(t, q), ~race'
    PROVE  InTurn'
<1>1. PICK i \in 1 .. W, j \in 1 .. R :
         /\ Load(t, q, i, j)
         /\ HasRoom(read_pos[j], write_pos[i])
         /\ currentWrite' = [currentWrite EXCEPT ![t] = write_pos[i]]
  BY DEF AddBegin, W, R
<1>2. /\ t \in fresh /\ i = W /\ W - j <= Capacity - 1 /\ W - j < Capacity - 1
      /\ \A u \in Threads : pc[u] = "idle"
      /\ seen' = [seen EXCEPT ![t] = [write |-> W, read |-> j]]
  BY <1>1, LoadInTurn
<1>3. /\ pc' = [pc EXCEPT ![t] = "store"] /\ queue' = [queue EXCEPT ![t] = q]
      /\ UNCHANGED <<records, write_pos, read_pos, fresh, handed, pipeVars, added, dropped>>
  BY DEF AddBegin
<1>4. Counts' /\ Positions' /\ Contents' /\ Views' /\ W' = W /\ seen'[t].read = j
  BY <1>2, <1>3, LoadViews
<1>5. currentWrite'[t] = write_pos[W] /\ pc'[t] = "store"
      /\ \A u \in Threads : u # t => pc'[u] = "idle"
  BY <1>1, <1>2, <1>3 DEF Typed, TypeOK
<1>6. Adder'
  BY <1>2, <1>3, <1>4, <1>5 DEF Adder
<1> QED BY <1>4, <1>6 DEF InTurn

LEMMA AddFullInTurn ==
    ASSUME Typed, InTurn, NEW t \in Threads, NEW q \in Queues, AddFull(t, q), ~race'
    PROVE  InTurn'
<1>1. PICK i \in 1 .. W, j \in 1 .. R : Load(t, q, i, j)
  BY DEF AddFull, W, R
<1>2. /\ t \in fresh /\ W - j <= Capacity - 1 /\ \A u \in Threads : pc[u] = "idle"
      /\ seen' = [seen EXCEPT ![t] = [write |-> W, read |-> j]]
  BY <1>1, LoadInTurn
<1>3. UNCHANGED <<records, write_pos, read_pos, pc, queue, currentWrite, fresh, handed,
                  pipeVars, added>>
  BY DEF AddFull
<1>4. Counts' /\ Positions' /\ Contents' /\ Views'
  BY <1>2, <1>3, LoadViews
<1>5. Adder'
  BY <1>2, <1>3 DEF Adder
<1> QED BY <1>4, <1>5 DEF InTurn

(* The slot that is written holds no queue that is yet to be read. *)
LEMMA CurrentWriteFree ==
    ASSUME Typed, InTurn, NEW i \in R .. W - 1
    PROVE  write_pos[i] # write_pos[W] /\ write_pos[i] \in Slots
<1>1. /\ R \in 1 .. R /\ i \in 1 .. W /\ W \in 1 .. W /\ R <= i /\ R <= W
      /\ i - R <= Capacity - 1 /\ W - R <= Capacity - 1 /\ i - R # W - R
  BY TypeFacts, PipeAddAssumption DEF InTurn, Counts
<1>2. /\ i - R \in 0 .. Capacity - 1 /\ write_pos[i] = Slot(read_pos[R], i - R)
      /\ W - R \in 0 .. Capacity - 1 /\ write_pos[W] = Slot(read_pos[R], W - R)
      /\ read_pos[R] \in Slots /\ write_pos[i] \in Slots
  BY <1>1, Distance DEF InTurn
<1> QED BY <1>1, <1>2, SlotDistinct

LEMMA AddRecordInTurn ==
    ASSUME Typed, InTurn, NEW t \in Threads, AddRecord(t)
    PROVE  InTurn'
<1>1. /\ pc[t] = "store" /\ pc' = [pc EXCEPT ![t] = "publish"]
      /\ records' = [records EXCEPT ![currentWrite[t]] = queue[t]] /\ W' = W /\ R' = R
      /\ UNCHANGED <<write_pos, read_pos, queue, currentWrite, seen, fresh, handed, pipeVars,
                     added, dropped, race>>
  BY DEF AddRecord, W, R
<1>2. currentWrite[t] = write_pos[W] /\ currentWrite[t] \in Slots
      /\ \A u \in Threads : pc[u] # "idle" => u = t
  BY <1>1 DEF InTurn, Adder, Typed, TypeOK
<1>3. records'[currentWrite[t]] = queue[t]
      /\ \A i \in R .. W - 1 : records'[write_pos[i]] = records[write_pos[i]]
  BY <1>1, <1>2, CurrentWriteFree DEF Typed, TypeOK
<1>4. \A u \in Threads : pc'[u] # "idle" => u = t
  BY <1>1, <1>2 DEF Typed, TypeOK
<1>5. Counts' /\ Positions' /\ Views'
  BY <1>1 DEF InTurn, Counts, Positions, Views, pipeVars
<1>6. Contents'
  BY <1>1, <1>3 DEF InTurn, Contents, pipeVars
<1>7. Adder'
  <2>1. t \in fresh /\ W - seen[t].read < Capacity - 1
    BY <1>1 DEF InTurn, Adder
  <2> QED BY <1>1, <1>2, <1>3, <1>4, <2>1 DEF Adder
<1> QED BY <1>5, <1>6, <1>7 DEF InTurn

LEMMA AddPublishInTurn ==
    ASSUME Typed, InTurn, NEW t \in Threads, AddPublish(t)
    PROVE  InTurn'
<1>1. /\ queue[t] \in Queues /\ currentWrite[t] \in Slots /\ W' = W + 1 /\ R' = R
      /\ \A k \in 1 .. W : write_pos'[k] = write_pos[k]
      /\ write_pos'[W + 1] = Succ(currentWrite[t])
      /\ seen' = [seen EXCEPT ![t].write = W + 1]
  BY AddPublishTyped
<1>2. /\ pc[t] = "publish" /\ pc' = [pc EXCEPT ![t] = "idle"]
      /\ fresh' = {t} /\ handed' = seen[t].read /\ added' = Append(added, queue[t])
      /\ UNCHANGED <<records, read_pos, currentWrite, pipeVars, dropped, race>>
  BY DEF AddPublish
<1>3. /\ currentWrite[t] = write_pos[W] /\ records[write_pos[W]] = queue[t]
      /\ W - seen[t].read < Capacity - 1
      /\ \A u \in Threads : pc[u] # "idle" => u = t
  BY <1>2 DEF InTurn, Adder
<1>4. /\ W \in Nat /\ R \in Nat /\ 1 <= W /\ 1 <= R /\ R <= W /\ W - R <= Capacity - 1
      /\ seen[t].read \in 1 .. R /\ W = Len(added) + 1
  BY TypeFacts DEF InTurn, Counts
<1>5. /\ Len(added') = W /\ added'[W] = queue[t]
      /\ \A i \in 1 .. W - 1 : added'[i] = added[i]
  BY <1>1, <1>2, <1>4, StoreProperties DEF Typed, TypeOK
<1>6. Counts'
  BY <1>1, <1>2, <1>3, <1>4, <1>5, PipeAddAssumption DEF InTurn, Counts, pipeVars
<1>7. Positions'
  <2>1. ASSUME NEW j \in 1 .. R, NEW k \in 1 .. W + 1, j <= k, k - j <= Capacity - 1
        PROVE  write_pos'[k] = Slot(read_pos[j], k - j)
    <3>1. CASE k \in 1 .. W
      BY <1>1, <2>1, <3>1, Distance DEF InTurn
    <3>2. CASE k = W + 1
      <4>1. /\ j <= W /\ W \in 1 .. W /\ W - j <= Capacity - 1
            /\ W - j \in 0 .. Capacity - 2 /\ (W - j) + 1 = k - j
        BY <1>4, <2>1, <3>2, PipeAddAssumption
      <4>2. read_pos[j] \in Slots /\ write_pos[W] = Slot(read_pos[j], W - j)
        BY <4>1, Distance DEF InTurn
      <4> QED BY <1>1, <1>3, <3>2, <4>1, <4>2, SlotStep
    <3> QED BY <1>4, <3>1, <3>2
  <2> QED BY <1>1, <1>2, <2>1 DEF Positions
<1>8. Views'
  <2>1. seen'[t].write = W + 1 /\ seen'[t].read = seen[t].read
    BY <1>1, <1>4 DEF Typed, TypeOK
  <2>2. (W + 1) - seen[t].read <= Capacity - 1
    BY <1>3, <1>4, PipeAddAssumption
  <2>3. /\ \A u \in fresh' : seen'[u].write = W' /\ W' - seen'[u].read <= Capacity - 1
        /\ W' - handed' <= Capacity - 1
    BY <1>1, <1>2, <2>1, <2>2
  <2>4. R' <= seenC' /\ (pcC' # "idle" => R' < seenC')
    BY <1>1, <1>2 DEF InTurn, Views, pipeVars
  <2> QED BY <2>3, <2>4 DEF Views
<1>9. Adder'
  BY <1>2, <1>3 DEF Adder, Typed, TypeOK
<1>10. Contents'
  <2>1. ASSUME NEW i \in R .. W PROVE records[write_pos'[i]] = added'[i]
    <3>1. CASE i = W
      <4>1. write_pos'[W] = write_pos[W]
        BY <1>1, <1>4
      <4> QED BY <1>3, <1>5, <3>1, <4>1
    <3>2. CASE i \in R .. W - 1
      BY <1>1, <1>4, <1>5, <3>2 DEF InTurn, Contents
    <3> QED BY <1>4, <3>1, <3>2
  <2>2. pcC = "advance" => item = added'[R]
    BY <1>4, <1>5, TypeFacts DEF InTurn, Contents, Views
  <2>3. \A i \in 1 .. R - 1 : tree[i] = added'[i]
    BY <1>4, <1>5 DEF InTurn, Contents
  <2> QED BY <1>1, <1>2, <1>4, <2>1, <2>2, <2>3 DEF Contents, pipeVars
<1> QED BY <1>6, <1>7, <1>8, <1>9, <1>10 DEF InTurn

(* What the pipe's thread sees of write_pos lies ahead of it. *)
LEMMA LookAhead ==
    ASSUME Typed, InTurn, NEW i \in seenC .. Len(write_pos)
    PROVE  /\ i \in 1 .. W /\ R <= i
           /\ Last(read_pos) = write_pos[i] <=> i = R
<1>1. i \in 1 .. W /\ R \in 1 .. R /\ R <= i /\ i - R <= Capacity - 1
  BY TypeFacts, PipeAddAssumption DEF InTurn, Views, Counts, W
<1>2. /\ i - R \in 0 .. Capacity - 1 /\ write_pos[i] = Slot(read_pos[R], i - R)
      /\ read_pos[R] \in Slots
  BY <1>1, Distance DEF InTurn
<1>3. read_pos[R] = write_pos[i] <=> i - R = 0
  BY <1>2, SlotCompare
<1> QED BY <1>1, <1>3, TypeFacts

LEMMA LookInTurn ==
    ASSUME Typed, InTurn, NEW i \in 1 .. Len(write_pos), Look(i) \/ LookEmpty(i)
    PROVE  InTurn'
<1>1. /\ i \in seenC .. Len(write_pos) /\ seenC' = i /\ W' = W /\ R' = R /\ pcC = "idle"
      /\ UNCHANGED <<records, write_pos, read_pos, adderVars, item, tree, added>>
      /\ \/ pcC' = "copy" /\ Last(read_pos) # write_pos[i]
         \/ pcC' = "idle"
  BY DEF Look, LookEmpty, NonEmpty, W, R
<1>2. i \in 1 .. W /\ R <= i /\ (Last(read_pos) = write_pos[i] <=> i = R)
  BY <1>1, LookAhead
<1>3. Views'
  BY <1>1, <1>2, TypeFacts DEF InTurn, Views, adderVars
<1>4. Counts' /\ Positions' /\ Adder' /\ Contents'
  BY <1>1 DEF InTurn, Counts, Positions, Adder, Contents, adderVars
<1> QED BY <1>3, <1>4 DEF InTurn

(* While the pipe's thread reads, its record is the oldest in the ring. *)
LEMMA CurrentReadHead ==
    ASSUME Typed, InTurn, pcC # "idle"
    PROVE  R \in R .. W - 1 /\ Last(read_pos) = write_pos[R] /\ added[R] = records[write_pos[R]]
<1>1. R \in 1 .. R /\ R < W /\ R \in 1 .. W /\ R <= R /\ R - R <= Capacity - 1
      /\ R \in R .. W - 1
  BY TypeFacts, PipeAddAssumption DEF InTurn, Views
<1>2. R - R \in 0 .. Capacity - 1 /\ write_pos[R] = Slot(read_pos[R], R - R)
      /\ read_pos[R] \in Slots
  BY <1>1, Distance DEF InTurn
<1>3. read_pos[R] = write_pos[R]
  BY <1>1, <1>2, SlotCompare
<1> QED BY <1>1, <1>3, TypeFacts DEF InTurn, Contents

LEMMA CopyInTurn ==
    ASSUME Typed, InTurn, Copy
    PROVE  InTurn'
<1>1. /\ pcC = "copy" /\ item' = records[Last(read_pos)] /\ pcC' = "advance" /\ W' = W /\ R' = R
      /\ UNCHANGED <<records, write_pos, read_pos, adderVars, seenC, tree, added>>
  BY DEF Copy, W, R
<1>2. item' = added[R]
  BY <1>1, CurrentReadHead
<1>3. Counts' /\ Positions' /\ Adder' /\ Views'
  BY <1>1 DEF InTurn, Counts, Positions, Adder, Views, adderVars
<1>4. Contents'
  BY <1>1, <1>2 DEF InTurn, Contents
<1> QED BY <1>3, <1>4 DEF InTurn

LEMMA AdvanceInTurn ==
    ASSUME Typed, InTurn, Advance
    PROVE  InTurn'
<1>1. /\ W' = W /\ R' = R + 1
      /\ \A j \in 1 .. R : read_pos'[j] = read_pos[j]
      /\ read_pos'[R + 1] = Succ(read_pos[R])
  BY AdvanceTyped
<1>2. /\ pcC = "advance" /\ pcC' = "idle" /\ tree' = Append(tree, item)
      /\ UNCHANGED <<records, write_pos, adderVars, seenC, added>>
  BY DEF Advance
<1>3. /\ R < seenC /\ item = added[R] /\ R = Len(tree) + 1 /\ W = Len(added) + 1
      /\ W - R <= Capacity - 1
  BY <1>2 DEF InTurn, Views, Contents, Counts
<1>4. /\ R \in Nat /\ W \in Nat /\ 1 <= R /\ R < W /\ seenC \in 1 .. W
      /\ R \in 1 .. R /\ read_pos[R] \in Slots
      /\ \A t \in Threads : seen[t].read \in 1 .. R
  BY <1>3, TypeFacts
<1>5. /\ Len(tree') = R /\ tree'[R] = added[R]
      /\ \A i \in 1 .. R - 1 : tree'[i] = added[i]
  BY <1>2, <1>3, StoreProperties DEF Typed, TypeOK, InTurn, Contents
<1>6. Counts'
  BY <1>1, <1>2, <1>3, <1>4, <1>5, PipeAddAssumption DEF Counts
<1>7. Positions'
  <2>1. ASSUME NEW j \in 1 .. R + 1, NEW k \in 1 .. W, j <= k, k - j <= Capacity - 1
        PROVE  write_pos[k] = Slot(read_pos'[j], k - j)
    <3>1. CASE j \in 1 .. R
      BY <1>1, <2>1, <3>1, Distance DEF InTurn
    <3>2. CASE j = R + 1
      <4>1. /\ R <= k /\ k - j \in 0 .. Capacity - 1 /\ (k - j) + 1 = k - R
        BY <1>4, <2>1, <3>2, PipeAddAssumption
      <4>2. k - R <= Capacity - 1 /\ k - j \in 0 .. Capacity - 2
        BY <1>3, <1>4, <3>2, <4>1, PipeAddAssumption
      <4>3. write_pos[k] = Slot(read_pos[R], k - R)
        BY <1>4, <4>1, <4>2, Distance DEF InTurn
      <4> QED BY <1>1, <1>4, <3>2, <4>1, <4>2, <4>3, SlotStep
    <3> QED BY <1>4, <3>1, <3>2
  <2> QED BY <1>1, <1>2, <2>1 DEF Positions
<1>8. Views'
  BY <1>1, <1>2, <1>3, <1>4 DEF InTurn, Views, adderVars
<1>9. Adder'
  BY <1>1, <1>2 DEF InTurn, Adder, adderVars
<1>10. Contents'
  <2>1. \A i \in R + 1 .. W - 1 : records[write_pos[i]] = added[i]
    BY <1>4 DEF InTurn, Contents
  <2>2. \A i \in 1 .. R : tree'[i] = added[i]
    BY <1>4, <1>5
  <2>3. pcC' # "advance"
    BY <1>2
  <2>4. R' - 1 = R
    BY <1>1, <1>4
  <2> QED BY <1>1, <1>2, <2>1, <2>2, <2>3, <2>4 DEF Contents
<1> QED BY <1>6, <1>7, <1>8, <1>9, <1>10 DEF InTurn
-----------------------------------------------------------------------------
(* The invariant is inductive. *)
LEMMA NextInv == IInv /\ [Next]_vars => IInv'
<1> SUFFICES ASSUME IInv, [Next]_vars PROVE IInv'
  OBVIOUS
<1> USE DEF IInv
<1>1. ASSUME NEW t \in Threads, Synchronise(t) PROVE IInv'
  <2>1. race' = race
    BY <1>1 DEF Synchronise
  <2> QED BY <1>1, <2>1, SynchroniseTyped, SynchroniseInTurn
<1>2. ASSUME NEW t \in Threads, NEW q \in Queues, AddBegin(t, q) PROVE IInv'
  <2>1. race => race'
    BY <1>2 DEF AddBegin, Load
  <2> QED BY <1>2, <2>1, AddBeginTyped, AddBeginInTurn
<1>3. ASSUME NEW t \in Threads, NEW q \in Queues, AddFull(t, q) PROVE IInv'
  <2>1. race => race'
    BY <1>3 DEF AddFull, Load
  <2> QED BY <1>3, <2>1, AddFullTyped, AddFullInTurn
<1>4. ASSUME NEW t \in Threads, AddRecord(t) PROVE IInv'
  <2>1. race' = race
    BY <1>4 DEF AddRecord
  <2> QED BY <1>4, <2>1, AddRecordTyped, AddRecordInTurn
<1>5. ASSUME NEW t \in Threads, AddPublish(t) PROVE IInv'
  <2>1. race' = race
    BY <1>5 DEF AddPublish
  <2> QED BY <1>5, <2>1, AddPublishTyped, AddPublishInTurn
<1>6. ASSUME NEW i \in 1 .. Len(write_pos), Look(i) \/ LookEmpty(i) PROVE IInv'
  <2>1. race' = race
    BY <1>6 DEF Look, LookEmpty
  <2> QED BY <1>6, <2>1, LookTyped, LookInTurn
<1>7. CASE Copy
  <2>1. race' = race
    BY <1>7 DEF Copy
  <2> QED BY <1>7, <2>1, CopyTyped, CopyInTurn
<1>8. CASE Advance
  <2>1. race' = race
    BY <1>8 DEF Advance
  <2> QED BY <1>8, <2>1, AdvanceTyped, AdvanceInTurn
<1>9. ASSUME UNCHANGED vars PROVE IInv'
  <2>1. /\ UNCHANGED <<records, write_pos, read_pos, adderVars, pipeVars, added, dropped, race>>
        /\ W' = W /\ R' = R
    BY <1>9 DEF vars, W, R
  <2>2. Typed'
    BY <2>1 DEF Typed, TypeOK, Carried, adderVars, pipeVars
  <2>3. InTurn => InTurn'
    BY <2>1 DEF InTurn, Counts, Positions, Views, Adder, Contents, adderVars, pipeVars
  <2> QED BY <2>1, <2>2, <2>3
<1> QED BY <1>1, <1>2, <1>3, <1>4, <1>5, <1>6, <1>7, <1>8, <1>9 DEF Next

(* The invariant holds for any number of threads and any capacity, raced   *)
(* or not (qtl_pipe.c:25-38, spsc_queue.c).                                *)
THEOREM Invariance == Spec => []IInv
<1>1. Init => IInv
  BY InitTyped, InitInTurn DEF IInv
<1> QED BY <1>1, NextInv, PTL DEF Spec

(* Sequences of the same items are the same. *)
LEMMA SeqEqual ==
    ASSUME NEW S, NEW s \in Seq(S), NEW u \in Seq(S), Len(s) = Len(u),
           \A i \in 1 .. Len(u) : s[i] = u[i]
    PROVE  s = u
OBVIOUS

(* What is inside the ring are the queues that are added and not yet read. *)
LEMMA InsideIsPending ==
    ASSUME Typed, InTurn
    PROVE  /\ Inside \in Seq(Queues) /\ Len(Inside) = W - R
           /\ \A k \in 1 .. W - R : Inside[k] = added[R + k - 1]
<1> DEFINE r == Last(read_pos)
           n == IF Last(write_pos) >= r THEN Last(write_pos) - r ELSE Last(write_pos) - r + Capacity
<1>1. /\ R \in Nat /\ W \in Nat /\ 1 <= R /\ R <= W /\ W - R <= Capacity - 1
      /\ R \in 1 .. R /\ W \in 1 .. W /\ r = read_pos[R] /\ r \in Slots
      /\ Last(write_pos) = write_pos[W] /\ W = Len(added) + 1
  BY TypeFacts DEF InTurn, Counts
<1>2. W - R \in 0 .. Capacity - 1 /\ write_pos[W] = Slot(r, W - R)
  BY <1>1, Distance DEF InTurn
<1>3. n = W - R
  BY <1>1, <1>2, PipeAddAssumption DEF Slot, Slots
<1>4. ASSUME NEW k \in 1 .. W - R
      PROVE  records[(r + k - 1) % Capacity] = added[R + k - 1] /\ added[R + k - 1] \in Queues
  <2>1. /\ R + k - 1 \in R .. W - 1 /\ R + k - 1 \in 1 .. W /\ R <= R + k - 1
        /\ k - 1 \in 0 .. Capacity - 1 /\ (R + k - 1) - R = k - 1
        /\ R + k - 1 \in 1 .. Len(added)
    BY <1>1, <1>4, PipeAddAssumption
  <2>2. write_pos[R + k - 1] = Slot(r, k - 1)
    BY <1>1, <2>1, Distance, PipeAddAssumption DEF InTurn
  <2>3. Slot(r, k - 1) = (r + (k - 1)) % Capacity /\ r + (k - 1) = r + k - 1
    BY <1>1, <2>1, SlotModulo DEF Slots
  <2>4. records[write_pos[R + k - 1]] = added[R + k - 1]
    BY <2>1 DEF InTurn, Contents
  <2>5. added[R + k - 1] \in Queues
    BY <2>1 DEF Typed, TypeOK
  <2> QED BY <2>2, <2>3, <2>4, <2>5
<1>5. Inside = [k \in 1 .. W - R |-> records[(r + k - 1) % Capacity]]
  BY <1>3 DEF Inside
<1>6. \A k \in 1 .. W - R : Inside[k] = added[R + k - 1] /\ Inside[k] \in Queues
  BY <1>4, <1>5
<1>7. W - R \in Nat /\ Inside = [k \in 1 .. W - R |-> Inside[k]]
  BY <1>1, <1>5
<1> HIDE DEF Inside
<1>8. Inside \in Seq(Queues) /\ Len(Inside) = W - R
  BY <1>6, <1>7
<1> QED BY <1>6, <1>8

(* As long as the adds of all threads take turns and synchronise, however  *)
(* many threads, the pipe's tree and ring together hold every queue that   *)
(* found room, each in its place (qtl_pipe.c:25-38).                       *)
THEOREM Fifo == Spec => []FifoUnlessRace
<1>1. ASSUME Typed, InTurn PROVE tree \o Inside = added
  <2>1. /\ Inside \in Seq(Queues) /\ Len(Inside) = W - R
        /\ \A k \in 1 .. W - R : Inside[k] = added[R + k - 1]
    BY <1>1, InsideIsPending
  <2>2. /\ W \in Nat /\ R \in Nat /\ W = Len(added) + 1 /\ R = Len(tree) + 1 /\ R <= W
        /\ tree \in Seq(Queues \cup {Unset}) /\ added \in Seq(Queues)
        /\ \A i \in 1 .. R - 1 : tree[i] = added[i]
    BY <1>1, TypeFacts DEF InTurn, Counts, Contents, Typed, TypeOK
  <2>3. tree \o Inside \in Seq(Queues \cup {Unset}) /\ Len(tree \o Inside) = Len(added)
    <3>1. Inside \in Seq(Queues \cup {Unset})
      BY <2>1
    <3> HIDE DEF Inside
    <3> QED BY <2>1, <2>2, <3>1
  <2>4. ASSUME NEW i \in 1 .. Len(added) PROVE (tree \o Inside)[i] = added[i]
    <3>1. CASE i <= Len(tree)
      BY <2>1, <2>2, <3>1
    <3>2. CASE i > Len(tree)
      <4>1. i - Len(tree) \in 1 .. W - R /\ R + (i - Len(tree)) - 1 = i
        BY <2>2, <3>2
      <4>2. (tree \o Inside)[i] = Inside[i - Len(tree)]
        BY <2>1, <2>2, <3>2, <4>1
      <4>3. Inside[i - Len(tree)] = added[R + (i - Len(tree)) - 1]
        BY <2>1, <4>1
      <4>4. (tree \o Inside)[i] = added[R + (i - Len(tree)) - 1]
        BY <4>2, <4>3
      <4> QED BY <4>1, <4>4
    <3>3. i \in Int /\ Len(tree) \in Nat
      BY <2>2
    <3>4. i <= Len(tree) \/ i > Len(tree)
      BY <3>3
    <3> QED BY <3>1, <3>2, <3>4
  <2>5. added \in Seq(Queues \cup {Unset})
    BY <2>2
  <2> QED BY <2>3, <2>4, <2>5, SeqEqual
<1>2. IInv => FifoUnlessRace
  BY <1>1 DEF IInv, Typed, FifoUnlessRace
<1> QED BY <1>2, Invariance, PTL
=============================================================================
