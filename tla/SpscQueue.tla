----------------------------- MODULE SpscQueue -----------------------------
(***************************************************************************)
(* The lock-free single-producer single-consumer ring of spsc_queue.c, at  *)
(* the level of its C11 atomics.                                           *)
(*                                                                         *)
(* An atomic variable is its modification order: the sequence of all the   *)
(* stores made to it, each with the memory order it was made with.  A load *)
(* returns any store that is not older than one the thread has already     *)
(* seen, so loads may be stale.  An acquire load that reads a release      *)
(* store synchronises with it, and only that orders the plain accesses to  *)
(* q->records: each plain access is stamped with the epoch of its thread   *)
(* (the number of stores it had made), and it happens before the other     *)
(* thread's next step exactly when that thread has acquired a later store. *)
(***************************************************************************)
EXTENDS Integers, Sequences, SequencesExt

CONSTANTS Capacity,  (* q->capacity, the size given to spsc_queue_init       *)
          Values,    (* the pointers the clients put in the queue            *)
          Unset,     (* a record, item or answer nobody has written yet      *)
          MaxPush    (* bound of the model: how many writes may be accepted  *)

ASSUME SpscAssumption ==
    /\ Capacity \in Nat /\ Capacity >= 2
    /\ MaxPush \in Nat
    /\ Unset \notin Values

VARIABLES
    records,      (* q->records, a plain array                               *)
    write_pos,    (* modification order of q->write_pos                      *)
    read_pos,     (* modification order of q->read_pos                       *)
    pcP,          (* where the producer is inside spsc_queue_write           *)
    currentWrite, (* local of spsc_queue_write                               *)
    e,            (* its argument                                            *)
    seenRead,     (* newest store to read_pos the producer has loaded        *)
    acqRead,      (* newest store to read_pos the producer has acquired      *)
    answerP,      (* what is_empty/is_full/size last told the producer       *)
    pcC,          (* where the consumer is inside spsc_queue_read or _peek   *)
    currentRead,  (* local of spsc_queue_read and spsc_queue_peek            *)
    item,         (* what spsc_queue_read has copied out                     *)
    peeked,       (* what spsc_queue_peek last returned for the head item    *)
    seenWrite,    (* newest store to write_pos the consumer has loaded       *)
    acqWrite,     (* newest store to write_pos the consumer has acquired     *)
    answerC,      (* what is_empty/is_full/size last told the consumer       *)
    lastWrite,    (* history: epoch of the last write to each record         *)
    lastRead,     (* history: epoch of the last read of each record          *)
    pushed,       (* history: the items whose write returned true            *)
    popped        (* history: the items whose read returned true             *)

producerVars == <<pcP, currentWrite, e, seenRead, acqRead, answerP>>
consumerVars == <<pcC, currentRead, item, peeked, seenWrite, acqWrite, answerC>>
producerShared == <<write_pos, lastWrite, pushed>>
consumerShared == <<read_pos, lastRead, popped>>
vars == <<records, producerVars, consumerVars, producerShared, consumerShared>>

Slots == 0 .. Capacity - 1
-----------------------------------------------------------------------------
(* Positions.  A position one past the last slot wraps to slot 0.          *)

Succ(i) == IF i + 1 = Capacity THEN 0 ELSE i + 1

(* The difference of the positions is taken as a signed int. *)
SizeAt(rp, wp) == LET ret == wp - rp
                  IN  IF ret < 0 THEN ret + Capacity ELSE ret

(* Mutant: is_full compares without the wrap. *)
AnswerFullNoWrap(rp, wp) == [empty |-> rp = wp,
                             full  |-> wp + 1 = rp,
                             size  |-> SizeAt(rp, wp)]

(* What the three queries answer for the two positions they have loaded.   *)
Answer(rp, wp) == [empty |-> rp = wp,
                   full  |-> Succ(wp) = rp,
                   size  |-> SizeAt(rp, wp)]

(* Atomics. *)

(* Mutant: a relaxed store. *)
StoreRelaxed(log, pos) == Append(log, [pos |-> pos, release |-> FALSE])

StoreRelease(log, pos) == Append(log, [pos |-> pos, release |-> TRUE])

(* What has been acquired once store i of log is read by an acquire load. *)
LoadAcquire(log, acquired, i) ==
    IF log[i].release /\ i > acquired THEN i ELSE acquired

Init ==
    /\ records \in [Slots -> {Unset}]
    /\ write_pos = <<[pos |-> 0, release |-> TRUE]>>
    /\ read_pos  = <<[pos |-> 0, release |-> TRUE]>>
    /\ pcP = "idle" /\ currentWrite = 0 /\ e = Unset
    /\ seenRead = 1 /\ acqRead = 1 /\ answerP = Unset
    /\ pcC = "idle" /\ currentRead = 0 /\ item = Unset /\ peeked = Unset
    /\ seenWrite = 1 /\ acqWrite = 1 /\ answerC = Unset
    /\ lastWrite = [i \in Slots |-> 0]
    /\ lastRead  = [i \in Slots |-> 0]
    /\ pushed = <<>> /\ popped = <<>>
-----------------------------------------------------------------------------
(* The producer. *)

(* An acquire load of read_pos that returns store i. *)
LoadReadPos(i) ==
    /\ seenRead' = i
    /\ acqRead' = LoadAcquire(read_pos, acqRead, i)

(* spsc_queue_write, up to its branch: there is room. *)
WriteBegin(v) ==
    /\ pcP = "idle"
    /\ Len(pushed) < MaxPush
    /\ currentWrite' = Last(write_pos).pos
    /\ \E i \in seenRead .. Len(read_pos) :
          /\ LoadReadPos(i)
          /\ Succ(Last(write_pos).pos) # read_pos[i].pos
    /\ e' = v
    /\ pcP' = "store"
    /\ UNCHANGED <<records, answerP, consumerVars, producerShared, consumerShared>>

(* ... or the queue looks full and the call returns false. *)
WriteFull ==
    /\ pcP = "idle"
    /\ \E i \in seenRead .. Len(read_pos) :
          /\ LoadReadPos(i)
          /\ Succ(Last(write_pos).pos) = read_pos[i].pos
    /\ UNCHANGED <<records, pcP, currentWrite, e, answerP,
                   consumerVars, producerShared, consumerShared>>

(* q->records[currentWrite] = e *)
WriteRecord ==
    /\ pcP = "store"
    /\ records' = [records EXCEPT ![currentWrite] = e]
    /\ lastWrite' = [lastWrite EXCEPT ![currentWrite] = Len(write_pos)]
    /\ pcP' = "publish"
    /\ UNCHANGED <<write_pos, pushed, currentWrite, e, seenRead, acqRead,
                   answerP, consumerVars, consumerShared>>

(* The release store of write_pos; the call returns true. *)
WritePublish ==
    /\ pcP = "publish"
    /\ write_pos' = StoreRelease(write_pos, Succ(currentWrite))
    /\ pushed' = Append(pushed, e)
    /\ pcP' = "idle"
    /\ answerP' = Unset
    /\ UNCHANGED <<records, lastWrite, currentWrite, e, seenRead, acqRead,
                   consumerVars, consumerShared>>

(* is_empty, is_full or size called between two writes. *)
ProducerQuery ==
    /\ pcP = "idle"
    /\ \E i \in seenRead .. Len(read_pos) :
          /\ LoadReadPos(i)
          /\ answerP' = Answer(read_pos[i].pos, Last(write_pos).pos)
    /\ UNCHANGED <<records, pcP, currentWrite, e,
                   consumerVars, producerShared, consumerShared>>
-----------------------------------------------------------------------------
(* The consumer. *)

(* An acquire load of write_pos that returns store i. *)
LoadWritePos(i) ==
    /\ seenWrite' = i
    /\ acqWrite' = LoadAcquire(write_pos, acqWrite, i)

(* spsc_queue_read ("copy") or spsc_queue_peek ("peek") up to the branch:  *)
(* there is an item.                                                       *)
ReadBegin(pc) ==
    /\ pcC = "idle"
    /\ currentRead' = Last(read_pos).pos
    /\ \E i \in seenWrite .. Len(write_pos) :
          /\ LoadWritePos(i)
          /\ Last(read_pos).pos # write_pos[i].pos
    /\ pcC' = pc
    /\ UNCHANGED <<records, item, peeked, answerC,
                   producerVars, producerShared, consumerShared>>

(* ... or the queue looks empty: read returns false, peek returns NULL. *)
ReadEmpty ==
    /\ pcC = "idle"
    /\ \E i \in seenWrite .. Len(write_pos) :
          /\ LoadWritePos(i)
          /\ Last(read_pos).pos = write_pos[i].pos
    /\ UNCHANGED <<records, pcC, currentRead, item, peeked, answerC,
                   producerVars, producerShared, consumerShared>>

(* The plain read of q->records[currentRead]. *)
TouchRecord ==
    lastRead' = [lastRead EXCEPT ![currentRead] = Len(read_pos)]

(* Mutant: the slot after the one checked is copied. *)
ReadNextRecord ==
    /\ pcC = "copy"
    /\ item' = records[Succ(currentRead)]
    /\ TouchRecord
    /\ pcC' = "publish"
    /\ UNCHANGED <<records, read_pos, popped, currentRead, peeked, seenWrite,
                   acqWrite, answerC, producerVars, producerShared>>

(* *item = q->records[currentRead] *)
ReadRecord ==
    /\ pcC = "copy"
    /\ item' = records[currentRead]
    /\ TouchRecord
    /\ pcC' = "publish"
    /\ UNCHANGED <<records, read_pos, popped, currentRead, peeked, seenWrite,
                   acqWrite, answerC, producerVars, producerShared>>

(* The release store of read_pos; the call returns true. *)
ReadPublish ==
    /\ pcC = "publish"
    /\ read_pos' = StoreRelease(read_pos, Succ(currentRead))
    /\ popped' = Append(popped, item)
    /\ pcC' = "idle"
    /\ peeked' = Unset
    /\ answerC' = Unset
    /\ UNCHANGED <<records, lastRead, currentRead, item, seenWrite, acqWrite,
                   producerVars, producerShared>>

(* Mutant: peek returns the newest slot instead of the oldest. *)
PeekNewestRecord ==
    /\ pcC = "peek"
    /\ peeked' = records[IF write_pos[seenWrite].pos = 0 THEN Capacity - 1
                         ELSE write_pos[seenWrite].pos - 1]
    /\ TouchRecord
    /\ pcC' = "idle"
    /\ UNCHANGED <<records, read_pos, popped, currentRead, item, seenWrite,
                   acqWrite, answerC, producerVars, producerShared>>

(* spsc_queue_peek returns q->records[currentRead]. *)
PeekRecord ==
    /\ pcC = "peek"
    /\ peeked' = records[currentRead]
    /\ TouchRecord
    /\ pcC' = "idle"
    /\ UNCHANGED <<records, read_pos, popped, currentRead, item, seenWrite,
                   acqWrite, answerC, producerVars, producerShared>>

(* is_empty, is_full or size called between two reads. *)
ConsumerQuery ==
    /\ pcC = "idle"
    /\ \E i \in seenWrite .. Len(write_pos) :
          /\ LoadWritePos(i)
          /\ answerC' = Answer(Last(read_pos).pos, write_pos[i].pos)
    /\ UNCHANGED <<records, pcC, currentRead, item, peeked,
                   producerVars, producerShared, consumerShared>>
-----------------------------------------------------------------------------
Next ==
    \/ \E v \in Values : WriteBegin(v)
    \/ WriteFull
    \/ WriteRecord
    \/ WritePublish
    \/ ProducerQuery
    \/ \E pc \in {"copy", "peek"} : ReadBegin(pc)
    \/ ReadEmpty
    \/ ReadRecord
    \/ ReadPublish
    \/ PeekRecord
    \/ ConsumerQuery

Spec == Init /\ [][Next]_vars
-----------------------------------------------------------------------------
(* Properties. *)

Occupancy == Len(pushed) - Len(popped)

Stores == [pos : Slots, release : BOOLEAN]
Answers == [empty : BOOLEAN, full : BOOLEAN, size : 0 .. Capacity - 1]

(* The types of the variables. *)
TypeOK ==
    /\ records \in [Slots -> Values \cup {Unset}]
    /\ write_pos \in Seq(Stores) /\ read_pos \in Seq(Stores)
    /\ pcP \in {"idle", "store", "publish"}
    /\ currentWrite \in Slots /\ e \in Values \cup {Unset}
    /\ seenRead \in 1 .. Len(read_pos) /\ acqRead \in 1 .. Len(read_pos)
    /\ answerP \in Answers \cup {Unset}
    /\ pcC \in {"idle", "copy", "peek", "publish"}
    /\ currentRead \in Slots
    /\ item \in Values \cup {Unset} /\ peeked \in Values \cup {Unset}
    /\ seenWrite \in 1 .. Len(write_pos) /\ acqWrite \in 1 .. Len(write_pos)
    /\ answerC \in Answers \cup {Unset}
    /\ lastWrite \in [Slots -> Nat] /\ lastRead \in [Slots -> Nat]
    /\ pushed \in Seq(Values) /\ popped \in Seq(Values)

(* The plain accesses to q->records never race: when the producer is about *)
(* to overwrite a slot, the consumer's last read of it happens before, and *)
(* when the consumer is about to read one, the producer's last write of it *)
(* happens before (spsc_queue.c:42, :64, :78 under the release stores and  *)
(* acquire loads around them).                                             *)
RaceFree ==
    /\ pcP = "store" => lastRead[currentWrite] < acqRead
    /\ pcC \in {"copy", "peek"} => lastWrite[currentRead] < acqWrite

(* The answers each thread gets stay true, whatever the other thread does, *)
(* until its own next successful write or read: the consumer's size is a   *)
(* lower bound and the producer's an upper bound (qtl_queue.h:51-54), an   *)
(* item the consumer was told of is still there, room the producer was     *)
(* told of is still there.                                                 *)
AnswersHold ==
    /\ answerP # Unset =>
          /\ answerP.size >= Occupancy
          /\ answerP.empty => Occupancy = 0
          /\ ~answerP.full => Occupancy < Capacity - 1
    /\ answerC # Unset =>
          /\ answerC.size <= Occupancy
          /\ ~answerC.empty => Occupancy > 0
          /\ answerC.full => Occupancy = Capacity - 1

(* What peek returned is what the next successful read will hand out, even *)
(* if the producer writes in between: event_queue_peek_time keys a queue   *)
(* by an item that the tree later pops (qtl_queue.c:125-130).              *)
PeekAgrees ==
    peeked # Unset =>
        /\ Occupancy > 0
        /\ peeked = pushed[Len(popped) + 1]

(* A check answered is enough: whichever store the next load returns, a    *)
(* write does not fail once is_full has said no, and a read or a peek does *)
(* not fail once is_empty has said no.  event_tree_is_empty and            *)
(* event_tree_add peek, and assert the result, after that answer alone     *)
(* (qtl_etree.c:58-61, :159-170, qtl_queue.c:127-128).                     *)
NoSpuriousFailure ==
    /\ answerP # Unset /\ ~answerP.full =>
          \A i \in seenRead .. Len(read_pos) :
              Succ(Last(write_pos).pos) # read_pos[i].pos
    /\ answerC # Unset /\ ~answerC.empty =>
          \A i \in seenWrite .. Len(write_pos) :
              Last(read_pos).pos # write_pos[i].pos

(* The ring implements the bounded FIFO of one slot less than its size.    *)
Fifo == INSTANCE BoundedFifo WITH Bound <- Capacity - 1
ImplementsFifo == Fifo!Spec
=============================================================================
