------------------------------ MODULE PipeAdd -------------------------------
(***************************************************************************)
(* Several threads add queues to one pipe (qtl_pipe.c).  Each writes to    *)
(* pending_add, which is made for a single producer: the threads have to   *)
(* take turns, and to synchronise between turns, by means of their own.    *)
(* This module lets them do so or not.                                     *)
(*                                                                         *)
(* The positions of the ring are the sequences of the stores made to them. *)
(* A thread may load any store that is not older than one it has seen; one *)
(* that has synchronised with the last adder sees the last store.  A race  *)
(* is an add that begins during another's, or without synchronisation.     *)
(***************************************************************************)
EXTENDS Integers, SequencesExt, FiniteSetsExt

CONSTANTS Threads, Queues,
          Capacity,  (* of pending_add, 1024 in event_pipe_new *)
          Unset      (* a record nobody has written            *)

ASSUME PipeAddAssumption == Capacity \in Nat /\ Capacity >= 2 /\ Unset \notin Queues

Slots == 0 .. Capacity - 1

Succ(i) == IF i + 1 = Capacity THEN 0 ELSE i + 1

(* The state. *)
VARIABLES records, write_pos, read_pos,  (* of pending_add                     *)
          pc, queue, currentWrite,       (* of each thread in spsc_queue_write *)
          seen,      (* the newest stores to the positions each thread has loaded *)
          fresh,     (* the threads that have synchronised with the last add   *)
          handed,    (* what its thread had seen then of read_pos              *)
          pcC, seenC, item,              (* of the pipe's thread               *)
          tree,      (* the queues it has added to the tree, in order          *)
          added,     (* history: the queues whose write was accepted           *)
          dropped,   (* history: those whose write found the ring full         *)
          race       (* history: adds have raced                               *)

adderVars == <<pc, queue, currentWrite, seen, fresh, handed>>
pipeVars  == <<pcC, seenC, item, tree>>
vars == <<records, write_pos, read_pos, adderVars, pipeVars, added, dropped, race>>

Init ==
    /\ records = [i \in Slots |-> Unset] /\ write_pos = <<0>> /\ read_pos = <<0>>
    /\ pc = [t \in Threads |-> "idle"] /\ queue = [t \in Threads |-> Unset]
    /\ currentWrite = [t \in Threads |-> 0]
    /\ seen = [t \in Threads |-> [write |-> 1, read |-> 1]]
    /\ fresh = Threads /\ handed = 1
    /\ pcC = "idle" /\ seenC = 1 /\ item = Unset
    /\ tree = <<>> /\ added = <<>> /\ dropped = {} /\ race = FALSE

Known == Range(added) \cup dropped \cup Range(queue)

(* The thread takes a lock that every add before has released, or the like. *)
Synchronise(t) ==
    /\ pc[t] = "idle" /\ t \notin fresh
    /\ fresh' = fresh \cup {t}
    /\ seen' = [seen EXCEPT ![t] = [write |-> Len(write_pos), read |-> Max({@.read, handed})]]
    /\ UNCHANGED <<records, write_pos, read_pos, pc, queue, currentWrite, handed, pipeVars,
                   added, dropped, race>>

(* Mutant: whether the ring is full is not asked. *)
HasRoomAlways(r, w) == TRUE

HasRoom(r, w) == Succ(w) # r

Races(t) == t \notin fresh \/ \E u \in Threads \ {t} : pc[u] # "idle"

(* spsc_queue_write as far as its branch: event_pipe_add in another thread *)
(* than the pipe's loads store i to write_pos and store j to read_pos, ... *)
Load(t, q, i, j) ==
    /\ pc[t] = "idle" /\ q \notin Known
    /\ i \in seen[t].write .. Len(write_pos) /\ j \in seen[t].read .. Len(read_pos)
    /\ seen' = [seen EXCEPT ![t] = [write |-> i, read |-> j]]
    /\ race' = (race \/ Races(t))

(* ... and there is room, ... *)
AddBegin(t, q) ==
    /\ \E i \in 1 .. Len(write_pos), j \in 1 .. Len(read_pos) :
          /\ Load(t, q, i, j)
          /\ HasRoom(read_pos[j], write_pos[i])
          /\ currentWrite' = [currentWrite EXCEPT ![t] = write_pos[i]]
    /\ pc' = [pc EXCEPT ![t] = "store"] /\ queue' = [queue EXCEPT ![t] = q]
    /\ UNCHANGED <<records, write_pos, read_pos, fresh, handed, pipeVars,
                   added, dropped>>

(* ... or none, which event_pipe_add tells nobody. *)
AddFull(t, q) ==
    /\ \E i \in 1 .. Len(write_pos), j \in 1 .. Len(read_pos) :
          Load(t, q, i, j) /\ ~HasRoom(read_pos[j], write_pos[i])
    /\ dropped' = dropped \cup {q}
    /\ UNCHANGED <<records, write_pos, read_pos, pc, queue, currentWrite, fresh, handed,
                   pipeVars, added>>

AddRecord(t) ==
    /\ pc[t] = "store"
    /\ records' = [records EXCEPT ![currentWrite[t]] = queue[t]]
    /\ pc' = [pc EXCEPT ![t] = "publish"]
    /\ UNCHANGED <<write_pos, read_pos, queue, currentWrite, seen, fresh, handed, pipeVars,
                   added, dropped, race>>

AddPublish(t) ==
    /\ pc[t] = "publish"
    /\ write_pos' = Append(write_pos, Succ(currentWrite[t]))
    /\ seen' = [seen EXCEPT ![t].write = Len(write_pos')]
    /\ fresh' = {t} /\ handed' = seen[t].read
    /\ added' = Append(added, queue[t])
    /\ pc' = [pc EXCEPT ![t] = "idle"] /\ queue' = [queue EXCEPT ![t] = Unset]
    /\ UNCHANGED <<records, read_pos, currentWrite, pipeVars, dropped, race>>

(* Mutant: the positions are compared as if they never wrapped. *)
NonEmptyNoWrap(r, w) == r < w

NonEmpty(r, w) == r # w

(* process_pending_add, in the pipe's thread: it loads store i to          *)
(* write_pos and finds the ring not empty, ...                             *)
Look(i) ==
    /\ pcC = "idle" /\ i \in seenC .. Len(write_pos)
    /\ NonEmpty(Last(read_pos), write_pos[i])
    /\ seenC' = i /\ pcC' = "copy"
    /\ UNCHANGED <<records, write_pos, read_pos, adderVars, item, tree, added, dropped, race>>

(* ... or empty, ... *)
LookEmpty(i) ==
    /\ pcC = "idle" /\ i \in seenC .. Len(write_pos)
    /\ ~NonEmpty(Last(read_pos), write_pos[i])
    /\ seenC' = i
    /\ UNCHANGED <<records, write_pos, read_pos, adderVars, pcC, item, tree, added, dropped, race>>

(* ... copies the record, ... *)
Copy ==
    /\ pcC = "copy"
    /\ item' = records[Last(read_pos)] /\ pcC' = "advance"
    /\ UNCHANGED <<records, write_pos, read_pos, adderVars, seenC, tree, added, dropped, race>>

(* ... frees the slot and calls event_tree_add. *)
Advance ==
    /\ pcC = "advance"
    /\ read_pos' = Append(read_pos, Succ(Last(read_pos)))
    /\ tree' = Append(tree, item)
    /\ item' = Unset /\ pcC' = "idle"
    /\ UNCHANGED <<records, write_pos, adderVars, seenC, added, dropped, race>>

(* A store is seen at last. *)
LookLatest == Look(Len(write_pos))

Next ==
    \/ \E t \in Threads : Synchronise(t)
    \/ \E t \in Threads, q \in Queues : AddBegin(t, q)
    \/ \E t \in Threads, q \in Queues : AddFull(t, q)
    \/ \E t \in Threads : AddRecord(t)
    \/ \E t \in Threads : AddPublish(t)
    \/ \E i \in 1 .. Len(write_pos) : Look(i)
    \/ \E i \in 1 .. Len(write_pos) : LookEmpty(i)
    \/ Copy
    \/ Advance

Spec == Init /\ [][Next]_vars

(* The pipe is read again and again, and a call that has begun ends. *)
Fairness == /\ WF_vars(LookLatest) /\ WF_vars(Copy) /\ WF_vars(Advance)
            /\ \A t \in Threads : WF_vars(AddRecord(t)) /\ WF_vars(AddPublish(t))

FairSpec == Spec /\ Fairness
-----------------------------------------------------------------------------
(* Properties. *)

TypeOK ==
    /\ records \in [Slots -> Queues \cup {Unset}]
    /\ write_pos \in Seq(Slots) /\ read_pos \in Seq(Slots)
    /\ pc \in [Threads -> {"idle", "store", "publish"}]
    /\ queue \in [Threads -> Queues \cup {Unset}] /\ currentWrite \in [Threads -> Slots]
    /\ seen \in [Threads -> [write : 1 .. Len(write_pos), read : 1 .. Len(read_pos)]]
    /\ fresh \subseteq Threads /\ handed \in 1 .. Len(read_pos)
    /\ pcC \in {"idle", "copy", "advance"} /\ seenC \in 1 .. Len(write_pos)
    /\ item \in Queues \cup {Unset} /\ tree \in Seq(Queues \cup {Unset})
    /\ added \in Seq(Queues) /\ dropped \subseteq Queues /\ race \in BOOLEAN

(* The queues in the ring, from the one that is read next. *)
Inside ==
    LET r == Last(read_pos)
        n == IF Last(write_pos) >= r THEN Last(write_pos) - r ELSE Last(write_pos) - r + Capacity
    IN  [k \in 1 .. n |-> records[(r + k - 1) % Capacity]]

(* As long as the adds of all threads take turns and synchronise, however  *)
(* many threads there are, the pipe gets every queue that found room, each *)
(* once and in order, and nothing else (qtl_pipe.c:25-38).                 *)
FifoUnlessRace == TypeOK /\ (~race => tree \o Inside = added)

(* Every queue that found room comes into the tree, unless adds have raced. *)
EveryQueueAdded == \A q \in Queues : q \in Range(queue) ~> (q \in Range(tree) \/ race)
=============================================================================
