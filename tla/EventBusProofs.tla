--------------------------- MODULE EventBusProofs ---------------------------
(***************************************************************************)
(* The bus of qtl_bus.c loses, repeats and reorders nothing, lets data     *)
(* events yield and misuses no memory of its own making, for every set of  *)
(* queues, every pipe they are added to and every bound.                   *)
(***************************************************************************)
EXTENDS EventBus, TLAPS

(* Queues stay in the pipe they were added to; only data events are saved, *)
(* and only the data pipe's stops are noted.                               *)
Homes ==
    /\ \A p \in Pipes : \A q \in waiting[p] \cup pending[p] : PipeOf[q] = p
    /\ \A p \in Pipes : last[p] # NULL => PipeOf[last[p]] = p
    /\ \A q \in QueueOf(saved_event) : PipeOf[q] = "data"

(* A close is the last event of its queue, and its producer stops there.   *)
Closes ==
    /\ \A q \in Queues : q \notin ended => sent[q] <= MaxEvents[q]
    /\ \A q \in Queues : producer[q] \in {"sawEmpty", "sawEvents"} => q \notin ended
    /\ \A q \in Queues : \A i \in DOMAIN contents[q] :
          /\ contents[q][i].kind \in {"plain", "close"}
          /\ contents[q][i].kind = "close" => i = Len(contents[q]) /\ q \in ended
    /\ \A q \in owed : q \in ended /\ contents[q] = <<>> /\ q \notin QueueOf(saved_event)

(* A read follows a look that found the pipe readable; no data event is    *)
(* read over a saved one.                                                  *)
Reading ==
    pc = "read" =>
        /\ stage <= Len(Stages[loop])
        /\ Stages[loop][stage] \in Pipes
        /\ Waiting(Stages[loop][stage]) # {}
        /\ Stages[loop][stage] = "data" => saved_event = NULL

(* The queues in a tree have events; pending_add is freed by a clear.      *)
Filled ==
    /\ \A p \in Pipes : \A q \in waiting[p] : contents[q] # <<>>
    /\ freed # {} => clears > 0

(* While a pass presses, what is to be served first is still ahead of it.  *)
Pressed ==
    pressing =>
        /\ pc \in {"look", "read"}
        /\ pc = "look" \/ Stages[loop][stage] = "data" =>
              \E i \in stage .. Len(Stages[loop]) :
                  /\ Stages[loop][i] \in {"execution", "service"}
                  /\ Readable(Stages[loop][i])

IInv == /\ TypeOK /\ Homes /\ Closes /\ ExactlyOnce /\ Reading /\ Filled
        /\ CorruptNeedsCause /\ Pressed
-----------------------------------------------------------------------------
(* Each loop looks at five things before it comes to the saved event.      *)
LEMMA FiveStages ==
    /\ \A l \in Loops : Len(Stages[l]) = 5
    /\ \A l \in Loops : Stages[l][1] = "data" /\ Stages[l][5] = "service"
    /\ \A l \in Loops : \A i \in 1 .. 5 :
          Stages[l][i] \in {"data", "clocks", "execution", "command", "service"}
    /\ \A l \in Loops : \A i \in 2 .. 5 : Stages[l][i] # "data"
    /\ \A l \in Loops : \E i \in 2 .. 5 : Stages[l][i] = "execution"
BY DEF Stages, Loops

(* An event is none of the pointers that stand for no event. *)
LEMMA EventIsEvent ==
    ASSUME NEW q \in Queues, NEW v \in Values(q)
    PROVE  /\ v \notin {NULL, Wild, Stop} /\ QueueOf(v) = {q}
           /\ v \in AnyValue
           /\ v.queue = q /\ v.n \in Nat /\ v.kind \in Kinds
<1>1. v \in [queue : Queues, n : Nat, kind : Kinds]
  BY EventBusAssumption DEF Values
<1>2. v \notin {NULL, Wild, Stop}
  BY <1>1, EventBusAssumption
<1>3. QED
  BY <1>1, <1>2 DEF QueueOf, Values, AnyValue

(* The invariant holds at first. *)
THEOREM InitIInv == Init => IInv
<1> SUFFICES ASSUME Init PROVE IInv
  OBVIOUS
<1> USE EventBusAssumption, FiveStages DEF Init
<1>1. TypeOK
  <2>1. saved_event \in {NULL, Wild} /\ is_simulation_stop \in BOOLEAN /\ clocks \in BOOLEAN
    OBVIOUS
  <2>2. stage \in 1 .. Len(Stages[loop]) + 1 /\ loop \in Loops /\ mode \in Loops
    BY DEF Loops
  <2>3. idle_mode \in IdleModes
    OBVIOUS
  <2>4. last \in [Pipes -> Queues \cup {NULL}] /\ waiting \in [Pipes -> SUBSET Queues]
        /\ pending \in [Pipes -> SUBSET Queues]
    OBVIOUS
  <2>5. \A q \in Queues : contents[q] \in Seq(Values(q)) /\ Len(contents[q]) <= Room
    OBVIOUS
  <2>6. sent \in [Queues -> Nat] /\ \A q \in Queues : sent[q] <= MaxEvents[q] + 1
    OBVIOUS
  <2>7. clears \in 0 .. MaxClears /\ returned \in AnyValue \cup {NULL, Wild, Stop}
    OBVIOUS
  <2>8. /\ producer \in [Queues -> {"out", "sawEmpty", "sawEvents", "signal"}]
        /\ gone \in [Queues -> Nat] /\ DOMAIN contents = Queues
    OBVIOUS
  <2>9. QED
    BY <2>1, <2>2, <2>3, <2>4, <2>5, <2>6, <2>7, <2>8 DEF TypeOK
<1>2. QueueOf(saved_event) = {}
  BY DEF QueueOf
<1>3. Homes
  BY <1>2 DEF Homes
<1>4. Closes
  BY DEF Closes
<1>5. ExactlyOnce
  BY <1>2 DEF ExactlyOnce, Held, Owed
<1>6. Reading /\ Filled /\ CorruptNeedsCause /\ Pressed
  BY DEF Reading, Filled, CorruptNeedsCause, Pressed
<1>7. QED
  BY <1>1, <1>3, <1>4, <1>5, <1>6 DEF IInv
-----------------------------------------------------------------------------
(* What a read takes: the first event of a queue of the pipe, as it is or, *)
(* if it is the queue's close, as the stop.                                *)
LEMMA ReadTakesHead ==
    ASSUME TypeOK, Homes, Closes, ExactlyOnce,
           NEW p \in Pipes, NEW q \in Queues, NEW v \in Heads(q), Read(p, q, v)
    PROVE  /\ PipeOf[q] = p /\ contents[q] # <<>> /\ Len(contents[q]) \in Nat \ {0}
           /\ v \in Values(q) /\ v.n = gone[q] + Held(q) + 1
           /\ v.kind = "stop" => Len(contents[q]) = 1 /\ q \in ended
           /\ DOMAIN contents' = Queues /\ contents'[q] = Tail(contents[q])
           /\ \A r \in Queues : r # q => contents'[r] = contents[r]
<1>1. contents[q] # <<>> /\ contents[q] \in Seq(Values(q)) /\ DOMAIN contents = Queues
  BY DEF Read, TypeOK
<1>2. Len(contents[q]) \in Nat \ {0} /\ 1 \in DOMAIN contents[q]
      /\ Head(contents[q]) = contents[q][1] /\ contents[q][1] \in Values(q)
  BY <1>1
<1>3. contents[q][1].n = gone[q] + Held(q) + 1
  BY <1>2 DEF ExactlyOnce
<1>4. /\ contents[q][1].kind \in {"plain", "close"}
      /\ contents[q][1].kind = "close" => Len(contents[q]) = 1 /\ q \in ended
  BY <1>2 DEF Closes
<1>5. v = Event(q, contents[q][1].n, v.kind)
      /\ (v.kind = "stop" \/ v.kind = contents[q][1].kind)
      /\ (v.kind = "stop" => contents[q][1].kind = "close")
  BY <1>2, <1>4 DEF Read, Event
<1>6. contents[q][1] \in [queue : {q}, n : 1 .. MaxEvents[q] + 1, kind : Kinds]
  BY <1>2 DEF Values
<1>7. v \in Values(q) /\ v.n = gone[q] + Held(q) + 1
  BY <1>3, <1>4, <1>5, <1>6 DEF Values, Event, Kinds
<1>8. PipeOf[q] = p
  BY DEF Read, Waiting, Homes
<1>9. contents' = [contents EXCEPT ![q] = Tail(@)]
  BY DEF Read
<1>10. QED
  BY <1>1, <1>2, <1>4, <1>5, <1>7, <1>8, <1>9

(* Only these steps touch the events, or the histories of where they are.  *)
Untouched == UNCHANGED <<queueVars, saved_event, gone, owed>>

(* Whatever the step, the events are left alone or it is one of these.    *)
LEMMA StepsOnEvents ==
    ASSUME [Next]_vars
    PROVE  \/ Untouched
           \/ \E q \in Queues : PushWrite(q)
           \/ \E q \in Queues : \E v \in Heads(q) : ReadData(q, v)
           \/ \E q \in Queues : \E v \in Heads(q) : ReadDataStop(q, v)
           \/ \E p \in Pipes, q \in Queues : \E v \in Heads(q) : ReadOther(p, q, v)
           \/ ReturnSaved
           \/ ReturnStop
           \/ Clear
<1> USE DEF Untouched, queueVars, heldVars, outVars
<1>1. CASE UNCHANGED vars
  BY <1>1 DEF vars
<1>2. CASE Dequeue \/ LookOther \/ Nap \/ Wait \/ TimedOut
  BY <1>2 DEF Dequeue, LookOther, Nap, Wait, TimedOut
<1>3. ASSUME NEW p \in Pipes, LookEmpty(p) \/ LookHeld(p) \/ LookReadable(p)
      PROVE  Untouched
  BY <1>3 DEF LookEmpty, LookHeld, LookReadable, IsEmpty
<1>4. ASSUME NEW q \in Queues, PushLook(q) \/ PushFull(q) \/ PushSignal(q)
      PROVE  Untouched
  BY <1>4 DEF PushLook, PushFull, PushSignal
<1>5. ASSUME NEW q \in Queues, AddPending(q) \/ AddLost(q) \/ AddFreed(q) \/ AddOwn(q)
      PROVE  Untouched
  BY <1>5 DEF AddPending, AddLost, AddFreed, AddOwn, vars
<1>6. ASSUME Setting PROVE Untouched
  BY <1>6 DEF Setting, SetMode, SetIdleMode
<1>7. ASSUME NEW p \in Pipes, PipeCorrupt(p) PROVE Untouched
  BY <1>7 DEF PipeCorrupt
<1>8. CASE Wakeup \/ LookCorrupt \/ ClearCorrupt
  BY <1>8 DEF Wakeup, LookCorrupt, ClearCorrupt
<1>9. QED
  <2> HIDE DEF Untouched
  <2>1. CASE Dequeuing
    BY <2>1, <1>2, <1>3 DEF Dequeuing
  <2>2. ASSUME NEW q \in Queues, Pushing(q)
        PROVE  Untouched \/ PushWrite(q)
    BY <2>2, <1>4 DEF Pushing
  <2>3. QED
    BY <2>1, <2>2, <1>1, <1>5, <1>6, <1>7, <1>8 DEF Next

(* What a push writes: one more event, at the end of a queue not closed.   *)
LEMMA PushAppends ==
    ASSUME TypeOK, Closes, NEW q \in Queues, PushWrite(q)
    PROVE  /\ q \notin ended /\ sent[q] <= MaxEvents[q] /\ Len(contents[q]) < Room
           /\ sent' = [sent EXCEPT ![q] = @ + 1]
           /\ DOMAIN contents' = Queues /\ contents[q] \in Seq(Values(q))
           /\ \A r \in Queues : r # q => contents'[r] = contents[r]
           /\ \E kind \in {"plain", "close"} :
                 /\ contents'[q] = Append(contents[q], Event(q, sent[q] + 1, kind))
                 /\ Event(q, sent[q] + 1, kind) \in Values(q)
                 /\ ended' = IF kind = "close" THEN ended \cup {q} ELSE ended
                 /\ sent[q] = MaxEvents[q] => kind = "close"
<1>1. q \notin ended /\ sent[q] \in Nat /\ sent[q] <= MaxEvents[q] /\ MaxEvents[q] \in Nat
  <2>1. producer[q] \in {"sawEmpty", "sawEvents"}
    BY DEF PushWrite
  <2>2. sent[q] \in Nat
    BY DEF TypeOK
  <2>3. QED
    BY <2>1, <2>2, EventBusAssumption DEF Closes
<1>2. contents[q] \in Seq(Values(q)) /\ DOMAIN contents = Queues
  BY DEF TypeOK
<1>3. \A kind \in {"plain", "close"} : Event(q, sent[q] + 1, kind) \in Values(q)
  BY <1>1 DEF Event, Values, Kinds
<1>4. PICK kind \in {"plain", "close"} :
          /\ contents' = [contents EXCEPT ![q] = Append(@, Event(q, sent[q] + 1, kind))]
          /\ ended' = IF kind = "close" THEN ended \cup {q} ELSE ended
          /\ sent[q] = MaxEvents[q] => kind = "close"
  BY DEF PushWrite
<1>5. sent' = [sent EXCEPT ![q] = @ + 1] /\ Len(contents[q]) < Room
  BY DEF PushWrite, HasRoom
<1>6. QED
  BY <1>1, <1>2, <1>3, <1>4, <1>5

(* The saved event, if it is one, is of a queue and has a number. *)
LEMMA SavedEvent ==
    ASSUME TypeOK
    PROVE  /\ saved_event \in {NULL, Wild} => QueueOf(saved_event) = {}
           /\ saved_event \notin {NULL, Wild} =>
                 /\ saved_event.queue \in Queues /\ saved_event.n \in Nat
                 /\ QueueOf(saved_event) = {saved_event.queue}
                 /\ saved_event \in Values(saved_event.queue)
<1>1. CASE saved_event \in {NULL, Wild}
  BY <1>1 DEF QueueOf
<1>2. CASE saved_event \notin {NULL, Wild}
  <2>1. PICK q \in Queues : saved_event \in Values(q)
    BY <1>2 DEF TypeOK, AnyValue
  <2>2. QED
    BY <1>2, <2>1, EventIsEvent
<1>3. QED
  BY <1>1, <1>2
-----------------------------------------------------------------------------
(* A step keeps what has left, what is held and what is in a queue in step.*)
LEMMA OnceStep ==
    ASSUME IInv, [Next]_vars
    PROVE  ExactlyOnce'
<1> USE DEF IInv
<1>0. \A q \in Queues : /\ sent[q] \in Nat /\ gone[q] \in Nat /\ Len(contents[q]) \in Nat
                        /\ Held(q) \in Nat /\ Held(q) \in {0, 1}
                        /\ Owed(q) \in Nat /\ Owed(q) \in {0, 1}
                        /\ DOMAIN contents[q] = 1 .. Len(contents[q])
  BY DEF TypeOK, Held, Owed
<1>1. CASE Untouched
  BY <1>1 DEF Untouched, ExactlyOnce, Held, Owed, queueVars
<1>2. ASSUME NEW q \in Queues, PushWrite(q) PROVE ExactlyOnce'
  <2>1. PICK kind \in {"plain", "close"} :
            contents'[q] = Append(contents[q], Event(q, sent[q] + 1, kind))
    BY <1>2, PushAppends
  <2>2. /\ sent' = [sent EXCEPT ![q] = @ + 1] /\ q \notin ended
        /\ \A r \in Queues : r # q => contents'[r] = contents[r]
        /\ contents[q] \in Seq(Values(q))
    BY <1>2, PushAppends
  <2>3. saved_event' = saved_event /\ gone' = gone /\ owed' = owed
    BY <1>2 DEF PushWrite, heldVars, outVars
  <2>4. \A r \in Queues : Held(r)' = Held(r) /\ Owed(r)' = Owed(r)
    BY <2>3 DEF Held, Owed, QueueOf
  <2>5. Owed(q) = 0
    BY <2>2 DEF Closes, Owed
  <2>6. /\ Len(contents'[q]) = Len(contents[q]) + 1
        /\ DOMAIN contents'[q] = 1 .. Len(contents[q]) + 1
        /\ \A i \in 1 .. Len(contents[q]) : contents'[q][i] = contents[q][i]
        /\ contents'[q][Len(contents[q]) + 1].n = sent[q] + 1
    BY <2>1, <2>2 DEF Event
  <2>7. DOMAIN contents[q] = 1 .. Len(contents[q])
    BY <2>2
  <2>8. ASSUME NEW i \in DOMAIN contents'[q]
        PROVE  contents'[q][i].n = gone[q] + Held(q) + i
    <3>1. CASE i = Len(contents[q]) + 1
      <4>1. sent[q] = gone[q] + Held(q) + Len(contents[q])
        BY <1>0, <2>5 DEF ExactlyOnce
      <4>2. contents'[q][i].n = sent[q] + 1
        BY <3>1, <2>6
      <4>3. QED
        <5>1. gone[q] \in Nat /\ Held(q) \in Nat /\ Len(contents[q]) \in Nat
          BY <1>0
        <5>2. QED
          BY <5>1, <3>1, <4>1, <4>2
    <3>2. CASE i \in 1 .. Len(contents[q])
      BY <3>2, <2>6, <2>7 DEF ExactlyOnce
    <3>3. QED
      BY <1>0, <2>6, <3>1, <3>2
  <2>9. sent'[q] = gone[q] + Held(q) + Len(contents'[q]) + Owed(q)
    BY <1>0, <2>2, <2>6 DEF ExactlyOnce, TypeOK
  <2>10. \A r \in Queues : r # q => sent'[r] = sent[r]
    BY <2>2 DEF TypeOK
  <2>11. QED
    BY <2>2, <2>3, <2>4, <2>8, <2>9, <2>10 DEF ExactlyOnce
<1> DEFINE Taken(q) == /\ \A r \in Queues : r # q => contents'[r] = contents[r]
                       /\ Len(contents'[q]) = Len(contents[q]) - 1
                       /\ \A i \in DOMAIN contents'[q] :
                             /\ i \in Nat
                             /\ contents'[q][i].n = gone[q] + Held(q) + 1 + i
<1>3. ASSUME NEW p \in Pipes, NEW q \in Queues, NEW v \in Heads(q), Read(p, q, v)
      PROVE  Taken(q) /\ sent' = sent
  <2>1. /\ \A r \in Queues : r # q => contents'[r] = contents[r]
        /\ contents'[q] = Tail(contents[q]) /\ contents[q] # <<>>
    BY <1>3, ReadTakesHead
  <2>2. contents[q] \in Seq(Values(q))
    BY DEF TypeOK
  <2>3. /\ Len(contents'[q]) = Len(contents[q]) - 1
        /\ \A i \in DOMAIN contents'[q] :
              i \in Nat /\ i + 1 \in DOMAIN contents[q] /\ contents'[q][i] = contents[q][i + 1]
    BY <2>1, <2>2
  <2>4. ASSUME NEW i \in DOMAIN contents'[q]
        PROVE  contents'[q][i].n = gone[q] + Held(q) + 1 + i
    <3>1. i \in Nat /\ contents'[q][i].n = gone[q] + Held(q) + (i + 1)
      BY <2>3 DEF ExactlyOnce
    <3>2. QED
      <4>1. gone[q] \in Nat /\ Held(q) \in Nat
        BY <1>0
      <4>2. QED
        BY <3>1, <4>1
  <2>5. sent' = sent
    BY <1>3 DEF Read
  <2>6. QED
    BY <2>1, <2>3, <2>4, <2>5
<1> HIDE DEF Taken
<1>4. ASSUME NEW q \in Queues, NEW v \in Heads(q), ReadData(q, v) PROVE ExactlyOnce'
  <2>1. Read("data", q, v) /\ "data" \in Pipes
    BY <1>4 DEF ReadData, Pipes
  <2>2. Taken(q) /\ sent' = sent /\ v \in Values(q) /\ v.n = gone[q] + Held(q) + 1
    BY <1>3, <2>1, ReadTakesHead
  <2>3. gone' = gone /\ owed' = owed /\ saved_event' = v
    BY <1>4 DEF ReadData, outVars
  <2>4. saved_event = NULL
    BY <2>1 DEF Reading, Read
  <2>5. QueueOf(v) = {q} /\ QueueOf(saved_event) = {}
    BY <2>2, <2>4, EventIsEvent, SavedEvent
  <2>6. \A r \in Queues : /\ Held(r) = 0 /\ Owed(r)' = Owed(r)
                          /\ Held(r)' = IF r = q THEN 1 ELSE 0
    BY <2>3, <2>5 DEF Held, Owed, QueueOf
  <2>7. QED
    <3>1. gone[q] \in Nat /\ Len(contents[q]) \in Nat /\ Owed(q) \in Nat
      BY <1>0
    <3>2. \A i \in DOMAIN contents'[q] : contents'[q][i].n = gone[q] + Held(q) + 1 + i
      BY <2>2 DEF Taken
    <3>0. Held(q) = 0 /\ Held(q)' = 1 /\ Owed(q)' = Owed(q) /\ gone'[q] = gone[q]
      BY <2>3, <2>6
    <3>3. \A i \in DOMAIN contents'[q] : contents'[q][i].n = gone'[q] + Held(q)' + i
      <4>1. \A i \in DOMAIN contents'[q] : i \in Nat
        BY <2>2 DEF Taken
      <4>2. QED
        BY <3>0, <3>1, <3>2, <4>1
    <3>4. sent'[q] = gone'[q] + Held(q)' + Len(contents'[q]) + Owed(q)'
      <4>1. sent[q] = gone[q] + Held(q) + Len(contents[q]) + Owed(q)
        BY DEF ExactlyOnce
      <4>2. sent'[q] = sent[q] /\ Len(contents'[q]) = Len(contents[q]) - 1
        BY <2>2 DEF Taken
      <4>3. QED
        BY <3>0, <3>1, <4>1, <4>2
    <3>5. Held(q)' = 1 => saved_event'.n = gone'[q] + 1
      BY <2>2, <2>3, <2>6, <3>1
    <3>6. ASSUME NEW r \in Queues, r # q
          PROVE  /\ sent'[r] = gone'[r] + Held(r)' + Len(contents'[r]) + Owed(r)'
                 /\ Held(r)' = 1 => saved_event'.n = gone'[r] + 1
                 /\ \A i \in DOMAIN contents'[r] : contents'[r][i].n = gone'[r] + Held(r)' + i
      BY <2>2, <2>3, <2>6, <3>6 DEF ExactlyOnce, Taken
    <3>7. QED
      BY <3>3, <3>4, <3>5, <3>6 DEF ExactlyOnce
<1>5. ASSUME NEW q \in Queues, NEW v \in Heads(q), ReadDataStop(q, v) PROVE ExactlyOnce'
  <2>1. Read("data", q, v) /\ "data" \in Pipes /\ v.kind = "stop"
    BY <1>5 DEF ReadDataStop, Pipes
  <2>2. Taken(q) /\ sent' = sent /\ Len(contents[q]) = 1 /\ contents[q] # <<>>
    BY <1>3, <2>1, ReadTakesHead
  <2>3. gone' = gone /\ owed' = owed \cup {q} /\ saved_event' = saved_event
    BY <1>5 DEF ReadDataStop
  <2>4. saved_event = NULL
    BY <2>1 DEF Reading, Read
  <2>5. \A r \in Queues : Held(r) = 0 /\ Held(r)' = 0
    BY <2>3, <2>4, SavedEvent DEF Held, QueueOf
  <2>6. Owed(q) = 0 /\ Owed(q)' = 1 /\ \A r \in Queues : r # q => Owed(r)' = Owed(r)
    BY <2>2, <2>3 DEF Owed, Closes
  <2>7. QED
    BY <1>0, <2>2, <2>3, <2>5, <2>6 DEF ExactlyOnce, Taken
<1>6. ASSUME NEW p \in Pipes, NEW q \in Queues, NEW v \in Heads(q), ReadOther(p, q, v)
      PROVE  ExactlyOnce'
  <2>1. Read(p, q, v) /\ p # "data"
    BY <1>6 DEF ReadOther
  <2>2. Taken(q) /\ sent' = sent /\ PipeOf[q] = p
    BY <1>3, <2>1, ReadTakesHead
  <2>3. saved_event' = saved_event /\ owed' = owed
        /\ gone' = [r \in Queues |-> IF r = q THEN gone[r] + 1 ELSE gone[r]]
    BY <1>6 DEF ReadOther, heldVars, Leave
  <2>4. Held(q) = 0
    BY <2>1, <2>2 DEF Homes, Held
  <2>5. \A r \in Queues : Held(r)' = Held(r) /\ Owed(r)' = Owed(r)
    BY <2>3 DEF Held, Owed, QueueOf
  <2>6. QED
    <3>1. gone[q] \in Nat /\ Len(contents[q]) \in Nat /\ Owed(q) \in Nat
      BY <1>0
    <3>2. gone'[q] = gone[q] + 1 /\ \A r \in Queues : r # q => gone'[r] = gone[r]
      BY <2>3
    <3>3. \A i \in DOMAIN contents'[q] : contents'[q][i].n = gone[q] + Held(q) + 1 + i
      BY <2>2 DEF Taken
    <3>4. \A i \in DOMAIN contents'[q] : contents'[q][i].n = gone'[q] + Held(q)' + i
      BY <2>4, <2>5, <3>1, <3>2, <3>3
    <3>5. sent'[q] = gone'[q] + Held(q)' + Len(contents'[q]) + Owed(q)'
      BY <2>2, <2>4, <2>5, <3>1, <3>2 DEF ExactlyOnce, Taken
    <3>6. ASSUME NEW r \in Queues, r # q
          PROVE  /\ sent'[r] = gone'[r] + Held(r)' + Len(contents'[r]) + Owed(r)'
                 /\ Held(r)' = 1 => saved_event'.n = gone'[r] + 1
                 /\ \A i \in DOMAIN contents'[r] : contents'[r][i].n = gone'[r] + Held(r)' + i
      BY <2>2, <2>3, <2>5, <3>2, <3>6 DEF ExactlyOnce, Taken
    <3>7. QED
      BY <2>4, <2>5, <3>4, <3>5, <3>6 DEF ExactlyOnce
<1>7. CASE ReturnSaved
  <2>1. /\ contents' = contents /\ sent' = sent /\ owed' = owed /\ saved_event' = NULL
        /\ gone' = [r \in Queues |-> gone[r] + Held(r)]
    BY <1>0, <1>7 DEF ReturnSaved, queueVars, Leave, Held
  <2>2. \A r \in Queues : Held(r)' = 0 /\ Owed(r)' = Owed(r)
    BY <2>1 DEF Held, Owed, QueueOf
  <2>3. QED
    BY <1>0, <2>1, <2>2 DEF ExactlyOnce
<1>8. CASE ReturnStop
  <2>1. /\ contents' = contents /\ sent' = sent /\ owed' = {}
        /\ saved_event' = saved_event /\ saved_event = NULL
        /\ gone' = [r \in Queues |-> gone[r] + Owed(r)]
    BY <1>0, <1>8 DEF ReturnStop, queueVars, Leave, Owed
  <2>2. \A r \in Queues : /\ Held(r)' = 0 /\ Held(r) = 0 /\ Owed(r)' = 0
                          /\ Owed(r) = 1 => contents[r] = <<>>
    BY <2>1, SavedEvent DEF Held, Owed, QueueOf, Closes
  <2>3. \A r \in Queues : Owed(r) = 1 => Len(contents[r]) = 0 /\ DOMAIN contents[r] = {}
    BY <2>2
  <2>4. QED
    BY <1>0, <2>1, <2>2, <2>3 DEF ExactlyOnce
<1>9. CASE Clear
  <2>1. \A r \in Queues : Owed(r) = 1 => Held(r) = 0
    BY DEF Owed, Held, Closes
  <2>2. /\ contents' = contents /\ sent' = sent /\ owed' = {} /\ saved_event' = NULL
        /\ gone' = [r \in Queues |-> IF r \in QueueOf(saved_event) \cup owed
                                    THEN gone[r] + 1 ELSE gone[r]]
    BY <1>9 DEF Clear, queueVars, Leave
  <2>3. \A r \in Queues : gone'[r] = gone[r] + Held(r) + Owed(r)
    <3>1. SUFFICES ASSUME NEW r \in Queues PROVE gone'[r] = gone[r] + Held(r) + Owed(r)
      OBVIOUS
    <3>2. gone[r] \in Nat
      BY <1>0
    <3>3. QED
      BY <2>1, <2>2, <3>2 DEF Held, Owed
  <2>4. \A r \in Queues : Held(r)' = 0 /\ Owed(r)' = 0
    BY <2>2 DEF Held, Owed, QueueOf
  <2>5. \A r \in Queues : Owed(r) = 1 => DOMAIN contents[r] = {}
    BY DEF Owed, Closes
  <2>6. QED
    <3>1. SUFFICES ASSUME NEW r \in Queues
                   PROVE  /\ sent'[r] = gone'[r] + Len(contents[r])
                          /\ \A i \in DOMAIN contents[r] : contents[r][i].n = gone'[r] + i
      <4>1. \A r \in Queues : gone'[r] \in Nat /\ Len(contents[r]) \in Nat
        BY <1>0, <2>3
      <4>2. QED
        BY <2>2, <2>4, <4>1 DEF ExactlyOnce
    <3>2. gone[r] \in Nat /\ Held(r) \in Nat /\ Owed(r) \in {0, 1} /\ Len(contents[r]) \in Nat
      BY <1>0
    <3>3. gone'[r] = gone[r] + Held(r) + Owed(r)
      BY <2>3
    <3>4. sent'[r] = gone'[r] + Len(contents[r])
      BY <2>2, <3>2, <3>3 DEF ExactlyOnce
    <3>5. CASE Owed(r) = 0
      BY <3>2, <3>3, <3>4, <3>5 DEF ExactlyOnce
    <3>6. CASE Owed(r) = 1
      BY <2>5, <3>4, <3>6
    <3>7. QED
      BY <3>2, <3>5, <3>6
<1>10. QED
  BY <1>1, <1>2, <1>4, <1>5, <1>6, <1>7, <1>8, <1>9, StepsOnEvents
-----------------------------------------------------------------------------
(* The other kinds of steps: those on pipes, on producers and on the pass. *)
LEMMA StepsOnPipes ==
    ASSUME [Next]_vars
    PROVE  \/ UNCHANGED pipeVars
           \/ \E p \in Pipes, answer \in BOOLEAN : Safe(p) /\ At(p) /\ IsEmpty(p, answer)
           \/ \E p \in Pipes, q \in Queues : \E v \in Heads(q) : Read(p, q, v)
           \/ \E q \in Queues : AddPending(q)
           \/ \E q \in Queues : AddOwn(q)
           \/ Clear
<1> DEFINE Kept == UNCHANGED pipeVars
<1> DEFINE Looks == \E p \in Pipes, answer \in BOOLEAN : Safe(p) /\ At(p) /\ IsEmpty(p, answer)
<1> DEFINE Reads == \E p \in Pipes, q \in Queues : \E v \in Heads(q) : Read(p, q, v)
<1>1. ASSUME UNCHANGED vars PROVE Kept
  BY <1>1 DEF vars
<1>2. ASSUME Dequeue \/ LookOther \/ Nap \/ Wait \/ TimedOut \/ ReturnSaved \/ ReturnStop
      PROVE  Kept
  BY <1>2 DEF Dequeue, LookOther, Nap, Wait, TimedOut, ReturnSaved, ReturnStop
<1>3. ASSUME NEW p \in Pipes, LookEmpty(p) \/ LookHeld(p) \/ LookReadable(p)
      PROVE  Looks
  <2>1. Safe(p) /\ At(p) /\ (IsEmpty(p, TRUE) \/ IsEmpty(p, FALSE))
    BY <1>3 DEF LookEmpty, LookHeld, LookReadable
  <2>2. QED
    BY <2>1
<1>4. ASSUME NEW q \in Queues, NEW v \in Heads(q), ReadData(q, v) \/ ReadDataStop(q, v)
      PROVE  Reads
  BY <1>4 DEF ReadData, ReadDataStop, Pipes
<1>5. ASSUME NEW p \in Pipes, NEW q \in Queues, NEW v \in Heads(q), ReadOther(p, q, v)
      PROVE  Reads
  BY <1>5 DEF ReadOther
<1>6. ASSUME NEW q \in Queues, Pushing(q) PROVE Kept
  BY <1>6 DEF Pushing, PushLook, PushWrite, PushFull, PushSignal
<1>7. ASSUME NEW q \in Queues, AddLost(q) \/ AddFreed(q) PROVE Kept
  BY <1>7 DEF AddLost, AddFreed, vars
<1>8. ASSUME Setting PROVE Kept
  BY <1>8 DEF Setting, SetMode, SetIdleMode
<1>9. ASSUME NEW p \in Pipes, PipeCorrupt(p) PROVE Kept
  BY <1>9 DEF PipeCorrupt
<1>10. ASSUME Wakeup \/ LookCorrupt \/ ClearCorrupt PROVE Kept
  BY <1>10 DEF Wakeup, LookCorrupt, ClearCorrupt
<1>11. QED
  <2> HIDE DEF Kept, Looks, Reads
  <2>1. CASE Dequeuing
    <3>1. Kept \/ Looks \/ Reads
      BY <2>1, <1>2, <1>3, <1>4, <1>5 DEF Dequeuing
    <3>2. QED
      BY <3>1 DEF Kept, Looks, Reads
  <2>2. CASE ~Dequeuing
    <3>1. \/ Kept \/ (\E q \in Queues : AddPending(q)) \/ (\E q \in Queues : AddOwn(q)) \/ Clear
      BY <2>2, <1>1, <1>6, <1>7, <1>8, <1>9, <1>10 DEF Next
    <3>2. QED
      BY <3>1 DEF Kept
  <2>3. QED
    BY <2>1, <2>2

(* Only pushes move a producer, and none enters a push after its close.    *)
LEMMA StepsOnProducers ==
    ASSUME [Next]_vars
    PROVE  \/ UNCHANGED producer
           \/ \E q \in Queues :
                 /\ PushLook(q) \/ PushWrite(q) \/ PushFull(q) \/ PushSignal(q)
                 /\ \E value \in {"out", "sawEmpty", "sawEvents", "signal"} :
                       /\ producer' = [producer EXCEPT ![q] = value]
                       /\ value \in {"sawEmpty", "sawEvents"} => q \notin ended /\ ended' = ended
<1> DEFINE Moves(q) ==
        /\ PushLook(q) \/ PushWrite(q) \/ PushFull(q) \/ PushSignal(q)
        /\ \E value \in {"out", "sawEmpty", "sawEvents", "signal"} :
              /\ producer' = [producer EXCEPT ![q] = value]
              /\ value \in {"sawEmpty", "sawEvents"} => q \notin ended /\ ended' = ended
<1>1. CASE UNCHANGED vars
  BY <1>1 DEF vars
<1>2. CASE Dequeue \/ LookOther \/ Nap \/ Wait \/ TimedOut \/ ReturnSaved \/ ReturnStop
  BY <1>2 DEF Dequeue, LookOther, Nap, Wait, TimedOut, ReturnSaved, ReturnStop
<1>3. ASSUME NEW p \in Pipes, LookEmpty(p) \/ LookHeld(p) \/ LookReadable(p)
      PROVE  UNCHANGED producer
  BY <1>3 DEF LookEmpty, LookHeld, LookReadable, IsEmpty
<1>4. ASSUME NEW q \in Queues, NEW v \in Heads(q), ReadData(q, v) \/ ReadDataStop(q, v)
      PROVE  UNCHANGED producer
  BY <1>4 DEF ReadData, ReadDataStop, Read
<1>5. ASSUME NEW p \in Pipes, NEW q \in Queues, NEW v \in Heads(q), ReadOther(p, q, v)
      PROVE  UNCHANGED producer
  BY <1>5 DEF ReadOther, Read
<1>6. ASSUME NEW q \in Queues, Pushing(q) PROVE Moves(q)
  <2>1. CASE PushLook(q)
    BY <2>1 DEF PushLook, queueVars
  <2>2. CASE PushWrite(q)
    <3>1. producer' = [producer EXCEPT ![q] = IF producer[q] = "sawEmpty" THEN "signal" ELSE "out"]
      BY <2>2 DEF PushWrite
    <3>2. QED
      BY <2>2, <3>1
  <2>3. CASE PushFull(q)
    BY <2>3 DEF PushFull
  <2>4. CASE PushSignal(q)
    BY <2>4 DEF PushSignal
  <2>5. QED
    BY <1>6, <2>1, <2>2, <2>3, <2>4 DEF Pushing
<1>7. ASSUME NEW q \in Queues, AddLost(q) \/ AddFreed(q) \/ AddPending(q) \/ AddOwn(q)
      PROVE  UNCHANGED producer
  BY <1>7 DEF AddLost, AddFreed, AddPending, AddOwn, vars
<1>8. ASSUME Setting PROVE UNCHANGED producer
  BY <1>8 DEF Setting, SetMode, SetIdleMode
<1>9. ASSUME NEW p \in Pipes, PipeCorrupt(p) PROVE UNCHANGED producer
  BY <1>9 DEF PipeCorrupt
<1>10. CASE Wakeup \/ LookCorrupt \/ ClearCorrupt \/ Clear
  BY <1>10 DEF Wakeup, LookCorrupt, ClearCorrupt, Clear
<1>11. QED
  <2> HIDE DEF Moves
  <2>1. CASE Dequeuing
    BY <2>1, <1>2, <1>3, <1>4, <1>5 DEF Dequeuing
  <2>2. CASE \E q \in Queues : Moves(q)
    BY <2>2 DEF Moves
  <2>3. QED
    BY <2>1, <2>2, <1>1, <1>6, <1>7, <1>8, <1>9, <1>10 DEF Next
-----------------------------------------------------------------------------
(* Type correctness, by the parts of the state. *)
QueuesTyped ==
    /\ DOMAIN contents = Queues
    /\ \A q \in Queues : contents[q] \in Seq(Values(q)) /\ Len(contents[q]) <= Room
    /\ sent \in [Queues -> Nat] /\ \A q \in Queues : sent[q] <= MaxEvents[q] + 1
    /\ ended \subseteq Queues
    /\ saved_event \in AnyValue \cup {NULL, Wild}
    /\ gone \in [Queues -> Nat] /\ owed \subseteq Queues

PipesTyped ==
    /\ pending \in [Pipes -> SUBSET Queues]
    /\ waiting \in [Pipes -> SUBSET Queues] /\ last \in [Pipes -> Queues \cup {NULL}]

PassTyped ==
    /\ pc \in {"out", "look", "read", "waiting"} /\ loop \in Loops
    /\ stage \in 1 .. 6 /\ pressing \in BOOLEAN
    /\ returned \in AnyValue \cup {NULL, Wild, Stop}

RestTyped ==
    /\ producer \in [Queues -> {"out", "sawEmpty", "sawEvents", "signal"}]
    /\ freed \subseteq Pipes /\ mode \in Loops /\ idle_mode \in IdleModes
    /\ is_simulation_stop \in BOOLEAN /\ clocks \in BOOLEAN
    /\ clears \in 0 .. MaxClears /\ corrupt \in BOOLEAN

(* The four parts are the type invariant. *)
LEMMA TypeParts == TypeOK <=> QueuesTyped /\ PipesTyped /\ PassTyped /\ RestTyped
<1>1. loop \in Loops => Len(Stages[loop]) = 5
  BY FiveStages
<1>2. loop \in Loops => 1 .. Len(Stages[loop]) + 1 = 1 .. 6
  <2>1. 5 + 1 = 6
    OBVIOUS
  <2>2. QED
    BY <1>1, <2>1, Zenon
<1>3. QED
  BY <1>2 DEF TypeOK, QueuesTyped, PipesTyped, PassTyped, RestTyped

(* A step keeps the types of the events and of their histories. *)
LEMMA QueuesTypedStep ==
    ASSUME IInv, [Next]_vars
    PROVE  QueuesTyped'
<1> USE DEF IInv
<1>0. QueuesTyped
  BY TypeParts
<1>1. CASE Untouched
  BY <1>0, <1>1 DEF Untouched, queueVars, QueuesTyped
<1>2. ASSUME NEW q \in Queues, PushWrite(q) PROVE QueuesTyped'
  <2>1. PICK kind \in {"plain", "close"} :
            /\ contents'[q] = Append(contents[q], Event(q, sent[q] + 1, kind))
            /\ Event(q, sent[q] + 1, kind) \in Values(q)
            /\ ended' = IF kind = "close" THEN ended \cup {q} ELSE ended
    BY <1>2, PushAppends
  <2>2. /\ sent' = [sent EXCEPT ![q] = @ + 1] /\ sent[q] <= MaxEvents[q]
        /\ \A r \in Queues : r # q => contents'[r] = contents[r]
        /\ contents[q] \in Seq(Values(q)) /\ DOMAIN contents' = Queues
        /\ Len(contents[q]) < Room
    BY <1>2, PushAppends
  <2>3. contents'[q] \in Seq(Values(q)) /\ Len(contents'[q]) <= Room
    BY <2>1, <2>2, EventBusAssumption
  <2>4. \A r \in Queues : contents'[r] \in Seq(Values(r)) /\ Len(contents'[r]) <= Room
    BY <1>0, <2>2, <2>3 DEF QueuesTyped
  <2>5. sent' \in [Queues -> Nat] /\ \A r \in Queues : sent'[r] <= MaxEvents[r] + 1
    <3>1. sent' \in [Queues -> Nat]
      BY <1>0, <2>2 DEF QueuesTyped
    <3>2. MaxEvents[q] \in Nat /\ sent[q] \in Nat
      BY <1>0, EventBusAssumption DEF QueuesTyped
    <3>3. sent'[q] <= MaxEvents[q] + 1
      BY <1>0, <2>2, <3>2 DEF QueuesTyped
    <3>4. QED
      BY <1>0, <2>2, <3>1, <3>3 DEF QueuesTyped
  <2>6. saved_event' = saved_event /\ gone' = gone /\ owed' = owed /\ ended' \subseteq Queues
    BY <1>0, <1>2, <2>1 DEF PushWrite, heldVars, outVars, QueuesTyped
  <2>7. QED
    BY <1>0, <2>2, <2>4, <2>5, <2>6 DEF QueuesTyped
<1>3. ASSUME NEW p \in Pipes, NEW q \in Queues, NEW v \in Heads(q), Read(p, q, v)
      PROVE  /\ DOMAIN contents' = Queues /\ sent' = sent /\ ended' = ended
             /\ \A r \in Queues : contents'[r] \in Seq(Values(r)) /\ Len(contents'[r]) <= Room
             /\ v \in AnyValue
  <2>1. /\ \A r \in Queues : r # q => contents'[r] = contents[r]
        /\ contents'[q] = Tail(contents[q]) /\ contents[q] # <<>> /\ DOMAIN contents' = Queues
        /\ v \in Values(q)
    BY <1>3, ReadTakesHead
  <2>2. contents[q] \in Seq(Values(q)) /\ Len(contents[q]) <= Room
    BY <1>0 DEF QueuesTyped
  <2>3. contents'[q] \in Seq(Values(q)) /\ Len(contents'[q]) <= Room
    BY <2>1, <2>2, EventBusAssumption
  <2>4. QED
    BY <1>0, <1>3, <2>1, <2>3, EventIsEvent DEF QueuesTyped, Read
<1>4. ASSUME NEW q \in Queues, NEW v \in Heads(q), ReadData(q, v) \/ ReadDataStop(q, v)
      PROVE  QueuesTyped'
  <2>1. Read("data", q, v) /\ "data" \in Pipes
    BY <1>4 DEF ReadData, ReadDataStop, Pipes
  <2>2. gone' = gone /\ owed' \subseteq Queues /\ saved_event' \in {v, saved_event}
    BY <1>0, <1>4 DEF ReadData, ReadDataStop, outVars, QueuesTyped
  <2>3. QED
    BY <1>0, <1>3, <2>1, <2>2 DEF QueuesTyped
<1> DEFINE Counted(S) == gone' = [r \in Queues |-> IF r \in S THEN gone[r] + 1 ELSE gone[r]]
<1>5. ASSUME NEW S, Counted(S) PROVE gone' \in [Queues -> Nat]
  BY <1>0, <1>5 DEF QueuesTyped
<1>6. ASSUME NEW p \in Pipes, NEW q \in Queues, NEW v \in Heads(q), ReadOther(p, q, v)
      PROVE  QueuesTyped'
  <2>1. Read(p, q, v) /\ Counted({q}) /\ saved_event' = saved_event /\ owed' = owed
    BY <1>6 DEF ReadOther, heldVars, Leave
  <2>2. QED
    BY <1>0, <1>3, <1>5, <2>1 DEF QueuesTyped
<1>7. CASE ReturnSaved \/ ReturnStop \/ Clear
  <2>1. contents' = contents /\ sent' = sent /\ ended' = ended
        /\ owed' \subseteq Queues /\ saved_event' \in {NULL, saved_event}
    BY <1>0, <1>7 DEF ReturnSaved, ReturnStop, Clear, queueVars, QueuesTyped
  <2>2. Counted(QueueOf(saved_event)) \/ Counted(owed) \/ Counted(QueueOf(saved_event) \cup owed)
    BY <1>7 DEF ReturnSaved, ReturnStop, Clear, Leave
  <2>3. QED
    BY <1>0, <1>5, <2>1, <2>2 DEF QueuesTyped
<1>8. QED
  BY <1>1, <1>2, <1>4, <1>6, <1>7, StepsOnEvents

(* A step keeps the types of the pipes. *)
LEMMA PipesTypedStep ==
    ASSUME TypeOK, [Next]_vars
    PROVE  PipesTyped'
<1>0. PipesTyped
  BY TypeParts
<1>1. CASE UNCHANGED pipeVars
  BY <1>0, <1>1 DEF pipeVars, PipesTyped
<1>2. ASSUME NEW p \in Pipes, NEW answer \in BOOLEAN, IsEmpty(p, answer)
      PROVE  PipesTyped'
  <2>1. last[p] \in Queues \cup {NULL} /\ Waiting(p) \subseteq Queues
    BY <1>0 DEF PipesTyped, Waiting
  <2>2. PICK more \in SUBSET Queues : waiting' = [waiting EXCEPT ![p] = Waiting(p) \cup more]
    <3>1. PICK resume \in BOOLEAN :
              /\ resume => last[p] # NULL
              /\ waiting' = [waiting EXCEPT ![p] = Waiting(p) \cup IF resume THEN {last[p]} ELSE {}]
      BY <1>2 DEF IsEmpty
    <3>2. QED
      BY <2>1, <3>1
  <2>3. last' = [last EXCEPT ![p] = NULL] \/ last' = last
    BY <1>2 DEF IsEmpty
  <2>4. pending' = [pending EXCEPT ![p] = {}]
    BY <1>2 DEF IsEmpty
  <2>5. QED
    BY <1>0, <2>1, <2>2, <2>3, <2>4 DEF PipesTyped
<1>3. ASSUME NEW p \in Pipes, NEW q \in Queues, NEW v \in Heads(q), Read(p, q, v)
      PROVE  PipesTyped'
  <2>1. Waiting(p) \subseteq Queues
    BY <1>0 DEF PipesTyped, Waiting
  <2>2. /\ pending' = [pending EXCEPT ![p] = {}]
        /\ last' = [last EXCEPT ![p] = q] \/ last' = last
    BY <1>3 DEF Read
  <2>3. \/ waiting' = [waiting EXCEPT ![p] = Waiting(p) \ {q}]
        \/ waiting' = [waiting EXCEPT ![p] = (Waiting(p) \ {q}) \cup {q}]
    BY <1>3 DEF Read
  <2>4. QED
    BY <1>0, <2>1, <2>2, <2>3 DEF PipesTyped
<1>4. ASSUME NEW q \in Queues, AddPending(q) \/ AddOwn(q) PROVE PipesTyped'
  BY <1>0, <1>4, EventBusAssumption DEF AddPending, AddOwn, PipesTyped
<1>5. CASE Clear
  BY <1>0, <1>5 DEF Clear, PipesTyped
<1>6. QED
  BY <1>1, <1>2, <1>3, <1>4, <1>5, StepsOnPipes
-----------------------------------------------------------------------------
(* While a call of event_bus_dequeue is under way, the others only add to  *)
(* what it may read.                                                       *)
Grows ==
    /\ UNCHANGED <<heldVars, waiting, last>>
    /\ \A p \in Pipes : pending[p] \subseteq pending'[p]
    /\ \A q \in Queues : contents[q] # <<>> => contents'[q] # <<>>

Aside == UNCHANGED <<passVars, returned>> /\ (pc # "out" => Grows)
Woken == pc = "waiting" /\ NewPass /\ returned' = returned

(* What can be read before another thread's step can be read after it. *)
LEMMA GrowsReadable ==
    ASSUME TypeOK, Grows, NEW p \in Pipes
    PROVE  /\ Waiting(p) \subseteq Waiting(p)'
           /\ Readable(p) => Readable(p)'
<1>1. waiting[p] \subseteq Queues /\ pending[p] \subseteq Queues
  BY DEF TypeOK
<1>2. Waiting(p) \subseteq Waiting(p)'
  BY <1>1 DEF Grows, Waiting
<1>3. last[p] # NULL => last[p] \in Queues
  BY DEF TypeOK
<1>4. QED
  BY <1>2, <1>3 DEF Grows, Readable

(* A step is one of another thread, or one of these of the dequeuer.       *)
LEMMA StepsOnPass ==
    ASSUME IInv, [Next]_vars
    PROVE  \/ Aside
           \/ Woken
           \/ Dequeue
           \/ \E p \in Pipes : LookEmpty(p) \/ LookHeld(p)
           \/ \E p \in Pipes : LookReadable(p)
           \/ LookOther
           \/ \E q \in Queues : \E v \in Heads(q) : ReadData(q, v)
           \/ \E q \in Queues : \E v \in Heads(q) : ReadDataStop(q, v)
           \/ \E p \in Pipes, q \in Queues : \E v \in Heads(q) : ReadOther(p, q, v)
           \/ ReturnSaved
           \/ ReturnStop
           \/ Nap
           \/ Wait
<1> USE DEF Aside, Grows
<1>1. ASSUME UNCHANGED vars PROVE Aside
  BY <1>1 DEF vars, queueVars, pipeVars, heldVars, passVars, outVars
<1>2. ASSUME NEW q \in Queues, PushLook(q) \/ PushFull(q) PROVE Aside
  BY <1>2 DEF PushLook, PushFull, queueVars, pipeVars, outVars
<1>3. ASSUME NEW q \in Queues, PushWrite(q) PROVE Aside
  <2>1. \A r \in Queues : contents[r] # <<>> => contents'[r] # <<>>
    <3>1. /\ contents[q] \in Seq(Values(q))
          /\ \A r \in Queues : r # q => contents'[r] = contents[r]
          /\ \E kind \in {"plain", "close"} :
                /\ contents'[q] = Append(contents[q], Event(q, sent[q] + 1, kind))
                /\ Event(q, sent[q] + 1, kind) \in Values(q)
      BY <1>3, PushAppends DEF IInv
    <3>2. contents'[q] # <<>>
      BY <3>1
    <3>3. QED
      BY <3>1, <3>2
  <2>2. QED
    BY <1>3, <2>1 DEF PushWrite, pipeVars, outVars
<1>4. ASSUME NEW q \in Queues, PushSignal(q) PROVE Aside \/ Woken
  BY <1>4 DEF PushSignal, Signal, Woken, queueVars, pipeVars, outVars
<1>5. ASSUME Wakeup PROVE Woken
  BY <1>5 DEF Wakeup, Signal, Woken, outVars
<1>6. ASSUME TimedOut PROVE Woken
  BY <1>6 DEF TimedOut, Woken, outVars
<1>7. ASSUME NEW q \in Queues, AddPending(q) PROVE Aside
  <2>1. \A p \in Pipes : pending[p] \subseteq pending'[p]
    BY <1>7 DEF AddPending, IInv, TypeOK
  <2>2. QED
    BY <1>7, <2>1 DEF AddPending, queueVars, outVars
<1>8. ASSUME NEW q \in Queues, AddLost(q) \/ AddFreed(q) PROVE Aside
  BY <1>8, <1>1 DEF AddLost, AddFreed, queueVars, pipeVars, outVars
<1>9. ASSUME NEW q \in Queues, AddOwn(q) PROVE Aside
  BY <1>9 DEF AddOwn, outVars
<1>10. ASSUME Setting PROVE Aside
  <2>1. ASSUME NEW m \in Loops, SetMode(m) PROVE Aside
    BY <2>1 DEF SetMode, outVars
  <2>2. ASSUME NEW m \in IdleModes, SetIdleMode(m) PROVE Aside
    BY <2>2 DEF SetIdleMode, outVars, queueVars, pipeVars
  <2>3. QED
    <3> HIDE DEF Aside
    <3>1. QED
      BY <1>10, <2>1, <2>2 DEF Setting
<1>11. ASSUME Clear PROVE Aside
  BY <1>11 DEF Clear
<1>12. ASSUME LookCorrupt \/ ClearCorrupt PROVE Aside
  BY <1>12 DEF LookCorrupt, ClearCorrupt, queueVars, pipeVars, outVars
<1>13. ASSUME NEW p \in Pipes, PipeCorrupt(p) PROVE Aside
  BY <1>13 DEF PipeCorrupt, queueVars, pipeVars, outVars
<1>14. QED
  <2> HIDE DEF Aside, Grows
  <2>1. CASE Dequeuing
    BY <2>1, <1>6 DEF Dequeuing
  <2>2. ASSUME NEW q \in Queues, Pushing(q) PROVE Aside \/ Woken
    BY <2>2, <1>2, <1>3, <1>4 DEF Pushing
  <2>3. QED
    BY <2>1, <2>2, <1>1, <1>5, <1>7, <1>8, <1>9, <1>10, <1>11, <1>12, <1>13 DEF Next

(* Each flag is set, reset or left alone, but for pressing in a look. *)
LEMMA Flags ==
    ASSUME [Next]_vars
    PROVE  /\ corrupt' \in {TRUE, corrupt}
           /\ is_simulation_stop' \in {TRUE, FALSE, is_simulation_stop}
           /\ pressing' \in {FALSE, pressing, Readable("execution") \/ Readable("service")}
<1> DEFINE F == /\ corrupt' = TRUE \/ corrupt' = corrupt
                /\ \/ is_simulation_stop' = TRUE \/ is_simulation_stop' = FALSE
                   \/ is_simulation_stop' = is_simulation_stop
                /\ \/ pressing' = FALSE \/ pressing' = pressing
                   \/ pressing' = (Readable("execution") \/ Readable("service"))
<1> USE DEF heldVars, passVars, NewPass, Return
<1>1. ASSUME UNCHANGED vars PROVE F
  BY <1>1 DEF vars
<1>2. ASSUME Dequeue \/ LookOther \/ Nap \/ Wait \/ TimedOut \/ ReturnSaved \/ ReturnStop
      PROVE  F
  BY <1>2 DEF Dequeue, LookOther, Nap, Wait, TimedOut, ReturnSaved, ReturnStop
<1>3. ASSUME NEW p \in Pipes, LookEmpty(p) PROVE F
  BY <1>3 DEF LookEmpty, IsEmpty
<1>4. ASSUME NEW p \in Pipes, LookHeld(p) PROVE F
  BY <1>4 DEF LookHeld, IsEmpty
<1>5. ASSUME NEW p \in Pipes, LookReadable(p) PROVE F
  BY <1>5 DEF LookReadable, IsEmpty
<1>6. ASSUME NEW p \in Pipes, PipeCorrupt(p) PROVE F
  BY <1>6 DEF PipeCorrupt
<1>7. ASSUME NEW p \in Pipes, NEW q \in Queues, NEW v \in Heads(q),
             ReadData(q, v) \/ ReadDataStop(q, v) \/ ReadOther(p, q, v)
      PROVE  F
  BY <1>7 DEF ReadData, ReadDataStop, ReadOther, Read
<1>8. ASSUME NEW q \in Queues, Pushing(q) PROVE F
  BY <1>8 DEF Pushing, PushLook, PushWrite, PushFull, PushSignal, Signal
<1>9. ASSUME NEW q \in Queues, AddPending(q) \/ AddLost(q) \/ AddFreed(q) \/ AddOwn(q)
      PROVE  F
  BY <1>9 DEF AddPending, AddLost, AddFreed, AddOwn, vars
<1>10. ASSUME Wakeup \/ LookCorrupt \/ ClearCorrupt \/ Clear PROVE F
  BY <1>10 DEF Wakeup, Signal, LookCorrupt, ClearCorrupt, Clear
<1>11. ASSUME Setting PROVE F
  BY <1>11 DEF Setting, SetMode, SetIdleMode
<1>12. QED
  <2> HIDE DEF F
  <2>1. Pipes # {}
    BY DEF Pipes
  <2>2. ASSUME Dequeuing PROVE F
    BY <2>1, <2>2, <1>2, <1>3, <1>4, <1>5, <1>7 DEF Dequeuing
  <2>3. F
    BY <2>2, <1>1, <1>6, <1>8, <1>9, <1>10, <1>11 DEF Next
  <2>4. QED
    BY <2>3 DEF F

(* A step keeps the types of the pass. *)
LEMMA PassTypedStep ==
    ASSUME IInv, [Next]_vars
    PROVE  PassTyped'
<1> DEFINE Placed == /\ pc' \in {"out", "look", "read", "waiting"} /\ loop' \in Loops
                     /\ stage' \in 1 .. 6
                     /\ returned' \in AnyValue \cup {NULL, Wild, Stop}
<1> USE DEF IInv
<1>0. PassTyped /\ mode \in Loops
  BY TypeParts DEF RestTyped
<1>1. Len(Stages[loop]) = 5
  BY <1>0, FiveStages DEF PassTyped
<1>2. ASSUME Aside \/ Woken \/ Nap \/ Wait PROVE Placed
  BY <1>0, <1>2 DEF Aside, Woken, Nap, Wait, passVars, outVars, NewPass, PassTyped
<1>3. ASSUME Dequeue PROVE Placed
  BY <1>0, <1>3 DEF Dequeue, outVars, PassTyped
<1>4. ASSUME Advance, stage <= 5, returned' = returned PROVE Placed
  BY <1>0, <1>4 DEF Advance, PassTyped
<1>5. ASSUME NEW p \in Pipes, LookEmpty(p) \/ LookHeld(p) PROVE Placed
  <2>1. stage <= 5 /\ returned' = returned
    BY <1>1, <1>5 DEF LookEmpty, LookHeld, At, IsEmpty, outVars
  <2>2. Advance
    BY <1>5 DEF LookEmpty, LookHeld
  <2>3. QED
    BY <1>4, <2>1, <2>2
<1>6. ASSUME NEW p \in Pipes, LookReadable(p) PROVE Placed
  BY <1>0, <1>6 DEF LookReadable, IsEmpty, outVars, PassTyped
<1>7. ASSUME LookOther PROVE Placed
  BY <1>1, <1>4, <1>7 DEF LookOther, At, outVars
<1>8. ASSUME NEW q \in Queues, NEW v \in Heads(q), ReadData(q, v) PROVE Placed
  <2>1. stage <= 5
    BY <1>1, <1>8 DEF ReadData, Read, Reading
  <2>2. QED
    BY <1>4, <1>8, <2>1 DEF ReadData, outVars
<1>9. ASSUME NEW q \in Queues, NEW v \in Heads(q), ReadDataStop(q, v) PROVE Placed
  BY <1>0, <1>9 DEF ReadDataStop, NewPass, PassTyped
<1>10. ASSUME NEW v \in AnyValue \cup {NULL, Wild, Stop}, Return(v) PROVE Placed
  BY <1>0, <1>10 DEF Return, PassTyped
<1>11. ASSUME NEW p \in Pipes, NEW q \in Queues, NEW v \in Heads(q), ReadOther(p, q, v)
       PROVE  Placed
  <2>1. v \in AnyValue
    BY <1>11, ReadTakesHead, EventIsEvent DEF ReadOther
  <2>2. QED
    BY <1>10, <1>11, <2>1 DEF ReadOther
<1>12. ASSUME ReturnSaved PROVE Placed
  BY <1>10, <1>12 DEF ReturnSaved, TypeOK
<1>13. ASSUME ReturnStop PROVE Placed
  BY <1>10, <1>13 DEF ReturnStop
<1>14. pressing' \in BOOLEAN
  <2>1. (Readable("execution") \/ Readable("service")) \in BOOLEAN
    OBVIOUS
  <2>2. pressing \in BOOLEAN
    BY <1>0 DEF PassTyped
  <2>3. QED
    BY <2>1, <2>2, Flags
<1>15. QED
  <2>1. Placed
    <3> HIDE DEF Placed
    <3>1. QED
      BY <1>2, <1>3, <1>5, <1>6, <1>7, <1>8, <1>9, <1>11, <1>12, <1>13, StepsOnPass
  <2>2. QED
    BY <1>14, <2>1 DEF PassTyped
-----------------------------------------------------------------------------
(* What is corrupt stays as it is. *)
LEMMA CorruptEnds ==
    ASSUME corrupt, [Next]_vars
    PROVE  UNCHANGED vars
<1>1. ~(Dequeue \/ LookOther \/ Nap \/ Wait \/ TimedOut \/ ReturnSaved \/ ReturnStop)
  BY DEF Dequeue, LookOther, Nap, Wait, TimedOut, ReturnSaved, ReturnStop
<1>2. \A p \in Pipes : ~(LookEmpty(p) \/ LookHeld(p) \/ LookReadable(p) \/ PipeCorrupt(p))
  BY DEF LookEmpty, LookHeld, LookReadable, Safe, PipeCorrupt
<1>3. \A p \in Pipes, q \in Queues : \A v \in Heads(q) :
          ~(ReadData(q, v) \/ ReadDataStop(q, v) \/ ReadOther(p, q, v))
  BY DEF ReadData, ReadDataStop, ReadOther, Read, Safe
<1>4. \A q \in Queues : ~Pushing(q)
  BY DEF Pushing, PushLook, PushWrite, PushFull, PushSignal
<1>5. \A q \in Queues : ~(AddPending(q) \/ AddLost(q) \/ AddFreed(q) \/ AddOwn(q))
  BY DEF AddPending, AddLost, AddFreed, AddOwn
<1>6. ~(Wakeup \/ LookCorrupt \/ ClearCorrupt \/ Clear) /\ ~Setting
  BY DEF Wakeup, LookCorrupt, ClearCorrupt, Clear, Setting, SetMode, SetIdleMode
<1>7. Pipes # {}
  BY DEF Pipes
<1>8. ~Dequeuing
  BY <1>1, <1>2, <1>3, <1>7 DEF Dequeuing
<1>9. QED
  BY <1>2, <1>4, <1>5, <1>6, <1>8 DEF Next

(* What the constructor set, only these change.  *)
LEMMA StepsOnBus ==
    ASSUME [Next]_vars
    PROVE  \/ UNCHANGED busVars
           \/ Setting
           \/ Clear
<1> DEFINE Kept == UNCHANGED busVars
<1>1. ASSUME UNCHANGED vars PROVE Kept
  BY <1>1 DEF vars
<1>2. ASSUME Dequeue \/ LookOther \/ Nap \/ Wait \/ TimedOut \/ ReturnSaved \/ ReturnStop
      PROVE  Kept
  BY <1>2 DEF Dequeue, LookOther, Nap, Wait, TimedOut, ReturnSaved, ReturnStop
<1>3. ASSUME NEW p \in Pipes, LookEmpty(p) \/ LookHeld(p) \/ LookReadable(p) \/ PipeCorrupt(p)
      PROVE  Kept
  BY <1>3 DEF LookEmpty, LookHeld, LookReadable, IsEmpty, PipeCorrupt
<1>4. ASSUME NEW p \in Pipes, NEW q \in Queues, NEW v \in Heads(q),
             ReadData(q, v) \/ ReadDataStop(q, v) \/ ReadOther(p, q, v)
      PROVE  Kept
  BY <1>4 DEF ReadData, ReadDataStop, ReadOther, Read
<1>5. ASSUME NEW q \in Queues, Pushing(q) PROVE Kept
  BY <1>5 DEF Pushing, PushLook, PushWrite, PushFull, PushSignal
<1>6. ASSUME NEW q \in Queues, AddPending(q) \/ AddLost(q) \/ AddFreed(q) \/ AddOwn(q)
      PROVE  Kept
  BY <1>6 DEF AddPending, AddLost, AddFreed, AddOwn, vars
<1>7. ASSUME Wakeup \/ LookCorrupt \/ ClearCorrupt PROVE Kept
  BY <1>7 DEF Wakeup, LookCorrupt, ClearCorrupt
<1>8. QED
  <2> HIDE DEF Kept
  <2>1. Pipes # {}
    BY DEF Pipes
  <2>2. ASSUME Dequeuing PROVE Kept
    BY <2>1, <2>2, <1>2, <1>3, <1>4 DEF Dequeuing
  <2>3. Kept \/ Setting \/ Clear
    BY <2>2, <1>1, <1>3, <1>5, <1>6, <1>7 DEF Next
  <2>4. QED
    BY <2>3 DEF Kept

(* A step keeps the types of the producers and of the bus. *)
LEMMA RestTypedStep ==
    ASSUME TypeOK, [Next]_vars
    PROVE  RestTyped'
<1>0. RestTyped
  BY TypeParts
<1>1. producer' \in [Queues -> {"out", "sawEmpty", "sawEvents", "signal"}]
  <2>1. CASE UNCHANGED producer
    BY <1>0, <2>1 DEF RestTyped
  <2>2. CASE \E q \in Queues, value \in {"out", "sawEmpty", "sawEvents", "signal"} :
                producer' = [producer EXCEPT ![q] = value]
    BY <1>0, <2>2 DEF RestTyped
  <2>3. QED
    BY <2>1, <2>2, StepsOnProducers
<1>2. /\ freed' \subseteq Pipes /\ mode' \in Loops /\ idle_mode' \in IdleModes
      /\ clocks' \in BOOLEAN /\ clears' \in 0 .. MaxClears
  <2>1. CASE UNCHANGED busVars
    BY <1>0, <2>1 DEF busVars, RestTyped
  <2>2. CASE Setting
    BY <1>0, <2>2 DEF Setting, SetMode, SetIdleMode, RestTyped
  <2>3. CASE Clear
    BY <1>0, <2>3, EventBusAssumption DEF Clear, RestTyped
  <2>4. QED
    BY <2>1, <2>2, <2>3, StepsOnBus
<1>3. is_simulation_stop' \in BOOLEAN /\ corrupt' \in BOOLEAN
  BY <1>0, Flags DEF RestTyped
<1>4. QED
  BY <1>1, <1>2, <1>3 DEF RestTyped
-----------------------------------------------------------------------------
(* The other parts of the invariant. *)
LEMMA TypeStep ==
    ASSUME IInv, [Next]_vars
    PROVE  TypeOK'
<1>1. QueuesTyped' /\ PipesTyped' /\ PassTyped' /\ RestTyped'
  BY QueuesTypedStep, PipesTypedStep, PassTypedStep, RestTypedStep DEF IInv
<1>2. loop' \in Loops => Len(Stages[loop']) = 5
  BY FiveStages
<1>3. loop' \in Loops => 1 .. Len(Stages[loop']) + 1 = 1 .. 6
  <2>1. 5 + 1 = 6
    OBVIOUS
  <2>2. QED
    BY <1>2, <2>1, Zenon
<1>4. QED
  BY <1>1, <1>3 DEF TypeOK, QueuesTyped, PipesTyped, PassTyped, RestTyped

(* What a look and a read do to the trees. *)
LEMMA LookMoves ==
    ASSUME TypeOK, NEW p \in Pipes, NEW answer \in BOOLEAN, IsEmpty(p, answer)
    PROVE  /\ contents' = contents /\ saved_event' = saved_event
           /\ answer <=> ~Readable(p)
           /\ pending' = [pending EXCEPT ![p] = {}]
           /\ \/ /\ last' = last
                 /\ waiting' = [waiting EXCEPT ![p] = Waiting(p)]
              \/ /\ last[p] # NULL /\ contents[last[p]] # <<>>
                 /\ last' = [last EXCEPT ![p] = NULL]
                 /\ waiting' = [waiting EXCEPT ![p] = Waiting(p) \cup {last[p]}]
           /\ ~answer => waiting'[p] # {}
<1>1. /\ contents' = contents /\ saved_event' = saved_event
      /\ answer <=> ~Readable(p)
      /\ pending' = [pending EXCEPT ![p] = {}]
  BY DEF IsEmpty, queueVars, heldVars
<1>2. CASE last[p] # NULL /\ Readable(p)
  <2>1. /\ last' = [last EXCEPT ![p] = NULL]
        /\ waiting' = [waiting EXCEPT ![p] = Waiting(p) \cup {last[p]}]
    BY <1>2 DEF IsEmpty
  <2>2. contents[last[p]] # <<>>
    BY <1>2 DEF Readable
  <2>3. waiting'[p] # {}
    BY <2>1 DEF TypeOK
  <2>4. QED
    BY <1>1, <1>2, <2>1, <2>2, <2>3
<1>3. CASE ~(last[p] # NULL /\ Readable(p))
  <2>1. last' = last /\ waiting' = [waiting EXCEPT ![p] = Waiting(p) \cup {}]
    BY <1>3 DEF IsEmpty
  <2>2. waiting' = [waiting EXCEPT ![p] = Waiting(p)]
    BY <2>1
  <2>3. ~answer => waiting'[p] # {}
    BY <1>1, <1>3, <2>2 DEF Readable, TypeOK
  <2>4. QED
    BY <1>1, <2>1, <2>2, <2>3
<1>4. QED
  BY <1>2, <1>3

(* ... and event_pipe_read: the queue read stays, is kept aside or goes.   *)
LEMMA ReadMoves ==
    ASSUME TypeOK, NEW p \in Pipes, NEW q \in Queues, NEW v \in Heads(q), Read(p, q, v)
    PROVE  /\ q \in Waiting(p) /\ pending' = [pending EXCEPT ![p] = {}]
           /\ last' = last \/ last' = [last EXCEPT ![p] = q]
           /\ \/ waiting' = [waiting EXCEPT ![p] = Waiting(p) \ {q}]
              \/ /\ waiting' = [waiting EXCEPT ![p] = (Waiting(p) \ {q}) \cup {q}]
                 /\ Len(contents[q]) # 1
BY DEF Read

(* A step keeps every queue in its pipe. *)
LEMMA HomesStep ==
    ASSUME IInv, [Next]_vars
    PROVE  Homes'
<1> DEFINE InPipes == /\ \A p \in Pipes : \A q \in waiting[p] \cup pending[p] : PipeOf[q] = p
                      /\ \A p \in Pipes : last[p] # NULL => PipeOf[last[p]] = p
<1>0. TypeOK /\ Homes /\ PipesTyped
  BY TypeParts DEF IInv
<1>1. InPipes'
  <2>1. ASSUME UNCHANGED pipeVars PROVE InPipes'
    BY <1>0, <2>1 DEF pipeVars, Homes
  <2>2. ASSUME NEW p \in Pipes, NEW answer \in BOOLEAN, IsEmpty(p, answer) PROVE InPipes'
    BY <1>0, <2>2, LookMoves DEF Homes, PipesTyped, Waiting
  <2>3. ASSUME NEW p \in Pipes, NEW q \in Queues, NEW v \in Heads(q), Read(p, q, v)
        PROVE  InPipes'
    BY <1>0, <2>3, ReadMoves DEF Homes, PipesTyped, Waiting
  <2>4. ASSUME NEW q \in Queues, AddPending(q) PROVE InPipes'
    BY <1>0, <2>4 DEF AddPending, Homes, PipesTyped
  <2>5. ASSUME NEW q \in Queues, AddOwn(q) PROVE InPipes'
    BY <1>0, <2>5 DEF AddOwn, Homes, PipesTyped
  <2>6. ASSUME Clear PROVE InPipes'
    BY <1>0, <2>6 DEF Clear, Homes, PipesTyped
  <2>7. QED
    <3> HIDE DEF InPipes
    <3>1. QED
      BY <2>1, <2>2, <2>3, <2>4, <2>5, <2>6, StepsOnPipes
<1>2. \A q \in QueueOf(saved_event)' : PipeOf[q] = "data"
  <2>1. CASE saved_event' = saved_event
    BY <1>0, <2>1 DEF Homes, QueueOf
  <2>2. CASE saved_event' = NULL
    BY <2>2 DEF QueueOf
  <2>3. ASSUME NEW q \in Queues, NEW v \in Heads(q), ReadData(q, v)
        PROVE  \A r \in QueueOf(saved_event)' : PipeOf[r] = "data"
    <3>1. Read("data", q, v) /\ "data" \in Pipes /\ saved_event' = v
      BY <2>3 DEF ReadData, Pipes
    <3>2. PipeOf[q] = "data" /\ v \in Values(q)
      BY <3>1, ReadTakesHead DEF IInv
    <3>3. QueueOf(v) = {q}
      BY <3>2, EventIsEvent
    <3>4. QED
      BY <3>1, <3>2, <3>3 DEF QueueOf
  <2>4. saved_event' \in {NULL, saved_event}
        \/ \E q \in Queues : \E v \in Heads(q) : ReadData(q, v)
    BY StepsOnEvents DEF Untouched, PushWrite, ReadDataStop, ReadOther, heldVars,
                         ReturnSaved, ReturnStop, Clear
  <2>5. QED
    BY <2>1, <2>2, <2>3, <2>4
<1>3. QED
  BY <1>1, <1>2 DEF Homes

(* A step keeps a close the last event of its queue. *)
LEMMA ClosesStep ==
    ASSUME IInv, [Next]_vars
    PROVE  Closes'
<1> DEFINE Sound(q) == /\ q \notin ended => sent[q] <= MaxEvents[q]
                       /\ \A i \in DOMAIN contents[q] :
                             /\ contents[q][i].kind \in {"plain", "close"}
                             /\ contents[q][i].kind = "close" => i = Len(contents[q]) /\ q \in ended
                       /\ q \in owed => /\ q \in ended /\ contents[q] = <<>>
                                        /\ q \notin QueueOf(saved_event)
<1> DEFINE Sounds == \A q \in Queues : Sound(q)
<1>0. TypeOK /\ QueuesTyped /\ RestTyped /\ Closes /\ Homes /\ ExactlyOnce /\ Reading
  BY TypeParts DEF IInv
<1>1. Sounds
  BY <1>0 DEF Closes
<1>2. ASSUME Untouched PROVE Sounds'
  BY <1>1, <1>2 DEF Untouched, queueVars, QueueOf
<1>3. ASSUME NEW q \in Queues, PushWrite(q) PROVE Sounds'
  <2>1. PICK kind \in {"plain", "close"} :
            /\ contents'[q] = Append(contents[q], Event(q, sent[q] + 1, kind))
            /\ Event(q, sent[q] + 1, kind) \in Values(q)
            /\ ended' = IF kind = "close" THEN ended \cup {q} ELSE ended
            /\ sent[q] = MaxEvents[q] => kind = "close"
    BY <1>0, <1>3, PushAppends
  <2>2. /\ sent' = [sent EXCEPT ![q] = @ + 1] /\ sent[q] <= MaxEvents[q] /\ q \notin ended
        /\ \A r \in Queues : r # q => contents'[r] = contents[r]
        /\ contents[q] \in Seq(Values(q))
    BY <1>0, <1>3, PushAppends
  <2>3. saved_event' = saved_event /\ owed' = owed
    BY <1>3 DEF PushWrite, heldVars, outVars
  <2>4. QueueOf(saved_event)' = QueueOf(saved_event)
    BY <2>3 DEF QueueOf
  <2>5. \A r \in Queues : r # q => (r \in ended' <=> r \in ended) /\ sent'[r] = sent[r]
    BY <1>0, <2>1, <2>2 DEF QueuesTyped
  <2>6. q \notin ended' => sent'[q] <= MaxEvents[q]
    <3>1. sent[q] \in Nat /\ MaxEvents[q] \in Nat /\ sent'[q] = sent[q] + 1
      BY <1>0, <2>2, EventBusAssumption DEF QueuesTyped
    <3>2. q \notin ended' => sent[q] # MaxEvents[q]
      BY <2>1
    <3>3. QED
      BY <2>2, <3>1, <3>2
  <2>7. /\ Len(contents[q]) \in Nat /\ Len(contents'[q]) = Len(contents[q]) + 1
        /\ DOMAIN contents'[q] = 1 .. Len(contents[q]) + 1
        /\ DOMAIN contents[q] = 1 .. Len(contents[q])
        /\ \A i \in 1 .. Len(contents[q]) : contents'[q][i] = contents[q][i]
        /\ contents'[q][Len(contents[q]) + 1].kind = kind
    BY <2>1, <2>2 DEF Event
  <2>8. \A i \in DOMAIN contents[q] : contents[q][i].kind = "plain"
    BY <1>1, <2>2
  <2>9. \A i \in DOMAIN contents'[q] :
            /\ contents'[q][i].kind \in {"plain", "close"}
            /\ contents'[q][i].kind = "close" => i = Len(contents'[q]) /\ q \in ended'
    <3>1. SUFFICES ASSUME NEW i \in DOMAIN contents'[q]
                   PROVE  /\ contents'[q][i].kind \in {"plain", "close"}
                          /\ contents'[q][i].kind = "close" => i = Len(contents'[q]) /\ q \in ended'
      OBVIOUS
    <3>2. CASE i \in 1 .. Len(contents[q])
      BY <2>7, <2>8, <3>2
    <3>3. CASE i = Len(contents[q]) + 1
      BY <2>1, <2>7, <3>3
    <3>4. QED
      BY <2>7, <3>2, <3>3
  <2>10. q \notin owed
    BY <1>1, <2>2
  <2>11. ASSUME NEW r \in Queues, r # q PROVE Sound(r)'
    <3>1. contents'[r] = contents[r]
      BY <2>2, <2>11
    <3>2. QED
      BY <1>1, <2>3, <2>4, <2>5, <2>11, <3>1
  <2>12. Sound(q)'
    BY <2>3, <2>6, <2>9, <2>10
  <2>13. QED
    BY <2>11, <2>12
<1>4. ASSUME NEW p \in Pipes, NEW q \in Queues, NEW v \in Heads(q), Read(p, q, v)
      PROVE  \A r \in Queues :
                /\ r \notin ended' => sent'[r] <= MaxEvents[r]
                /\ \A i \in DOMAIN contents'[r] :
                      /\ contents'[r][i].kind \in {"plain", "close"}
                      /\ contents'[r][i].kind = "close" => i = Len(contents'[r]) /\ r \in ended'
                /\ r \in owed => r \in ended' /\ contents'[r] = <<>> /\ r # q
                                 /\ r \notin QueueOf(saved_event)
  <2>1. /\ \A r \in Queues : r # q => contents'[r] = contents[r]
        /\ contents'[q] = Tail(contents[q]) /\ contents[q] # <<>>
    BY <1>0, <1>4, ReadTakesHead
  <2>2. contents[q] \in Seq(Values(q))
    BY <1>0 DEF QueuesTyped
  <2>3. /\ Len(contents'[q]) = Len(contents[q]) - 1 /\ Len(contents[q]) \in Nat
        /\ \A i \in DOMAIN contents'[q] :
              i \in Nat /\ i + 1 \in DOMAIN contents[q] /\ contents'[q][i] = contents[q][i + 1]
    BY <2>1, <2>2
  <2>4. \A i \in DOMAIN contents'[q] :
            /\ contents'[q][i].kind \in {"plain", "close"}
            /\ contents'[q][i].kind = "close" => i = Len(contents'[q]) /\ q \in ended
    BY <1>1, <2>3
  <2>5. sent' = sent /\ ended' = ended
    BY <1>4 DEF Read
  <2>6. q \notin owed
    BY <1>1, <2>1
  <2>7. ASSUME NEW r \in Queues, r # q
        PROVE  /\ r \notin ended' => sent'[r] <= MaxEvents[r]
               /\ \A i \in DOMAIN contents'[r] :
                     /\ contents'[r][i].kind \in {"plain", "close"}
                     /\ contents'[r][i].kind = "close" => i = Len(contents'[r]) /\ r \in ended'
               /\ r \in owed => r \in ended' /\ contents'[r] = <<>> /\ r # q
                                /\ r \notin QueueOf(saved_event)
    <3>1. contents'[r] = contents[r]
      BY <2>1, <2>7
    <3>2. QED
      BY <1>1, <2>5, <2>7, <3>1
  <2>8. q \notin ended' => sent'[q] <= MaxEvents[q]
    BY <1>1, <2>5
  <2>9. QED
    BY <2>4, <2>5, <2>6, <2>7, <2>8
<1>5. ASSUME NEW q \in Queues, NEW v \in Heads(q), ReadData(q, v) PROVE Sounds'
  <2>1. Read("data", q, v) /\ "data" \in Pipes /\ saved_event' = v /\ owed' = owed
    BY <1>5 DEF ReadData, Pipes, outVars
  <2>2. QueueOf(v) = {q}
    BY <1>0, <2>1, ReadTakesHead, EventIsEvent
  <2>3. QueueOf(saved_event)' = {q}
    BY <2>1, <2>2 DEF QueueOf
  <2>4. QED
    BY <1>4, <2>1, <2>3
<1>6. ASSUME NEW q \in Queues, NEW v \in Heads(q), ReadDataStop(q, v) PROVE Sounds'
  <2>1. /\ Read("data", q, v) /\ "data" \in Pipes /\ v.kind = "stop"
        /\ saved_event' = saved_event /\ owed' = owed \cup {q}
    BY <1>6 DEF ReadDataStop, Pipes
  <2>2. /\ Len(contents[q]) = 1 /\ contents'[q] = Tail(contents[q]) /\ q \in ended
    BY <1>0, <2>1, ReadTakesHead
  <2>3. contents'[q] = <<>>
    <3>1. contents[q] \in Seq(Values(q))
      BY <1>0 DEF QueuesTyped
    <3>2. contents[q] # <<>>
      BY <2>1 DEF Read
    <3>3. contents'[q] \in Seq(Values(q)) /\ Len(contents'[q]) = 0
      BY <2>2, <3>1, <3>2
    <3>4. QED
      BY <3>3
  <2>4. ended' = ended /\ saved_event = NULL
    BY <1>0, <2>1 DEF Reading, Read
  <2>5. QueueOf(saved_event)' = {} /\ QueueOf(saved_event) = {}
    BY <2>1, <2>4 DEF QueueOf
  <2>6. QED
    BY <1>4, <2>1, <2>2, <2>3, <2>4, <2>5
<1>7. ASSUME NEW p \in Pipes, NEW q \in Queues, NEW v \in Heads(q), ReadOther(p, q, v)
      PROVE  Sounds'
  <2>1. Read(p, q, v) /\ saved_event' = saved_event /\ owed' = owed
    BY <1>7 DEF ReadOther, heldVars
  <2>2. QueueOf(saved_event)' = QueueOf(saved_event)
    BY <2>1 DEF QueueOf
  <2>3. QED
    BY <1>4, <2>1, <2>2
<1>8. ASSUME ReturnSaved \/ ReturnStop \/ Clear PROVE Sounds'
  <2>1. /\ contents' = contents /\ sent' = sent /\ ended' = ended
        /\ owed' \in {owed, {}} /\ saved_event' \in {NULL, saved_event}
    BY <1>8 DEF ReturnSaved, ReturnStop, Clear, queueVars
  <2>2. QueueOf(saved_event)' \subseteq QueueOf(saved_event)
    BY <2>1 DEF QueueOf
  <2>3. QED
    BY <1>1, <2>1, <2>2
<1>9. \A q \in Queues : producer'[q] \in {"sawEmpty", "sawEvents"} => q \notin ended'
  <2>1. CASE UNCHANGED producer
    <3>1. CASE ended' = ended
      BY <1>0, <2>1, <3>1 DEF Closes
    <3>2. ASSUME NEW q \in Queues, PushWrite(q) PROVE FALSE
      <4>1. /\ producer[q] \in {"sawEmpty", "sawEvents"}
            /\ producer' = [producer EXCEPT ![q] = IF @ = "sawEmpty" THEN "signal" ELSE "out"]
        BY <3>2 DEF PushWrite
      <4>2. QED
        BY <1>0, <2>1, <4>1 DEF RestTyped
    <3>3. ended' = ended \/ \E q \in Queues : PushWrite(q)
      BY StepsOnEvents DEF Untouched, queueVars, ReadData, ReadDataStop, ReadOther, Read,
                           ReturnSaved, ReturnStop, Clear
    <3>4. QED
      BY <3>1, <3>2, <3>3
  <2>2. ASSUME NEW q \in Queues, PushLook(q) \/ PushWrite(q) \/ PushFull(q) \/ PushSignal(q),
               NEW value \in {"out", "sawEmpty", "sawEvents", "signal"},
               producer' = [producer EXCEPT ![q] = value],
               value \in {"sawEmpty", "sawEvents"} => q \notin ended /\ ended' = ended
        PROVE  \A r \in Queues : producer'[r] \in {"sawEmpty", "sawEvents"} => r \notin ended'
    <3>1. ended' \subseteq ended \cup {q}
      BY <2>2 DEF PushLook, PushWrite, PushFull, PushSignal, queueVars
    <3>2. QED
      BY <1>0, <2>2, <3>1 DEF RestTyped, Closes
  <2>3. QED
    BY <2>1, <2>2, StepsOnProducers
<1>10. Sounds'
  <2> HIDE DEF Sounds
  <2>1. QED
    BY <1>2, <1>3, <1>5, <1>6, <1>7, <1>8, StepsOnEvents
<1>11. owed' \subseteq Queues
  BY QueuesTypedStep DEF QueuesTyped
<1>12. QED
  BY <1>9, <1>10, <1>11 DEF Closes

(* A step keeps what a read relies on until it is done. *)
LEMMA ReadingStep ==
    ASSUME IInv, [Next]_vars
    PROVE  Reading'
<1>0. TypeOK /\ Reading /\ PipesTyped
  BY TypeParts DEF IInv
<1>1. ASSUME Aside PROVE Reading'
  <2>1. SUFFICES ASSUME pc = "read" PROVE Reading'
    BY <1>1 DEF Aside, passVars, Reading
  <2>2. Grows /\ stage' = stage /\ loop' = loop /\ saved_event' = saved_event
    BY <1>1, <2>1 DEF Aside, Grows, passVars, heldVars
  <2>3. \A p \in Pipes : Waiting(p) \subseteq Waiting(p)'
    BY <1>0, <2>2, GrowsReadable
  <2>4. Waiting(Stages[loop][stage])' # {}
    <3>1. PICK p \in Pipes : p = Stages[loop][stage] /\ Waiting(p) # {}
      BY <1>0, <2>1 DEF Reading
    <3>2. Waiting(p)' # {} /\ p = Stages[loop'][stage']
      BY <2>2, <2>3, <3>1
    <3>3. QED
      BY <3>2 DEF Waiting
  <2>5. QED
    BY <1>0, <2>1, <2>2, <2>4 DEF Reading, Waiting
<1>2. ASSUME NEW p \in Pipes, LookReadable(p) PROVE Reading'
  <2>1. /\ Stages[loop][stage] = p /\ stage <= Len(Stages[loop])
        /\ stage' = stage /\ loop' = loop /\ (p = "data" => saved_event = NULL)
        /\ IsEmpty(p, FALSE)
    BY <1>2 DEF LookReadable, At, MayRead
  <2>2. waiting'[p] # {} /\ saved_event' = saved_event
    BY <1>0, <2>1, LookMoves
  <2>3. Waiting(p)' # {}
    BY <2>2 DEF Waiting
  <2>4. QED
    BY <2>1, <2>2, <2>3 DEF Reading, Waiting
<1>3. ASSUME pc' # "read" PROVE Reading'
  BY <1>3 DEF Reading
<1>4. ASSUME Woken \/ Dequeue \/ LookOther \/ ReturnSaved \/ ReturnStop \/ Nap \/ Wait
      PROVE  pc' # "read"
  BY <1>4 DEF Woken, Dequeue, LookOther, ReturnSaved, ReturnStop, Nap, Wait,
              NewPass, Advance, Return
<1>5. ASSUME NEW p \in Pipes, LookEmpty(p) \/ LookHeld(p) PROVE pc' # "read"
  BY <1>5 DEF LookEmpty, LookHeld, Advance
<1>6. ASSUME NEW p \in Pipes, NEW q \in Queues, NEW v \in Heads(q),
             ReadData(q, v) \/ ReadDataStop(q, v) \/ ReadOther(p, q, v)
      PROVE  pc' # "read"
  BY <1>6 DEF ReadData, ReadDataStop, ReadOther, NewPass, Advance, Return
<1>7. QED
  <2>1. Pipes # {}
    BY DEF Pipes
  <2>2. QED
    BY <1>1, <1>2, <1>3, <1>4, <1>5, <1>6, <2>1, StepsOnPass

(* A step leaves no queue without an event in a tree. *)
LEMMA FilledStep ==
    ASSUME IInv, [Next]_vars
    PROVE  Filled'
<1> DEFINE Full == \A p \in Pipes : \A q \in waiting[p] : contents[q] # <<>>
<1>0. TypeOK /\ Filled /\ PipesTyped /\ QueuesTyped /\ Homes /\ Closes /\ ExactlyOnce
  BY TypeParts DEF IInv
<1>1. \/ \A q \in Queues : contents[q] # <<>> => contents'[q] # <<>>
      \/ \E p \in Pipes, q \in Queues : \E v \in Heads(q) : Read(p, q, v)
  <2>1. ASSUME NEW q \in Queues, PushWrite(q)
        PROVE  \A r \in Queues : contents[r] # <<>> => contents'[r] # <<>>
    <3>1. /\ contents[q] \in Seq(Values(q))
          /\ \A r \in Queues : r # q => contents'[r] = contents[r]
          /\ \E kind \in {"plain", "close"} :
                /\ contents'[q] = Append(contents[q], Event(q, sent[q] + 1, kind))
                /\ Event(q, sent[q] + 1, kind) \in Values(q)
      BY <1>0, <2>1, PushAppends
    <3>2. contents'[q] # <<>>
      BY <3>1
    <3>3. QED
      BY <3>1, <3>2
  <2>2. ASSUME Untouched \/ ReturnSaved \/ ReturnStop \/ Clear PROVE contents' = contents
    BY <2>2 DEF Untouched, ReturnSaved, ReturnStop, Clear, queueVars
  <2>3. ASSUME NEW p \in Pipes, NEW q \in Queues, NEW v \in Heads(q),
               ReadData(q, v) \/ ReadDataStop(q, v) \/ ReadOther(p, q, v)
        PROVE  \E r \in Pipes : Read(r, q, v)
    BY <2>3 DEF ReadData, ReadDataStop, ReadOther, Pipes
  <2>4. Pipes # {}
    BY DEF Pipes
  <2>5. QED
    BY <2>1, <2>2, <2>3, <2>4, StepsOnEvents
<1> DEFINE Kept == \A q \in Queues : contents[q] # <<>> => contents'[q] # <<>>
<1>2. ASSUME Kept, UNCHANGED pipeVars PROVE Full'
  BY <1>0, <1>2 DEF pipeVars, Filled, PipesTyped
<1>3. ASSUME NEW p \in Pipes, NEW answer \in BOOLEAN, IsEmpty(p, answer) PROVE Full'
  BY <1>0, <1>3, LookMoves DEF Filled, PipesTyped, Waiting
<1>4. ASSUME NEW p \in Pipes, NEW q \in Queues, NEW v \in Heads(q), Read(p, q, v)
      PROVE  Full'
  <2>1. /\ \A r \in Queues : r # q => contents'[r] = contents[r]
        /\ contents'[q] = Tail(contents[q]) /\ contents[q] # <<>> /\ PipeOf[q] = p
    BY <1>0, <1>4, ReadTakesHead
  <2>2. Len(contents[q]) # 1 => contents'[q] # <<>>
    <3>1. contents[q] \in Seq(Values(q)) /\ Len(contents[q]) \in Nat \ {0}
      BY <1>0, <2>1 DEF QueuesTyped
    <3>2. Len(contents'[q]) = Len(contents[q]) - 1
      BY <2>1, <3>1
    <3>3. contents'[q] = <<>> => Len(contents'[q]) = 0
      OBVIOUS
    <3>4. Len(contents[q]) # 1 => Len(contents[q]) - 1 # 0
      <4>1. Len(contents[q]) \in Int
        BY <3>1
      <4>2. QED
        BY <4>1
    <3>5. QED
      BY <3>2, <3>3, <3>4
  <2>3. \A r \in Waiting(p) \ {q} : r \in Queues /\ contents'[r] # <<>>
    BY <1>0, <2>1 DEF Filled, PipesTyped, Waiting
  <2>4. \A r \in waiting'[p] : contents'[r] # <<>>
    BY <1>0, <1>4, <2>2, <2>3, ReadMoves DEF PipesTyped
  <2>5. ASSUME NEW o \in Pipes, o # p PROVE \A r \in waiting'[o] : contents'[r] # <<>>
    <3>1. waiting'[o] = waiting[o] /\ waiting[o] \subseteq Queues
      BY <1>0, <1>4, <2>5, ReadMoves DEF PipesTyped
    <3>2. \A r \in waiting[o] : r # q
      BY <1>0, <2>1, <2>5 DEF Homes
    <3>3. QED
      BY <1>0, <2>1, <3>1, <3>2 DEF Filled
  <2>6. QED
    BY <2>4, <2>5
<1>5. ASSUME NEW q \in Queues, AddPending(q) PROVE Full'
  BY <1>0, <1>5 DEF AddPending, queueVars, Filled
<1>6. ASSUME NEW q \in Queues, AddOwn(q) PROVE Full'
  BY <1>0, <1>6 DEF AddOwn, queueVars, Filled, PipesTyped
<1>7. ASSUME Clear PROVE Full'
  BY <1>7 DEF Clear
<1>8. Full'
  <2> HIDE DEF Full
  <2>1. QED
    BY <1>1, <1>2, <1>3, <1>4, <1>5, <1>6, <1>7, StepsOnPipes
<1>9. (freed # {} => clears > 0)'
  <2>1. CASE UNCHANGED busVars
    BY <1>0, <2>1 DEF busVars, Filled
  <2>2. CASE Setting
    BY <1>0, <2>2 DEF Setting, SetMode, SetIdleMode, Filled
  <2>3. CASE Clear
    BY <1>0, <2>3 DEF Clear, TypeOK
  <2>4. QED
    BY <2>1, <2>2, <2>3, StepsOnBus
<1>10. QED
  BY <1>8, <1>9 DEF Filled

(* Memory is only misused in these steps, and each has its cause. *)
LEMMA CorruptStep ==
    ASSUME IInv, [Next]_vars
    PROVE  CorruptNeedsCause'
<1>0. TypeOK /\ CorruptNeedsCause /\ Filled /\ Reading /\ PipesTyped
  BY TypeParts DEF IInv
<1>1. CASE corrupt
  BY <1>0, <1>1, CorruptEnds DEF vars, busVars, heldVars, CorruptNeedsCause
<1>2. CASE corrupt' = corrupt /\ ~corrupt
  BY <1>2 DEF CorruptNeedsCause
<1> DEFINE Cause == clears' > 0 \/ ~clocks' \/ saved_event' = Wild
<1> DEFINE Sound == corrupt' = corrupt
<1>3. ASSUME NEW q \in Queues, AddFreed(q) PROVE Cause
  BY <1>0, <1>3 DEF AddFreed, busVars, Filled
<1>4. ASSUME LookCorrupt \/ ClearCorrupt PROVE Cause
  BY <1>0, <1>4 DEF LookCorrupt, ClearCorrupt, busVars, heldVars, Filled
<1>5. ASSUME NEW p \in Pipes, PipeCorrupt(p) PROVE Cause
  <2>1. pc = "read" => p = Stages[loop][stage]
    BY <1>5 DEF PipeCorrupt, At
  <2>2. pc = "read" => Waiting(p) # {}
    BY <1>0, <2>1 DEF Reading
  <2>3. \A q \in Waiting(p) : contents[q] # <<>>
    BY <1>0 DEF Filled, Waiting
  <2>4. freed # {} /\ UNCHANGED busVars
    BY <1>5, <2>2, <2>3 DEF PipeCorrupt
  <2>5. QED
    BY <1>0, <2>4 DEF Filled, busVars
<1>6. ASSUME UNCHANGED vars PROVE Sound
  BY <1>6 DEF vars
<1>7. ASSUME Dequeue \/ LookOther \/ Nap \/ Wait \/ TimedOut \/ ReturnSaved \/ ReturnStop
      PROVE  Sound
  BY <1>7 DEF Dequeue, LookOther, Nap, Wait, TimedOut, ReturnSaved, ReturnStop
<1>8. ASSUME NEW p \in Pipes, LookEmpty(p) \/ LookHeld(p) \/ LookReadable(p) PROVE Sound
  BY <1>8 DEF LookEmpty, LookHeld, LookReadable, IsEmpty
<1>9. ASSUME NEW p \in Pipes, NEW q \in Queues, NEW v \in Heads(q),
             ReadData(q, v) \/ ReadDataStop(q, v) \/ ReadOther(p, q, v)
      PROVE  Sound
  BY <1>9 DEF ReadData, ReadDataStop, ReadOther, Read
<1>10. ASSUME NEW q \in Queues, Pushing(q) PROVE Sound
  BY <1>10 DEF Pushing, PushLook, PushWrite, PushFull, PushSignal
<1>11. ASSUME NEW q \in Queues, AddPending(q) \/ AddLost(q) \/ AddOwn(q) PROVE Sound
  BY <1>11 DEF AddPending, AddLost, AddOwn, vars
<1>12. ASSUME Wakeup \/ Clear \/ Setting PROVE Sound
  BY <1>12 DEF Wakeup, Clear, Setting, SetMode, SetIdleMode
<1>13. QED
  <2> HIDE DEF Cause, Sound
  <2>1. Pipes # {}
    BY DEF Pipes
  <2>2. ASSUME Dequeuing PROVE Sound
    BY <2>1, <2>2, <1>7, <1>8, <1>9 DEF Dequeuing
  <2>3. Sound \/ Cause
    BY <2>2, <1>3, <1>4, <1>5, <1>6, <1>10, <1>11, <1>12 DEF Next
  <2>4. ASSUME Cause PROVE CorruptNeedsCause'
    BY <2>4 DEF Cause, CorruptNeedsCause
  <2>5. ASSUME Sound PROVE CorruptNeedsCause'
    BY <2>5, <1>1, <1>2 DEF Sound
  <2>6. QED
    BY <2>3, <2>4, <2>5

(* A look at one pipe, or a read from it, leaves what others may read.     *)
LEMMA OtherReadable ==
    ASSUME TypeOK, Homes, NEW p \in Pipes, NEW r \in Pipes, r # p, Readable(r),
           waiting'[r] = waiting[r], pending'[r] = pending[r], last'[r] = last[r],
           \A q \in Queues : PipeOf[q] # p => contents'[q] = contents[q]
    PROVE  Readable(r)'
<1>1. waiting[r] \subseteq Queues /\ pending[r] \subseteq Queues /\ last[r] \in Queues \cup {NULL}
  BY DEF TypeOK
<1>2. \A q \in waiting[r] \cup pending[r] : contents'[q] = contents[q]
  BY <1>1 DEF Homes
<1>3. last[r] # NULL => contents'[last[r]] = contents[last[r]]
  BY <1>1 DEF Homes
<1>4. QED
  BY <1>1, <1>2, <1>3 DEF Readable, Waiting

(* A step leaves what the pass began with ahead of it, or hands it out.    *)
LEMMA PressedStep ==
    ASSUME IInv, [Next]_vars
    PROVE  Pressed'
<1> DEFINE Ahead(n) == \E r \in {"execution", "service"}, i \in n .. 5 :
                          Stages[loop][i] = r /\ Readable(r)'
<1>0. TypeOK /\ Homes /\ Reading /\ Pressed /\ PipesTyped /\ PassTyped /\ Closes /\ ExactlyOnce
  BY TypeParts DEF IInv
<1>1. /\ Len(Stages[loop]) = 5 /\ Stages[loop][5] = "service"
      /\ \E i \in 2 .. 5 : Stages[loop][i] = "execution"
      /\ \A i \in 2 .. 5 : Stages[loop][i] # "data"
  BY <1>0, FiveStages DEF PassTyped
<1>2. "execution" \in Pipes /\ "service" \in Pipes /\ "data" \in Pipes
  BY DEF Pipes
<1>3. ASSUME ~pressing' PROVE Pressed'
  BY <1>3 DEF Pressed
<1>4. ASSUME loop' = loop, pc' \in {"look", "read"}, NEW n \in 1 .. 6, stage' = n, Ahead(n)
      PROVE  Pressed'
  BY <1>1, <1>4 DEF Pressed, Readable, Waiting
<1>5. ASSUME pressing, pc = "look" \/ Stages[loop][stage] = "data"
      PROVE  \E i \in stage .. 5 : /\ Stages[loop][i] \in {"execution", "service"}
                                   /\ Readable(Stages[loop][i])
  BY <1>0, <1>1, <1>5 DEF Pressed
<1>6. stage \in 1 .. 6 /\ \A i \in stage .. 5 : i # stage => i \in stage + 1 .. 5 /\ i \in 2 .. 5
  BY <1>0 DEF PassTyped
(* A look at p leaves the other pipes readable, and at the data pipe asks them. *)
<1>7. ASSUME NEW p \in Pipes, NEW answer \in BOOLEAN, IsEmpty(p, answer),
             NEW r \in Pipes, r # p, Readable(r)
      PROVE  Readable(r)'
  <2>1. waiting'[r] = waiting[r] /\ pending'[r] = pending[r] /\ last'[r] = last[r]
        /\ contents' = contents
    BY <1>0, <1>7, LookMoves DEF PipesTyped
  <2>2. QED
    BY <1>0, <1>7, <2>1, OtherReadable
<1>8. ASSUME NEW answer \in BOOLEAN, At("data"), IsEmpty("data", answer), pressing'
      PROVE  Ahead(2) /\ stage = 1
  <2>1. Readable("execution") \/ Readable("service")
    BY <1>8 DEF IsEmpty
  <2>2. Readable("execution")' \/ Readable("service")'
    BY <1>2, <1>7, <1>8, <2>1
  <2>3. stage = 1
    BY <1>1, <1>6, <1>8 DEF At
  <2>4. QED
    BY <1>1, <2>2, <2>3
<1>9. ASSUME NEW p \in Pipes, p # "data", At(p), IsEmpty(p, TRUE), pressing
      PROVE  Ahead(stage + 1) /\ stage <= 5
  <2>1. ~Readable(p) /\ Stages[loop][stage] = p /\ stage <= 5 /\ pc = "look"
    BY <1>0, <1>1, <1>9, LookMoves DEF At
  <2>2. PICK i \in stage .. 5 : /\ Stages[loop][i] \in {"execution", "service"}
                                /\ Readable(Stages[loop][i])
    BY <1>5, <1>9, <2>1
  <2>3. i # stage /\ Stages[loop][i] # p
    BY <2>1, <2>2
  <2>4. PICK r \in Pipes : r = Stages[loop][i] /\ r # p /\ Readable(r)
    BY <1>2, <2>2, <2>3
  <2>5. Readable(r)'
    BY <1>7, <1>9, <2>4
  <2>6. QED
    BY <1>6, <2>1, <2>2, <2>3, <2>4, <2>5
<1>10. ASSUME Aside PROVE Pressed'
  <2>1. loop' = loop /\ stage' = stage /\ pc' = pc /\ pressing' = pressing
    BY <1>10 DEF Aside, passVars
  <2>2. CASE ~pressing
    BY <1>3, <2>1, <2>2
  <2>3. CASE pressing
    <3>1. Grows /\ pc \in {"look", "read"}
      BY <1>0, <1>10, <2>3 DEF Aside, Pressed
    <3>2. CASE ~(pc = "look" \/ Stages[loop][stage] = "data")
      BY <2>1, <3>1, <3>2 DEF Pressed
    <3>3. CASE pc = "look" \/ Stages[loop][stage] = "data"
      <4>1. PICK i \in stage .. 5 : /\ Stages[loop][i] \in {"execution", "service"}
                                    /\ Readable(Stages[loop][i])
        BY <1>5, <2>3, <3>3
      <4>2. PICK r \in Pipes : r = Stages[loop][i] /\ Readable(r)
        BY <1>2, <4>1
      <4>3. Readable(r)'
        BY <1>0, <3>1, <4>2, GrowsReadable
      <4>4. Ahead(stage)
        BY <4>1, <4>2, <4>3
      <4>5. QED
        BY <1>4, <1>6, <2>1, <3>1, <4>4
    <3>4. QED
      BY <3>2, <3>3
  <2>4. QED
    BY <2>2, <2>3
<1>11. ASSUME NEW p \in Pipes, LookEmpty(p) \/ LookHeld(p) PROVE Pressed'
  <2>1. At(p) /\ pc = "look" /\ stage <= 5 /\ (IsEmpty(p, TRUE) \/ IsEmpty(p, FALSE))
        /\ pc' = "look" /\ loop' = loop /\ stage' = stage + 1
    BY <1>1, <1>11 DEF LookEmpty, LookHeld, At, Advance
  <2>2. stage + 1 \in 1 .. 6
    BY <1>6, <2>1
  <2>3. SUFFICES ASSUME pressing' PROVE Ahead(stage + 1)
    <3>1. CASE pressing'
      BY <1>4, <2>1, <2>2, <3>1, <2>3
    <3>2. CASE ~pressing'
      BY <3>2 DEF Pressed
    <3>3. QED
      BY <3>1, <3>2
  <2>4. CASE p = "data"
    <3>1. Ahead(2) /\ stage = 1
      <4>1. At("data") /\ (IsEmpty("data", TRUE) \/ IsEmpty("data", FALSE))
        BY <2>1, <2>4
      <4>2. QED
        BY <1>8, <2>3, <4>1
    <3>2. QED
      BY <3>1
  <2>5. CASE p # "data"
    <3>1. IsEmpty(p, TRUE)
      BY <1>11, <2>5 DEF LookEmpty, LookHeld, MayRead
    <3>2. pressing
      BY <2>3, <2>5, <3>1 DEF IsEmpty
    <3>3. QED
      BY <1>9, <2>1, <2>5, <3>1, <3>2
  <2>6. QED
    BY <2>4, <2>5
<1>12. ASSUME NEW p \in Pipes, LookReadable(p) PROVE Pressed'
  <2>1. At(p) /\ IsEmpty(p, FALSE) /\ Stages[loop][stage] = p
        /\ pc' = "read" /\ loop' = loop /\ stage' = stage
    BY <1>12 DEF LookReadable, At
  <2>2. CASE p # "data"
    BY <2>1, <2>2 DEF Pressed
  <2>3. CASE p = "data" /\ pressing'
    <3>1. Ahead(2) /\ stage = 1
      BY <1>8, <2>1, <2>3
    <3>2. Ahead(stage)
      BY <3>1
    <3>3. QED
      BY <1>4, <1>6, <2>1, <3>2
  <2>4. QED
    BY <2>2, <2>3 DEF Pressed
<1>13. ASSUME LookOther PROVE Pressed'
  <2>1. Stages[loop][stage] \in {"command", "clocks"} /\ pc = "look" /\ stage <= 5
        /\ pc' = "look" /\ loop' = loop /\ stage' = stage + 1 /\ pressing' = pressing
    BY <1>1, <1>13 DEF LookOther, At, Advance
  <2>2. CASE ~pressing
    BY <1>3, <2>1, <2>2
  <2>3. CASE pressing
    <3>1. PICK i \in stage .. 5 : /\ Stages[loop][i] \in {"execution", "service"}
                                  /\ Readable(Stages[loop][i])
      BY <1>5, <2>1, <2>3
    <3>2. i # stage
      BY <2>1, <3>1
    <3>3. \A r \in {"execution", "service"} : Readable(r) => Readable(r)'
      BY <1>13 DEF LookOther, queueVars, pipeVars, Readable, Waiting
    <3>4. Ahead(stage + 1)
      BY <1>6, <3>1, <3>2, <3>3
    <3>5. QED
      BY <1>4, <1>6, <2>1, <3>4
  <2>4. QED
    BY <2>2, <2>3
<1>14. ASSUME NEW q \in Queues, NEW v \in Heads(q), ReadData(q, v) PROVE Pressed'
  <2>1. /\ Read("data", q, v) /\ Stages[loop][stage] = "data" /\ stage <= 5
        /\ pc' = "look" /\ loop' = loop /\ stage' = stage + 1 /\ pressing' = pressing
    BY <1>0, <1>1, <1>14 DEF ReadData, Read, Advance, Reading
  <2>2. CASE ~pressing
    BY <1>3, <2>1, <2>2
  <2>3. CASE pressing
    <3>1. PICK i \in stage .. 5 : /\ Stages[loop][i] \in {"execution", "service"}
                                  /\ Readable(Stages[loop][i])
      BY <1>5, <2>1, <2>3
    <3>2. i # stage
      BY <2>1, <3>1
    <3>3. PICK r \in Pipes : r = Stages[loop][i] /\ r # "data" /\ Readable(r)
      BY <1>2, <3>1
    <3>4. waiting'[r] = waiting[r] /\ pending'[r] = pending[r] /\ last'[r] = last[r]
      BY <1>0, <1>2, <2>1, <3>3, ReadMoves DEF PipesTyped
    <3>5. PipeOf[q] = "data" /\ \A o \in Queues : o # q => contents'[o] = contents[o]
      BY <1>0, <1>2, <2>1, ReadTakesHead
    <3>6. Readable(r)'
      BY <1>0, <1>2, <3>3, <3>4, <3>5, OtherReadable
    <3>7. Ahead(stage + 1)
      BY <1>6, <3>1, <3>2, <3>3, <3>6
    <3>8. QED
      BY <1>4, <1>6, <2>1, <3>7
  <2>4. QED
    BY <2>2, <2>3
<1>15. ASSUME Wait \/ Dequeue PROVE Pressed'
  <2>1. pressing' = pressing /\ (pc = "out" \/ (pc = "look" /\ stage > 5))
    BY <1>1, <1>15 DEF Wait, Dequeue, Idle, AtSaved
  <2>2. \A i \in stage .. 5 : ~(stage > 5)
    BY <1>6
  <2>3. ~pressing
    BY <1>0, <1>5, <2>1, <2>2 DEF Pressed
  <2>4. QED
    BY <2>1, <2>3 DEF Pressed
<1>16. ASSUME Woken \/ ReturnSaved \/ ReturnStop \/ Nap PROVE Pressed'
  BY <1>3, <1>16 DEF Woken, ReturnSaved, ReturnStop, Nap, NewPass, Return
<1>17. ASSUME NEW p \in Pipes, NEW q \in Queues, NEW v \in Heads(q),
              ReadDataStop(q, v) \/ ReadOther(p, q, v)
       PROVE  Pressed'
  BY <1>3, <1>17 DEF ReadDataStop, ReadOther, NewPass, Return
<1>18. QED
  BY <1>2, <1>10, <1>11, <1>12, <1>13, <1>14, <1>15, <1>16, <1>17, StepsOnPass
-----------------------------------------------------------------------------
(* The theorems. *)

(* The invariant is inductive. *)
THEOREM IInvStep == IInv /\ [Next]_vars => IInv'
<1> SUFFICES ASSUME IInv, [Next]_vars PROVE IInv'
  OBVIOUS
<1>1. TypeOK' /\ Homes' /\ Closes' /\ ExactlyOnce'
  BY TypeStep, HomesStep, ClosesStep, OnceStep
<1>2. Reading' /\ Filled' /\ CorruptNeedsCause' /\ Pressed'
  BY ReadingStep, FilledStep, CorruptStep, PressedStep
<1>3. QED
  BY <1>1, <1>2 DEF IInv

(* It holds in every reachable state of the bus. *)
THEOREM InvariantTheorem == Spec => []IInv
BY InitIInv, IInvStep, PTL DEF Spec

(* Every variable keeps its type, and no queue more events than its room.  *)
THEOREM TypeTheorem == Spec => []TypeOK
<1>1. IInv => TypeOK
  BY DEF IInv
<1>2. QED
  BY <1>1, InvariantTheorem, PTL

(* No event pushed is lost, repeated or reordered on its way through the   *)
(* bus, saved data events and noted stops included.                        *)
THEOREM ExactlyOnceTheorem == Spec => []ExactlyOnce
<1>1. IInv => ExactlyOnce
  BY DEF IInv
<1>2. QED
  BY <1>1, InvariantTheorem, PTL

(* The bus misuses memory only after a clear or through unset fields.      *)
THEOREM CorruptTheorem == Spec => []CorruptNeedsCause
<1>1. IInv => CorruptNeedsCause
  BY DEF IInv
<1>2. QED
  BY <1>1, InvariantTheorem, PTL

(* A data event or a stop is only returned by a pass that began with no    *)
(* execution or service event to be read.                                  *)
THEOREM DataYieldsTheorem == Spec => DataYields
<1>1. IInv /\ [Next]_vars => [pc # "out" /\ pc' = "out" /\ heldVars' # heldVars => ~pressing]_vars
  <2>1. SUFFICES ASSUME IInv, [Next]_vars, pc # "out", pc' = "out", heldVars' # heldVars
                 PROVE  ~pressing
    OBVIOUS
  <2>2. ASSUME ReturnSaved \/ ReturnStop PROVE ~pressing
    <3>1. pc = "look" /\ stage > Len(Stages[loop])
      BY <2>2 DEF ReturnSaved, ReturnStop, AtSaved
    <3>2. PassTyped /\ Pressed
      BY <2>1, TypeParts DEF IInv
    <3>3. stage \in 1 .. 6 /\ Len(Stages[loop]) = 5
      BY <3>2, FiveStages DEF PassTyped
    <3>4. \A i \in stage .. Len(Stages[loop]) : FALSE
      BY <3>1, <3>3
    <3>5. QED
      BY <3>1, <3>2, <3>4 DEF Pressed
  <2>3. ~(Aside \/ Woken \/ Dequeue \/ LookOther \/ Nap \/ Wait)
    BY <2>1 DEF Aside, Woken, Dequeue, LookOther, Nap, Wait, passVars, NewPass, Advance
  <2>4. \A p \in Pipes : ~(LookEmpty(p) \/ LookHeld(p) \/ LookReadable(p))
    BY <2>1 DEF LookEmpty, LookHeld, LookReadable, Advance
  <2>5. \A p \in Pipes, q \in Queues : \A v \in Heads(q) :
            ~(ReadData(q, v) \/ ReadDataStop(q, v) \/ ReadOther(p, q, v))
    BY <2>1 DEF ReadData, ReadDataStop, ReadOther, Advance, NewPass
  <2>6. Pipes # {}
    BY DEF Pipes
  <2>7. QED
    BY <2>1, <2>2, <2>3, <2>4, <2>5, <2>6, StepsOnPass
<1>2. QED
  BY <1>1, InvariantTheorem, PTL DEF Spec, DataYields
=============================================================================
