------------------------------ MODULE EventBus ------------------------------
(***************************************************************************)
(* The event bus of qtl_bus.c with the pipes of qtl_pipe.c and the pushes  *)
(* of qtl_queue.c: producer threads push events to their queues and wake   *)
(* the bus, other threads add queues to its pipes, and one thread calls    *)
(* event_bus_dequeue, in which a pass looks at the pipes one after the     *)
(* other, in one order in real time and another in simulation.             *)
(*                                                                         *)
(* A pipe's tree is reduced to the queues waiting in it and the one kept   *)
(* aside: any of those waiting may be read next, which of them being the   *)
(* business of EventTree.  A push is its steps: look, write, signal; a     *)
(* look may be stale.  A call of the pipe is one step of the dequeuer.     *)
(* A queue is added by one thread at a time, and not while the pipe has    *)
(* it.  The constructor leaves saved_event, is_simulation_stop and the two *)
(* clock queues unset, and what it does to the pipes is taken to be done.  *)
(***************************************************************************)
EXTENDS Integers, Sequences, FiniteSets

CONSTANTS Queues,      (* the event queues                                  *)
          PipeOf,      (* the pipe each is added to                         *)
          NULL,        (* the null pointer                                  *)
          Wild,        (* a pointer nobody assigned                         *)
          Stop,        (* the simulation stop event                         *)
          FreshSaved,  (* what saved_event may hold at first                *)
          FreshStop,   (* what is_simulation_stop may hold at first         *)
          FreshClocks, (* whether the clock queues point to memory          *)
          IdleModes,   (* the values of idle_mode                           *)
          Room,        (* how many events a queue holds                     *)
          PendingRoom, (* how many queues pending_add holds                 *)
          MaxEvents,   (* bound of the model: events before a queue's close *)
          MaxClears    (* bound of the model: calls of event_bus_clear      *)

Pipes == {"data", "execution", "service", "historical"}
Loops == {"simulation", "realtime"}
Kinds == {"plain", "close", "stop"}

ASSUME EventBusAssumption ==
    /\ IsFiniteSet(Queues) /\ PipeOf \in [Queues -> Pipes]
    /\ NULL \in FreshSaved /\ FreshSaved \subseteq {NULL, Wild}
    /\ FreshStop \subseteq BOOLEAN /\ FreshClocks \subseteq BOOLEAN
    /\ IdleModes \subseteq {"kIdleSpin", "kIdleSleep", "kIdleWait"}
    /\ Room \in Nat \ {0} /\ PendingRoom \in Nat \ {0}
    /\ MaxEvents \in [Queues -> Nat] /\ MaxClears \in Nat
    /\ {NULL, Wild, Stop} \cap Queues = {} /\ NULL # Wild /\ Stop \notin {NULL, Wild}
    /\ {NULL, Wild, Stop} \cap [queue : Queues, n : Nat, kind : Kinds] = {}

VARIABLES
    contents,  (* the events in each queue, oldest first                     *)
    sent,      (* how many were pushed to each, its close included           *)
    ended,     (* the queues whose close was pushed                          *)
    producer,  (* where each producer is inside event_queue_push             *)
    pending,   (* the queues in each pipe's pending_add                      *)
    freed,     (* the pipes whose pending_add has lost its records           *)
    waiting,   (* the queues in each pipe's tree                             *)
    last,      (* the queue each pipe's tree keeps aside                     *)
    mode,      (* bus->mode                                                  *)
    idle_mode, (* bus->idle_mode                                             *)
    saved_event,        (* bus->saved_event                                  *)
    is_simulation_stop, (* bus->is_simulation_stop                           *)
    clocks,    (* whether local_clock_queue and its fellow can be read       *)
    pc,        (* where the dequeuer is                                      *)
    loop,      (* the loop it is in                                          *)
    stage,     (* how far its pass has got                                   *)
    returned,  (* what event_bus_dequeue last returned                       *)
    gone,      (* history: events of each queue that have left the bus       *)
    owed,      (* history: the queues whose close is a stop only noted yet   *)
    pressing,  (* history: the pass began with an event to be served first   *)
    clears,    (* how often the bus was cleared                              *)
    corrupt    (* memory that was freed or never set has been used           *)

queueVars == <<contents, sent, ended>>
pipeVars  == <<pending, waiting, last>>
heldVars  == <<saved_event, is_simulation_stop>>
busVars   == <<mode, idle_mode, clocks, freed, clears>>
passVars  == <<pc, loop, stage, pressing>>
outVars   == <<returned, gone, owed>>
vars == <<queueVars, producer, pipeVars, heldVars, busVars, passVars, outVars, corrupt>>

Event(q, n, kind) == [queue |-> q, n |-> n, kind |-> kind]
QueueOf(v) == IF v \in {NULL, Wild, Stop} THEN {} ELSE {v.queue}

(* Mutant: the service pipe comes after the saved event. *)
StagesNoService == [realtime   |-> <<"data", "clocks", "execution", "command">>,
                    simulation |-> <<"data", "execution", "clocks", "command">>]

(* What a pass of each loop looks at before it comes to the saved event.   *)
Stages == [realtime   |-> <<"data", "clocks", "execution", "command", "service">>,
           simulation |-> <<"data", "execution", "clocks", "command", "service">>]

At(name) == pc = "look" /\ stage <= Len(Stages[loop]) /\ Stages[loop][stage] = name
AtSaved  == pc = "look" /\ stage > Len(Stages[loop])

Advance   == pc' = "look" /\ stage' = stage + 1 /\ UNCHANGED loop
NewPass   == pc' = "look" /\ stage' = 1 /\ pressing' = FALSE /\ UNCHANGED loop
Return(v) == /\ pc' = "out" /\ stage' = 1 /\ pressing' = FALSE /\ UNCHANGED loop
             /\ returned' = v

(* One more event of each of these queues has left the bus. *)
Leave(queues) == gone' = [q \in Queues |-> IF q \in queues THEN gone[q] + 1 ELSE gone[q]]

Init ==
    /\ contents = [q \in Queues |-> <<>>]
    /\ sent = [q \in Queues |-> 0] /\ ended = {}
    /\ producer = [q \in Queues |-> "out"]
    /\ pending = [p \in Pipes |-> {}] /\ freed = {}
    /\ waiting = [p \in Pipes |-> {}] /\ last = [p \in Pipes |-> NULL]
    /\ mode = "simulation" /\ idle_mode \in IdleModes
    /\ saved_event \in FreshSaved /\ is_simulation_stop \in FreshStop
    /\ clocks \in FreshClocks
    /\ pc = "out" /\ loop = "simulation" /\ stage = 1
    /\ returned = NULL /\ gone = [q \in Queues |-> 0] /\ owed = {}
    /\ pressing = FALSE /\ clears = 0 /\ corrupt = FALSE
-----------------------------------------------------------------------------
(* The producers: event_queue_push. *)

(* Is the queue empty?  After a read, the answer may still be the old one. *)
PushLook(q) ==
    /\ ~corrupt /\ q \notin ended /\ producer[q] = "out"
    /\ \/ contents[q] = <<>> /\ producer' = [producer EXCEPT ![q] = "sawEmpty"]
       \/ sent[q] > 0        /\ producer' = [producer EXCEPT ![q] = "sawEvents"]
    /\ UNCHANGED <<queueVars, pipeVars, heldVars, busVars, passVars, outVars, corrupt>>

HasRoom(q) == Len(contents[q]) < Room

(* The event becomes visible; a close is the last a producer pushes.       *)
PushWrite(q) ==
    /\ ~corrupt /\ producer[q] \in {"sawEmpty", "sawEvents"}
    /\ HasRoom(q)
    /\ \E kind \in {"plain", "close"} :
          /\ sent[q] = MaxEvents[q] => kind = "close"
          /\ contents' = [contents EXCEPT ![q] = Append(@, Event(q, sent[q] + 1, kind))]
          /\ ended' = IF kind = "close" THEN ended \cup {q} ELSE ended
    /\ sent' = [sent EXCEPT ![q] = @ + 1]
    /\ producer' = [producer EXCEPT ![q] = IF @ = "sawEmpty" THEN "signal" ELSE "out"]
    /\ UNCHANGED <<pipeVars, heldVars, busVars, passVars, outVars, corrupt>>

(* The queue is full: push returns false and wakes nobody. *)
PushFull(q) ==
    /\ ~corrupt /\ producer[q] \in {"sawEmpty", "sawEvents"}
    /\ ~HasRoom(q)
    /\ producer' = [producer EXCEPT ![q] = "out"]
    /\ UNCHANGED <<queueVars, pipeVars, heldVars, busVars, passVars, outVars, corrupt>>

(* event_bus_wakeup: a signal reaches only a thread that is waiting.       *)
Signal == IF pc = "waiting" THEN NewPass ELSE UNCHANGED passVars

PushSignal(q) ==
    /\ ~corrupt /\ producer[q] = "signal"
    /\ Signal
    /\ producer' = [producer EXCEPT ![q] = "out"]
    /\ UNCHANGED <<queueVars, pipeVars, heldVars, busVars, outVars, corrupt>>

(* ... called by any other thread. *)
Wakeup ==
    /\ ~corrupt /\ pc = "waiting"
    /\ Signal
    /\ UNCHANGED <<queueVars, producer, pipeVars, heldVars, busVars, outVars, corrupt>>
-----------------------------------------------------------------------------
(* The pipes: event_pipe_add, event_pipe_is_empty and event_pipe_read.     *)

Known(q) == q \in waiting[PipeOf[q]] \cup {last[PipeOf[q]]} \cup pending[PipeOf[q]]

(* Another thread adds a queue: it is left in pending_add, ... *)
AddPending(q) ==
    LET p == PipeOf[q]
    IN  /\ ~corrupt /\ ~Known(q) /\ p \notin freed
        /\ Cardinality(pending[p]) < PendingRoom
        /\ pending' = [pending EXCEPT ![p] = @ \cup {q}]
        /\ UNCHANGED <<queueVars, producer, waiting, last, heldVars, busVars,
                       passVars, outVars, corrupt>>

(* ... or is lost if pending_add is full, which nobody is told, ...        *)
AddLost(q) ==
    /\ ~corrupt /\ ~Known(q)
    /\ Cardinality(pending[PipeOf[q]]) = PendingRoom
    /\ UNCHANGED vars

(* ... or is written to freed memory. *)
AddFreed(q) ==
    /\ ~corrupt /\ ~Known(q) /\ PipeOf[q] \in freed
    /\ Cardinality(pending[PipeOf[q]]) < PendingRoom
    /\ corrupt' = TRUE
    /\ UNCHANGED <<queueVars, producer, pipeVars, heldVars, busVars, passVars, outVars>>

(* The dequeuer's own thread adds a queue to the tree, if it has an event. *)
AddOwn(q) ==
    /\ ~corrupt /\ ~Known(q) /\ pc = "out"
    /\ waiting' = IF contents[q] = <<>> THEN waiting
                  ELSE [waiting EXCEPT ![PipeOf[q]] = @ \cup {q}]
    /\ UNCHANGED <<queueVars, producer, pending, last, heldVars, busVars,
                   passVars, outVars, corrupt>>

(* Mutant: a queue still empty is added to the tree all the same. *)
WaitingEmptyToo(p) == waiting[p] \cup pending[p]

(* The tree after process_pending_add, which drops the queues still empty. *)
Waiting(p) == waiting[p] \cup {q \in pending[p] : contents[q] # <<>>}

(* event_tree_is_empty answers false.  A queue kept aside blocks the rest. *)
Readable(p) == IF last[p] = NULL THEN Waiting(p) # {} ELSE contents[last[p]] # <<>>

(* event_pipe_is_empty: the queue kept aside goes back once it has events. *)
IsEmpty(p, answer) ==
    /\ answer = ~Readable(p)
    /\ pending' = [pending EXCEPT ![p] = {}]
    /\ LET resume == last[p] # NULL /\ Readable(p)
       IN  /\ waiting' = [waiting EXCEPT ![p] = Waiting(p) \cup IF resume THEN {last[p]} ELSE {}]
           /\ last' = IF resume THEN [last EXCEPT ![p] = NULL] ELSE last
    /\ pressing' = IF p = "data" THEN Readable("execution") \/ Readable("service") ELSE pressing
    /\ UNCHANGED <<queueVars, producer, heldVars, busVars, outVars, corrupt>>

(* process_pending_add takes a queue from freed records, or a tree is read *)
(* that has no queue, or one without an event.                             *)
PipeCorrupt(p) ==
    /\ ~corrupt
    /\ At(p) \/ (pc = "read" /\ Stages[loop][stage] = p)
    /\ \/ p \in freed /\ pending[p] # {}
       \/ pc = "read" /\ Waiting(p) = {}
       \/ pc = "read" /\ \E q \in Waiting(p) : contents[q] = <<>>
    /\ corrupt' = TRUE
    /\ UNCHANGED <<queueVars, producer, pipeVars, heldVars, busVars, passVars, outVars>>

Safe(p) == ~corrupt /\ ~(p \in freed /\ pending[p] # {})

(* event_pipe_read takes the first event v of queue q: the last close of a *)
(* tree becomes the stop event.                                            *)
Read(p, q, v) ==
    LET e == Head(contents[q])
        others == Waiting(p) \ {q}
        closed == e.kind = "close"
        empty  == Len(contents[q]) = 1
    IN  /\ pc = "read" /\ Safe(p) /\ Stages[loop][stage] = p
        /\ q \in Waiting(p) /\ contents[q] # <<>>
        /\ v = Event(q, e.n, IF closed /\ others = {} THEN "stop" ELSE e.kind)
        /\ contents' = [contents EXCEPT ![q] = Tail(@)]
        /\ pending' = [pending EXCEPT ![p] = {}]
        /\ waiting' = [waiting EXCEPT ![p] = IF closed \/ empty THEN others ELSE others \cup {q}]
        /\ last' = IF empty /\ ~closed THEN [last EXCEPT ![p] = q] ELSE last
        /\ UNCHANGED <<sent, ended, producer, busVars, corrupt>>
-----------------------------------------------------------------------------
(* The dequeuer: event_bus_dequeue, and the calls between two of them.     *)

Dequeue ==
    /\ ~corrupt /\ pc = "out"
    /\ pc' = "look" /\ loop' = mode
    /\ UNCHANGED <<stage, pressing, queueVars, producer, pipeVars, heldVars, busVars, outVars, corrupt>>

(* The pipe has nothing to read ... *)
LookEmpty(p) ==
    /\ At(p) /\ Safe(p)
    /\ IsEmpty(p, TRUE)
    /\ Advance

(* Mutant: a data event is read over the saved one. *)
MayReadOver(p) == TRUE

(* No second data event is read while one is saved. *)
MayRead(p) == p = "data" => saved_event = NULL

(* ... or it has a data event, which must wait for the saved one ... *)
LookHeld(p) ==
    /\ At(p) /\ Safe(p) /\ ~MayRead(p)
    /\ IsEmpty(p, FALSE)
    /\ Advance

(* ... or it will be read next. *)
LookReadable(p) ==
    /\ At(p) /\ Safe(p) /\ MayRead(p)
    /\ IsEmpty(p, FALSE)
    /\ pc' = "read" /\ UNCHANGED <<loop, stage>>

(* Nothing is ever added to the command pipe, and the clock queues are     *)
(* only looked at, for which they must point to memory.                    *)
LookOther ==
    /\ ~corrupt
    /\ At("command") \/ (At("clocks") /\ clocks)
    /\ Advance
    /\ UNCHANGED <<queueVars, producer, pipeVars, heldVars, busVars, pressing, outVars, corrupt>>

LookCorrupt ==
    /\ ~corrupt /\ At("clocks") /\ ~clocks
    /\ corrupt' = TRUE
    /\ UNCHANGED <<queueVars, producer, pipeVars, heldVars, busVars, passVars, outVars>>

(* A data event is saved while the other pipes are looked at ... *)
ReadData(q, v) ==
    /\ Read("data", q, v)
    /\ ~(loop = "simulation" /\ v.kind = "stop")
    /\ saved_event' = v
    /\ Advance
    /\ UNCHANGED <<is_simulation_stop, pressing, outVars>>

(* ... but in simulation the stop is only noted, and a new pass begun.     *)
ReadDataStop(q, v) ==
    /\ Read("data", q, v)
    /\ loop = "simulation" /\ v.kind = "stop"
    /\ is_simulation_stop' = TRUE /\ owed' = owed \cup {q}
    /\ NewPass
    /\ UNCHANGED <<saved_event, returned, gone>>

(* An execution or service event is returned at once. *)
ReadOther(p, q, v) ==
    /\ p # "data"
    /\ Read(p, q, v)
    /\ Return(v)
    /\ Leave({q})
    /\ UNCHANGED <<heldVars, owed>>

(* Every other pipe was empty when it was looked at: the saved event, ...  *)
ReturnSaved ==
    /\ ~corrupt /\ AtSaved /\ saved_event # NULL
    /\ Return(saved_event)
    /\ saved_event' = NULL
    /\ Leave(QueueOf(saved_event))
    /\ UNCHANGED <<is_simulation_stop, owed, queueVars, producer, pipeVars, busVars, corrupt>>

(* ... in simulation the stop event, if it was noted, ... *)
ReturnStop ==
    /\ ~corrupt /\ AtSaved /\ saved_event = NULL
    /\ loop = "simulation" /\ is_simulation_stop
    /\ Return(Stop)
    /\ is_simulation_stop' = FALSE
    /\ Leave(owed) /\ owed' = {}
    /\ UNCHANGED <<saved_event, queueVars, producer, pipeVars, busVars, corrupt>>

Idle == AtSaved /\ saved_event = NULL /\ ~(loop = "simulation" /\ is_simulation_stop)

(* ... or nothing: the loop spins or sleeps, ... *)
Nap ==
    /\ ~corrupt /\ Idle
    /\ loop = "simulation" \/ idle_mode # "kIdleWait"
    /\ NewPass
    /\ UNCHANGED <<queueVars, producer, pipeVars, heldVars, busVars, outVars, corrupt>>

(* ... or waits, not having looked again since it took the mutex, ...      *)
Wait ==
    /\ ~corrupt /\ Idle
    /\ loop = "realtime" /\ idle_mode = "kIdleWait"
    /\ pc' = "waiting"
    /\ UNCHANGED <<loop, stage, pressing, queueVars, producer, pipeVars, heldVars,
                   busVars, outVars, corrupt>>

(* Mutant: a wait without a timeout. *)
TimedOutNever == FALSE /\ UNCHANGED vars

(* ... until it is signalled or its nanosecond is over. *)
TimedOut ==
    /\ ~corrupt /\ pc = "waiting"
    /\ NewPass
    /\ UNCHANGED <<queueVars, producer, pipeVars, heldVars, busVars, outVars, corrupt>>

(* event_bus_set_mode; a loop under way goes on as it is. *)
SetMode(m) ==
    /\ ~corrupt /\ pc = "out" /\ mode # m
    /\ mode' = m
    /\ UNCHANGED <<idle_mode, clocks, freed, clears, queueVars, producer, pipeVars,
                   heldVars, passVars, outVars, corrupt>>

(* event_bus_set_idle_mode, at any time. *)
SetIdleMode(m) ==
    /\ ~corrupt /\ idle_mode # m
    /\ idle_mode' = m
    /\ UNCHANGED <<mode, clocks, freed, clears, queueVars, producer, pipeVars,
                   heldVars, passVars, outVars, corrupt>>

(* event_bus_clear frees the saved event and every pipe's pending_add but  *)
(* the command pipe's, and forgets the queues of their trees.              *)
Clear ==
    /\ ~corrupt /\ pc = "out" /\ clears < MaxClears
    /\ freed = {} /\ clocks /\ saved_event # Wild
    /\ clears' = clears + 1
    /\ freed' = Pipes
    /\ waiting' = [p \in Pipes |-> {}] /\ last' = [p \in Pipes |-> NULL]
    /\ saved_event' = NULL /\ is_simulation_stop' = FALSE
    /\ Leave(QueueOf(saved_event) \cup owed) /\ owed' = {}
    /\ UNCHANGED <<mode, idle_mode, clocks, returned, queueVars, producer, pending, passVars, corrupt>>

(* It frees them again, or a wild saved event, or reads wild clock queues. *)
ClearCorrupt ==
    /\ ~corrupt /\ pc = "out" /\ clears < MaxClears
    /\ freed # {} \/ ~clocks \/ saved_event = Wild
    /\ corrupt' = TRUE
    /\ UNCHANGED <<queueVars, producer, pipeVars, heldVars, busVars, passVars, outVars>>
-----------------------------------------------------------------------------
(* What a read of q may hand out. *)
Heads(q) == IF contents[q] = <<>> THEN {}
            ELSE {Head(contents[q]), [Head(contents[q]) EXCEPT !.kind = "stop"]}

(* The steps inside event_bus_dequeue. *)
Dequeuing ==
    \/ Dequeue
    \/ \E p \in Pipes : LookEmpty(p)
    \/ \E p \in Pipes : LookHeld(p)
    \/ \E p \in Pipes : LookReadable(p)
    \/ LookOther
    \/ \E q \in Queues : \E v \in Heads(q) : ReadData(q, v)
    \/ \E q \in Queues : \E v \in Heads(q) : ReadDataStop(q, v)
    \/ \E p \in Pipes, q \in Queues : \E v \in Heads(q) : ReadOther(p, q, v)
    \/ ReturnSaved
    \/ ReturnStop
    \/ Nap
    \/ Wait
    \/ TimedOut

Setting ==
    \/ \E m \in Loops : SetMode(m)
    \/ \E m \in IdleModes : SetIdleMode(m)

Pushing(q) == PushLook(q) \/ PushWrite(q) \/ PushFull(q) \/ PushSignal(q)

Next ==
    \/ Dequeuing
    \/ \E q \in Queues : Pushing(q)
    \/ Wakeup
    \/ \E q \in Queues : AddPending(q)
    \/ \E q \in Queues : AddLost(q)
    \/ \E q \in Queues : AddFreed(q)
    \/ \E q \in Queues : AddOwn(q)
    \/ Setting
    \/ Clear
    \/ LookCorrupt
    \/ \E p \in Pipes : PipeCorrupt(p)
    \/ ClearCorrupt

Spec == Init /\ [][Next]_vars

(* The dequeuer's thread goes on calling and runs when it can, a timed     *)
(* wait being over some time; every producer goes on until its close.      *)
FairSpec == Spec /\ WF_vars(Dequeuing) /\ \A q \in Queues : WF_vars(Pushing(q))
-----------------------------------------------------------------------------
(* Properties. *)

Values(q) == [queue : {q}, n : 1 .. MaxEvents[q] + 1, kind : Kinds]
AnyValue  == UNION {Values(q) : q \in Queues}

TypeOK ==
    /\ DOMAIN contents = Queues
    /\ \A q \in Queues : contents[q] \in Seq(Values(q)) /\ Len(contents[q]) <= Room
    /\ sent \in [Queues -> Nat] /\ \A q \in Queues : sent[q] <= MaxEvents[q] + 1
    /\ ended \subseteq Queues
    /\ producer \in [Queues -> {"out", "sawEmpty", "sawEvents", "signal"}]
    /\ pending \in [Pipes -> SUBSET Queues] /\ freed \subseteq Pipes
    /\ waiting \in [Pipes -> SUBSET Queues] /\ last \in [Pipes -> Queues \cup {NULL}]
    /\ mode \in Loops /\ idle_mode \in IdleModes
    /\ saved_event \in AnyValue \cup {NULL, Wild} /\ is_simulation_stop \in BOOLEAN
    /\ clocks \in BOOLEAN
    /\ pc \in {"out", "look", "read", "waiting"} /\ loop \in Loops
    /\ stage \in 1 .. Len(Stages[loop]) + 1
    /\ returned \in AnyValue \cup {NULL, Wild, Stop}
    /\ gone \in [Queues -> Nat] /\ owed \subseteq Queues
    /\ pressing \in BOOLEAN /\ clears \in 0 .. MaxClears /\ corrupt \in BOOLEAN

(* How many events of q are held in saved_event, or owed to the user.      *)
Held(q) == IF q \in QueueOf(saved_event) THEN 1 ELSE 0
Owed(q) == IF q \in owed THEN 1 ELSE 0

(* Every event pushed leaves the bus once and in its queue's order, the    *)
(* data event that is held back while others overtake it (qtl_bus.c:112,   *)
(* 167) and the close that becomes a stop (107) included: what has left,   *)
(* what is held and what is in the queue add up, and follow one another.   *)
ExactlyOnce ==
    \A q \in Queues :
        /\ sent[q] = gone[q] + Held(q) + Len(contents[q]) + Owed(q)
        /\ Held(q) = 1 => saved_event.n = gone[q] + 1
        /\ \A i \in DOMAIN contents[q] : contents[q][i].n = gone[q] + Held(q) + i

(* Data events and the stop yield: the pass that hands one out began with  *)
(* no execution or service event to be read, so they are only overtaken by *)
(* ones that came while it looked.                                         *)
DataYields ==
    [][pc # "out" /\ pc' = "out" /\ heldVars' # heldVars => ~pressing]_vars

(* A tree is never read without a queue, nor a queue without an event, and *)
(* memory is only misused after event_bus_clear has freed what the pipes   *)
(* go on using, or through what the constructor left unset.                *)
CorruptNeedsCause ==
    corrupt => clears > 0 \/ ~clocks \/ saved_event = Wild

(* A queue in a pipe that is looked at, or added to it when it already had *)
(* an event, is served to its close, however the signals are lost between  *)
(* the last look and the wait (qtl_bus.c:188-196): only the timeout makes  *)
(* up for those.  The stop waits while the bus runs in real time.          *)
Served(q) == PipeOf[q] # "historical" /\ contents[q] # <<>> /\ Known(q)

EveryQueueServed ==
    \A q \in Queues :
        Served(q) ~> \/ q \in ended /\ gone[q] = sent[q]
                     \/ q \in owed /\ mode = "realtime"
=============================================================================
