# libqtl in TLA+

libqtl is a small C library for event-driven trading programs: producer threads put time-stamped events
into queues, the queues are merged by time in the pipes of an event bus, and one thread takes the events
off the bus one by one, in real time or in a simulation. This directory holds TLA+ models of its parts,
the TLC configurations that check them on small instances, and machine-checked proofs for the lock-free
queue, the event tree, the adds of several threads to a pipe, the bus, the reference counts, the clocks, the
reminder queue with its red-black tree, and the arithmetic of dates.

## The system

| component | source | state | operations | status |
|---|---|---|---|---|
| SPSC ring | `src/src/spsc_queue.c` | array of pointers, two atomic positions | write, read, peek, is_empty, is_full, size | modelled, proved |
| Event queue | `src/src/qtl_queue.c` | a ring, the bus it wakes | push, pop, peek_time, is_empty, clear | modelled |
| Event tree | `src/src/qtl_etree.c` | a search tree of queue nodes, lists of equal keys, `last` | add, is_empty, read, rebalance, clear | modelled, proved |
| Event pipe | `src/src/qtl_pipe.c` | a tree, a ring of queues yet to be added | add, is_empty, read, clear | modelled, proved |
| Event bus | `src/src/qtl_bus.c` | five pipes, `saved_event`, `is_simulation_stop`, modes, mutex and condition, two times | add_queue, dequeue, wakeup, set_mode, set_idle_mode, clear, set and get of the times | modelled, proved |
| Event | `src/src/qtl_event.h` | time, type, 16-bit reference count | ref, unref | modelled, proved |
| Clock | `src/src/qtl_clock.c` | type, mode, time, reminders | set_datetime, get_datetime, set_mode, clear | modelled, proved |
| Reminder queue | `src/src/qtl_rqueue.c` | red-black tree by time and callback | push, pop, peek, remove, clear | modelled, proved |
| Search tree macros | `src/src/adt_tree.h` | red-black and splay trees | insert, remove, find, next, prev, min, max | modelled, the red-black tree proved |
| Binary heap | `src/src/adt_heap.h` | a complete tree and its count | insert, remove, dequeue | modelled |
| Date and time | `src/src/qtl_datetime.c` | none | calendar arithmetic, decode, to_tm, read and format | modelled, proved |
| List macros | `adt_queue.h` | | | vendored, used by nothing, not modelled |
| Version | `qtl_version.c` | | constants | not modelled |

How they interact. A producer thread pushes to *its* queue: it looks whether the queue is empty, writes the
ring, and if it had looked empty signals the condition of the bus. Any thread may add a queue to a pipe;
if it is not the one that made the pipe, the queue goes through the pipe's ring `pending_add`. The
dequeuing thread makes passes over the pipes. Each `is_empty` or `read` first moves the pending queues into
the pipe's tree, where a queue without an event is dropped; `is_empty` also puts back the queue that the
last read emptied. One data event is held in `saved_event` while execution, command and service events are
looked for; if there is nothing at all, the thread spins, sleeps, or waits on the condition for a nanosecond.

What is hard, and what makes each part correct:

* **Ring.** Two threads on plain memory, ordered only by acquire and release on two positions, each
  deciding on a possibly stale value of the other's. It must be race free and a FIFO, and its queries must
  stay true for the thread that asked until that thread acts on them.
* **Tree.** Relinking of equal keys, removal of the leftmost node, a key that must be that of the current
  head event. No queue may be lost or served twice, events must come out oldest first, an empty queue must
  hold everything up (its next event may be the oldest), the stop must come last. The first node of an empty
  tree keeps whatever `malloc` returned for its key and links.
* **Pipe and bus.** Adds, pushes and passes interleave; wake-ups get lost between the last look and the
  wait; one event is parked while others overtake it; the stop of a simulation is a flag, then an event;
  `event_bus_clear` frees a ring that is still used; fields are read that nobody set. Every event must be
  handed out once, in its queue's order, and eventually.
* **Reference counts.** A subtraction and a free are two steps, and the count has 16 bits. Exactly one of the
  threads that let go may free an event, and none may while another pointer remains.
* **Clocks.** A clock must not go back, but two modes, a restart, and fields the constructors leave unset decide what
  it shows and which times it refuses, without telling the caller.
* **Trees and heap.** Every rotation, splice and swap has to leave order, balance and the links back in agreement,
  from any side. The reminder queue reads its keys from the user's reminders, allocates and frees nodes around them, and
  frees them while it walks over them.
* **Date and time.** Fixed-point calendar arithmetic, 16-bit fields, months that carry, zones, lengths of texts.

## Modules

**`SpscQueue`** models the ring at the level of the C11 memory model. An atomic position is the sequence of
all stores made to it; a load may return any store no older than one already seen, so staleness is a choice.
An acquire load that reads a release store synchronises. Every plain access to a slot is stamped with the
epoch of its thread, so that a data race is a state (`RaceFree`). Actions: `WriteBegin`/`WriteFull`, `WriteRecord`,
`WritePublish`; `ReadBegin`/`ReadEmpty`, `ReadRecord`, `ReadPublish`, `PeekRecord`; `ProducerQuery`,
`ConsumerQuery`. **`BoundedFifo`** is what it promises: a FIFO of `Capacity - 1` items.

**`EventTree`** models the tree pointer by pointer: `node[q]` is the `tree_node_t` of queue `q` (its
`timestamp`, `left`, `right`, `next`, `prev`, `head`), `root` and `last` those of the tree. `Rebalance`,
`Descend`, `Link` and `Supersede` are `event_tree_rebalance`; `TakeOut`, `Unlist` and `Unhang` the first half
of `event_tree_read`; the actions are the outcomes of each call. A loop that goes down the tree is a function from the
number of turns to the place reached: `Descent` for `event_tree_rebalance`, `LeftDescent` for the read, each turn being
one step of the code, or none once the loop has ended. No loop can take more turns than there are queues, whatever the
pointers hold, unless it never ends, and the invariant excludes that. **`EventMerge`** is what it promises: one
line of queues sorted by key, first come first served among equal keys, held up by an empty queue. The
refinement maps the in-order walk of the tree, lists included, to that line.

**`EventBus`** composes pushes, pipes and both dequeue loops. Each queue is the FIFO of the ring and each tree
the set of queues waiting in it and the one kept aside: which of the waiting queues is read is left open, as
`EventTree` settles it. `producer[q]` is where a push is; `pc`, `loop` and `stage` where the dequeuer is,
`Stages` listing what a pass of each loop looks at, in order. One call of a pipe is one step; a producer's
look, write and signal are three; entering the wait is a step of its own, so a signal can come too early.

**`Datetime`** holds the functions of `qtl_datetime.c` under their own names. A 64-bit count is kept as
the triple (days, seconds, microseconds) it is divided into, since the model checker's integers have 32 bits.
**`Calendar`** is the reference: a date and a clock that carry from field to field, one day or
one second at a time, beside the count; the functions must lead from each to the other all the way. `Walks` says which
stretches are walked, in which steps, with which fractions, zones and sizes of buffer.

**`PipeAdd`** gives `pending_add` several producers, which `SpscQueue` and `EventBus` exclude. A thread may load any
store to a position that is not older than one it has seen; one that has synchronised with the last adder
(`Synchronise`: a lock of the client) has seen its stores. `race` remembers an add that began during another's or
without synchronisation; from then on anything may be in the ring, and the model follows it.

**`EventRef`** is about pointers to events: a handle is one pointer that somebody is to call `event_unref` for, in a
thread, in a queue, in the local variable of the bus's loop (`read`) or in its `saved_event`. `Unref` subtracts, `Free`
frees, and others run in between. A pointer that the code gives up without `event_unref` goes to a place of its own:
`closed`, when `event_tree_read` puts a stop into the variable that holds the last close event (`ReadLastClose`);
`noted`, when the simulation loop only sets its flag for a stop; `abandoned`, when a bus is freed with a saved event.
`event_queue_clear` is a sequence of `Pop` and `Unref`. The model stops when an event is freed that another handle
points to (`corrupt`), since anything may happen then.

**`Clock`** is one of four clocks: a `clock_s` of `qtl_clock.c`, local or exchange, or one of the two times of the bus,
which has its own code for them. `utc` is the clock of the machine, which may be put back. `known` and `latest` are
histories: whether the time was ever set or reset, and the latest time taken since.

**`RedBlackTree`** and **`SplayTree`** hold the macros of `adt_tree.h` as operators on a record of links; the code
writes every case out for left and right, and the operators take the side as a parameter. A loop of the red-black tree
is a turn (`InsertTurn`, `RemoveTurn`, `NFindTurn`, a step to a child or to the parent) repeated by `After` as often
as there are nodes; where the loop has ended, a turn changes nothing, and no loop takes more. The splay tree recurses.
**`BinaryHeap`** does the same for `adt_heap.h`: its `heap_node_swap` exchanges two whole nodes and patches six links,
as the code does. **`ReminderQueue`** puts the memory of `qtl_rqueue.c` around the red-black tree: nodes are allocated
and freed, and keys are read from the reminders, whose time the user may change (`Retime`). `rb_node_comp` compares
times, then callbacks; `Key` makes one number of both, with `MaxCallback` the greatest address. The loop of clear
makes one step for each node. **`ReminderSet`** is what the queue promises: a set that gives out its earliest member,
or, while one was retimed in it, any.

The **`MC`** modules are the instances; **`SpscQueueProofs`**, **`EventTreeProofs`**, **`PipeAddProofs`**,
**`EventBusProofs`**, **`EventRefProofs`**, **`ClockProofs`**, **`CalendarProofs`** and **`ReminderQueueProofs`** the
proofs. `MCContainers` makes any sequence of calls on one container, and holds the properties of the macros, since
those have no state of their own.

## What TLC checks

| run | bounds | shows |
|---|---|---|
| `spsc` | capacity 3, 5 writes, 2 values | race free, FIFO, queries and peek hold until acted on |
| `tree` | 3 queues, 3 timestamps, 1 event and a close each | no queue lost, keys fresh, oldest first, stop last, implements `EventMerge` |
| `tree_live` | 2 queues, 2 timestamps, garbage in new nodes | the tree goes wrong only through garbage it still holds; every accepted queue is drained |
| `tree_assert` | 2 queues | *violation*: the assertion of `event_tree_read` |
| `bus` | 2 data queues, 1 execution queue, unset fields; 1 pending add, 1 clear | exactly once, data yields, memory misused only after a clear or through unset fields |
| `bus_live` | 1 data, 1 execution queue | every queue is served to its close in spite of lost wake-ups |
| `pipe_add` | 3 threads, 3 queues, ring of 3 | all queues once, in order and in the end, unless adds race |
| `event_ref` | a data event, a close and a stop, 5 pointers, counts modulo 3 | freed once, counts right, leaks only in three places |
| `clock` | four kinds of clock, times 0 to 3, 2 reminders | why times are refused, what is shown, when it goes back |
| `reminders` | 4 reminders with equal times and callbacks, 4 nodes, retimed once | implements `ReminderSet`; balance; what order needs; where memory is lost |
| `containers` | 11 red-black, 8 splay, 10 heap nodes | order, colours, height, links, walks, what a splay brings up, the shape of the heap |
| `calendar` | 3 × 401 years by days; 2 days and the first of year 1 by seconds, 5 zones; 3 days, 4 fractions, buffers of 0 to 40 | dates, fields, texts and counts agree; a text fits where it was accepted, but for a zone |

A property called `NoQueueLost`, `NothingDangles` or `FifoUnlessRace` includes the types of its module, which are proved.

Why the bounds are enough. Three slots and five writes take both positions round the ring and past every
alignment. Three queues and three timestamps make every shape that the tree code distinguishes: root, left,
right and left's right child, a list of two or three under the root or under a parent, the removal of
its oldest and of its last. The step of each tree operation touches a node, its parent and one list, so a fourth
queue repeats these. Two data queues with one pending add show the blocking queue, the held event behind another
and the add that is lost; with an execution queue they show overtaking. The garbage of the tree sits in the first node
of an empty tree, so two queues show it being hit and being overwritten. The Gregorian calendar repeats
every 400 years, which the walk covers from year 1, from 1601 (through 1970) and up to 31 December 9999.
Counters (`MaxPush`, `MaxEvents`, `MaxClears`, `MaxRetimes`, `Walks`) are bounds of the model; `Room` and
`PendingRoom` (1023 in the code) are parameters of the code made small so that the full case happens, as are
`Wrap` of `EventRef` (65536) and `Capacity` of `PipeAdd` (1024). Five pointers overload a count of three values by two
and leave others for the queue and the bus. Eleven nodes in any order of insertion and removal reach every case of the
red-black removal, with several turns of its loop; ten heap nodes stand on four rows, where the last leaf lies in another
branch than the place it moves to; eight nodes give the splay tree every zig-zag down to depth seven. Of the four
reminders two are equal, and a third shares their time.
The clocks compare times and reset them, so four times show any order of three and the one in between.

Fairness. `pipe_add` assumes that the pipe is read again and again, that a store is visible at last, and that an add
that has begun ends; not that threads go on adding. `tree_live` assumes that the owner keeps asking and reading and
that each producer closes its queue some day; `EveryQueueDrained` does not hold for a tree in which garbage is still
followed, or that has crashed. `bus_live` assumes that the dequeuing thread runs when it can and calls dequeue again,
and that producers go on to their close. A timed wait ends by itself, which is why `TimedOut` is one of the dequeuer's
steps: without it the run fails, since a push that saw its queue not yet empty sends no signal, and one whose signal
comes before the wait sends it to nobody. A steady stream of execution events starves the saved data event; liveness
holds because in the model every stream ends. In `EveryQueueServed` a stop that was noted may stay noted while the bus
runs in real time, because only the simulation loop hands it out.

### Where the code and its words disagree

* `assert(tree->last)` at `qtl_etree.c:68` fails at every legal read; the comment beside it states the opposite
  condition. `tree_assert` finds it; the other runs model a build with `NDEBUG`.
* `tm_wday` counts from Monday, the comment says Sunday: `FieldsShowClock` compares it with the calendar's weekday
  counted from Monday.
* `datetime_format` prints microseconds as though they were nanoseconds, so that `datetime_read` gets back a
  thousandth of the fraction, which is what `TextComesBack` states.
* `reminder_queue_push` ends without a return value (`qtl_rqueue.c:70`), where the header promises false if the queue
  is full: in `ReminderSet` its answer is anything. The run `reminders` fails for an abstract push that answers
  whether it took the reminder.
* The branches of `event_bus_get_datetime` are swapped (`qtl_bus.c:293`): a simulation reads the machine's clock, and
  real time reads the time that only a simulation may set, and so stands still. `ShowsWhatItTook` therefore holds for
  `busLocal` only in real time.

Other oddities are modelled as they are: a queue added while it has no event is dropped silently
(`Waiting`); a full `pending_add` loses a queue (`AddLost`); after a clear, a pending add is written to freed
memory (`AddFreed`); the stop of an execution or service pipe is handed out as it is, also in a
simulation whose data goes on; `datetime_format` prints a zone but does not shift the time by it, and neither checks
nor returns the five characters it adds; `reminder_queue_remove` does not free the node it finds, and a push of
a duplicate loses a node (`LeaksOnlyThere`); three kinds of event are dropped without `event_unref`
(`LeaksNeedCause`): the stop that a simulation reads, the close event that `event_tree_read` overwrites with it, and the
saved event of a bus that is freed; a time on the first day of year 1 with a zone ahead of it is read as one near the
end of 64 bits (`TextComesBack`); `event_bus_clear` frees `saved_event` although others may hold it (`CorruptNeedsCause` of
`EventRef`) and keeps the times of the bus, so that a run that starts earlier has its times refused; `clock_set_mode`
keeps the reminders of the run before, which `clock_clear` drops.

## What is proved

`SpscQueueProofs` proves, for every capacity of at least two, any set of values and any number of writes:
`TypeCorrect`, `RaceFreedom`, `AnswersStand`, `PeekIsNext`, `NoFalseAlarm` and `Refinement` (the ring implements
`BoundedFifo`). The only assumption is `SpscAssumption`.

None of these is inductive. The invariant they rest on (`Invariance`) says where the i-th store of each
position points (its slot is i - 1 modulo the capacity), that the two sequences of stores are never
more than `Capacity - 1` apart, that a thread has never acquired more than there is, that each stored but
unread item is in its slot, and which epoch last wrote and last read each slot. A stale load only makes
the ring look fuller to the producer and emptier to the consumer, so the acquired store bounds the real distance
from the safe side; the slot a thread is about to touch is then one the other thread last touched before
that store. Each step of the proof is one action; modular distance is confined to a few lemmas about `Succ`.

`EventBusProofs` proves, for any finite set of queues, any pipe each is added to, any sizes of the queues and of
`pending_add`, any unset fields and any bounds: `TypeTheorem`, `ExactlyOnceTheorem`, `CorruptTheorem` and
`DataYieldsTheorem`. The only assumption is `EventBusAssumption`: the special pointers differ from each
other, from the queues and from the events, and the sizes are positive.

The invariant (`IInv`) adds to those properties what they rest on. `Homes`: a queue stays in its pipe and only data
events are saved, so a read of another pipe cannot hand out an event past a saved one of the same queue. `Closes`: a
close is the last event of its queue, so a stop that is owed cannot be owed twice and nothing follows it.
`Reading`: between the look and the read, which are two calls in the code, others can only add to a pipe, so the
read finds a queue; and no data event is read over a saved one. `Filled`: every queue in a tree has an event.
`Pressed`: if a pass began with an execution or service event to be read, that event is still readable in a stage that
the pass has yet to come to. The proof first sorts the steps four times, by the part of the state they touch
(`StepsOnEvents`, `StepsOnPipes`, `StepsOnProducers`, `StepsOnPass`), so that each part of the
invariant meets only the steps that can disturb it.

`EventRefProofs` proves, for any events, any finite set of pointers and any width of the count: `SpecTypeOK`,
`SpecCorruptNeedsCause`, `SpecCountIsReferences` and `SpecLeaksNeedCause`. `CorruptNeedsCause` is far from inductive. Its
invariant (`IInv`) says that until something is corrupt each pointer leads to a live event, the count of a live event is
congruent to the number of its references modulo the width, and a pointer between subtraction and free is the only
one. A count of one then means one reference, or more than the width ever since `overloaded`. For the leaks it says that
each live event has a pointer, and which types may be `closed` or `noted`. The lemmas of congruence
do the arithmetic; steps that only move a pointer share a lemma (`MoveSound`), so do those that make an event
(`MadeSound`), and each other action has its own. The only assumption is `EventRefAssumption`.

`ClockProofs` proves all the properties of `clock`, for the clocks of `qtl_clock.c` and those of the bus, any range of
times and any reminders, from `ClockAssumption` (there is a first time). The invariant adds that the stored time is
`latest` once it is `known`; `BackOnlyForCause` follows from it step by step.

`EventTreeProofs` proves, for any finite set of queues, any times and any bounds: `SoundWithoutGarbage`,
`OnlyGarbageCrashes`, `OldestFirst` and `StopComesLast` whatever the memory of a new node holds, and `NoneLost`,
`PopsNeverFail` and `Implements` (the refinement of `EventMerge`) where it holds no wild pointer (`Wild \notin Fresh`;
a node that the first queue of an empty tree brings may otherwise lead anywhere, as the run `tree_live` shows). The
only other assumption is `EventTreeAssumption`: the special pointers differ from the queues and from each other, the
stop is not an event of a queue, times are natural numbers, and there are finitely many queues.

The pointers alone do not say why the code is right. The invariant (`IInv`) adds what they leave implicit: the queues
`M` that are to be served and the newest ones `T` of each key, which hang in the tree; for each of these, bounds `lo`
and `hi` between which every key below it lies, its parent `up`, and the promise that a missing child leaves no key
out (`Ordered`); and `pos`, the turn of a queue among those of its key, which `next` raises by one and which is
smallest at `head` (`Grouped`). A tree with such bounds has no cycle: each step down leaves fewer keys between the
bounds. That gives the loops an end (`LoopSettles`: what comes closer to its end at every turn settles in as many
turns as it was away), which is the place where the key belongs or a pointer that was never assigned (`FindsPlace`,
`FindsLeftmost`). Each way to change the tree is a lemma: hanging a new leaf left or right, taking the place of the
newest of a key, cutting the leftmost out, and for the lists beginning, growing, serving the oldest and ending.
`RebalanceJoins` and `TakesOut` put them together for the two functions of the code. `OrderLists` shows by the same
bounds that the walk of the properties meets every queue of `M` exactly once, in the order of keys and turns. Since
only one list has that order (`SameList`), the line that `EventMerge` sees is determined by `M`, the keys and `pos`:
what `RebalanceJoins` says of these puts a queue where `EventMerge` inserts it (`EntersLine`), what `TakesOut` says
takes away its front (`LeavesLine`), and each action of the tree maps to one of `EventMerge` or to none (`PushMerges`
to `ClearMerges`).

`PipeAddProofs` proves `FifoUnlessRace` for any threads, any queues and any capacity of at least two, from
`PipeAddAssumption`. Until a race, store k of `write_pos` is the slot after k - 1 writes; a thread
that has synchronised with the last adder has seen all writes and enough reads to tell a full ring, and hands this
knowledge on (`Views`, `Adder`). After a race nothing but the types is claimed, since then the code may do anything.

`CalendarProofs` proves all the properties of `calendar` for every walk: from the first day of any 400-year cycle,
over any number of days that stays before year 10000, in steps of a day or a second, with any fraction, zones shorter
than a day and sizes of buffers (`CalendarAssumption`). The invariant gives the count in closed form, 365 days a year
and one more for every fourth but not every hundredth; the lemmas show that Baum's divisions take it apart exactly.

`ReminderQueueProofs` proves all the properties of `reminders`, for any finite set of nodes, any reminders, callbacks and
times, and any number of changes of time: `NoneDangles`, `AlwaysBalanced`, `InOrderUnlessRetimed`, `LeaksNowhereElse` and
`Implements` (the refinement of `ReminderSet`). They rest on `NodeAssumption` (finitely many nodes, and NULL is not one)
and `ReminderAssumption` (times are natural numbers, callbacks are at most `MaxCallback`, NULL is not a reminder).

The invariant (`IInv`) says that the tree is `Sound`, that its nodes are allocated and have a reminder, that the loop of
clear stands on the first node, and that disorder ends with the tree. `Sound` describes the tree by what its pointers
leave implicit: its nodes `T`, the set `B[n]` of those below each, and the black height `h[n]`. Any walk then has an end,
since a step down leaves fewer nodes below and a step up more. A change of time takes the order away, and with it
every reason why the first and next nodes are what clear needs; so the tree is also in order for a rank `g` that
no reminder has a part in: it gives each node a number for its place, doubled at each insertion to make room for the new
one (`Doubled`). `g` is never lost, and `RB_NEXT` and `RB_MIN` are proved by it alone; the order by time and
callback is claimed besides, until it is disturbed.

The proof goes from the assignments to the queue. `RotateIs`, `HangIs`, `AttachIs`, `SpliceIs` and `TakeOverIs` say
what each macro writes; `RotatedTree`, `AttachedTree`, `SplicedTree` and `TakenOverTree` that a tree comes of it, and
what is below each node then. A loop is the sequence of its states (`AfterIs`); if each turn lowers a number, it has
settled when it ends (`AfterSettles`). What a loop leaves undone is an invariant of its own: `Fixing` allows a red
pair at the node the insertion is at, `Short` one missing black node below `p`, and each turn keeps that and moves it
up the tree, or ends it (`InsertTurnIs`, `RemoveTurnIs` with `BlackSiblingIs`, `RedFarIs` and `MendIs`). So `InsertIs`
and `RemoveIs` say that `RB_INSERT` and `RB_REMOVE` take a red-black tree to a red-black tree with just one node more
or less. Black heights are no part of the code: `RedBlackIsBalanced` derives from them the number of black nodes above
each leaf, by which `Balanced` is stated. `KeyIs` turns the comparison of keys into that of time and callback, and
each action of the queue maps to one of `ReminderSet` or to none (`PushSets` to `RemoveSets`).

Only model-checked: all liveness, which the prover cannot do; the splay tree and the heap (`RootIsNear`, `HeapSound`),
which are recursive operators, over which the prover has no induction; and of the red-black tree what `MCContainers`
says of the macros the queue does not use, and of the height, whose bound is a power of two (`SearchTree`, and
`WalksInOrder` for `RB_PREV`, `RB_NFIND` and `RB_MAX`), in a module that holds the recursive trees too.

## Assumptions

* A queue has one producer thread and is in at most one pipe, to which it is not added again while there.
* One thread owns a pipe and calls dequeue, clear and set_mode; in `EventBus` one thread at a time adds queues from
  outside. `PipeAdd` shows what comes of two at once, which nothing in the code prevents, and that turns are enough.
* `event_pipe_new` returns no value and initialises no tree; the models start from a pipe as it was meant.
  The other fields the constructors leave unset are chosen freely (`Fresh`, `FreshTimes`, `FreshSaved`, `FreshStop`,
  `FreshClocks`), in `tree_live` and `bus`; the other runs take the harmless values.
* Allocation succeeds, apart from being lost to `pending_add`; a push is atomic at the moment its event
  becomes visible, which is what `Refinement` justifies.
* `EventMerge` may read a queue only when it has an event; `HeadsPresent` shows that the pop at
  `qtl_etree.c:90` cannot fail.

## Plan

In this order; each module gets its runs, its mutants and, where marked, proofs.

1. *done* `SpscQueue`, `BoundedFifo`, `SpscQueueProofs`: the only concurrent data structure.
2. *done* `EventTree`, `EventMerge`: the merge.
3. *done* `EventBus`: pushes, pipes and loops together.
4. *done* `Datetime`, `Calendar`.
5. *done* `EventBusProofs`: type correctness, `ExactlyOnce`, `CorruptNeedsCause` and `DataYields`.
6. *done* `EventRef`, `EventRefProofs`: the count under concurrent references and releases.
7. *done* `Clock`, `ClockProofs`: the clocks of `qtl_clock.c` and of the bus.
8. *done* `RedBlackTree`, `ReminderQueue`, `ReminderSet`; `SplayTree` and `BinaryHeap`.
9. *done* `PipeAdd`: several threads on one `pending_add`; the length of a text with a zone.
10. *done* `PipeAddProofs`, `CalendarProofs`.
11. *done* `EventTreeProofs`: the shape of the tree, `NoQueueLost`, `HeadsPresent`, oldest first, stop last.
12. *done* `ImplementsMerge` as a theorem of `EventTreeProofs`.
13. *done* `ReminderQueueProofs`: the red-black tree, its balance, and the refinement of `ReminderSet`.

## Not modelled

* `adt_queue.h`: list macros of one or two assignments, included by nothing in the library.
* `qtl_version.c` returns constants.
* Destructors end the life of their object and do what clear does; `attach`, `deattach`, `event_pipe_remove`,
  `event_tree_remove`, `clock_add_reminder` and `clock_remove_reminder` do nothing; `clear_reminders`, `show_warnings` and
  `is_synched` are flags nothing reads.
* Reading the machine's clock and zone (`utc_now` and the like), apart from a time that may jump.
* The 16-bit day 0 of `datetime_from_ymd`: no caller passes it.
