-------------------------------- MODULE Clock --------------------------------
(***************************************************************************)
(* The clocks of the library: a clock_s (qtl_clock.c), local or exchange,  *)
(* and the two datetimes that an event bus keeps itself (qtl_bus.c), one   *)
(* of these at a time.  Each is in real time or in simulation and has a    *)
(* time that is set by hand and may only go forward.  A clock_s also has a *)
(* queue of reminders, that its users fill through clock_get_queue.  The   *)
(* clock of the machine is external.                                       *)
(***************************************************************************)
EXTENDS Integers

CONSTANTS MaxTime,    (* the latest time *)
          Reminders   (* that may be put into the queue *)

ASSUME ClockAssumption == MaxTime \in Nat

Times == 0 .. MaxTime
MIN_DATE_TIME == 0

OwnTypes == {"local", "exchange"}          (* a clock_s                      *)
BusTypes == {"busLocal", "busExchange"}    (* a datetime of a bus            *)
Types    == OwnTypes \cup BusTypes

VARIABLES type, mode, time, queue,
          utc,      (* what utc_now returns                                   *)
          answer,   (* of the last call that gets or sets the time            *)
          known,    (* history: somebody has written the time                 *)
          latest    (* history: the latest time the clock took since it was   *)
                    (* cleared or began a simulation                          *)

vars == <<type, mode, time, queue, utc, answer, known, latest>>

Answer(call, t, ok) == [call |-> call, time |-> t, ok |-> ok]
Nothing == Answer("none", MIN_DATE_TIME, TRUE)

(* Neither clock_new nor event_bus_new writes the time. *)
Init ==
    /\ type \in Types /\ mode = "simulation"
    /\ time \in Times /\ queue = {}
    /\ utc \in Times /\ answer = Nothing
    /\ known = FALSE /\ latest = MIN_DATE_TIME

(* clock_get_datetime asks the machine for the exchange's time in real     *)
(* time, event_bus_get_datetime for the local one in simulation.           *)
Reading ==
    IF \/ type = "exchange" /\ mode = "realtime"
       \/ type = "busLocal" /\ mode = "simulation" THEN utc ELSE time

Get ==
    /\ answer' = Answer("get", Reading, TRUE)
    /\ UNCHANGED <<type, mode, time, queue, utc, known, latest>>

SetAnyTime == {"exchange", "busExchange"}

(* Mutant: an exchange clock is only set in simulation, too. *)
TakesInSimulation(t) == mode = "simulation" /\ t >= time

(* Mutant: a time that is not the latest is taken. *)
TakesAny(t) == type \in SetAnyTime \/ mode = "simulation"

(* The conditions of clock_set_datetime, event_bus_set_datetime and        *)
(* event_bus_set_exchange_datetime.                                        *)
Takes(t) == (type \in SetAnyTime \/ mode = "simulation") /\ t >= time

Set(t) ==
    /\ Takes(t)
    /\ time' = t /\ latest' = t /\ known' = TRUE
    /\ answer' = Answer("set", t, TRUE)
    /\ UNCHANGED <<type, mode, queue, utc>>

SetRefused(t) ==
    /\ ~Takes(t)
    /\ answer' = Answer("set", t, FALSE)
    /\ UNCHANGED <<type, mode, time, queue, utc, known, latest>>

(* Mutant: a clock that begins a simulation keeps its time. *)
TimeInKeep(m) == time

(* The time that a change of mode leaves: the simulation of a clock_s      *)
(* begins anew, that of a bus goes on.                                     *)
TimeIn(m) == IF m = "simulation" /\ type \in OwnTypes THEN MIN_DATE_TIME ELSE time

(* clock_set_mode and event_bus_set_mode. *)
SetMode(m) ==
    /\ mode' = m
    /\ time' = TimeIn(m)
    /\ IF m = "simulation" /\ type \in OwnTypes
       THEN known' = TRUE /\ latest' = MIN_DATE_TIME
       ELSE UNCHANGED <<known, latest>>
    /\ answer' = Answer("mode", MIN_DATE_TIME, TRUE)
    /\ UNCHANGED <<type, queue, utc>>

(* clock_clear, and event_bus_clear, which leaves the times alone. *)
Clear ==
    /\ queue' = {}
    /\ IF type \in OwnTypes
       THEN time' = MIN_DATE_TIME /\ known' = TRUE /\ latest' = MIN_DATE_TIME
       ELSE UNCHANGED <<time, known, latest>>
    /\ answer' = Answer("clear", MIN_DATE_TIME, TRUE)
    /\ UNCHANGED <<type, mode, utc>>

(* The users of clock_get_queue push and pop (ReminderSet). *)
Push(r) ==
    /\ type \in OwnTypes
    /\ r \notin queue
    /\ queue' = queue \cup {r}
    /\ answer' = Nothing
    /\ UNCHANGED <<type, mode, time, utc, known, latest>>

Pop(r) ==
    /\ r \in queue
    /\ queue' = queue \ {r}
    /\ answer' = Nothing
    /\ UNCHANGED <<type, mode, time, utc, known, latest>>

(* The clock of the machine goes on, or is put back. *)
Machine(t) ==
    /\ utc' = t /\ answer' = Nothing
    /\ UNCHANGED <<type, mode, time, queue, known, latest>>

Next ==
    \/ Get
    \/ \E t \in Times : Set(t)
    \/ \E t \in Times : SetRefused(t)
    \/ \E m \in {"realtime", "simulation"} : SetMode(m)
    \/ Clear
    \/ \E r \in Reminders : Push(r)
    \/ \E r \in Reminders : Pop(r)
    \/ \E t \in Times : Machine(t)

Spec == Init /\ [][Next]_vars
-----------------------------------------------------------------------------
(* Properties. *)

TypeOK ==
    /\ type \in Types /\ mode \in {"realtime", "simulation"}
    /\ {time, utc, latest} \subseteq Times
    /\ queue \subseteq Reminders
    /\ type \in BusTypes => queue = {}
    /\ known \in BOOLEAN
    /\ answer \in [call : {"none", "get", "set", "mode", "clear"}, time : Times, ok : BOOLEAN]

(* A time is refused, which the caller is not told, only by a local clock  *)
(* in real time, or because the clock took a later one since it was        *)
(* cleared or began a simulation, on a bus one of a run before it was      *)
(* cleared, too, or by a clock whose time nobody had written yet           *)
(* (qtl_clock.c:21-34, 50-69, qtl_bus.c:47-64, 211-223, 299-326).          *)
RefusedNeedsCause ==
    answer.call = "set" /\ ~answer.ok =>
        \/ type \in {"local", "busLocal"} /\ mode = "realtime"
        \/ answer.time < latest
        \/ ~known

(* A clock shows the last time it took: an exchange clock in simulation,   *)
(* though it takes times in real time too, for none of those outlives the  *)
(* change of mode (qtl_clock.c:42-48, 75-79), and the local one of a bus   *)
(* only in real time, where none is taken and it stands still, and not in  *)
(* simulation, when it is set (qtl_bus.c:291-312).                         *)
ShowsWhatItTook ==
    /\ known
    /\ \/ type \in {"local", "busExchange"}
       \/ type = "exchange" /\ mode = "simulation"
       \/ type = "busLocal" /\ mode = "realtime"
    => Reading = latest

(* What a clock shows goes back only to the beginning of time, and that of *)
(* a bus not even there, unless it turns to the clock of the machine or    *)
(* away from it, or that one is put back while it shows it.                *)
BackOnlyForCause ==
    [][Reading' < Reading =>
         \/ type \in OwnTypes /\ Reading' = MIN_DATE_TIME
         \/ type = "exchange" /\ mode' = "realtime" /\ (mode = "simulation" \/ utc' < utc)
         \/ type = "busLocal" /\ (mode' # mode \/ (mode = "simulation" /\ utc' < utc))]_vars
=============================================================================
