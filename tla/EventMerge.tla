----------------------------- MODULE EventMerge -----------------------------
(***************************************************************************)
(* What the event tree of qtl_etree.c promises: a time-ordered merge of    *)
(* queues.  The queues that have an event wait in one line, sorted by the  *)
(* key each was given, first come first served among equal keys.  A read   *)
(* takes one event from the queue at the front.  A queue that a read       *)
(* emptied holds the whole line up until it has an event again, since that *)
(* event may be older than those of the others.                            *)
(***************************************************************************)
EXTENDS Naturals, Sequences, SequencesExt, FiniteSets

CONSTANTS Queues,     (* the event queues that may be merged                *)
          Times,      (* the timestamps of their events                     *)
          NULL,       (* no queue                                           *)
          FreshTimes, (* keys that a queue joining an empty line may get    *)
          Stop        (* what a read of the very last close hands out       *)

VARIABLES contents,   (* the events in each queue, oldest first             *)
          line,       (* the queues waiting, each with its key              *)
          last,       (* the queue the last read emptied, or NULL           *)
          returned    (* what the last read handed out                      *)

vars == <<contents, line, last, returned>>

Events(q) == [queue : {q}, time : Times, closed : BOOLEAN]

Entry(q, t) == [queue |-> q, key |-> t]

(* Behind every queue whose key is not larger; s is sorted by the keys. *)
Insert(s, q, t) ==
    InsertAt(s, Cardinality({i \in DOMAIN s : s[i].key <= t}) + 1, Entry(q, t))

HeadTime(c, q) == Head(c[q]).time

Init ==
    /\ contents = [q \in Queues |-> <<>>]
    /\ line = <<>> /\ last = NULL /\ returned = NULL

(* A producer puts an event in its queue. *)
Push(q) ==
    /\ \E e \in Events(q) : contents' = [contents EXCEPT ![q] = Append(@, e)]
    /\ UNCHANGED <<line, last, returned>>

(* A queue with an event joins; the first of an empty line has any key. *)
Add(q) ==
    /\ contents[q] # <<>> /\ q # last
    /\ \A i \in DOMAIN line : line[i].queue # q
    /\ IF line = <<>>
       THEN \E t \in FreshTimes : line' = <<Entry(q, t)>>
       ELSE line' = Insert(line, q, HeadTime(contents, q))
    /\ UNCHANGED <<contents, last, returned>>

(* The queue that held the line up has an event again. *)
Resume ==
    /\ last # NULL /\ contents[last] # <<>>
    /\ line' = Insert(line, last, HeadTime(contents, last))
    /\ last' = NULL
    /\ UNCHANGED <<contents, returned>>

(* One event from the queue at the front, which goes back in line, holds   *)
(* the line up, or leaves if the event was its close.                      *)
Read ==
    /\ last = NULL /\ line # <<>>
    /\ LET q    == Head(line).queue
           e    == Head(contents[q])
           rest == Tail(line)
           more == Tail(contents[q])
       IN  /\ contents[q] # <<>>
           /\ contents' = [contents EXCEPT ![q] = more]
           /\ IF e.closed
              THEN /\ line' = rest /\ last' = NULL
                   /\ returned' = IF rest = <<>> THEN Stop ELSE e
              ELSE /\ returned' = e
                   /\ IF more = <<>>
                      THEN line' = rest /\ last' = q
                      ELSE /\ line' = Insert(rest, q, Head(more).time)
                           /\ last' = NULL

(* The line is forgotten, and with it what is left in its queues. *)
Clear ==
    /\ line' = <<>> /\ last' = NULL
    /\ UNCHANGED <<contents, returned>>

Next == Resume \/ Read \/ Clear \/ \E q \in Queues : Push(q) \/ Add(q)

Spec == Init /\ [][Next]_vars
=============================================================================
