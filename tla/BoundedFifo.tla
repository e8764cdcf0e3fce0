---------------------------- MODULE BoundedFifo ----------------------------
(***************************************************************************)
(* What a single-producer single-consumer queue promises its two threads:  *)
(* the items come out in the order they went in, each exactly once, and at *)
(* most Bound of them are inside at any time.                              *)
(***************************************************************************)
EXTENDS Naturals, Sequences

CONSTANTS Values,  (* what can be queued                       *)
          Bound    (* how many items fit                       *)

VARIABLES pushed,  (* every item accepted so far, oldest first *)
          popped   (* every item handed out so far             *)

vars == <<pushed, popped>>

Init == pushed = <<>> /\ popped = <<>>

Push(v) ==
    /\ Len(pushed) - Len(popped) < Bound
    /\ pushed' = Append(pushed, v)
    /\ UNCHANGED popped

Pop ==
    /\ Len(popped) < Len(pushed)
    /\ popped' = Append(popped, pushed[Len(popped) + 1])
    /\ UNCHANGED pushed

Next == Pop \/ \E v \in Values : Push(v)

Spec == Init /\ [][Next]_vars
=============================================================================
