---------------------------- MODULE MCEventBus ----------------------------
(* Small instances of EventBus: two queues in the data pipe, which differ  *)
(* in nothing, and one in the service pipe; or one in the data pipe and    *)
(* one in the execution pipe.                                              *)
EXTENDS EventBus, TLC

CONSTANTS d1, d2, e1

TwoQueues == (d1 :> "data") @@ (e1 :> "execution")
ThreeQueues == (d1 :> "data") @@ (d2 :> "data") @@ (e1 :> "service")

OneEach   == [q \in {d1, e1} |-> 1]
TwoAndOne == (d1 :> 2) @@ (e1 :> 1)
DataOnly  == (d1 :> 1) @@ (d2 :> 1) @@ (e1 :> 0)

Symmetry == Permutations({d1, d2})
=============================================================================
