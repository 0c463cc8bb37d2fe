---------------------------- MODULE MCUpdateWave ----------------------------
(* Small instances of UpdateWave for TLC. *)
EXTENDS UpdateWave, TLC

CONSTANTS n1, n2, n3

TwoNodes == {n1, n2}
ThreeNodes == {n1, n2, n3}

\* The place of a node in the queue.
PlaceOf == n1 :> 1 @@ n2 :> 2 @@ n3 :> 3
Place2 == [n \in TwoNodes |-> PlaceOf[n]]
Place3 == [n \in ThreeNodes |-> PlaceOf[n]]
=============================================================================
