------------------------------ MODULE MCPeers ------------------------------
(* Small instances of Peers for TLC. *)
EXTENDS Peers, TLC

CONSTANTS a1, b1, b2, A, B

\* A bridge in A exchanges with one in B, where a second node lives.
PairNodes == {a1, b1, b2}
PairSegment == a1 :> A @@ b1 :> B @@ b2 :> B
PairSeeds == {<<a1, b1>>}
\* The second node has no way to A, and knows the bridge there only from its neighbour.
PairNoRoute == {<<b2, a1>>}
PairMortal == {b2}
=============================================================================
