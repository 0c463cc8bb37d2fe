--------------------------- MODULE MCShareManager ---------------------------
(* Small instances of ShareManager for TLC. *)
EXTENDS ShareManager, TLC

CONSTANTS owner, n1, n2, d1, d2, g1, t1, t2, t3

NoGroups == [g \in {} |-> {}]
Pair == [g \in {g1} |-> {d1, d2}]
EmptyGroup == [g \in {g1} |-> {}]

Symmetry == Permutations(Tasks) \cup Permutations(Nodes \ {Owner})
=============================================================================
