------------------------------ MODULE MCNetPath ------------------------------
(* Small instances of NetPath for TLC. *)
EXTENDS NetPath

CONSTANTS c1, c2
=============================================================================
