----------------------------- MODULE MCNetShare -----------------------------
(* Small instances of NetShare for TLC. *)
EXTENDS NetShare, TLC

CONSTANTS c1, c2, own, h1, h2
=============================================================================
