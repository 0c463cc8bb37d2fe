-------------------------- MODULE MCAttachProtocol --------------------------
(* Small instances of AttachProtocol for TLC. *)
EXTENDS AttachProtocol
=============================================================================
