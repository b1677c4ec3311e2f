--------------------------- MODULE MCMessageQueue ---------------------------
(* MessageQueue with a few consumers and items for TLC. *)
EXTENDS MessageQueue
=============================================================================
