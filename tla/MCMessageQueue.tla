--------------------------- MODULE MCMessageQueue ---------------------------
(* The message queue on a small instance. *)
EXTENDS MessageQueue
=============================================================================
