--------------------------- MODULE MCSessionThread ---------------------------
(* One mounted thread of a Session on small instances. *)
EXTENDS SessionThread
=============================================================================
