--------------------------- MODULE MCSideQuestion ---------------------------
(* One side question on a small instance. *)
EXTENDS SideQuestion
=============================================================================
