--------------------------- MODULE MCActivityStore ---------------------------
(* A turn with two ends and a request on a small instance. *)
EXTENDS ActivityStore
=============================================================================
