------------------------------ MODULE MCVoice ------------------------------
(* Voice on a small instance; the bounds are in the .cfg.                     *)
EXTENDS Voice
=============================================================================
