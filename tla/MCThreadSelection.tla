------------------------- MODULE MCThreadSelection -------------------------
(* Two Sessions of the Agent and one interview of the creator.               *)
EXTENDS ThreadSelection
=============================================================================
