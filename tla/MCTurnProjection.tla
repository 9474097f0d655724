------------------------- MODULE MCTurnProjection --------------------------
(* Small instances of TurnProjection; the bounds are in the cfg files.        *)
EXTENDS TurnProjection
=============================================================================
