--------------------------- MODULE MCPlayerControls ---------------------------
(* Small instances of the player's controls for TLC.                       *)
EXTENDS PlayerControls
=============================================================================
