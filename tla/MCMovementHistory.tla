------------------------- MODULE MCMovementHistory -------------------------
(***************************************************************************)
(* MovementHistory on the instances of MCRecordMovement.                   *)
(***************************************************************************)
EXTENDS MovementHistory, MCRecordMovement
=============================================================================
