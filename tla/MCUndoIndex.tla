---------------------------- MODULE MCUndoIndex ----------------------------
(* Instances of UndoIndex for TLC. *)
EXTENDS UndoIndex, TLC

=============================================================================
