---------------------------- MODULE MCBlockLog -----------------------------
(* Instances of BlockLog for TLC. *)
EXTENDS BlockLog
=============================================================================
