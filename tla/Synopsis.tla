------------------------------ MODULE Synopsis ------------------------------
(* The numbers a blockchain synopsis names.                                  *)
EXTENDS Integers, Sequences

(* From low to high, each step half of the way that is left. *)
Halving(low, high) ==
  LET f[n \in Nat] == IF n > high THEN <<>> ELSE <<n>> \o f[n + (high - n + 2) \div 2]
  IN  f[low]
=============================================================================
