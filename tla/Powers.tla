------------------------------- MODULE Powers -------------------------------
(* Powers of two, as a recursive function: that is what can be proved about. *)
EXTENDS Naturals

Pow[n \in Nat] == IF n = 0 THEN 1 ELSE 2 * Pow[n - 1]
=============================================================================
