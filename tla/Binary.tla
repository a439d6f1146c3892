------------------------------- MODULE Binary -------------------------------
(* Powers of two, for the widths of numbers and for shifts.                *)
EXTENDS Integers

TwoTo[n \in Nat] == IF n = 0 THEN 1 ELSE 2 * TwoTo[n - 1]
=============================================================================
