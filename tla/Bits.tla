-------------------------------- MODULE Bits --------------------------------
(* Powers of two, as a recursive function: the exponents of shifts are     *)
(* computed, and 1 << n is needed as a number.                             *)
EXTENDS Integers

Bit[n \in Nat] == IF n = 0 THEN 1 ELSE 2 * Bit[n - 1]
=============================================================================
