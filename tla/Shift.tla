------------------------------- MODULE Shift --------------------------------
(***************************************************************************)
(* 1 << n: the units of a block of level n (buddyblock/src/lib.rs).        *)
(***************************************************************************)
EXTENDS Integers

Pow2[n \in Nat] == IF n = 0 THEN 1 ELSE 2 * Pow2[n - 1]

=============================================================================
