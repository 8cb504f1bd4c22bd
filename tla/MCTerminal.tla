----------------------------- MODULE MCTerminal -----------------------------
(***************************************************************************)
(* Model checking of Terminal on a screen of a few cells.                  *)
(***************************************************************************)
EXTENDS Terminal, TLC

Symmetry == Permutations(Char)

=============================================================================
