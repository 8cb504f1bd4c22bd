------------------------------ MODULE MCShell -------------------------------
(* Model checking of Shell. *)
EXTENDS Shell

=============================================================================
