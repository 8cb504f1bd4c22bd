----------------------------- MODULE MCIrqMutex -----------------------------
(***************************************************************************)
(* Model checking of IrqMutex: any code that keeps its discipline.         *)
(***************************************************************************)
EXTENDS IrqMutex, TLC

Symmetry == Permutations(Mutex)

=============================================================================
