------------------------------ MODULE MCKernel ------------------------------
(***************************************************************************)
(* Instances of Kernel for TLC.  The queue is small enough to overflow.    *)
(***************************************************************************)
EXTENDS Kernel

=============================================================================
