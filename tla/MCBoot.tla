------------------------------- MODULE MCBoot -------------------------------
(***************************************************************************)
(* Model checking of Boot: a line of each kind (with a handler, without    *)
(* one, behind the cascade) and three settings of the firmware's masks.    *)
(***************************************************************************)
EXTENDS Boot

MCBiosMask == {{}, {0, 1, 2, 6, 14}, 0 .. 15}

=============================================================================
