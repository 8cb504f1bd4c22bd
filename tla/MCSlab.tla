------------------------------- MODULE MCSlab -------------------------------
(***************************************************************************)
(* Pages of 4096 bytes.  SlabLayout cuts one for each of many types; Slab  *)
(* then runs on interchangeable pages of three objects.                    *)
(***************************************************************************)
EXTENDS Slab, SlabLayout, TLC

Symmetry == Permutations(Page)

MCType == [size |-> 1200, align |-> 8]

\* Every power of two as alignment, sizes from nothing to more than a page.
MCTypes == {MCType} \cup
  {[size |-> k * 2^a, align |-> 2^a] : a \in 0 .. 12, k \in (0 .. 24) \cup {500, 1011, 1012, 4035, 4036}}

MCInit == LayoutInit /\ Init

Cut == InitObject /\ UNCHANGED vars

\* The allocator of a type uses pages that are cut as SlabLayout cuts them.
Operate ==
  /\ type = Type /\ addr = 0 /\ objects = Offset
  /\ Next
  /\ UNCHANGED layout_vars

MCSpec == MCInit /\ [][Cut \/ Operate]_<<vars, layout_vars>>

=============================================================================
