----------------------------- MODULE MemoryMap ------------------------------
(***************************************************************************)
(* create_dynmem_map of kernel/src/memory.rs: the map the BIOS reported is *)
(* copied, sorted, cut to whole pages of dynamic memory one entry at a     *)
(* time, and compacted in place by slice_remove.                           *)
(***************************************************************************)
EXTENDS Integers, Sequences, FiniteSetsExt, Functions

CONSTANTS PAGE_SIZE, DYNMEM_START_PHYS,
          BUFSIZE,   \* entries of the static buffer
          E820Maps   \* the maps get_e820_map may find

\* MemoryEntryType::Usable, and the type an entry is given to be dropped.
Usable == 1
Dropped == 0

E820Entry == [base : Nat, size : Nat, mem_type : Nat]

\* The table startup.S leaves room for is shorter than the buffer.
ASSUME MapAssumption ==
  /\ PAGE_SIZE \in Nat \ {0}
  /\ DYNMEM_START_PHYS \in Nat /\ DYNMEM_START_PHYS % PAGE_SIZE = 0
  /\ \A m \in E820Maps : m \in Seq(E820Entry) /\ Len(m) <= BUFSIZE

VARIABLES e820,      \* the map the BIOS reported
          buffer,    \* the slice being worked on
          step,      \* the loop that is running
          pos,       \* its position
          prev_end,  \* end of the last entry kept
          kept       \* slice_remove: entries kept so far, plus one

map_vars == <<e820, buffer, step, pos, prev_end, kept>>

MapInit ==
  /\ e820 \in E820Maps
  /\ buffer = <<>>
  /\ step = "sort"
  /\ pos = 1
  /\ prev_end = DYNMEM_START_PHYS
  /\ kept = 0

\* sort_unstable_by_key: entries with equal bases may come out in any order.
Sort ==
  /\ step = "sort"
  /\ \E p \in Bijection(DOMAIN e820, DOMAIN e820) :
       /\ \A j, k \in DOMAIN e820 : j < k => e820[p[j]].base <= e820[p[k]].base
       /\ buffer' = [k \in DOMAIN e820 |-> e820[p[k]]]
  /\ step' = "align"
  /\ UNCHANGED <<e820, pos, prev_end, kept>>

\* Fault seed: overlap with the entries before is not cut off.
AlignStartAlone(e) == Max({DYNMEM_START_PHYS, ((e.base + PAGE_SIZE - 1) \div PAGE_SIZE) * PAGE_SIZE})

AlignStart(e) == Max({prev_end, ((e.base + PAGE_SIZE - 1) \div PAGE_SIZE) * PAGE_SIZE})
AlignEnd(e) == ((e.base + e.size) \div PAGE_SIZE) * PAGE_SIZE

\* The loop of create_dynmem_map on one entry.
Align ==
  /\ step = "align" /\ pos <= Len(buffer)
  /\ LET e == buffer[pos] IN
     \/ /\ e.mem_type # Usable
        /\ UNCHANGED <<buffer, prev_end>>
     \/ /\ e.mem_type = Usable /\ AlignStart(e) < AlignEnd(e)
        /\ buffer' = [buffer EXCEPT ![pos].base = AlignStart(e),
                                    ![pos].size = AlignEnd(e) - AlignStart(e)]
        /\ prev_end' = AlignEnd(e)
     \/ /\ e.mem_type = Usable /\ AlignStart(e) >= AlignEnd(e)
        /\ buffer' = [buffer EXCEPT ![pos].mem_type = Dropped]
        /\ UNCHANGED prev_end
  /\ pos' = pos + 1
  /\ UNCHANGED <<e820, step, kept>>

\* slice_remove begins: the position of the first entry to remove.
Position ==
  /\ step = "align" /\ pos > Len(buffer)
  /\ kept' = Min({k \in DOMAIN buffer : buffer[k].mem_type # Usable} \cup {Len(buffer) + 1})
  /\ pos' = kept' + 1
  /\ step' = "remove"
  /\ UNCHANGED <<e820, buffer, prev_end>>

\* The loop of slice_remove on one entry: one that stays is swapped down.
Remove ==
  /\ step = "remove" /\ pos <= Len(buffer)
  /\ \/ /\ buffer[pos].mem_type = Usable
        /\ buffer' = [buffer EXCEPT ![kept] = buffer[pos], ![pos] = buffer[kept]]
        /\ kept' = kept + 1
     \/ /\ buffer[pos].mem_type # Usable
        /\ UNCHANGED <<buffer, kept>>
  /\ pos' = pos + 1
  /\ UNCHANGED <<e820, step, prev_end>>

Finish ==
  /\ step = "remove" /\ pos > Len(buffer)
  /\ step' = "done"
  /\ UNCHANGED <<e820, buffer, pos, prev_end, kept>>

create_dynmem_map == Sort \/ Align \/ Position \/ Remove \/ Finish

MapSpec == MapInit /\ [][create_dynmem_map]_map_vars

-----------------------------------------------------------------------------

\* DYNMEM_MAP: what is left of the buffer.
DynmemMap == SubSeq(buffer, 1, kept - 1)

\* The pages that lie wholly inside an entry.
PagesOf(e) ==
  {n \in 0 .. (e.base + e.size) \div PAGE_SIZE :
     e.base <= n * PAGE_SIZE /\ (n + 1) * PAGE_SIZE <= e.base + e.size}

\* The finished map lists, in ascending and disjoint runs, exactly the pages
\* above DYNMEM_START_PHYS that some one usable entry of the BIOS contains,
\* whatever the order, nesting and overlap of the entries: create_dynmem_map
\* and slice_remove lose no page and list none twice.
MapExact ==
  step = "done" =>
    /\ \A k \in DOMAIN DynmemMap : DynmemMap[k].mem_type = Usable /\ DynmemMap[k].size > 0
    /\ \A j, k \in DOMAIN DynmemMap :
         j < k => DynmemMap[j].base + DynmemMap[j].size <= DynmemMap[k].base
    /\ UNION {PagesOf(DynmemMap[k]) : k \in DOMAIN DynmemMap}
         = {n \in UNION {PagesOf(e820[k]) : k \in {k \in DOMAIN e820 : e820[k].mem_type = Usable}} :
              n * PAGE_SIZE >= DYNMEM_START_PHYS}

=============================================================================
