------------------------------- MODULE Paging -------------------------------
(***************************************************************************)
(* init_memory of kernel/src/memory.rs: the map of MemoryMap, then the page *)
(* tables of dynamic memory (init_dyn_page), then the allocator's memory   *)
(* (init_dyn_alloc).  The tables being built lie in the memory they map,   *)
(* so every store below goes through a virtual address that the tables     *)
(* built so far must translate.  Addresses are page numbers; the layout of *)
(* misc/memory_map.txt is kept in proportion to the length of a table.     *)
(***************************************************************************)
EXTENDS MemoryMap, TLC

CONSTANTS ENTRIES,  \* entries of a table: 512
          Maps,     \* bound: the maps tables are built for, as [base, size] in pages
          Residues  \* frames that old contents of memory may seem to refer to

ASSUME PagingAssumption ==
  ENTRIES \in Nat /\ ENTRIES >= 5 /\ DYNMEM_START_PHYS = 4 * ENTRIES * PAGE_SIZE

Index == 0 .. ENTRIES - 1
Absent == -1

KERNEL_START_PHYS == ENTRIES
KSTACK_START_PHYS == 3 * ENTRIES
DYNMEM_START == DYNMEM_START_PHYS \div PAGE_SIZE

DYNMEM_START_VIRT == ENTRIES
KERNEL_START_VIRT == (ENTRIES \div 2) * ENTRIES^3
KSTACK_START_VIRT == KERNEL_START_VIRT + 2 * ENTRIES

\* The frames of the static tables, the last ones of the kernel's memory, and
\* of tmptable, a local variable of create_tmp_page.
PML4 == KSTACK_START_PHYS - 7
TMP == KSTACK_START_PHYS + ENTRIES - 2

PAGE_TABLE_ADDR == KERNEL_START_VIRT + PML4 - KERNEL_START_PHYS
TMPTABLE_ADDR == KSTACK_START_VIRT + TMP - KSTACK_START_PHYS

VARIABLES mem,      \* the tables in memory, by frame
          residue,  \* history: what the frames of dynamic memory held at boot
          map,      \* get_memory_map()
          phase,    \* the part of init_memory that is running
          entry, base, page_count,  \* the loops of create_dyn_page
          walker,   \* the PageInitWalker
          calls,    \* the pending calls of next_set_recur, innermost first
          data,     \* MEMORY_DATA
          failed    \* the panic that ended it

paging_vars == <<mem, residue, map, phase, entry, base, page_count, walker, calls, data, failed>>
vars == <<map_vars, paging_vars>>

EmptyTable == [i \in Index |-> Absent]

\* The table in frame f: memory nobody wrote yet holds its residue.
Table(f) == IF f \in DOMAIN mem THEN mem[f]
            ELSE [i \in Index |-> IF <<f, i>> \in DOMAIN residue THEN residue[<<f, i>>] ELSE Absent]

Entry(f, i) == IF f = Absent THEN Absent ELSE Table(f)[i]

\* The frames of the tables that translate v, and the frame of v itself.
Path(v) ==
  LET pdpt == Entry(PML4, v \div ENTRIES^3)
      pdt == Entry(pdpt, (v \div ENTRIES^2) % ENTRIES)
      pt == Entry(pdt, (v \div ENTRIES) % ENTRIES)
  IN  <<pdpt, pdt, pt, Entry(pt, v % ENTRIES)>>

Walk(v) == Path(v)[4]

\* startup.S: page_init fills one table with consecutive frames.
page_init(frame) == [i \in Index |-> frame + i]

\* The static tables: kernel, stack and lower memory; entry.S has cleared the
\* temporary entry for the lower half.
StaticTables ==
  (PML4     :> [EmptyTable EXCEPT ![ENTRIES \div 2] = PML4 + 1]) @@
  (PML4 + 1 :> [EmptyTable EXCEPT ![0] = PML4 + 2]) @@
  (PML4 + 2 :> [i \in Index |-> IF i < 4 THEN PML4 + 3 + i ELSE Absent]) @@
  (PML4 + 3 :> page_init(KERNEL_START_PHYS)) @@
  (PML4 + 4 :> page_init(KERNEL_START_PHYS + ENTRIES)) @@
  (PML4 + 5 :> page_init(KSTACK_START_PHYS)) @@
  (PML4 + 6 :> page_init(0))

\* At most one entry of the first three frames, from <<frame, index>> to frame:
\* no two entries are read together before they are written.
OldContents ==
  {<<>>} \cup {at :> to : at \in (DYNMEM_START .. DYNMEM_START + 2) \X Index, to \in Residues}

\* PageInitWalker::new.
WalkerNew ==
  [next_table |-> DYNMEM_START_VIRT + 3,
   tables |-> <<PAGE_TABLE_ADDR, DYNMEM_START_VIRT, DYNMEM_START_VIRT + 1, DYNMEM_START_VIRT + 2>>,
   indices |-> <<1, 1, 2, 3>>,
   skip |-> 3]

Init ==
  /\ MapInit
  /\ mem = StaticTables
  /\ residue = <<>>
  /\ map = <<>>
  /\ phase = "map"
  /\ entry = 1 /\ base = 0 /\ page_count = 0
  /\ walker = WalkerNew
  /\ calls = <<>>
  /\ data = [total_len |-> 0, page_table_len |-> 0, buddy_len |-> 0]
  /\ failed = "none"

-----------------------------------------------------------------------------

Fail(why) ==
  /\ failed' = why
  /\ UNCHANGED <<mem, residue, map, phase, entry, base, page_count, walker, calls, data>>

\* The map is there.  What memory held at boot is chosen here: until now
\* nothing has looked at it.
get_memory_map ==
  /\ phase = "map" /\ step = "done"
  /\ map' = [k \in DOMAIN DynmemMap |-> [base |-> DynmemMap[k].base \div PAGE_SIZE,
                                         size |-> DynmemMap[k].size \div PAGE_SIZE]]
  /\ map' \in Maps
  /\ base' = map'[1].base
  /\ residue' \in OldContents
  /\ phase' = "tmp"
  /\ UNCHANGED <<mem, entry, page_count, walker, calls, data, failed>>

\* Memory after the stores of S, a function from <<frame, index>> to entries.
Stored(S) ==
  [f \in DOMAIN mem \cup {at[1] : at \in DOMAIN S} |->
     [i \in Index |-> IF <<f, i>> \in DOMAIN S THEN S[<<f, i>>] ELSE Table(f)[i]]]

dyn_phys(idx) == DYNMEM_START + idx
stk_phys(ptr) == ptr - KSTACK_START_VIRT + KSTACK_START_PHYS

\* create_tmp_page, first half: tmptable maps itself and, through itself, the
\* three frames that will hold the first tables.
MapTemporary ==
  /\ phase = "tmp"
  /\ LET phy_table == stk_phys(TMPTABLE_ADDR) IN
     mem' = Stored((<<Walk(PAGE_TABLE_ADDR), 1>> :> phy_table) @@
                   [at \in {phy_table} \X Index |->
                      IF at[2] < 2 THEN phy_table
                      ELSE IF at[2] < 5 THEN dyn_phys(at[2] - 2) ELSE Absent])
  /\ phase' = "link"
  /\ UNCHANGED <<residue, map, entry, base, page_count, walker, calls, data, failed>>

\* Fault seed: the page of the page table itself is forgotten.
FirstPagesTwo == 0 .. 1

\* The pages whose entries create_tmp_page writes.
FirstPages == 0 .. 2

\* create_tmp_page, second half: PML4:1, PDP:0, PD:1, PT:2 is the first of them.
LinkTables ==
  /\ phase = "link"
  /\ LET pdpt == ENTRIES^3 + ENTRIES + 2
         pdt == pdpt + 1
         pt == pdt + 1
     IN  IF Absent \in {Walk(pdpt), Walk(pdt), Walk(pt)}
         THEN Fail("page fault")
         ELSE /\ mem' = Stored((<<Walk(PAGE_TABLE_ADDR), 0>> :> dyn_phys(0)) @@
                               (<<Walk(pdpt), 0>> :> dyn_phys(1)) @@
                               (<<Walk(pdt), 1>> :> dyn_phys(2)) @@
                               [at \in {Walk(pt)} \X FirstPages |-> dyn_phys(at[2])] @@
                               (<<Walk(PAGE_TABLE_ADDR), 1>> :> Absent))
              /\ phase' = "walk"
              /\ UNCHANGED <<residue, map, entry, base, page_count, walker, calls, data, failed>>

-----------------------------------------------------------------------------

\* The bytes (here pages) of the entries before entry k of the map.
Before(k) == MapThenSumSet(LAMBDA j : map[j].size, 1 .. k - 1)

TotalPages == Before(Len(map) + 1)

\* Fault seed: the end of an entry still belongs to it.
WithinClosed(offset, sum) == offset <= sum

\* The comparison of virt_to_phys_dynmem with the lengths summed so far.
Within(offset, sum) == offset < sum

\* virt_to_phys_dynmem; Absent stands for its panic.
virt_to_phys_dynmem(virt) ==
  LET offset == virt - DYNMEM_START_VIRT
      fits == {k \in DOMAIN map : Within(offset, Before(k + 1))}
  IN  IF fits = {} THEN Absent ELSE map[Min(fits)].base + (offset - Before(Min(fits)))

\* phys_to_virt_dynmem, likewise.
phys_to_virt_dynmem(phys) ==
  LET fits == {k \in DOMAIN map : map[k].base <= phys /\ phys < map[k].base + map[k].size}
  IN  IF fits = {} THEN Absent
      ELSE DYNMEM_START_VIRT + Before(Min(fits)) + (phys - map[Min(fits)].base)

\* create_dyn_page moves on to the next entry of the map.
NextEntry ==
  /\ phase = "walk" /\ calls = <<>>
  /\ entry < Len(map) /\ base = map[entry].base + map[entry].size
  /\ entry' = entry + 1
  /\ base' = map[entry + 1].base
  /\ UNCHANGED <<mem, residue, map, phase, page_count, walker, calls, data, failed>>

\* next_set: the first three pages are mapped already.
next_set ==
  /\ phase = "walk" /\ calls = <<>>
  /\ base < map[entry].base + map[entry].size
  /\ base' = base + 1
  /\ page_count' = page_count + 1
  /\ IF walker.skip = 0
     THEN calls' = <<[level |-> 4, addr |-> base]>> /\ UNCHANGED walker
     ELSE walker' = [walker EXCEPT !.skip = @ - 1] /\ UNCHANGED calls
  /\ UNCHANGED <<mem, residue, map, phase, entry, data, failed>>

OutOfBound(call) == call.level = 1 /\ walker.indices[1] >= ENTRIES \div 2

\* next_set_recur when the table of its level is full: a new table is cleared
\* and the level above is to point at it.
NewTable ==
  /\ phase = "walk" /\ calls # <<>>
  /\ LET call == Head(calls)
         next == walker.next_table
         next_phys == virt_to_phys_dynmem(next)
     IN  /\ walker.indices[call.level] >= ENTRIES
         /\ IF OutOfBound(call) THEN Fail("out of bound")
            ELSE IF Walk(next) = Absent THEN Fail("page fault")
            ELSE IF next_phys = Absent THEN Fail("invalid dynmem virtual address")
            ELSE /\ mem' = Stored([at \in {Walk(next)} \X Index |-> Absent])
                 /\ walker' = [walker EXCEPT !.tables[call.level] = next,
                                             !.indices[call.level] = 0,
                                             !.next_table = next + 1]
                 /\ calls' = <<[level |-> call.level - 1, addr |-> next_phys]>> \o calls
                 /\ UNCHANGED <<residue, map, phase, entry, base, page_count, data, failed>>

\* next_set_recur stores its entry and returns.
SetEntry ==
  /\ phase = "walk" /\ calls # <<>>
  /\ LET call == Head(calls)
         frame == Walk(walker.tables[call.level])
         index == walker.indices[call.level]
     IN  /\ index < ENTRIES
         /\ IF OutOfBound(call) THEN Fail("out of bound")
            ELSE IF frame = Absent THEN Fail("page fault")
            ELSE /\ mem' = Stored(<<frame, index>> :> call.addr)
                 /\ walker' = [walker EXCEPT !.indices[call.level] = @ + 1]
                 /\ calls' = Tail(calls)
                 /\ UNCHANGED <<residue, map, phase, entry, base, page_count, data, failed>>

\* Fault seed: the three tables linked by hand are not counted.
CountNew == walker.next_table - (DYNMEM_START_VIRT + 3)

\* PageInitWalker::count.
Count == walker.next_table - DYNMEM_START_VIRT

\* create_dyn_page returns the lengths and init_dyn_page stores them.
StoreLengths ==
  /\ phase = "walk" /\ calls = <<>>
  /\ entry = Len(map) /\ base = map[entry].base + map[entry].size
  /\ data' = [data EXCEPT !.total_len = page_count, !.page_table_len = Count]
  /\ phase' = "alloc"
  /\ UNCHANGED <<mem, residue, map, entry, base, page_count, walker, calls, failed>>

Buddy == INSTANCE BuddyInfo WITH UNIT_SIZE <- PAGE_SIZE

\* init_dyn_alloc gives the rest of dynamic memory to the buddy allocator,
\* whose constructor asserts that the chunk has room for its bitmaps.
init_dyn_alloc ==
  /\ phase = "alloc"
  /\ LET len == PAGE_SIZE * (data.total_len - data.page_table_len) IN
     IF len < 0 THEN Fail("subtract with overflow")
     ELSE IF ~ Buddy!NewAccepted(len) THEN Fail("chunk refused")
     ELSE /\ data' = [data EXCEPT !.buddy_len = Buddy!DataOffset(len)]
          /\ phase' = "done"
          /\ UNCHANGED <<mem, residue, map, entry, base, page_count, walker, calls, failed>>

create_tmp_page == MapTemporary \/ LinkTables
create_dyn_page == NextEntry \/ next_set \/ NewTable \/ SetEntry \/ StoreLengths

Next ==
  /\ failed = "none"
  /\ \/ create_dynmem_map /\ UNCHANGED paging_vars
     \/ /\ get_memory_map \/ create_tmp_page \/ create_dyn_page \/ init_dyn_alloc
        /\ UNCHANGED map_vars

Spec == Init /\ [][Next]_vars

-----------------------------------------------------------------------------

\* phys_to_virt; Absent stands for its panics.
phys_to_virt(phys) ==
  IF phys >= DYNMEM_START THEN phys_to_virt_dynmem(phys)
  ELSE IF phys < KSTACK_START_PHYS THEN phys - KERNEL_START_PHYS + KERNEL_START_VIRT
  ELSE Absent

\* The table that print_table_r reads for an entry.
Subtable(f) == Table(Walk(phys_to_virt(f)))

Present(table) == {i \in Index : table[i] # Absent}

\* Fault seed: a run ends only where an entry is absent.
ContinuesAlways(table, idx) == TRUE

\* print_pages: entry idx belongs to the run of the entry before it.
Continues(table, idx) == table[idx - 1] + 1 = table[idx]

\* print_pages: one line for every run of entries to consecutive frames.
print_pages(table, virt) ==
  LET scan[n \in 0 .. ENTRIES + 1] ==
        IF n = 0 THEN [found |-> Absent, lines |-> {}]
        ELSE LET idx == n - 1
                 s == scan[n - 1]
                 next == IF idx \in Present(table) THEN idx ELSE Absent
             IN  IF s.found = Absent THEN [s EXCEPT !.found = next]
                 ELSE IF next # Absent /\ Continues(table, idx) THEN s
                 ELSE [found |-> next,
                       lines |-> s.lines \cup {[virt |-> virt * ENTRIES + s.found,
                                                phys |-> table[s.found], len |-> idx - s.found]}]
  IN  scan[ENTRIES + 1].lines

\* The tables below PML4 that print_table_r visits at depth 0, 1 and 2, as
\* <<virtual number, entry>>.
VisitsBelow(visits) ==
  UNION {{<<v[1] * ENTRIES + i, Subtable(v[2])[i]>> : i \in Present(Subtable(v[2]))} : v \in visits}
Visits0 == {<<i, Table(PML4)[i]>> : i \in Present(Table(PML4))}

print_page == UNION {print_pages(Subtable(v[2]), v[1]) : v \in VisitsBelow(VisitsBelow(Visits0))}

-----------------------------------------------------------------------------

DynmemPages == DYNMEM_START_VIRT .. DYNMEM_START_VIRT + TotalPages - 1

\* Setting up dynamic memory neither faults nor panics: each new table is
\* mapped by the tables before it when next_set_recur clears it, and is
\* inside dynamic memory.
NeverFails == failed = "none"

\* The finished tables translate every page of dynamic memory to the page
\* virt_to_phys_dynmem names, whatever memory held before: the loops over the
\* map, the carry from one table to the next and the three pages mapped by
\* hand agree.
WalkAgrees == phase = "done" => \A v \in DynmemPages : Walk(v) = virt_to_phys_dynmem(v)

\* The tables occupy exactly the page_table_len pages at the start of dynamic
\* memory: the memory init_dyn_alloc hands to the allocator contains none.
TablesReserved ==
  phase = "done" =>
    UNION {{Path(v)[l] : l \in 1 .. 3} : v \in DynmemPages}
      = {Walk(v) : v \in DYNMEM_START_VIRT .. DYNMEM_START_VIRT + data.page_table_len - 1}

\* On memory that was clear at boot, printpage finds every table through
\* phys_to_virt without a panic, and its lines describe the translation of
\* every mapped page and nothing else.
PrintPageExact ==
  phase = "done" /\ residue = <<>> =>
    /\ \A v \in Visits0 \cup VisitsBelow(Visits0) \cup VisitsBelow(VisitsBelow(Visits0)) :
         phys_to_virt(v[2]) # Absent
    /\ UNION {{<<l.virt + n, l.phys + n>> : n \in 0 .. l.len - 1} : l \in print_page}
         = {<<v, Walk(v)>> : v \in {v \in 0 .. ENTRIES^4 - 1 : Walk(v) # Absent}}

=============================================================================
