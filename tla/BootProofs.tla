----------------------------- MODULE BootProofs -----------------------------
(***************************************************************************)
(* Proofs about the start of the kernel: Boot for every set of device      *)
(* lines and every state of the interrupt masks that firmware may leave,   *)
(* and MemoryMap for every map that it may report and every page size,     *)
(* with what it says of init_memory as a whole (Paging).                   *)
(***************************************************************************)
EXTENDS Boot, Paging, Arithmetic

\* The gate that init_idt makes for a vector once the GDT is loaded.
Gated(v, handler) == v \in DOMAIN idt /\ idt[v] = [handler |-> handler, cs |-> KERNEL_CODE_SELECTOR]

\* What the steps of kmain before the one at pc have established.
Progress ==
  /\ pc \in 1 .. 11
  /\ cs = KERNEL_CODE_SELECTOR
  /\ pc > 3 => gdt = GDT /\ DOUBLE_FAULT_IST_INDEX \in DOMAIN tss
  /\ pc <= 4 => idt = NoTable
  /\ pc > 4 => /\ \A v \in DOMAIN Exception : Gated(v, Exception[v])
               /\ Gated(32, "timer") /\ Gated(33, "keyboard")
  /\ pc > 6 => offsets = <<32, 40>>
  /\ pc > 9 => enabled = 0 .. 2
  /\ IF_flag => pc > 10

\* Only devices raise lines, and none of them is on the cascade line.
DeviceLines == irr \subseteq Line

\* The inductive invariant.
IInv == Progress /\ DeviceLines /\ InterruptsFindHandlers /\ ExceptionsReported

-----------------------------------------------------------------------------

\* The vectors of exceptions lie below those of the interrupt chips.
LEMMA ExceptionVectors == DOMAIN Exception \subseteq 0 .. 30
  BY DEF Exception

\* The selector that init_gdt finds for the code segment is the one that the
\* loader left in CS.
LEMMA CodeSelector ==
  /\ KERNEL_CODE_SELECTOR \in DOMAIN GDT
  /\ GDT[KERNEL_CODE_SELECTOR] = "code"
  /\ (CHOOSE s \in DOMAIN GDT : GDT[s] = "code") = KERNEL_CODE_SELECTOR
<1>1. /\ DOMAIN GDT = {8, 16, 24}
      /\ GDT[8] = "code" /\ GDT[16] = "data" /\ GDT[24] = "tss"
  BY DEF GDT, Descriptors
<1>2. \A s \in DOMAIN GDT : GDT[s] = "code" <=> s = 8
  BY <1>1
<1> QED
  BY <1>1, <1>2 DEF KERNEL_CODE_SELECTOR

\* The initial state satisfies the inductive invariant.
LEMMA BootInitInv == BootInit => IInv
  BY DEF BootInit, IInv, Progress, DeviceLines, InterruptsFindHandlers, ExceptionsReported, Nowhere, NoTable

\* The entries that init_idt writes, with the code selector it finds in CS.
LEMMA GatesMade ==
  ASSUME cs = KERNEL_CODE_SELECTOR, idt' = IDT
  PROVE  (\A v \in DOMAIN Exception : Gated(v, Exception[v]))'
         /\ Gated(32, "timer")' /\ Gated(33, "keyboard")'
<1>1. as_intn(Irq.TIMER) = 32 /\ as_intn(Irq.KEYBOARD) = 33
  BY DEF as_intn, Irq, PIC_INT_OFFSET
<1>2. \A v \in DOMAIN Exception : v \in 0 .. 30
  BY ExceptionVectors
<1>3. ASSUME NEW v \in DOMAIN Exception
      PROVE  v \in DOMAIN IDT /\ IDT[v] = [handler |-> Exception[v], cs |-> cs]
  BY <1>1, <1>2 DEF IDT, Gate
<1>4. /\ 32 \in DOMAIN IDT /\ IDT[32] = [handler |-> "timer", cs |-> cs]
      /\ 33 \in DOMAIN IDT /\ IDT[33] = [handler |-> "keyboard", cs |-> cs]
  BY <1>1 DEF IDT, Gate
<1> QED
  BY <1>3, <1>4 DEF Gated, Exception, Mnemonic, KERNEL_CODE_SELECTOR

\* Each call of kmain establishes what the later ones and the processor use.
LEMMA KmainStep == IInv /\ kmain => IInv'
<1> SUFFICES ASSUME IInv, kmain PROVE IInv'
  OBVIOUS
<1> USE DEF IInv, Progress
<1>1. InterruptsFindHandlers' /\ ExceptionsReported'
  BY DEF kmain, Nowhere, InterruptsFindHandlers, ExceptionsReported
<1>2. /\ Len(Steps) = 11 /\ Steps[1] = "serial" /\ Steps[2] = "term" /\ Steps[3] = "gdt"
      /\ Steps[4] = "idt" /\ Steps[5] = "memory" /\ Steps[6] = "pic" /\ Steps[7] = "pit"
      /\ Steps[8] = "keyboard" /\ Steps[9] = "mask" /\ Steps[10] = "enable"
  BY DEF Steps
<1>3. pc \in 1 .. 10 /\ pc' = pc + 1
  BY <1>2 DEF kmain
<1>4. CASE pc = 3
  <2>1. init_gdt
    BY <1>2, <1>4 DEF kmain
  <2> QED
    BY <2>1, <1>1, <1>3, <1>4, CodeSelector DEF init_gdt, DeviceLines
<1>5. CASE pc = 4
  <2>1. init_idt
    BY <1>2, <1>5 DEF kmain
  <2>2. (\A v \in DOMAIN Exception : Gated(v, Exception[v]))'
        /\ Gated(32, "timer")' /\ Gated(33, "keyboard")'
    BY <2>1, GatesMade DEF init_idt
  <2> QED
    BY <2>1, <2>2, <1>1, <1>3, <1>5 DEF init_idt, DeviceLines
<1>6. CASE pc = 6
  <2>1. init_pic
    BY <1>2, <1>6 DEF kmain
  <2> QED
    BY <2>1, <1>1, <1>3, <1>6 DEF init_pic, DeviceLines, Gated, PIC_INT_OFFSET
<1>7. CASE pc = 9
  <2>1. /\ set_mask({Irq.TIMER, Irq.KEYBOARD, Irq.SLAVE})
        /\ UNCHANGED <<gdt, tss, cs, idt, offsets, irr, IF_flag>>
    BY <1>2, <1>7 DEF kmain
  <2>2. {Irq.TIMER, Irq.KEYBOARD, Irq.SLAVE} = 0 .. 2
    BY DEF Irq
  <2>3. set_mask(0 .. 2)
    BY <2>1, <2>2
  <2>4. enabled' = 0 .. 2
    BY <2>3 DEF set_mask
  <2> QED
    BY <2>1, <2>4, <1>1, <1>3, <1>7 DEF DeviceLines, Gated
<1>8. CASE pc = 10
  <2>1. UNCHANGED <<gdt, tss, cs, idt, offsets, enabled, irr>>
    BY <1>2, <1>8 DEF kmain
  <2> QED
    BY <2>1, <1>1, <1>3, <1>8 DEF DeviceLines, Gated
<1>9. CASE pc \in {1, 2, 5, 7, 8}
  <2>1. UNCHANGED <<gdt, tss, cs, idt, offsets, enabled, irr, IF_flag>>
    BY <1>2, <1>9 DEF kmain
  <2> QED
    BY <2>1, <1>1, <1>3, <1>9 DEF DeviceLines, Gated
<1> QED
  BY <1>3, <1>4, <1>5, <1>6, <1>7, <1>8, <1>9

\* A gate of the loaded tables leads to its handler.
LEMMA GateLeads ==
  ASSUME Progress, pc > 4, NEW v, NEW h, Gated(v, h)
  PROVE  Handler(v) = h
  BY CodeSelector DEF Progress, Gated, Handler

\* When interrupts are on, the lines that get through are those of the timer
\* and the keyboard.
LEMMA InterruptStep ==
  ASSUME IInv, NEW line \in Line, Interrupt(line)
  PROVE  IInv'
<1>1. Progress' /\ DeviceLines' /\ ExceptionsReported'
  BY DEF IInv, Interrupt, Progress, Gated, DeviceLines, ExceptionsReported
<1>2. pc > 10 /\ pc \in 1 .. 11 /\ offsets = <<32, 40>> /\ enabled = 0 .. 2 /\ line \in {0, 1}
  BY LineAssumption DEF IInv, Interrupt, Progress, DeviceLines, Requests
<1>3. Handler(32) = "timer" /\ Handler(33) = "keyboard"
  BY <1>2, GateLeads DEF IInv, Progress
<1>4. offsets[1] + line = 32 + line /\ line < 8
  BY <1>2
<1>5. went' = [kind |-> "irq", n |-> line, handler |-> Handler(32 + line)]
  BY <1>4 DEF Interrupt
<1>6. <<went'.n, went'.handler>> \in {<<0, "timer">>, <<1, "keyboard">>}
  BY <1>2, <1>3, <1>5
<1> QED
  BY <1>1, <1>6 DEF IInv, InterruptsFindHandlers, Irq

\* An exception runs its own handler from the moment there is an IDT.
LEMMA FaultStep ==
  ASSUME IInv, NEW v \in DOMAIN Exception, Fault(v)
  PROVE  IInv'
<1>1. Progress' /\ DeviceLines' /\ InterruptsFindHandlers'
  BY DEF IInv, Fault, Progress, Gated, DeviceLines, InterruptsFindHandlers
<1>2. CASE pc > 4
  <2>1. Handler(v) = Exception[v]
    BY <1>2, GateLeads DEF IInv, Progress
  <2> QED
    BY <1>1, <2>1 DEF IInv, Fault, ExceptionsReported
<1>3. CASE pc <= 4
  BY <1>1, <1>3 DEF IInv, Fault, Progress, ExceptionsReported
<1> QED
  BY <1>2, <1>3 DEF IInv, Progress

\* Every step preserves the inductive invariant.
LEMMA BootStep == IInv /\ [BootNext]_boot_vars => IInv'
<1> SUFFICES ASSUME IInv, [BootNext]_boot_vars PROVE IInv'
  OBVIOUS
<1>1. CASE kmain
  BY <1>1, KmainStep
<1>2. ASSUME NEW line \in Line, Raise(line) PROVE IInv'
  BY <1>2 DEF Raise, IInv, Progress, Gated, DeviceLines, InterruptsFindHandlers, ExceptionsReported, Nowhere
<1>3. ASSUME NEW line \in Line, Interrupt(line) PROVE IInv'
  BY <1>3, InterruptStep
<1>4. ASSUME NEW v \in DOMAIN Exception, Fault(v) PROVE IInv'
  BY <1>4, FaultStep
<1>5. CASE UNCHANGED boot_vars
  BY <1>5 DEF boot_vars, IInv, Progress, Gated, DeviceLines, InterruptsFindHandlers, ExceptionsReported
<1> QED
  BY <1>1, <1>2, <1>3, <1>4, <1>5 DEF BootNext

\* The inductive invariant holds in every reachable state.
THEOREM BootInvariance == BootSpec => []IInv
  BY BootInitInv, BootStep, PTL DEF BootSpec

\* Whatever lines there are and whatever firmware left in the masks, the order
\* of the calls in kmain makes every hardware interrupt run the handler of its
\* own device.
THEOREM HandlersFound == BootSpec => []InterruptsFindHandlers
<1>1. IInv => InterruptsFindHandlers
  BY DEF IInv
<1> QED
  BY <1>1, BootInvariance, PTL

\* From the load of the IDT on, every exception reaches its own handler.
THEOREM FaultsReported == BootSpec => []ExceptionsReported
<1>1. IInv => ExceptionsReported
  BY DEF IInv
<1> QED
  BY <1>1, BootInvariance, PTL

-----------------------------------------------------------------------------

\* The entries of the map that create_dynmem_map works on.
Entries == DOMAIN buffer

\* Page n lies wholly inside entry e.
Inside(n, e) == e.base <= n * PAGE_SIZE /\ (n + 1) * PAGE_SIZE <= e.base + e.size

\* Page n lies wholly inside one usable entry of b among those in S.
Covers(b, S, n) == \E k \in S : b[k].mem_type = Usable /\ Inside(n, b[k])

\* The pages the finished map has to list.
Wanted(n) == n * PAGE_SIZE >= DYNMEM_START_PHYS /\ Covers(e820, DOMAIN e820, n)

\* Usable entries of b among those in S follow one another, none of them empty.
Ascending(b, S) ==
  /\ \A j, k \in S : j < k /\ b[j].mem_type = Usable /\ b[k].mem_type = Usable
                      => b[j].base + b[j].size <= b[k].base
  /\ \A k \in S : b[k].mem_type = Usable => b[k].size > 0

\* Before the pass of create_dynmem_map over entry pos: the entries behind are
\* cut and lie below prev_end, the entries ahead are sorted.  A page below
\* prev_end that an entry ahead could still contain is listed already, so that
\* cutting the entry at prev_end loses nothing.
AlignInv ==
  /\ pos \in 1 .. Len(buffer) + 1
  /\ prev_end \in Nat /\ prev_end >= DYNMEM_START_PHYS
  /\ \A j, k \in pos .. Len(buffer) : j < k => buffer[j].base <= buffer[k].base
  /\ Ascending(buffer, 1 .. pos - 1)
  /\ \A j \in 1 .. pos - 1 : buffer[j].mem_type = Usable => buffer[j].base + buffer[j].size <= prev_end
  /\ \A n \in Nat : Wanted(n) <=> \/ Covers(buffer, 1 .. pos - 1, n)
                                  \/ /\ n * PAGE_SIZE >= DYNMEM_START_PHYS
                                     /\ Covers(buffer, pos .. Len(buffer), n)
  /\ \A n \in Nat, k \in pos .. Len(buffer) :
       /\ DYNMEM_START_PHYS <= n * PAGE_SIZE /\ n * PAGE_SIZE < prev_end
       /\ buffer[k].base <= n * PAGE_SIZE
       => Covers(buffer, 1 .. pos - 1, n)

\* Before the pass of slice_remove over entry pos: the entries below kept stay,
\* those between kept and pos go, and the entries are those of the first loop.
RemoveInv ==
  /\ kept \in 1 .. Len(buffer) + 1
  /\ pos \in kept + 1 .. Len(buffer) + 2
  /\ \A k \in 1 .. kept - 1 : buffer[k].mem_type = Usable
  /\ \A k \in kept .. Len(buffer) : k < pos => buffer[k].mem_type # Usable
  /\ Ascending(buffer, Entries)
  /\ \A n \in Nat : Wanted(n) <=> Covers(buffer, Entries, n)

MapInv ==
  /\ e820 \in E820Maps
  /\ step \in {"sort", "align", "remove", "done"}
  /\ step = "sort" => pos = 1 /\ prev_end = DYNMEM_START_PHYS
  /\ step # "sort" => buffer \in Seq(E820Entry)
  /\ step = "align" => AlignInv
  /\ step \in {"remove", "done"} => RemoveInv
  /\ step = "done" => pos > Len(buffer)

-----------------------------------------------------------------------------

\* From s to t lie exactly the pages from lo on of the z bytes at b.
Cut(b, z, lo, s, t) ==
  /\ s \in Nat /\ t \in Nat /\ s >= lo /\ s >= b /\ t <= b + z
  /\ \A n \in Nat : n * PAGE_SIZE >= lo /\ n * PAGE_SIZE >= b /\ n * PAGE_SIZE < t
                      => s <= n * PAGE_SIZE /\ (n + 1) * PAGE_SIZE <= t
  /\ \A n \in Nat : (n + 1) * PAGE_SIZE <= b + z => (n + 1) * PAGE_SIZE <= t

\* Cutting an entry to whole pages from lo on keeps exactly its pages from lo
\* on: the rounding of base and end in create_dynmem_map.
LEMMA CutEntry ==
  ASSUME NEW b \in Nat, NEW z \in Nat, NEW lo \in Nat, NEW s, NEW t,
         s = Max({lo, ((b + PAGE_SIZE - 1) \div PAGE_SIZE) * PAGE_SIZE}),
         t = ((b + z) \div PAGE_SIZE) * PAGE_SIZE
  PROVE  Cut(b, z, lo, s, t)
<1>1. PAGE_SIZE \in Nat \ {0}
  BY MapAssumption
<1> DEFINE c == (b + PAGE_SIZE - 1) \div PAGE_SIZE
           f == (b + z) \div PAGE_SIZE
<1>2. c \in Nat /\ c * PAGE_SIZE <= b + PAGE_SIZE - 1 /\ b + PAGE_SIZE - 1 < c * PAGE_SIZE + PAGE_SIZE
  <2>1. b + PAGE_SIZE - 1 \in Nat
    BY <1>1
  <2> QED
    BY <1>1, <2>1, DivBounds
<1>3. f \in Nat /\ f * PAGE_SIZE <= b + z /\ b + z < f * PAGE_SIZE + PAGE_SIZE
  <2>1. b + z \in Nat
    OBVIOUS
  <2> QED
    BY <1>1, <2>1, DivBounds
<1>4. s = Max({lo, c * PAGE_SIZE}) /\ t = f * PAGE_SIZE
  OBVIOUS
<1> HIDE DEF c, f
<1>5. c * PAGE_SIZE \in Nat /\ c * PAGE_SIZE >= b /\ t \in Nat
  BY <1>1, <1>2, <1>3, <1>4
<1>6. s = IF lo >= c * PAGE_SIZE THEN lo ELSE c * PAGE_SIZE
  BY <1>4, <1>5, MaxOfTwo
<1>7. ASSUME NEW n \in Nat, n * PAGE_SIZE >= b PROVE n * PAGE_SIZE >= c * PAGE_SIZE
  <2>1. c * PAGE_SIZE < n * PAGE_SIZE + PAGE_SIZE
    BY <1>1, <1>2, <1>7
  <2>2. c <= n
    BY <1>1, <1>2, <2>1
  <2> QED
    BY <1>1, <1>2, <2>2
<1>8. ASSUME NEW n \in Nat, n * PAGE_SIZE < t PROVE (n + 1) * PAGE_SIZE <= t
  <2>1. n < f
    BY <1>1, <1>3, <1>4, <1>8
  <2> QED
    BY <1>1, <1>3, <1>4, <2>1
<1>9. ASSUME NEW n \in Nat, (n + 1) * PAGE_SIZE <= b + z PROVE (n + 1) * PAGE_SIZE <= t
  <2>1. (n + 1) * PAGE_SIZE < f * PAGE_SIZE + PAGE_SIZE
    BY <1>1, <1>3, <1>9
  <2>2. n + 1 <= f
    BY <1>1, <1>3, <2>1
  <2> QED
    BY <1>1, <1>3, <1>4, <2>2
<1>10. s \in Nat /\ s >= lo /\ s >= b
  BY <1>5, <1>6
<1>11. t <= b + z
  BY <1>3, <1>4
<1>12. ASSUME NEW n \in Nat, n * PAGE_SIZE >= lo, n * PAGE_SIZE >= b, n * PAGE_SIZE < t
       PROVE  s <= n * PAGE_SIZE
  BY <1>6, <1>7, <1>12
<1> QED
  BY <1>5, <1>8, <1>9, <1>10, <1>11, <1>12, Zenon DEF Cut

\* Nothing has been done to the map yet.
LEMMA MapInitInv == MapInit => MapInv
  BY DEF MapInit, MapInv

\* The sort loses no entry, whatever it does with equal bases.
LEMMA SortStep == MapInv /\ Sort => MapInv'
<1> SUFFICES ASSUME MapInv, Sort PROVE MapInv'
  OBVIOUS
<1>1. e820 \in Seq(E820Entry) /\ pos = 1 /\ prev_end = DYNMEM_START_PHYS /\ DYNMEM_START_PHYS \in Nat
  BY MapAssumption DEF MapInv, Sort
<1>2. PICK p \in Bijection(DOMAIN e820, DOMAIN e820) :
        /\ \A j, k \in DOMAIN e820 : j < k => e820[p[j]].base <= e820[p[k]].base
        /\ buffer' = [k \in DOMAIN e820 |-> e820[p[k]]]
  BY DEF Sort
<1>3. p \in [DOMAIN e820 -> DOMAIN e820] /\ \A w \in DOMAIN e820 : \E v \in DOMAIN e820 : p[v] = w
  BY <1>2 DEF Bijection, Surjection
<1>4. step' = "align" /\ e820' = e820 /\ pos' = 1 /\ prev_end' = DYNMEM_START_PHYS
  BY <1>1 DEF Sort
<1>5. buffer' \in Seq(E820Entry) /\ Len(buffer') = Len(e820) /\ DOMAIN e820 = 1 .. Len(e820)
  <2>1. buffer' \in [DOMAIN e820 -> E820Entry]
    BY <1>1, <1>2, <1>3
  <2> QED
    BY <1>1, <2>1
<1>6. ASSUME NEW n \in Nat
      PROVE  Covers(e820, DOMAIN e820, n) <=> Covers(buffer', 1 .. Len(buffer'), n)
  BY <1>2, <1>3, <1>5 DEF Covers
<1>7. AlignInv'
  <2>1. \A j, k \in 1 .. Len(buffer') : j < k => buffer'[j].base <= buffer'[k].base
    BY <1>2, <1>5
  <2>2. \A n \in Nat : Wanted(n)' <=> n * PAGE_SIZE >= DYNMEM_START_PHYS /\ Covers(buffer', 1 .. Len(buffer'), n)
    BY <1>4, <1>6 DEF Wanted
  <2>3. 1 .. pos' - 1 = {} /\ Len(buffer') \in Nat /\ pos' \in 1 .. Len(buffer') + 1
    BY <1>4, <1>5
  <2>4. \A n \in Nat : ~ Covers(buffer', 1 .. pos' - 1, n)
    BY <2>3, Zenon DEF Covers
  <2>5. \A n \in Nat : ~ (DYNMEM_START_PHYS <= n * PAGE_SIZE /\ n * PAGE_SIZE < DYNMEM_START_PHYS)
    BY <1>1, MapAssumption
  <2> QED
    BY <1>1, <1>4, <2>1, <2>2, <2>3, <2>4, <2>5 DEF AlignInv, Ascending
<1> QED
  BY <1>4, <1>5, <1>7 DEF MapInv

\* One pass of the loop over the entries: nothing wanted is cut away with the
\* part of an entry that overlaps the entries before it.
LEMMA AlignStep == MapInv /\ Align => MapInv'
<1> SUFFICES ASSUME MapInv, Align PROVE MapInv'
  OBVIOUS
<1> DEFINE e == buffer[pos]
           s == AlignStart(e)
           t == AlignEnd(e)
           N == Len(buffer)
           cut == e.mem_type = Usable /\ s < t
           r == [buffer EXCEPT ![pos].base = s, ![pos].size = t - s]
           x == buffer'[pos]
<1>1. /\ AlignInv /\ buffer \in Seq(E820Entry) /\ step = "align" /\ pos <= N
      /\ e820' = e820 /\ step' = "align" /\ pos' = pos + 1
  BY DEF MapInv, Align
<1>2. /\ pos \in 1 .. N /\ N \in Nat /\ e \in E820Entry /\ prev_end \in Nat
      /\ DYNMEM_START_PHYS \in Nat /\ prev_end >= DYNMEM_START_PHYS
  BY <1>1, MapAssumption DEF AlignInv
<1>3. e.base \in Nat /\ e.size \in Nat
  BY <1>2 DEF E820Entry
<1>4. /\ s \in Nat /\ t \in Nat /\ s >= prev_end /\ s >= e.base /\ t <= e.base + e.size
      /\ \A n \in Nat : n * PAGE_SIZE >= prev_end /\ n * PAGE_SIZE >= e.base /\ n * PAGE_SIZE < t
                          => s <= n * PAGE_SIZE /\ (n + 1) * PAGE_SIZE <= t
      /\ \A n \in Nat : (n + 1) * PAGE_SIZE <= e.base + e.size => (n + 1) * PAGE_SIZE <= t
  <2>1. /\ s = Max({prev_end, ((e.base + PAGE_SIZE - 1) \div PAGE_SIZE) * PAGE_SIZE})
        /\ t = ((e.base + e.size) \div PAGE_SIZE) * PAGE_SIZE
    BY DEF AlignStart, AlignEnd
  <2> HIDE DEF s, t
  <2>2. Cut(e.base, e.size, prev_end, s, t)
    BY <1>2, <1>3, <2>1, CutEntry, Zenon
  <2> QED
    BY <2>2 DEF Cut
<1>5. /\ buffer' \in Seq(E820Entry) /\ Len(buffer') = N
      /\ \A k \in 1 .. N : k # pos => buffer'[k] = buffer[k]
      /\ cut => x.base = s /\ x.size = t - s /\ x.mem_type = Usable
      /\ ~ cut => x.mem_type # Usable
      /\ prev_end' = IF cut THEN t ELSE prev_end
  <2>1. CASE e.mem_type # Usable
    BY <1>1, <1>2, <2>1 DEF Align
  <2>2. CASE cut
    <3>1. buffer' = r /\ prev_end' = t
      BY <1>4, <2>2 DEF Align
    <3> DEFINE y == [base |-> s, size |-> t - s, mem_type |-> e.mem_type]
    <3>2. [[e EXCEPT !.base = s] EXCEPT !.size = t - s] = y
      <4> DEFINE w == [base |-> s, size |-> e.size, mem_type |-> e.mem_type]
                 z == t - s
      <4> HIDE DEF s, t, e
      <4>1. [e EXCEPT !.base = s] = w
        BY <1>2 DEF E820Entry
      <4>2. [w EXCEPT !.size = z] = [base |-> s, size |-> z, mem_type |-> e.mem_type]
        <5> HIDE DEF z
        <5> QED
          OBVIOUS
      <4> QED
        BY <4>1, <4>2, Zenon
    <3>3. y \in E820Entry /\ y.mem_type = Usable /\ y.base = s /\ y.size = t - s
      BY <1>2, <1>4, <2>2 DEF E820Entry
    <3>4. r = [buffer EXCEPT ![pos] = [[e EXCEPT !.base = s] EXCEPT !.size = t - s]]
      <4> HIDE DEF s, t
      <4> QED
        BY <1>1, <1>2, Zenon
    <3>5. buffer' = [buffer EXCEPT ![pos] = y]
      BY <3>1, <3>2, <3>4, Zenon
    <3> HIDE DEF y, r, s, t, e
    <3> QED
      BY <1>1, <1>2, <2>2, <3>1, <3>3, <3>5
  <2>3. CASE e.mem_type = Usable /\ s >= t
    <3>1. buffer' = [buffer EXCEPT ![pos].mem_type = Dropped] /\ prev_end' = prev_end
      BY <1>4, <2>3 DEF Align
    <3>2. x = [e EXCEPT !.mem_type = Dropped]
      BY <1>1, <1>2, <3>1
    <3>3. x \in E820Entry /\ x.mem_type # Usable
      BY <1>2, <3>2 DEF E820Entry, Dropped, Usable
    <3> QED
      BY <1>1, <1>2, <1>4, <2>3, <3>1, <3>3
  <2> QED
    BY <1>4, <2>1, <2>2, <2>3
<1> HIDE DEF e, s, t, N, cut, r, x
<1>6. PAGE_SIZE \in Nat \ {0} /\ \A n \in Nat : n * PAGE_SIZE \in Nat /\ (n + 1) * PAGE_SIZE > n * PAGE_SIZE
  BY MapAssumption
<1>7. 1 .. pos' - 1 = (1 .. pos - 1) \cup {pos} /\ pos' .. N = (pos .. N) \ {pos}
  BY <1>1, <1>2
<1>8. ASSUME NEW n \in Nat
      PROVE  /\ Covers(buffer', 1 .. pos' - 1, n)
                  <=> Covers(buffer, 1 .. pos - 1, n) \/ (cut /\ Inside(n, x))
             /\ Covers(buffer, pos .. N, n)
                  <=> Covers(buffer', pos' .. N, n) \/ (e.mem_type = Usable /\ Inside(n, e))
  <2>1. \A k \in 1 .. pos - 1 : k \in 1 .. N /\ k # pos
    BY <1>2
  <2>2. \A k \in pos' .. N : k \in 1 .. N /\ k # pos
    BY <1>1, <1>2
  <2>3. Covers(buffer', 1 .. pos' - 1, n)
          <=> Covers(buffer', 1 .. pos - 1, n) \/ (x.mem_type = Usable /\ Inside(n, x))
    BY <1>7 DEF Covers, x
  <2>4. Covers(buffer, pos .. N, n)
          <=> Covers(buffer, pos' .. N, n) \/ (e.mem_type = Usable /\ Inside(n, e))
    BY <1>2, <1>7 DEF Covers, e
  <2>5. Covers(buffer', 1 .. pos - 1, n) <=> Covers(buffer, 1 .. pos - 1, n)
    BY <1>5, <2>1 DEF Covers
  <2>6. Covers(buffer', pos' .. N, n) <=> Covers(buffer, pos' .. N, n)
    BY <1>5, <2>2 DEF Covers
  <2> QED
    BY <1>5, <2>3, <2>4, <2>5, <2>6
<1>9. ASSUME NEW n \in Nat, n * PAGE_SIZE >= e.base, n * PAGE_SIZE >= DYNMEM_START_PHYS,
             n * PAGE_SIZE < prev_end
      PROVE  Covers(buffer', 1 .. pos' - 1, n)
  <2>1. pos \in pos .. Len(buffer) /\ buffer[pos].base <= n * PAGE_SIZE
    BY <1>2, <1>3, <1>6, <1>9 DEF e, N
  <2>2. Covers(buffer, 1 .. pos - 1, n)
    BY <1>1, <1>9, <2>1 DEF AlignInv
  <2> QED
    BY <1>8, <2>2
<1>10. ASSUME NEW n \in Nat, n * PAGE_SIZE >= e.base, n * PAGE_SIZE >= prev_end, n * PAGE_SIZE < t
       PROVE  cut => Inside(n, x)
  <2>1. s <= n * PAGE_SIZE /\ (n + 1) * PAGE_SIZE <= t
    BY <1>4, <1>10
  <2> QED
    BY <1>4, <1>5, <2>1 DEF Inside
<1>11. ASSUME NEW n \in Nat
       PROVE  Wanted(n)' <=> \/ Covers(buffer', 1 .. pos' - 1, n)
                             \/ /\ n * PAGE_SIZE >= DYNMEM_START_PHYS
                                /\ Covers(buffer', pos' .. N, n)
  <2>1. Wanted(n)' <=> \/ Covers(buffer, 1 .. pos - 1, n)
                       \/ /\ n * PAGE_SIZE >= DYNMEM_START_PHYS
                          /\ Covers(buffer, pos .. N, n)
    BY <1>1 DEF AlignInv, Wanted, N
  <2>2. ASSUME e.mem_type = Usable, Inside(n, e), n * PAGE_SIZE >= DYNMEM_START_PHYS
        PROVE  Covers(buffer', 1 .. pos' - 1, n)
    <3>1. n * PAGE_SIZE >= e.base /\ (n + 1) * PAGE_SIZE <= t /\ n * PAGE_SIZE < t
      BY <1>3, <1>4, <1>6, <2>2 DEF Inside
    <3>2. CASE n * PAGE_SIZE < prev_end
      BY <1>9, <2>2, <3>1, <3>2
    <3>3. CASE n * PAGE_SIZE >= prev_end
      <4>1. s <= n * PAGE_SIZE
        BY <1>4, <3>1, <3>3
      <4>2. cut
        BY <1>4, <1>6, <2>2, <3>1, <4>1 DEF cut
      <4> QED
        BY <1>8, <1>10, <3>1, <3>3, <4>2
    <3> QED
      BY <1>2, <1>6, <3>2, <3>3
  <2>3. ASSUME cut, Inside(n, x)
        PROVE  e.mem_type = Usable /\ Inside(n, e) /\ n * PAGE_SIZE >= DYNMEM_START_PHYS
    <3>1. s <= n * PAGE_SIZE /\ (n + 1) * PAGE_SIZE <= t
      BY <1>4, <1>5, <2>3 DEF Inside
    <3> QED
      BY <1>2, <1>3, <1>4, <1>6, <2>3, <3>1 DEF Inside, cut
  <2> QED
    BY <1>8, <2>1, <2>2, <2>3
<1>12. ASSUME NEW n \in Nat, NEW k \in pos' .. N, DYNMEM_START_PHYS <= n * PAGE_SIZE,
              n * PAGE_SIZE < prev_end', buffer'[k].base <= n * PAGE_SIZE
       PROVE  Covers(buffer', 1 .. pos' - 1, n)
  <2>1. k \in pos .. N /\ pos < k /\ k \in 1 .. N /\ pos \in pos .. N
    BY <1>1, <1>2
  <2>2. buffer'[k] = buffer[k] /\ buffer[k] \in E820Entry
    BY <1>1, <1>5, <2>1 DEF N
  <2>3. e.base <= buffer[k].base
    BY <1>1, <2>1 DEF AlignInv, N, e
  <2>4. e.base <= n * PAGE_SIZE
    <3>1. buffer[k].base \in Nat /\ buffer[k].base <= n * PAGE_SIZE
      BY <1>12, <2>2 DEF E820Entry
    <3> QED
      BY <1>3, <1>6, <2>3, <3>1
  <2>5. CASE n * PAGE_SIZE < prev_end
    BY <1>9, <1>12, <2>4, <2>5
  <2>6. CASE n * PAGE_SIZE >= prev_end
    <3>1. cut /\ n * PAGE_SIZE < t
      BY <1>2, <1>5, <1>6, <1>12, <2>6
    <3> QED
      BY <1>8, <1>10, <2>4, <2>6, <3>1
  <2> QED
    BY <1>2, <1>6, <2>5, <2>6
<1>13. AlignInv'
  <2>1. pos' \in 1 .. N + 1
    BY <1>1, <1>2
  <2>2. prev_end' \in Nat /\ prev_end' >= prev_end /\ prev_end' >= DYNMEM_START_PHYS
    BY <1>2, <1>4, <1>5 DEF cut
  <2>3. \A j, k \in pos' .. N : j < k => buffer'[j].base <= buffer'[k].base
    <3>1. \A k \in pos' .. N : k \in pos .. N /\ k \in 1 .. N /\ k # pos
      BY <1>1, <1>2
    <3> QED
      BY <1>1, <1>5, <3>1 DEF AlignInv, N
  <2>4. ASSUME NEW j \in 1 .. pos' - 1, buffer'[j].mem_type = Usable
        PROVE  /\ buffer'[j].base + buffer'[j].size <= prev_end'
               /\ j # pos => buffer'[j].base + buffer'[j].size <= prev_end
    <3>1. CASE j = pos
      BY <1>4, <1>5, <2>4, <3>1 DEF x
    <3>2. CASE j # pos
      <4>1. j \in 1 .. pos - 1 /\ j \in 1 .. N
        BY <1>2, <1>7, <2>4, <3>2
      <4>2. buffer'[j] = buffer[j] /\ buffer[j] \in E820Entry
        BY <1>1, <1>5, <3>2, <4>1 DEF N
      <4>3. buffer[j].base + buffer[j].size <= prev_end
        BY <1>1, <2>4, <4>1, <4>2 DEF AlignInv
      <4> QED
        BY <1>2, <2>2, <4>2, <4>3 DEF E820Entry
    <3> QED
      BY <3>1, <3>2
  <2>5. ASSUME NEW j \in 1 .. pos' - 1, NEW k \in 1 .. pos' - 1, j < k,
               buffer'[j].mem_type = Usable, buffer'[k].mem_type = Usable
        PROVE  buffer'[j].base + buffer'[j].size <= buffer'[k].base
    <3>1. j \in 1 .. pos - 1 /\ j \in 1 .. N /\ j # pos
      BY <1>1, <1>2, <2>5
    <3>2. CASE k = pos
      <4>1. buffer'[j].base + buffer'[j].size <= prev_end /\ buffer'[k].base = s
        BY <1>5, <2>4, <2>5, <3>1, <3>2 DEF x
      <4>2. buffer'[j] \in E820Entry
        BY <1>5, <3>1
      <4> QED
        BY <1>2, <1>4, <4>1, <4>2 DEF E820Entry
    <3>3. CASE k # pos
      <4>1. k \in 1 .. pos - 1 /\ k \in 1 .. N
        BY <1>2, <1>7, <3>3
      <4>2. buffer'[j] = buffer[j] /\ buffer'[k] = buffer[k]
        BY <1>5, <3>1, <3>3, <4>1
      <4> QED
        BY <1>1, <2>5, <3>1, <4>1, <4>2 DEF AlignInv, Ascending
    <3> QED
      BY <3>2, <3>3
  <2>6. ASSUME NEW j \in 1 .. pos' - 1, buffer'[j].mem_type = Usable PROVE buffer'[j].size > 0
    <3>1. CASE j = pos
      BY <1>4, <1>5, <2>6, <3>1 DEF x, cut
    <3>2. CASE j # pos
      <4>1. j \in 1 .. pos - 1 /\ j \in 1 .. N
        BY <1>2, <1>7, <2>6, <3>2
      <4>2. buffer'[j] = buffer[j]
        BY <1>5, <3>2, <4>1
      <4> QED
        BY <1>1, <2>6, <4>1, <4>2 DEF AlignInv, Ascending
    <3> QED
      BY <3>1, <3>2
  <2> QED
    BY <1>5, <1>11, <1>12, <2>1, <2>2, <2>3, <2>4, <2>5, <2>6, Zenon DEF AlignInv, Ascending
<1> QED
  BY <1>1, <1>5, <1>13 DEF MapInv

\* slice_remove starts at the first entry that has to go, or behind the last.
LEMMA PositionStep == MapInv /\ Position => MapInv'
<1> SUFFICES ASSUME MapInv, Position PROVE MapInv'
  OBVIOUS
<1> DEFINE N == Len(buffer)
           T == {k \in DOMAIN buffer : buffer[k].mem_type # Usable} \cup {N + 1}
<1>1. /\ AlignInv /\ buffer \in Seq(E820Entry) /\ pos > N /\ step' = "remove"
      /\ kept' = Min(T) /\ pos' = kept' + 1 /\ UNCHANGED <<e820, buffer, prev_end>>
  BY DEF MapInv, Position
<1>2. N \in Nat /\ DOMAIN buffer = 1 .. N /\ pos = N + 1 /\ 1 .. pos - 1 = 1 .. N
  BY <1>1 DEF AlignInv
<1>3. Min(T) \in T /\ \A y \in T : Min(T) <= y
  <2>1. T \subseteq Nat /\ T # {}
    BY <1>2
  <2> HIDE DEF T
  <2> QED
    BY <2>1, MinIsLeast, Zenon
<1>4. /\ kept' \in 1 .. N + 1
      /\ \A k \in 1 .. kept' - 1 : buffer[k].mem_type = Usable
      /\ \A k \in kept' .. N : k < pos' => buffer[k].mem_type # Usable
  <2>1. kept' \in T /\ \A y \in T : kept' <= y
    BY <1>1, <1>3
  <2>2. kept' \in 1 .. N + 1
    BY <1>2, <2>1
  <2>3. ASSUME NEW k \in 1 .. kept' - 1 PROVE buffer[k].mem_type = Usable
    <3>1. N \in Int /\ kept' \in Int /\ kept' <= N + 1
      BY <1>2, <2>2
    <3>2. k \in 1 .. N /\ k < kept'
      <4>1. ASSUME NEW x \in Int, NEW y \in Int, x <= y + 1, NEW i \in 1 .. x - 1
            PROVE  i \in 1 .. y /\ i < x
        BY <4>1
      <4> QED
        BY <3>1, <4>1, Zenon
    <3>3. k \notin T
      BY <2>1, <3>1, <3>2
    <3> QED
      BY <1>2, <3>2, <3>3
  <2>4. ASSUME NEW k \in kept' .. N, k < pos' PROVE buffer[k].mem_type # Usable
    <3>1. k = kept' /\ k # N + 1
      BY <1>1, <1>2, <2>2, <2>4
    <3> QED
      BY <2>1, <3>1
  <2> QED
    BY <2>2, <2>3, <2>4, Zenon
<1>5. \A n \in Nat : Wanted(n)' <=> Covers(buffer, 1 .. N, n)
  <2>1. pos .. N = {}
    BY <1>2
  <2> QED
    BY <1>1, <1>2, <2>1 DEF AlignInv, Wanted, Covers
<1>6. Ascending(buffer, 1 .. N)
  BY <1>1, <1>2 DEF AlignInv
<1>7. RemoveInv'
  <2>1. pos' \in kept' + 1 .. N + 2
    BY <1>1, <1>2, <1>4
  <2> QED
    BY <1>1, <1>2, <1>4, <1>5, <1>6, <2>1 DEF RemoveInv, Entries
<1> QED
  BY <1>1, <1>7 DEF MapInv

\* One pass of slice_remove: an entry that stays changes places with the first
\* that goes, and the entries that stay keep their order.
LEMMA RemoveStep == MapInv /\ Remove => MapInv'
<1> SUFFICES ASSUME MapInv, Remove PROVE MapInv'
  OBVIOUS
<1> DEFINE N == Len(buffer)
<1>1. /\ RemoveInv /\ buffer \in Seq(E820Entry) /\ pos <= N /\ step = "remove"
      /\ pos' = pos + 1 /\ UNCHANGED <<e820, step, prev_end>>
  BY DEF MapInv, Remove
<1>2. /\ N \in Nat /\ DOMAIN buffer = 1 .. N /\ kept \in 1 .. N /\ pos \in 1 .. N /\ kept < pos
      /\ Entries = 1 .. N
  BY <1>1 DEF RemoveInv, Entries
<1>3. CASE buffer[pos].mem_type # Usable
  <2>1. UNCHANGED <<buffer, kept>>
    BY <1>3 DEF Remove
  <2>2. \A k \in kept .. N : k < pos + 1 => buffer[k].mem_type # Usable
    <3>1. \A k \in kept .. N : k < pos + 1 => k < pos \/ k = pos
      BY <1>2
    <3> QED
      BY <1>1, <1>3, <3>1 DEF RemoveInv
  <2>3. RemoveInv'
    <3>1. pos' \in kept' + 1 .. N + 2
      BY <1>1, <1>2, <2>1
    <3> QED
      BY <1>1, <2>1, <2>2, <3>1 DEF RemoveInv, Entries, Wanted
  <2> QED
    BY <1>1, <2>1, <2>3 DEF MapInv
<1>4. CASE buffer[pos].mem_type = Usable
  <2> DEFINE at(k) == IF k = kept THEN pos ELSE IF k = pos THEN kept ELSE k
  <2>1. /\ buffer' = [buffer EXCEPT ![kept] = buffer[pos], ![pos] = buffer[kept]]
        /\ kept' = kept + 1
    BY <1>4 DEF Remove
  <2>2. buffer[kept].mem_type # Usable
    BY <1>1, <1>2 DEF RemoveInv
  <2>3. /\ buffer' \in Seq(E820Entry) /\ Len(buffer') = N /\ Entries' = 1 .. N
        /\ \A k \in 1 .. N : at(k) \in 1 .. N /\ buffer'[k] = buffer[at(k)] /\ at(at(k)) = k
    BY <1>1, <1>2, <2>1 DEF Entries
  <2>4. ASSUME NEW k \in 1 .. N, buffer'[k].mem_type = Usable PROVE k < kept' \/ (k > pos /\ at(k) = k)
    <3>1. buffer[at(k)].mem_type = Usable
      BY <2>3, <2>4
    <3>2. ~ (kept <= at(k) /\ at(k) < pos)
      BY <1>1, <1>2, <2>3, <3>1 DEF RemoveInv
    <3> QED
      BY <1>2, <2>1, <3>2
  <2>5. ASSUME NEW j \in 1 .. N, NEW k \in 1 .. N, j < k,
               buffer'[j].mem_type = Usable, buffer'[k].mem_type = Usable
        PROVE  buffer'[j].base + buffer'[j].size <= buffer'[k].base
    <3>1. at(j) < at(k)
      BY <1>2, <2>1, <2>4, <2>5
    <3> HIDE DEF at
    <3>2. /\ at(j) \in 1 .. N /\ at(k) \in 1 .. N
          /\ buffer'[j] = buffer[at(j)] /\ buffer'[k] = buffer[at(k)]
      BY <2>3
    <3> QED
      BY <1>1, <1>2, <2>5, <3>1, <3>2 DEF RemoveInv, Ascending
  <2>6. ASSUME NEW n \in Nat PROVE Covers(buffer', 1 .. N, n) <=> Covers(buffer, 1 .. N, n)
    <3> HIDE DEF at
    <3>1. Covers(buffer', 1 .. N, n) => Covers(buffer, 1 .. N, n)
      BY <2>3 DEF Covers
    <3>2. Covers(buffer, 1 .. N, n) => Covers(buffer', 1 .. N, n)
      BY <2>3 DEF Covers
    <3> QED
      BY <3>1, <3>2
  <2>7. \A k \in 1 .. kept' - 1 : buffer'[k].mem_type = Usable
    <3>1. ASSUME NEW k \in 1 .. kept' - 1 PROVE buffer'[k].mem_type = Usable
      <4>1. k \in 1 .. N /\ (k = kept \/ (k \in 1 .. kept - 1 /\ k # pos))
        BY <1>2, <2>1
      <4>2. k = kept => buffer'[k] = buffer[pos]
        BY <2>3, <4>1
      <4>3. k # kept => buffer'[k] = buffer[k]
        BY <2>3, <4>1
      <4> QED
        BY <1>1, <1>4, <4>1, <4>2, <4>3 DEF RemoveInv
    <3> QED
      BY <3>1
  <2>8. \A k \in kept' .. N : k < pos' => buffer'[k].mem_type # Usable
    <3>1. ASSUME NEW k \in kept' .. N, k < pos', buffer'[k].mem_type = Usable PROVE FALSE
      <4>1. k \in 1 .. N /\ ~ k < kept' /\ ~ k > pos
        BY <1>1, <1>2, <2>1, <3>1
      <4> QED
        BY <2>4, <3>1, <4>1
    <3> QED
      BY <3>1
  <2> HIDE DEF at
  <2>9. RemoveInv'
    <3>1. kept' \in 1 .. N + 1 /\ pos' \in kept' + 1 .. N + 2
      BY <1>1, <1>2, <2>1
    <3>2. \A n \in Nat : Wanted(n)' <=> Covers(buffer', 1 .. N, n)
      BY <1>1, <1>2, <2>6 DEF RemoveInv, Wanted
    <3>3. \A k \in 1 .. N : buffer'[k].mem_type = Usable => buffer'[k].size > 0
      BY <1>1, <1>2, <2>3 DEF RemoveInv, Ascending
    <3> QED
      BY <2>3, <2>5, <2>7, <2>8, <3>1, <3>2, <3>3, Zenon DEF RemoveInv, Ascending
  <2> QED
    BY <1>1, <2>3, <2>9 DEF MapInv
<1> QED
  BY <1>3, <1>4

\* Every step of create_dynmem_map.
LEMMA MapStep == MapInv /\ [create_dynmem_map]_map_vars => MapInv'
<1> SUFFICES ASSUME MapInv, [create_dynmem_map]_map_vars PROVE MapInv'
  OBVIOUS
<1>1. CASE Sort
  BY <1>1, SortStep
<1>2. CASE Align
  BY <1>2, AlignStep
<1>3. CASE Position
  BY <1>3, PositionStep
<1>4. CASE Remove
  BY <1>4, RemoveStep
<1>5. CASE Finish
  BY <1>5 DEF Finish, MapInv, RemoveInv, Entries, Wanted
<1>6. CASE UNCHANGED map_vars
  BY <1>6 DEF map_vars, MapInv, AlignInv, RemoveInv, Entries, Wanted
<1> QED
  BY <1>1, <1>2, <1>3, <1>4, <1>5, <1>6 DEF create_dynmem_map

\* The pages of an entry as a set.
LEMMA PagesInside ==
  ASSUME NEW e \in E820Entry, NEW n
  PROVE  n \in PagesOf(e) <=> n \in Nat /\ Inside(n, e)
<1>1. e.base \in Nat /\ e.size \in Nat /\ PAGE_SIZE \in Nat \ {0}
  BY MapAssumption DEF E820Entry
<1> DEFINE f == (e.base + e.size) \div PAGE_SIZE
<1>2. f \in Nat /\ f * PAGE_SIZE <= e.base + e.size /\ e.base + e.size < f * PAGE_SIZE + PAGE_SIZE
  <2>1. e.base + e.size \in Nat
    BY <1>1
  <2> QED
    BY <1>1, <2>1, DivBounds, Zenon
<1>3. n \in PagesOf(e) <=> n \in 0 .. f /\ Inside(n, e)
  BY DEF PagesOf, Inside
<1> HIDE DEF f
<1>4. ASSUME n \in Nat, Inside(n, e) PROVE n <= f
  <2>1. (n + 1) * PAGE_SIZE < f * PAGE_SIZE + PAGE_SIZE
    BY <1>1, <1>2, <1>4 DEF Inside
  <2> QED
    BY <1>1, <1>2, <1>4, <2>1
<1> QED
  BY <1>2, <1>3, <1>4

\* The finished map is what MapExact says.
LEMMA MapDone == MapInv => MapExact
<1> SUFFICES ASSUME MapInv, step = "done" PROVE
      /\ \A k \in DOMAIN DynmemMap : DynmemMap[k].mem_type = Usable /\ DynmemMap[k].size > 0
      /\ \A j, k \in DOMAIN DynmemMap :
           j < k => DynmemMap[j].base + DynmemMap[j].size <= DynmemMap[k].base
      /\ UNION {PagesOf(DynmemMap[k]) : k \in DOMAIN DynmemMap}
           = {n \in UNION {PagesOf(e820[k]) : k \in {k \in DOMAIN e820 : e820[k].mem_type = Usable}} :
                n * PAGE_SIZE >= DYNMEM_START_PHYS}
  BY DEF MapExact
<1> DEFINE N == Len(buffer)
           M == DynmemMap
           U == {k \in DOMAIN e820 : e820[k].mem_type = Usable}
<1>1. RemoveInv /\ buffer \in Seq(E820Entry) /\ pos > N /\ e820 \in Seq(E820Entry)
  BY MapAssumption DEF MapInv
<1>2. N \in Nat /\ kept \in 1 .. N + 1 /\ Entries = 1 .. N
  BY <1>1 DEF RemoveInv, Entries
<1>3. DOMAIN M = 1 .. kept - 1 /\ \A k \in 1 .. kept - 1 : M[k] = buffer[k]
  BY <1>1, <1>2 DEF DynmemMap
<1> HIDE DEF M
<1>4. \A k \in 1 .. kept - 1 : k \in 1 .. N /\ M[k] \in E820Entry /\ M[k].mem_type = Usable
  BY <1>1, <1>2, <1>3 DEF RemoveInv
<1>5. \A k \in 1 .. N : buffer[k].mem_type = Usable => k \in 1 .. kept - 1
  <2>1. \A k \in 1 .. N : k \notin 1 .. kept - 1 => k \in kept .. N /\ k < pos
    BY <1>1, <1>2 DEF RemoveInv
  <2> QED
    BY <1>1, <2>1 DEF RemoveInv
<1>6. \A k \in DOMAIN M : M[k].mem_type = Usable /\ M[k].size > 0
  BY <1>1, <1>2, <1>3, <1>4 DEF RemoveInv, Ascending
<1>7. \A j, k \in DOMAIN M : j < k => M[j].base + M[j].size <= M[k].base
  BY <1>1, <1>2, <1>3, <1>4 DEF RemoveInv, Ascending
<1>8. ASSUME NEW n
      PROVE  n \in UNION {PagesOf(M[k]) : k \in DOMAIN M}
               <=> n \in {i \in UNION {PagesOf(e820[k]) : k \in U} : i * PAGE_SIZE >= DYNMEM_START_PHYS}
  <2>1. n \in UNION {PagesOf(M[k]) : k \in DOMAIN M} <=> n \in Nat /\ Covers(buffer, 1 .. N, n)
    <3>1. n \in UNION {PagesOf(M[k]) : k \in DOMAIN M} <=> \E k \in DOMAIN M : n \in PagesOf(M[k])
      OBVIOUS
    <3>2. \A k \in DOMAIN M : n \in PagesOf(M[k]) <=> n \in Nat /\ Inside(n, M[k])
      BY <1>3, <1>4, PagesInside
    <3> QED
      BY <1>3, <1>4, <1>5, <3>1, <3>2 DEF Covers
  <2>2. n \in UNION {PagesOf(e820[k]) : k \in U} <=> n \in Nat /\ Covers(e820, DOMAIN e820, n)
    <3>1. n \in UNION {PagesOf(e820[k]) : k \in U} <=> \E k \in U : n \in PagesOf(e820[k])
      OBVIOUS
    <3>2. \A k \in DOMAIN e820 : e820[k] \in E820Entry
      BY <1>1
    <3>3. \A k \in U : n \in PagesOf(e820[k]) <=> n \in Nat /\ Inside(n, e820[k])
      BY <3>2, PagesInside
    <3> QED
      BY <3>1, <3>3 DEF Covers
  <2>3. n \in Nat => (Wanted(n) <=> Covers(buffer, 1 .. N, n))
    BY <1>1, <1>2 DEF RemoveInv
  <2> QED
    BY <2>1, <2>2, <2>3 DEF Wanted
<1> QED
  BY <1>6, <1>7, <1>8 DEF M

-----------------------------------------------------------------------------

\* create_dynmem_map lists exactly the whole usable pages, for every map the
\* firmware may report, however many entries it has and however they overlap.
THEOREM MapCorrect == MapSpec => []MapExact
<1>1. MapSpec => []MapInv
  BY MapInitInv, MapStep, PTL DEF MapSpec
<1> QED
  BY <1>1, MapDone, PTL

\* What follows in init_memory leaves the map alone.
THEOREM MapStaysExact == Spec => []MapExact
<1>1. Init => MapInv
  BY MapInitInv DEF Init
<1>2. MapInv /\ [Next]_vars => MapInv'
  <2>1. [Next]_vars => [create_dynmem_map]_map_vars
    BY DEF Next, vars
  <2> QED
    BY <2>1, MapStep
<1> QED
  BY <1>1, <1>2, MapDone, PTL DEF Spec

=============================================================================
