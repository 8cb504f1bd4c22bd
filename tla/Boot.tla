-------------------------------- MODULE Boot --------------------------------
(***************************************************************************)
(* The start of kmain (kernel/src/lib.rs): each initialisation is a step,  *)
(* between which devices raise interrupts and any instruction may fault.   *)
(* The question is where the processor goes then: it reads the gate of the *)
(* vector in the IDT, the gate's code segment in the GDT and, for a double *)
(* fault, a stack in the TSS.  What the handlers do is in Kernel.          *)
(***************************************************************************)
EXTENDS Integers, Sequences

CONSTANTS Line,     \* the interrupt lines devices may raise
          BiosMask  \* the sets of lines firmware may have left enabled

\* Line 2 of the first chip is wired to the second chip, so no device is on it.
ASSUME LineAssumption ==
  /\ Line \subseteq (0 .. 15) \ {2}
  /\ BiosMask \subseteq SUBSET (0 .. 15)

VARIABLES pc,       \* the next step of kmain
          gdt,      \* the descriptors by selector, as far as they are mapped
          tss,      \* the interrupt stack table: entry -> has a stack
          cs,       \* the code selector in use
          idt,      \* vector -> gate; empty before lidt
          offsets,  \* external: the first vectors of the two 8259s
          enabled,  \* external: the lines the masks let through
          irr,      \* external: the lines that request an interrupt
          IF_flag,
          went      \* history: what the last interrupt or exception led to

boot_vars == <<pc, gdt, tss, cs, idt, offsets, enabled, irr, IF_flag, went>>

NoTable == [v \in {} |-> "none"]
Nowhere == [kind |-> "none", n |-> 0, handler |-> "none"]

KERNEL_CODE_SELECTOR == 8

\* entry.S has unmapped the low memory that holds the loader's GDT, there is
\* no IDT yet, and the firmware's interrupt vectors and masks are in force.
BootInit ==
  /\ pc = 1
  /\ gdt = NoTable /\ tss = NoTable /\ idt = NoTable
  /\ cs = KERNEL_CODE_SELECTOR
  /\ offsets = <<8, 112>>
  /\ enabled \in BiosMask
  /\ irr = {}
  /\ IF_flag = FALSE
  /\ went = Nowhere

-----------------------------------------------------------------------------

\* gdt.append gives each descriptor the next selector after the null one.
Descriptors == <<"code", "data", "tss">>
GDT == [s \in {8 * i : i \in DOMAIN Descriptors} |-> Descriptors[s \div 8]]
DOUBLE_FAULT_IST_INDEX == 0

init_gdt ==
  /\ gdt' = GDT
  /\ cs' = CHOOSE s \in DOMAIN GDT : GDT[s] = "code"
  /\ tss' = [i \in {DOUBLE_FAULT_IST_INDEX} |-> "stack"]
  /\ UNCHANGED <<idt, offsets, enabled, irr, IF_flag>>

Irq == [TIMER |-> 0, KEYBOARD |-> 1, SLAVE |-> 2]
PIC_INT_OFFSET == 32

as_intn(irq) == PIC_INT_OFFSET + irq

\* The exceptions that have a handler, which panics with the name; "" for the
\* vectors below 32 that have none.
Mnemonic ==
  <<"#DE", "#DB", "#NMI", "#BP", "#OF", "#BR", "#UD", "#NM", "#DF", "", "#TS", "#NP", "#SS", "#GP",
    "#PF", "", "#MF", "#AC", "#MC", "#XF", "#VE", "", "", "", "", "", "", "", "", "#VC", "#SX">>
Exception == [v \in {i \in 0 .. 30 : Mnemonic[i + 1] # ""} |-> Mnemonic[v + 1]]

\* set_handler_fn takes the code selector of the moment into the gate.
Gate(handler) == [handler |-> handler, cs |-> cs]

IDT ==
  [v \in DOMAIN Exception \cup (32 .. 255) |->
     Gate(IF v = as_intn(Irq.TIMER) THEN "timer"
          ELSE IF v = as_intn(Irq.KEYBOARD) THEN "keyboard"
          ELSE IF v >= 32 THEN "#UNKNOWN" ELSE Exception[v])]

init_idt == idt' = IDT /\ UNCHANGED <<gdt, tss, cs, offsets, enabled, irr, IF_flag>>

\* initialize gives the chips their vectors and forgets edges; disable masks
\* every line.
init_pic ==
  /\ offsets' = <<PIC_INT_OFFSET, PIC_INT_OFFSET + 8>>
  /\ enabled' = {}
  /\ irr' \in SUBSET irr
  /\ UNCHANGED <<gdt, tss, cs, idt, IF_flag>>

\* The complement of the bits, a byte for each chip; a set bit masks a line.
set_mask(mask) ==
  LET bits == (0 .. 15) \ mask
      low == {i \in bits : i < 8}
      high == {i - 8 : i \in bits \ low}
  IN  enabled' = {i \in 0 .. 7 : i \notin low} \cup {i \in 8 .. 15 : i - 8 \notin high}

\* Fault seeds: the chips are set up last; the IDT comes before the GDT.
StepsPicLate ==
  <<"serial", "term", "gdt", "idt", "memory", "pit", "keyboard", "mask", "enable", "pic", "done">>

StepsIdtFirst ==
  <<"serial", "term", "idt", "gdt", "memory", "pic", "pit", "keyboard", "mask", "enable", "done">>

\* The calls of kmain, in order.
Steps ==
  <<"serial", "term", "gdt", "idt", "memory", "pic", "pit", "keyboard", "mask", "enable", "done">>

\* init_serial, init_term, init_memory, init_pit and init_keyboard change
\* none of this state.
kmain ==
  /\ pc < Len(Steps)
  /\ pc' = pc + 1
  /\ went' = Nowhere
  /\ CASE Steps[pc] = "gdt" -> init_gdt
       [] Steps[pc] = "idt" -> init_idt
       [] Steps[pc] = "pic" -> init_pic
       [] Steps[pc] = "mask" -> /\ set_mask({Irq.TIMER, Irq.KEYBOARD, Irq.SLAVE})
                                /\ UNCHANGED <<gdt, tss, cs, idt, offsets, irr, IF_flag>>
       [] Steps[pc] = "enable" -> IF_flag' = TRUE /\ UNCHANGED <<gdt, tss, cs, idt, offsets, enabled, irr>>
       [] OTHER -> UNCHANGED <<gdt, tss, cs, idt, offsets, enabled, irr, IF_flag>>

-----------------------------------------------------------------------------

\* External: what the processor runs for a vector; "reset" is a triple fault.
Handler(v) ==
  IF /\ v \in DOMAIN idt
     /\ idt[v].cs \in DOMAIN gdt /\ gdt[idt[v].cs] = "code"
     /\ v = 8 => DOUBLE_FAULT_IST_INDEX \in DOMAIN tss
  THEN idt[v].handler ELSE "reset"

Stopped == went.handler \notin {"none", "timer", "keyboard"}

Raise(line) ==
  /\ line \notin irr
  /\ irr' = irr \cup {line}
  /\ went' = Nowhere
  /\ UNCHANGED <<pc, gdt, tss, cs, idt, offsets, enabled, IF_flag>>

\* A line of the second chip also needs the cascade line.
Requests == {l \in irr \cap enabled : l >= 8 => Irq.SLAVE \in enabled}

Interrupt(line) ==
  /\ IF_flag
  /\ line \in Requests
  /\ irr' = irr \ {line}
  /\ went' = [kind |-> "irq", n |-> line,
              handler |-> Handler(IF line < 8 THEN offsets[1] + line ELSE offsets[2] + line - 8)]
  /\ UNCHANGED <<pc, gdt, tss, cs, idt, offsets, enabled, IF_flag>>

Fault(v) ==
  /\ went' = [kind |-> "exception", n |-> v, handler |-> Handler(v)]
  /\ UNCHANGED <<pc, gdt, tss, cs, idt, offsets, enabled, irr, IF_flag>>

BootNext ==
  /\ ~ Stopped
  /\ \/ kmain
     \/ \E line \in Line : Raise(line) \/ Interrupt(line)
     \/ \E v \in DOMAIN Exception : Fault(v)

BootSpec == BootInit /\ [][BootNext]_boot_vars

-----------------------------------------------------------------------------

\* Whatever the firmware left enabled and whenever a device asks, a hardware
\* interrupt runs the handler of its own device: never an exception handler
\* it was mistaken for, the unknown handler or none.
InterruptsFindHandlers ==
  went.kind = "irq" =>
    <<went.n, went.handler>> \in {<<Irq.TIMER, "timer">>, <<Irq.KEYBOARD, "keyboard">>}

\* From the step that loads the IDT on, every exception at any point of the
\* start, a double fault included, reaches its own handler and is reported.
ExceptionsReported ==
  went.kind = "exception" /\ idt # NoTable => went.handler = Exception[went.n]

=============================================================================
