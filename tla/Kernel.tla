------------------------------- MODULE Kernel -------------------------------
(***************************************************************************)
(* The running kernel, from the moment kmain unmasks the interrupts: the   *)
(* main loop of kernel/src/lib.rs, the timer and keyboard handlers, the    *)
(* queue between them, the locks they share and the panic handler, with    *)
(* the 8259 and the 8042 that drive them.                                  *)
(*                                                                         *)
(* Locks are taken and dropped by the actions of IrqMutex: a step of a     *)
(* context that begins a lock() or drops a guard is one of them, and the   *)
(* context goes on when the call is over.  The work done under a lock is   *)
(* part of the step that drops it.  Nothing in a step asks whether the     *)
(* call is a wise one: that kmain and the handlers keep the discipline of  *)
(* IrqMutex is the property ImplementsIrqMutex.                            *)
(***************************************************************************)
EXTENDS Integers, Sequences, FiniteSets, Functions

CONSTANTS BUFFER_SIZE,   \* capacity of the interrupt queue
          MaxDepth,      \* bound on nested contexts
          MaxTimer,      \* bound on the timer interrupts raised
          MaxKeys,       \* bound on the scancodes typed
          Panics         \* whether panics and processor exceptions happen

ASSUME KernelAssumption ==
  /\ BUFFER_SIZE \in Nat \ {0}
  /\ MaxDepth \in Nat \ {0}
  /\ MaxTimer \in Nat
  /\ MaxKeys \in Nat
  /\ Panics \in BOOLEAN

Mutex == {"TERM", "COM1", "QUEUE"}
NoMutex == "none"

\* InterruptMessage: Timer(), or Keyboard with the k-th scancode typed.
Timer == 0
Message == 0 .. MaxKeys

\* Irq: the number is the priority in the 8259.
TIMER == 0
KEYBOARD == 1

VARIABLES intf, depth, owner, guards, call, dead, floor, asked,  \* see IrqMutex
          pc,       \* pc[d]: where context d is
          back,     \* back[d]: where it goes when the function it called returns
          data,     \* data[d]: the message it holds (msg, data)
          queue,    \* the RingBuffer inside QUEUE
          once,     \* the Once of the lazy_static QUEUE
          pic_lock, \* who holds the spin lock PIC, 0 if none
          kbd_lock, \* the same for KEYBOARD
          term,     \* the Terminal: its input_status, and whether a line is complete
          ticks,    \* TICK_COUNTER
          keys,     \* history: the scancodes keyboard_handler has been given
          shown,    \* a panic message is on the screen
          pic,      \* the 8259: requests, interrupts in service, unmasked lines
          port,     \* the output buffer of the 8042, 0 if empty
          typed,    \* what the k-th scancode decodes to
          sent,     \* how many of them the 8042 has put in its output buffer
          fired,    \* history: timer interrupts raised
          merged,   \* history: those raised while one was already requested
          dropped   \* history: messages a full queue refused

lockvars == <<intf, depth, owner, guards, call, dead, floor, asked>>
progvars == <<pc, back, data>>
datavars == <<queue, once, pic_lock, kbd_lock, term, ticks, keys, shown, dropped>>
devvars == <<pic, port, typed, sent, fired, merged>>
vars == <<lockvars, progvars, datavars, devvars>>

Lock == INSTANCE IrqMutex
Q == INSTANCE RingBuffer WITH CAP <- BUFFER_SIZE, T <- Message

Context == 1 .. MaxDepth

\* What a scancode decodes to: nothing yet, Enter, or another key.
Decoded == {"none", "enter", "char"}

Init ==
  /\ Lock!Init
  /\ pc = [d \in Context |-> "set_mask"]
  /\ back = [d \in Context |-> "set_mask"]
  /\ data = [d \in Context |-> Timer]
  /\ queue = Q!new_with(Timer)
  /\ once = "Incomplete"
  /\ pic_lock = 0
  /\ kbd_lock = 0
  /\ term = [input_status |-> "Waiting", line |-> FALSE]
  /\ ticks = 0
  /\ keys = <<>>
  /\ shown = FALSE
  /\ pic = [irr |-> {}, isr |-> {}, unmasked |-> {}]
  /\ port = 0
  /\ typed = <<>>
  /\ sent = 0
  /\ fired = 0
  /\ merged = 0
  /\ dropped = <<>>

-----------------------------------------------------------------------------

At(l) == pc[depth] = l /\ Lock!Running.phase = "idle"
Goto(l) == pc' = [pc EXCEPT ![depth] = l]

\* Call function f and continue at l when it returns.
Enter(f, l) ==
  /\ pc' = [pc EXCEPT ![depth] = f]
  /\ back' = [back EXCEPT ![depth] = l]

Leave == Goto(back[depth])

\* The rest of a lock(), try_lock() or drop that has begun.
LockStep ==
  /\ Lock!Disable \/ Lock!Acquire \/ Lock!Refuse \/ Lock!Restore
  /\ UNCHANGED <<progvars, datavars, devvars>>

\* A critical section: lock() at l, then at `inside` the guard is dropped.
Begin(l, m, inside) ==
  /\ At(l)
  /\ Lock!CallLock(m, "lock")
  /\ Goto(inside)
  /\ UNCHANGED <<back, data, datavars, devvars>>

Drop(l) == At(l) /\ Lock!Release

-----------------------------------------------------------------------------

\* set_mask: the plain spin lock PIC, taken with interrupts off.
SetMask ==
  \/ /\ At("set_mask")
     /\ pic_lock = 0
     /\ pic_lock' = depth
     /\ Goto("write_masks")
     /\ UNCHANGED <<lockvars, back, data, queue, once, kbd_lock, term, ticks, keys,
                    shown, dropped, devvars>>
  \/ /\ At("write_masks")
     /\ pic_lock' = 0
     /\ pic' = [pic EXCEPT !.unmasked = {TIMER, KEYBOARD}]
     /\ Goto("enable")
     /\ UNCHANGED <<lockvars, back, data, queue, once, kbd_lock, term, ticks, keys,
                    shown, dropped, port, typed, sent, fired, merged>>

\* enable(), then log!("interrupt enabled") and log!("done").
Start ==
  \/ /\ At("enable")
     /\ Lock!Sti
     /\ Enter("log", "log_done")
     /\ UNCHANGED <<data, datavars, devvars>>
  \/ /\ At("log_done")
     /\ Enter("log", "prompt")
     /\ UNCHANGED <<lockvars, data, datavars, devvars>>

\* _log: TERM, then COM1; the guards die in the reverse order.
Log ==
  \/ Begin("log", "TERM", "log_com1")
  \/ Begin("log_com1", "COM1", "log_drop_com1")
  \/ /\ Drop("log_drop_com1")
     /\ Goto("log_drop_term")
     /\ UNCHANGED <<back, data, datavars, devvars>>
  \/ /\ Drop("log_drop_term")
     /\ Leave
     /\ UNCHANGED <<back, data, datavars, devvars>>

\* _print.
PrintOut ==
  \/ Begin("print", "TERM", "print_drop")
  \/ /\ Drop("print_drop")
     /\ Leave
     /\ UNCHANGED <<back, data, datavars, devvars>>

\* prompt: print, then start_inputting.
Prompt ==
  \/ /\ At("prompt")
     /\ Enter("print", "start_inputting")
     /\ UNCHANGED <<lockvars, data, datavars, devvars>>
  \/ Begin("start_inputting", "TERM", "start_inputting_drop")
  \/ /\ Drop("start_inputting_drop")
     /\ term' = [term EXCEPT !.input_status = "Inputting"]
     /\ Goto("loop")
     /\ UNCHANGED <<back, data, queue, once, pic_lock, kbd_lock, ticks, keys, shown,
                    dropped, devvars>>

\* Fault seed: the queue is looked at with interrupts on.
LoopFlagKept == UNCHANGED lockvars

LoopFlag == Lock!Cli

\* The loop turns interrupts off before it looks at the queue.
LoopTop ==
  /\ At("loop")
  /\ LoopFlag
  /\ Enter("deref", "pop")
  /\ UNCHANGED <<data, datavars, devvars>>

\* QUEUE is a lazy_static: the first to use it builds it under a Once, and
\* whoever comes while it is being built spins (no step).
Deref ==
  \/ /\ At("deref")
     /\ once = "Complete"
     /\ Leave
     /\ UNCHANGED <<lockvars, back, data, datavars, devvars>>
  \/ /\ At("deref")
     /\ once = "Incomplete"
     /\ once' = "Running"
     /\ Goto("build")
     /\ UNCHANGED <<lockvars, back, data, queue, pic_lock, kbd_lock, term, ticks, keys,
                    shown, dropped, devvars>>
  \/ /\ At("build")
     /\ once' = "Complete"
     /\ queue' = Q!new_with(Timer)
     /\ Leave
     /\ UNCHANGED <<lockvars, back, data, pic_lock, kbd_lock, term, ticks, keys, shown,
                    dropped, devvars>>

\* Fault seed: intmsg_pop only looks at the head.
RestKept == queue

Rest == Q!pop(queue)

\* intmsg_pop.
Pop ==
  \/ Begin("pop", "QUEUE", "try_pop")
  \/ /\ Drop("try_pop")
     /\ IF queue.empty
        THEN Goto("enable_and_hlt") /\ UNCHANGED <<data, queue>>
        ELSE /\ data' = [data EXCEPT ![depth] = Q!peek(queue)]
             /\ queue' = Rest
             /\ Goto("enable_loop")
     /\ UNCHANGED <<back, once, pic_lock, kbd_lock, term, ticks, keys, shown, dropped,
                    devvars>>

EnableLoop ==
  /\ At("enable_loop")
  /\ Lock!Sti
  /\ Goto("match")
  /\ UNCHANGED <<back, data, datavars, devvars>>

\* `sti; hlt`: no interrupt is taken between the two.
EnableAndHlt ==
  /\ At("enable_and_hlt")
  /\ Lock!Sti
  /\ Goto("halted")
  /\ UNCHANGED <<back, data, datavars, devvars>>

TimerHandler ==
  /\ At("match")
  /\ data[depth] = Timer
  /\ ticks' = ticks + 1
  /\ Goto("getline")
  /\ UNCHANGED <<lockvars, back, data, queue, once, pic_lock, kbd_lock, term, keys, shown,
                 dropped, devvars>>

\* keyboard_handler, with the spin lock KEYBOARD held to its end;
\* process_input completes the line on Enter and ignores what is typed while
\* the terminal is not reading.
KeyboardHandler ==
  \/ /\ At("match")
     /\ data[depth] # Timer
     /\ kbd_lock = 0
     /\ kbd_lock' = depth
     /\ keys' = Append(keys, data[depth])
     /\ Goto(IF typed[data[depth]] = "none" THEN "unlock_keyboard" ELSE "process_input")
     /\ UNCHANGED <<lockvars, back, data, queue, once, pic_lock, term, ticks, shown, dropped,
                    devvars>>
  \/ Begin("process_input", "TERM", "process_input_drop")
  \/ /\ Drop("process_input_drop")
     /\ term' = IF typed[data[depth]] = "enter" /\ term.input_status = "Inputting"
                THEN [input_status |-> "Waiting", line |-> TRUE] ELSE term
     /\ Goto("unlock_keyboard")
     /\ UNCHANGED <<back, data, queue, once, pic_lock, kbd_lock, ticks, keys, shown, dropped,
                    devvars>>
  \/ /\ At("unlock_keyboard")
     /\ kbd_lock' = 0
     /\ Goto("getline")
     /\ UNCHANGED <<lockvars, back, data, queue, once, pic_lock, term, ticks, keys, shown,
                    dropped, devvars>>

\* Fault seed: the guard of getline lives until the next prompt.
GetlineKeeps == IF term.line THEN UNCHANGED lockvars ELSE Lock!Release

GetlineDrops == Lock!Release

\* getline: the completed line is taken out of the terminal.
Getline ==
  \/ Begin("getline", "TERM", "getline_drop")
  \/ /\ At("getline_drop") /\ GetlineDrops
     /\ term' = [term EXCEPT !.line = FALSE]
     /\ Goto(IF term.line THEN "input_line" ELSE "loop")
     /\ UNCHANGED <<back, data, queue, once, pic_lock, kbd_lock, ticks, keys, shown, dropped,
                    devvars>>

\* Fault seed: a command that prints nothing skips the prompt.
AfterNothing == "loop"

AfterCommand == "prompt"

\* The command runs and prints, or there was nothing in the line.
InputLine ==
  /\ At("input_line")
  /\ \/ Goto(AfterCommand) /\ UNCHANGED back
     \/ Enter("print", "prompt")
  /\ UNCHANGED <<lockvars, data, datavars, devvars>>

Kmain ==
  \/ SetMask \/ Start \/ Log \/ PrintOut \/ Prompt \/ LoopTop \/ Pop \/ EnableLoop
  \/ EnableAndHlt \/ TimerHandler \/ KeyboardHandler \/ Getline \/ InputLine

-----------------------------------------------------------------------------

\* The 8259 interrupts the processor with its most urgent request, if that is
\* more urgent than everything in service.
Deliver(irq) ==
  /\ irq \in pic.irr \cap pic.unmasked
  /\ \A i \in (pic.irr \cap pic.unmasked) \cup pic.isr : i >= irq
  /\ irq \notin pic.isr
  /\ Lock!Interrupt
  /\ pic' = [pic EXCEPT !.irr = @ \ {irq}, !.isr = @ \cup {irq}]
  /\ pc' = [pc EXCEPT ![depth + 1] = IF irq = TIMER THEN "deref" ELSE "read_port"]
  /\ back' = [back EXCEPT ![depth + 1] = "push"]
  /\ data' = [data EXCEPT ![depth + 1] = Timer]
  /\ UNCHANGED <<datavars, port, typed, sent, fired, merged>>

\* keyboard_int_handler reads the scancode first.
ReadPort ==
  /\ At("read_port")
  /\ data' = [data EXCEPT ![depth] = port]
  /\ port' = 0
  /\ Enter("deref", "push")
  /\ UNCHANGED <<lockvars, datavars, pic, typed, sent, fired, merged>>

\* Fault seed: a full queue makes room by dropping its oldest message.
TryPushForce == queue' = Q!push_force(queue, data[depth]) /\ UNCHANGED dropped

TryPush ==
  IF Q!len(queue) < BUFFER_SIZE
  THEN queue' = Q!push(queue, data[depth]) /\ UNCHANGED dropped
  ELSE dropped' = Append(dropped, data[depth]) /\ UNCHANGED queue

\* intmsg_push: the message is lost when the queue is full.
Push ==
  \/ Begin("push", "QUEUE", "try_push")
  \/ /\ Drop("try_push")
     /\ TryPush
     /\ Goto("send_eoi")
     /\ UNCHANGED <<back, data, once, pic_lock, kbd_lock, term, ticks, keys, shown, devvars>>

\* Fault seed: the end of interrupt is never written to the 8259.
InServiceStill(isr) == isr

\* The end of interrupt is for what is most urgent.
InService(isr) == {i \in isr : \E j \in isr : j < i}

\* send_eoi under the spin lock PIC.
SendEoi ==
  \/ /\ At("send_eoi")
     /\ pic_lock = 0
     /\ pic_lock' = depth
     /\ Goto("end_of_interrupt")
     /\ UNCHANGED <<lockvars, back, data, queue, once, kbd_lock, term, ticks, keys, shown,
                    dropped, devvars>>
  \/ /\ At("end_of_interrupt")
     /\ pic_lock' = 0
     /\ pic' = [pic EXCEPT !.isr = InService(@)]
     /\ Goto("iretq")
     /\ UNCHANGED <<lockvars, back, data, queue, once, kbd_lock, term, ticks, keys, shown,
                    dropped, port, typed, sent, fired, merged>>

\* Returning from the interrupt also ends a hlt.
Iretq ==
  /\ At("iretq")
  /\ Lock!Iretq
  /\ pc' = [pc EXCEPT ![depth - 1] = IF @ = "halted" THEN "loop" ELSE @]
  /\ UNCHANGED <<back, data, datavars, devvars>>

Handler == ReadPort \/ Push \/ SendEoi \/ Iretq

-----------------------------------------------------------------------------

\* Where Rust code that may panic runs: the terminal under its lock, and the
\* commands of the shell.
Fallible == {"log_drop_com1", "print_drop", "process_input_drop", "getline_drop",
             "input_line", "panic_drop"}

\* panic!(), also from inside the panic handler's own write.
Panic ==
  /\ Panics
  /\ pc[depth] \in Fallible
  /\ pc[depth] = "panic_drop" => Len(guards[depth]) > floor
  /\ Lock!Panic
  /\ Goto("panic")
  /\ UNCHANGED <<back, data, datavars, devvars>>

\* A processor exception, or an interrupt with no driver: the handler panics.
Fault ==
  /\ Panics
  /\ Lock!Fault
  /\ pc' = [pc EXCEPT ![depth + 1] = "panic"]
  /\ UNCHANGED <<back, data, datavars, devvars>>

\* Fault seed: the panic handler waits for TERM.
PanicLocks == "lock"

PanicTries == "try_lock"

\* The panic handler writes through TERM if it can have it, and straight to
\* the screen otherwise, then halts for ever.
PanicHandler ==
  \/ /\ At("panic")
     /\ Lock!CallLock("TERM", PanicTries)
     /\ Goto("panic_drop")
     /\ UNCHANGED <<back, data, datavars, devvars>>
  \/ /\ At("panic_drop")
     /\ shown' = TRUE
     /\ IF Len(guards[depth]) > floor THEN Lock!Release ELSE UNCHANGED lockvars
     /\ Goto("panic_halt")
     /\ UNCHANGED <<back, data, queue, once, pic_lock, kbd_lock, term, ticks, keys, dropped,
                    devvars>>

-----------------------------------------------------------------------------

\* The PIT raises its line; a request that is already latched absorbs it.
TimerFires ==
  /\ fired < MaxTimer
  /\ fired' = fired + 1
  /\ merged' = IF TIMER \in pic.irr THEN merged + 1 ELSE merged
  /\ pic' = [pic EXCEPT !.irr = @ \cup {TIMER}]
  /\ UNCHANGED <<lockvars, progvars, datavars, port, typed, sent>>

Type(k) ==
  /\ Len(typed) < MaxKeys
  /\ typed' = Append(typed, k)
  /\ UNCHANGED <<lockvars, progvars, datavars, pic, port, sent, fired, merged>>

\* The 8042 shows the next scancode once the last one was read.
Scancode ==
  /\ port = 0
  /\ sent < Len(typed)
  /\ port' = sent + 1
  /\ sent' = sent + 1
  /\ pic' = [pic EXCEPT !.irr = @ \cup {KEYBOARD}]
  /\ UNCHANGED <<lockvars, progvars, datavars, typed, fired, merged>>

Program == LockStep \/ Deref \/ Kmain \/ Handler \/ PanicHandler

Next ==
  \/ Program
  \/ \E irq \in {TIMER, KEYBOARD} : Deliver(irq)
  \/ Panic \/ Fault
  \/ TimerFires \/ Scancode \/ \E k \in Decoded : Type(k)

\* The processor executes, takes the interrupts it is offered, and the 8042
\* passes on what is typed.  Nobody has to type, no timer has to fire.
Fairness ==
  /\ WF_vars(Program)
  /\ WF_vars(Scancode)
  /\ \A irq \in {TIMER, KEYBOARD} : WF_vars(Deliver(irq))

Spec == Init /\ [][Next]_vars /\ Fairness

-----------------------------------------------------------------------------

\* Where kmain, an interrupt handler and the panic handler can be.
KmainLabels ==
  {"set_mask", "write_masks", "enable", "log", "log_com1", "log_drop_com1", "log_drop_term",
   "log_done", "prompt", "print", "print_drop", "start_inputting", "start_inputting_drop",
   "loop", "deref", "build", "pop", "try_pop", "enable_loop", "enable_and_hlt", "halted",
   "match", "process_input", "process_input_drop", "unlock_keyboard", "getline",
   "getline_drop", "input_line"}
HandlerLabels ==
  {"read_port", "deref", "build", "push", "try_push", "send_eoi", "end_of_interrupt", "iretq"}
PanicLabels == {"panic", "panic_drop", "panic_halt"}
Label == KmainLabels \cup HandlerLabels \cup PanicLabels

\* The queue is a RingBuffer whose indices are in range, contexts hold
\* messages, and the 8042 shows a scancode that was typed.
TypeOK ==
  /\ pc \in [Context -> Label]
  /\ back \in [Context -> Label]
  /\ data \in [Context -> Message]
  /\ queue \in Q!Ring
  /\ once \in {"Incomplete", "Running", "Complete"}
  /\ pic_lock \in 0 .. MaxDepth
  /\ kbd_lock \in 0 .. MaxDepth
  /\ term \in [input_status : {"Waiting", "Inputting"}, line : BOOLEAN]
  /\ pic \in [irr : SUBSET {TIMER, KEYBOARD}, isr : SUBSET {TIMER, KEYBOARD},
              unmasked : SUBSET {TIMER, KEYBOARD}]
  /\ port \in Message
  /\ typed \in Seq(Decoded)
  /\ sent \in 0 .. Len(typed)
  /\ keys \in Seq(Message)
  /\ dropped \in Seq(Message)
  /\ {ticks, fired, merged} \subseteq Nat
  /\ shown \in BOOLEAN

\* kmain and the handlers use their IrqMutexes as that module asks: what is
\* shown of IrqMutex (no spinning, holders run with interrupts off, the flag
\* is restored) holds of the kernel.
ImplementsIrqMutex == Lock!Spec

\* Nobody ever waits for a lock that cannot be released while they wait: the
\* spin locks PIC and KEYBOARD, which do not mask interrupts, and the Once of
\* QUEUE are free whenever kmain or a handler comes for them.
\* A handler is never interrupted by another one, so one stack frame and one
\* interrupt in service are all there is until something panics.
NothingSpins ==
  /\ At("deref") => once # "Running"
  /\ At("set_mask") \/ At("send_eoi") => pic_lock = 0
  /\ At("match") /\ data[depth] # Timer => kbd_lock = 0
  /\ ~ dead => depth <= 2 /\ Cardinality(pic.isr) <= depth - 1

\* The message a context has taken and not yet passed on.
Carried(d, labels) == IF pc[d] \in labels THEN <<data[d]>> ELSE <<>>
ByKmain == Carried(1, {"enable_loop", "match"})
ByHandler == IF MaxDepth > 1 THEN Carried(2, {"deref", "build", "push", "try_push"}) ELSE <<>>

\* Every message on its way, the oldest first.
InFlight == ByKmain \o Q!Contents(queue) \o ByHandler

\* The scancodes that were handled, then those on their way up to the 8042,
\* with the timer messages between them.
Stream == keys \o InFlight \o (IF port = 0 THEN <<>> ELSE <<port>>)

IsKey(m) == m # Timer

KeysAscend(s) == \A i, j \in DOMAIN s : i < j /\ IsKey(s[i]) /\ IsKey(s[j]) => s[i] < s[j]

\* Scancodes reach keyboard_handler in the order they were typed, each once,
\* and none is missing except those a full queue refused.  Every key finds the
\* terminal reading with no completed line left: kmain takes the line and
\* prompts again before it looks at the next message, so process_input
\* ignores no key.
KeysDelivered ==
  /\ TypeOK
  /\ KeysAscend(Stream)
  /\ {m \in Range(Stream) \cup Range(dropped) : IsKey(m)} = 1 .. sent
  /\ \A m \in Range(Stream) \cap Range(dropped) : ~ IsKey(m)
  /\ \A m \in Range(keys) : IsKey(m)
  /\ At("process_input_drop") => term.input_status = "Inputting" /\ ~ term.line

TimersIn(s) == Cardinality({i \in DOMAIN s : s[i] = Timer})

\* TICK_COUNTER lags behind the timer only by what is on its way, what the
\* 8259 merged and what a full queue refused: no tick is counted twice, none
\* disappears in the handler, the queue or the loop.
TicksCounted ==
  fired = ticks + merged + Cardinality(pic.irr \cap {TIMER}) + TimersIn(InFlight \o dropped)

\* The processor never sleeps on a message: when kmain is halted with no
\* handler on top of it, the queue is empty.
NoLostWakeup == depth = 1 /\ pc[1] = "halted" => queue.empty

\* Every scancode typed reaches keyboard_handler, or is dropped by a full queue.
KeysHandled ==
  \A k \in 1 .. MaxKeys :
    Len(typed) >= k ~> k \in Range(keys) \cup Range(dropped) \/ dead

\* Every completed line is taken and answered with a new prompt.
LinesAnswered == term.line ~> (term.input_status = "Inputting" /\ ~ term.line) \/ dead

\* A panic is always reported, wherever it strikes: also with TERM held, also
\* from inside the report itself.
PanicShown == dead ~> shown

=============================================================================
