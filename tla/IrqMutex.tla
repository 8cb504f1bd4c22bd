------------------------------ MODULE IrqMutex ------------------------------
(***************************************************************************)
(* IrqMutex<T> of kernel/src/irq_mutex.rs on one processor: a spin lock    *)
(* that turns interrupts off while it is held, and the interrupt entry and *)
(* return that interleave with it.                                         *)
(*                                                                         *)
(* Contexts are numbered by their depth on the stack: 1 is kmain, d + 1 is *)
(* the handler that interrupted d.  Only the deepest one runs.  A context  *)
(* is arbitrary code that keeps the discipline of the kernel's: it does    *)
(* not lock what it already holds, guards die in the reverse order of      *)
(* their creation (Rust scopes), only kmain touches the interrupt flag by  *)
(* hand and only with no guard alive, and a panic never returns and only   *)
(* ever uses try_lock.                                                     *)
(***************************************************************************)
EXTENDS Integers, Sequences

CONSTANTS Mutex,     \* the IrqMutexes of the kernel
          NoMutex,   \* not one of them
          MaxDepth   \* bound on the number of nested contexts

ASSUME NoMutexAssumption == NoMutex \notin Mutex

ASSUME DepthAssumption == MaxDepth \in Nat \ {0}

VARIABLES intf,     \* RFLAGS.IF
          depth,    \* the context that runs
          owner,    \* owner[m]: the context that holds the inner spin lock, 0 if none
          guards,   \* guards[d]: the live IrqMutexGuards of d, oldest first
          call,     \* call[d]: the lock, try_lock or drop that d is in the middle of
          dead,     \* the panic handler has been entered
          floor,    \* how many guards of the panicking context it will never drop
          asked     \* history: the last of enable() and disable() kmain called

vars == <<intf, depth, owner, guards, call, dead, floor, asked>>

Context == 1 .. MaxDepth

\* InterruptGuard is the saved flag alone.
Guard == [mutex : Mutex, saved_intpt_flag : BOOLEAN]

\* The program points inside the calls:
\*   lock, try_lock   are_enabled() was read, disable() is next (InterruptGuard::lock)
\*   inner, try_inner interrupts are off, the inner lock() or try_lock() is next
\*   restore          the inner guard is gone (or was never had), the
\*                    InterruptGuard is dropped next
Phase == {"idle", "lock", "try_lock", "inner", "try_inner", "restore"}

Call == [phase : Phase, mutex : Mutex \cup {NoMutex}, saved : BOOLEAN]
Idle == [phase |-> "idle", mutex |-> NoMutex, saved |-> FALSE]

Init ==
  /\ intf = FALSE
  /\ depth = 1
  /\ owner = [m \in Mutex |-> 0]
  /\ guards = [d \in Context |-> <<>>]
  /\ call = [d \in Context |-> Idle]
  /\ dead = FALSE
  /\ floor = 0
  /\ asked = FALSE

Running == call[depth]

Holds(d, m) == \E i \in 1 .. Len(guards[d]) : guards[d][i].mutex = m

-----------------------------------------------------------------------------

\* lock() and try_lock() begin with InterruptGuard::lock(), which reads the
\* flag here and clears it in Disable.
CallLock(m, entry) ==
  /\ Running.phase = "idle"
  /\ call' = [call EXCEPT ![depth] = [phase |-> entry, mutex |-> m, saved |-> intf]]
  /\ UNCHANGED <<intf, depth, owner, guards, dead, floor, asked>>

\* The call as a disciplined context makes it.
Begin(m, entry) ==
  /\ entry = "lock" => ~ dead /\ ~ Holds(depth, m)
  /\ CallLock(m, entry)

\* Fault seed: the lock is taken with interrupts left on.
DisableNot ==
  /\ Running.phase \in {"lock", "try_lock"}
  /\ call' = [call EXCEPT ![depth].phase =
                IF @ = "lock" THEN "inner" ELSE "try_inner"]
  /\ UNCHANGED <<intf, depth, owner, guards, dead, floor, asked>>

Disable ==
  /\ Running.phase \in {"lock", "try_lock"}
  /\ intf' = IF Running.saved THEN FALSE ELSE intf
  /\ call' = [call EXCEPT ![depth].phase =
                IF @ = "lock" THEN "inner" ELSE "try_inner"]
  /\ UNCHANGED <<depth, owner, guards, dead, floor, asked>>

\* The inner lock is free: both calls return an IrqMutexGuard.
Acquire ==
  /\ Running.phase \in {"inner", "try_inner"}
  /\ owner[Running.mutex] = 0
  /\ owner' = [owner EXCEPT ![Running.mutex] = depth]
  /\ guards' = [guards EXCEPT ![depth] = Append(@,
       [mutex |-> Running.mutex, saved_intpt_flag |-> Running.saved])]
  /\ call' = [call EXCEPT ![depth] = Idle]
  /\ UNCHANGED <<intf, depth, dead, floor, asked>>

\* The inner lock is taken: lock() keeps spinning (no step), try_lock()
\* returns None and drops its InterruptGuard on the way out.
Refuse ==
  /\ Running.phase = "try_inner"
  /\ owner[Running.mutex] # 0
  /\ call' = [call EXCEPT ![depth].phase = "restore"]
  /\ UNCHANGED <<intf, depth, owner, guards, dead, floor, asked>>

\* Fault seed: the flag is restored before the inner guard is dropped.
ReleaseLate ==
  LET n == Len(guards[depth])
      g == guards[depth][n]
  IN  /\ Running.phase = "idle"
      /\ n > floor
      /\ intf' = (g.saved_intpt_flag \/ intf)
      /\ guards' = [guards EXCEPT ![depth] = SubSeq(@, 1, n - 1)]
      /\ call' = [call EXCEPT ![depth] =
           [phase |-> "restore", mutex |-> NoMutex, saved |-> g.saved_intpt_flag]]
      /\ UNCHANGED <<depth, owner, dead, floor, asked>>

\* Drop for IrqMutexGuard: the inner guard first, then the InterruptGuard.
Release ==
  LET n == Len(guards[depth])
      g == guards[depth][n]
  IN  /\ Running.phase = "idle"
      /\ n > floor
      /\ owner' = [owner EXCEPT ![g.mutex] = 0]
      /\ guards' = [guards EXCEPT ![depth] = SubSeq(@, 1, n - 1)]
      /\ call' = [call EXCEPT ![depth] =
           [phase |-> "restore", mutex |-> NoMutex, saved |-> g.saved_intpt_flag]]
      /\ UNCHANGED <<intf, depth, dead, floor, asked>>

\* Fault seed: the InterruptGuard turns interrupts on whatever it saved.
RestoreAlways ==
  /\ Running.phase = "restore"
  /\ intf' = TRUE
  /\ call' = [call EXCEPT ![depth] = Idle]
  /\ UNCHANGED <<depth, owner, guards, dead, floor, asked>>

Restore ==
  /\ Running.phase = "restore"
  /\ intf' = IF Running.saved THEN TRUE ELSE intf
  /\ call' = [call EXCEPT ![depth] = Idle]
  /\ UNCHANGED <<depth, owner, guards, dead, floor, asked>>

-----------------------------------------------------------------------------

\* interrupts::disable() and enable().
Cli ==
  /\ Running.phase = "idle"
  /\ intf' = FALSE
  /\ asked' = FALSE
  /\ UNCHANGED <<depth, owner, guards, call, dead, floor>>

Sti ==
  /\ Running.phase = "idle"
  /\ intf' = TRUE
  /\ asked' = TRUE
  /\ UNCHANGED <<depth, owner, guards, call, dead, floor>>

MayToggle == depth = 1 /\ ~ dead /\ guards[1] = <<>>

DisableInterrupts == MayToggle /\ Cli
EnableInterrupts == MayToggle /\ Sti

\* An interrupt gate: the handler starts with interrupts off.
Interrupt ==
  /\ intf
  /\ depth < MaxDepth
  /\ depth' = depth + 1
  /\ intf' = FALSE
  /\ UNCHANGED <<owner, guards, call, dead, floor, asked>>

\* iretq: the flag the handler interrupted with was set, or it would not have
\* been entered.
Iretq ==
  /\ depth > 1
  /\ Running.phase = "idle"
  /\ depth' = depth - 1
  /\ intf' = TRUE
  /\ UNCHANGED <<owner, guards, call, dead, floor, asked>>

\* A handler returns when it has dropped its guards, unless it panicked.
Return == ~ dead /\ guards[depth] = <<>> /\ Iretq

\* panic!() in the running context; without_interrupts clears the flag.
Panic ==
  /\ Running.phase = "idle"
  /\ dead' = TRUE
  /\ floor' = Len(guards[depth])
  /\ intf' = FALSE
  /\ UNCHANGED <<depth, owner, guards, call, asked>>

\* A processor exception, possible anywhere and with any flag: its handler,
\* entered through an interrupt gate, panics.
Fault ==
  /\ depth < MaxDepth
  /\ depth' = depth + 1
  /\ dead' = TRUE
  /\ floor' = 0
  /\ intf' = FALSE
  /\ UNCHANGED <<owner, guards, call, asked>>

Next ==
  \/ \E m \in Mutex, entry \in {"lock", "try_lock"} : Begin(m, entry)
  \/ Disable \/ Acquire \/ Refuse \/ Release \/ Restore
  \/ DisableInterrupts \/ EnableInterrupts
  \/ Interrupt \/ Return \/ Panic \/ Fault

Spec == Init /\ [][Next]_vars

-----------------------------------------------------------------------------

\* The context running is one of MaxDepth, every guard names its mutex and the
\* flag it saved, and owner names contexts.
TypeOK ==
  /\ intf \in BOOLEAN
  /\ depth \in Context
  /\ owner \in [Mutex -> 0 .. MaxDepth]
  /\ guards \in [Context -> Seq(Guard)]
  /\ call \in [Context -> Call]
  /\ dead \in BOOLEAN
  /\ floor \in Nat
  /\ asked \in BOOLEAN

\* lock() never spins: whenever a context is about to take the inner lock, no
\* one holds it.  On one processor a spin that has to wait would wait for a
\* context that cannot run, so this is the absence of deadlock on an IrqMutex,
\* kmain against the interrupt handlers and kmain against itself.
LockNeverSpins == Running.phase = "inner" => owner[Running.mutex] = 0

\* Until a panic, whoever holds an IrqMutex is the context that runs and
\* interrupts are off: a handler never sees data that kmain is changing.
HolderRunsMasked ==
  ~ dead => \A m \in Mutex : owner[m] # 0 => owner[m] = depth /\ ~ intf

\* The spin lock and the guards agree: a mutex is marked taken by exactly the
\* context that has a live guard of it, and there is only one such guard.
OneGuardPerMutex ==
  /\ \A m \in Mutex, d \in Context : owner[m] = d <=> Holds(d, m)
  /\ \A d \in Context : \A i, j \in 1 .. Len(guards[d]) :
       guards[d][i].mutex = guards[d][j].mutex => i = j

\* Once the panic handler runs, interrupts stay off: no guard it takes or
\* drops turns them on again, and its halt loop is never left.
PanicStaysMasked == dead => ~ intf

\* Critical sections leave the flag as they found it, however they nest and
\* whether try_lock succeeded: outside of them kmain runs with what it last
\* asked for with enable() or disable(), and a handler runs with interrupts off.
FlagRestored ==
  ~ dead /\ Running.phase = "idle" /\ guards[depth] = <<>> => intf = (depth = 1 /\ asked)

=============================================================================
