---------------------------- MODULE KernelProofs ----------------------------
(***************************************************************************)
(* Proofs about Kernel for every queue length, every nesting bound and any *)
(* number of interrupts and panics: that kmain and the handlers keep the   *)
(* discipline of IrqMutex, and what follows from it with what is proved of *)
(* IrqMutex.                                                               *)
(***************************************************************************)
EXTENDS KernelFlow

-----------------------------------------------------------------------------
(* Steps of a living kernel.                                               *)

\* The running context goes to l and keeps b to return to.
MoveTo(l, b) ==
  /\ pc' = [pc EXCEPT ![depth] = l]
  /\ back' = [back EXCEPT ![depth] = b]
  /\ depth' = depth /\ dead' = dead
  /\ \A d \in Context \ {depth} : guards'[d] = guards[d] /\ call'[d] = call[d]
  /\ Ctl(depth, l, b)
  /\ Grd(l, call'[depth], guards'[depth])
  /\ asked' = IF depth = 1 THEN l \notin Masked ELSE asked

\* What the step that leads to l leaves of the locks and the devices.
Leaves(l) ==
  /\ once' = "Running" => l = "build"
  /\ pic_lock' # 0 => l \in {"write_masks", "end_of_interrupt"}
  /\ kbd_lock' # 0 => IF depth = 1 THEN l \in WithKeyboard ELSE kbd_lock # 0
  /\ pic' \in Pic
  /\ depth = 1 => pic'.isr = {}
  /\ depth = 2 => IF l = "iretq" THEN pic'.isr = {} ELSE \E i \in Int : pic'.isr = {i}
  /\ depth = 1 /\ l \in {"enable_and_hlt", "halted"} => queue'.empty

\* Such a step keeps the invariant.
LEMMA Move ==
  ASSUME KInv, ~ dead, NEW l \in Label, NEW b \in Label, MoveTo(l, b), Leaves(l)
  PROVE  KernelInv'
<1>1. /\ depth \in Context /\ Context = 1 .. MaxDepth /\ MaxDepth \in Nat \ {0}
      /\ depth \in {1, 2} /\ (depth # 1 => asked)
  BY FromIrqMutex DEF KInv
<1>2. /\ pc \in [Context -> Label] /\ back \in [Context -> Label]
      /\ Contexts /\ Resources /\ Asleep
  BY DEF KInv, KernelInv
<1>3. /\ pc' \in [Context -> Label] /\ back' \in [Context -> Label]
      /\ pc'[depth] = l /\ back'[depth] = b
      /\ \A d \in Context \ {depth} : pc'[d] = pc[d] /\ back'[d] = back[d]
      /\ depth' = depth /\ ~ dead'
  BY <1>1, <1>2 DEF MoveTo
<1>4. Contexts'
  <2>1. ASSUME NEW d \in 1 .. depth
        PROVE  Ctl(d, pc'[d], back'[d]) /\ Grd(pc'[d], call'[d], guards'[d])
    <3>1. CASE d = depth
      BY <1>3, <3>1 DEF MoveTo
    <3>2. CASE d # depth
      <4>1. d \in Context \ {depth}
        BY <1>1, <3>2
      <4>2. guards'[d] = guards[d] /\ call'[d] = call[d] /\ pc'[d] = pc[d] /\ back'[d] = back[d]
        BY <1>3, <4>1 DEF MoveTo
      <4> QED
        BY <1>2, <4>2 DEF Contexts
    <3> QED
      BY <3>1, <3>2
  <2>2. asked' = (pc'[1] \notin Masked)
    <3>1. CASE depth = 1
      BY <1>3, <3>1 DEF MoveTo
    <3>2. CASE depth # 1
      <4>1. pc'[1] = pc[1]
        BY <1>1, <1>3, <3>2
      <4>2. asked' = asked
        BY <3>2, Zenon DEF MoveTo
      <4> QED
        BY <1>2, <4>1, <4>2 DEF Contexts
    <3> QED
      BY <3>1, <3>2
  <2> QED
    BY <1>3, <2>1, <2>2 DEF Contexts
<1>5. Resources'
  <2>1. kbd_lock' # 0 => pc'[1] \in WithKeyboard
    <3>1. CASE depth = 1
      BY <1>3, <3>1 DEF Leaves
    <3>2. CASE depth # 1
      BY <1>1, <1>2, <1>3, <3>2 DEF Leaves, Resources
    <3> QED
      BY <3>1, <3>2
  <2> QED
    BY <1>3, <2>1 DEF Leaves, Resources
<1>6. Asleep'
  <2>1. CASE depth = 1
    BY <1>3, <2>1 DEF Leaves, Asleep
  <2>2. CASE depth # 1
    <3>0. pc'[1] = pc[1]
      BY <1>1, <1>3, <2>2
    <3>1. pc[1] \notin Masked
      BY <1>1, <1>2, <2>2, Zenon DEF Contexts
    <3> QED
      BY <1>3, <2>2, <3>0, <3>1 DEF Asleep, Masked
  <2> QED
    BY <2>1, <2>2
<1> QED
  BY <1>3, <1>4, <1>5, <1>6 DEF KernelInv, Leaves

\* Between l and m none of the spin locks and devices are taken or left.
Plain(l, m) ==
  /\ l \notin {"build", "write_masks", "end_of_interrupt", "iretq"}
  /\ m \notin {"iretq", "enable_and_hlt", "halted"}
  /\ l \in WithKeyboard => m \in WithKeyboard

\* A step between such labels that does not touch them.
LEMMA PlainLeaves ==
  ASSUME KInv, ~ dead, NEW l, pc[depth] = l, NEW m, Plain(l, m),
         UNCHANGED <<once, pic_lock, kbd_lock, pic, queue>>
  PROVE  Leaves(m)
<1>1. depth \in {1, 2}
  BY FromIrqMutex DEF KInv
<1>2. Resources /\ pic \in Pic
  BY DEF KInv, KernelInv
<1> QED
  BY <1>1, <1>2 DEF Plain, Leaves, Resources

\* The step keeps the invariant of the kernel and is one that IrqMutex allows.
Keeps == KernelInv' /\ [Lock!Next]_lockvars

\* Code that holds no guard of an IrqMutex goes on from l to m.
Goes(l, m, b) ==
  /\ At(l) /\ UNCHANGED lockvars
  /\ pc' = [pc EXCEPT ![depth] = m] /\ back' = [back EXCEPT ![depth] = b]
  /\ l \notin PanicLabels /\ m \in Label /\ b \in Label
  /\ Count(l) = 0 /\ Count(m) = 0 /\ Ctl(depth, m, b)
  /\ depth = 1 => (l \in Masked <=> m \in Masked)
  /\ Leaves(m)

\* Such a step is in order.
LEMMA GoStep ==
  ASSUME KInv, NEW l, NEW m, NEW b, Goes(l, m, b)
  PROVE  Keeps
<1> USE DEF Goes
<1>1. /\ ~ dead /\ Grd(l, call[depth], guards[depth])
      /\ IF depth = 1 THEN asked = (l \notin Masked) ELSE asked
  BY Runs DEF At
<1>2. UNCHANGED <<intf, depth, owner, guards, call, dead, floor, asked>>
  BY DEF lockvars
<1>3. call[depth].phase = "idle"
  BY DEF At, Lock!Running
<1>4. Grd(m, call'[depth], guards'[depth])
  BY <1>1, <1>2, <1>3 DEF Grd
<1>5. asked' = IF depth = 1 THEN m \notin Masked ELSE asked
  BY <1>1, <1>2
<1>6. MoveTo(m, b)
  BY <1>2, <1>4, <1>5 DEF MoveTo
<1> QED
  BY <1>1, <1>6, Move DEF Keeps

\* lock() of x at l, which leads to m.
Leads(l, x, m) ==
  /\ x \in Mutex /\ Count(m) = Count(l) + 1 /\ x = Nth(m, Count(m))
  /\ \A i \in 1 .. Count(l) : Nth(l, i) # x /\ Nth(m, i) = Nth(l, i)
  /\ l \in Masked <=> m \in Masked
  /\ m \in Label /\ l \notin PanicLabels

\* lock() is called on an IrqMutex that the context does not hold.
LEMMA BeginStep ==
  ASSUME KInv, NEW l, NEW x, NEW m, Begin(l, x, m), Leads(l, x, m), Plain(l, m),
         Ctl(depth, m, back[depth])
  PROVE  Keeps
<1>1. /\ ~ dead /\ depth \in Context /\ Grd(l, call[depth], guards[depth])
      /\ back[depth] \in Label /\ back = [back EXCEPT ![depth] = back[depth]]
      /\ guards[depth] \in Seq(Lock!Guard)
      /\ IF depth = 1 THEN asked = (l \notin Masked) ELSE asked
  BY Runs DEF Begin, At, Leads
<1>2. /\ call[depth].phase = "idle" /\ Lock!CallLock(x, "lock") /\ pc[depth] = l
      /\ pc' = [pc EXCEPT ![depth] = m] /\ back' = back
      /\ UNCHANGED <<once, pic_lock, kbd_lock, pic, queue>>
  BY DEF Begin, At, Goto, Lock!Running, datavars, devvars
<1>3. /\ call' = [call EXCEPT ![depth] = [phase |-> "lock", mutex |-> x, saved |-> intf]]
      /\ UNCHANGED <<intf, depth, owner, guards, dead, floor, asked>>
  BY <1>2 DEF Lock!CallLock
<1>4. call \in [Context -> Lock!Call]
  BY FromIrqMutex DEF KInv
<1>5. Grd(m, call'[depth], guards'[depth])
  <2>1. call'[depth].phase = "lock" /\ call'[depth].mutex = x
    BY <1>1, <1>3, <1>4
  <2>2. Len(guards[depth]) = Count(l) /\ \A i \in 1 .. Count(l) : guards[depth][i].mutex = Nth(l, i)
    BY <1>1, <1>2 DEF Grd
  <2>3. Count(l) \in Nat
    BY DEF Count
  <2> QED
    BY <1>3, <2>1, <2>2, <2>3 DEF Grd, Leads
<1>6. asked' = IF depth = 1 THEN m \notin Masked ELSE asked
  BY <1>1, <1>3 DEF Leads
<1>7. MoveTo(m, back[depth])
  BY <1>1, <1>2, <1>3, <1>4, <1>5, <1>6 DEF MoveTo
<1>8. KernelInv'
  <2>1. Leaves(m)
    BY <1>1, <1>2, PlainLeaves
  <2>2. m \in Label
    BY DEF Leads
  <2> QED
    BY <1>1, <1>7, <2>1, <2>2, Move
<1>9. ~ Lock!Holds(depth, x)
  <2>1. \A i \in 1 .. Len(guards[depth]) : guards[depth][i].mutex # x
    BY <1>1, <1>2 DEF Grd, Leads
  <2> QED
    BY <2>1 DEF Lock!Holds
<1>10. Lock!Begin(x, "lock")
  BY <1>1, <1>2, <1>9 DEF Lock!Begin
<1> QED
  BY <1>8, <1>10 DEF Lock!Next, Leads, Keeps

\* A guard is dropped at l, and the context goes to m.
Drops(l, m) ==
  /\ At(l) /\ Lock!Release
  /\ pc' = [pc EXCEPT ![depth] = m] /\ UNCHANGED back
  /\ l \notin PanicLabels /\ m \in Label
  /\ Count(m) = Count(l) - 1 /\ \A i \in 1 .. Count(m) : Nth(m, i) = Nth(l, i)
  /\ Ctl(depth, m, back[depth])
  /\ depth = 1 => (l \in Masked <=> m \in Masked)
  /\ Leaves(m)

\* Such a step is in order.
LEMMA DropStep ==
  ASSUME KInv, NEW l, NEW m, Drops(l, m)
  PROVE  Keeps
<1> USE DEF Drops
<1> DEFINE n == Len(guards[depth])
           g == guards[depth][n]
<1>1. /\ ~ dead /\ depth \in Context /\ Grd(l, call[depth], guards[depth])
      /\ back[depth] \in Label /\ back = [back EXCEPT ![depth] = back[depth]]
      /\ guards[depth] \in Seq(Lock!Guard)
      /\ IF depth = 1 THEN asked = (l \notin Masked) ELSE asked
  BY Runs DEF At
<1>2. /\ call[depth].phase = "idle"
      /\ guards' = [guards EXCEPT ![depth] = SubSeq(@, 1, n - 1)]
      /\ call' = [call EXCEPT ![depth] =
                    [phase |-> "restore", mutex |-> NoMutex, saved |-> g.saved_intpt_flag]]
      /\ UNCHANGED <<intf, depth, dead, floor, asked>>
  BY DEF At, Lock!Running, Lock!Release
<1>3. call \in [Context -> Lock!Call] /\ guards \in [Context -> Seq(Lock!Guard)]
  BY FromIrqMutex DEF KInv
<1>4. Grd(m, call'[depth], guards'[depth])
  <2>1. call'[depth].phase = "restore" /\ guards'[depth] = SubSeq(guards[depth], 1, n - 1)
    BY <1>1, <1>2, <1>3
  <2>2. n = Count(l) /\ \A i \in 1 .. n : guards[depth][i].mutex = Nth(l, i)
    BY <1>1, <1>2 DEF Grd
  <2>3. n \in Nat /\ n >= 1
    <3>1. Count(m) \in Nat
      BY DEF Count
    <3>2. Count(l) \in Nat
      BY DEF Count
    <3> QED
      BY <2>2, <3>1, <3>2
  <2>4. /\ Len(guards'[depth]) = n - 1
        /\ \A i \in 1 .. n - 1 : guards'[depth][i] = guards[depth][i]
    BY <1>1, <2>1, <2>3
  <2> HIDE DEF n
  <2> QED
    BY <2>1, <2>2, <2>3, <2>4 DEF Grd
<1>5. asked' = IF depth = 1 THEN m \notin Masked ELSE asked
  BY <1>1, <1>2
<1>6. MoveTo(m, back[depth])
  BY <1>1, <1>2, <1>3, <1>4, <1>5 DEF MoveTo
<1>7. KernelInv'
  BY <1>1, <1>6, Move
<1> QED
  BY <1>7 DEF Lock!Next, Keeps

\* kmain turns interrupts on or off by hand, with no guard alive.
Toggles(l, m, b) ==
  /\ At(l)
  /\ \/ Lock!Cli /\ m \in Masked
     \/ Lock!Sti /\ m \notin Masked
  /\ pc' = [pc EXCEPT ![depth] = m] /\ back' = [back EXCEPT ![depth] = b]
  /\ l \notin PanicLabels /\ l \notin HandlerLabels /\ m \in Label /\ b \in Label
  /\ Count(l) = 0 /\ Count(m) = 0 /\ Ctl(1, m, b)
  /\ Leaves(m)

\* Such a step is in order.
LEMMA ToggleStep ==
  ASSUME KInv, NEW l, NEW m, NEW b, Toggles(l, m, b)
  PROVE  Keeps
<1> USE DEF Toggles
<1>1. /\ ~ dead /\ depth \in {1, 2} /\ Ctl(depth, l, back[depth]) /\ Grd(l, call[depth], guards[depth])
      /\ guards[depth] \in Seq(Lock!Guard)
  BY Runs DEF At
<1>2. depth = 1
  BY <1>1 DEF Ctl
<1>3. call[depth].phase = "idle"
  BY DEF At, Lock!Running
<1>4. UNCHANGED <<depth, owner, guards, call, dead, floor>> /\ asked' = (m \notin Masked)
  <2>1. CASE Lock!Cli /\ m \in Masked
    BY <2>1, Zenon DEF Lock!Cli
  <2>2. CASE Lock!Sti /\ m \notin Masked
    BY <2>2, Zenon DEF Lock!Sti
  <2> QED
    BY <2>1, <2>2
<1>5. Grd(m, call'[depth], guards'[depth])
  BY <1>1, <1>3, <1>4 DEF Grd
<1>6. MoveTo(m, b)
  BY <1>2, <1>4, <1>5 DEF MoveTo
<1>7. KernelInv'
  BY <1>1, <1>6, Move
<1>8. Lock!MayToggle
  <2>1. Len(guards[1]) = 0 /\ guards[1] \in Seq(Lock!Guard)
    BY <1>1, <1>2, <1>3 DEF Grd
  <2>2. guards[1] = <<>>
    BY <2>1
  <2> QED
    BY <1>1, <1>2, <2>2 DEF Lock!MayToggle
<1>9. Lock!Next
  <2>1. Lock!DisableInterrupts \/ Lock!EnableInterrupts
    BY <1>8 DEF Lock!DisableInterrupts, Lock!EnableInterrupts
  <2> QED
    BY <2>1 DEF Lock!Next
<1> QED
  BY <1>7, <1>9 DEF Keeps

\* A step that only moves the running context, between plain labels.
Walks(l, m, b) ==
  /\ At(l) /\ UNCHANGED <<lockvars, once, pic_lock, kbd_lock, pic, queue>>
  /\ pc' = [pc EXCEPT ![depth] = m] /\ back' = [back EXCEPT ![depth] = b]
  /\ Plain(l, m)
  /\ l \notin PanicLabels /\ m \in Label /\ b \in Label
  /\ Count(l) = 0 /\ Count(m) = 0 /\ Ctl(depth, m, b)
  /\ depth = 1 => (l \in Masked <=> m \in Masked)

\* Such a step is in order.
LEMMA WalkStep ==
  ASSUME KInv, NEW l, NEW m, NEW b, Walks(l, m, b)
  PROVE  Keeps
<1>1. ~ dead /\ pc[depth] = l
  BY Runs DEF Walks, At
<1>2. Plain(l, m) /\ UNCHANGED <<once, pic_lock, kbd_lock, pic, queue>>
  BY DEF Walks
<1>3. Leaves(m)
  BY <1>1, <1>2, PlainLeaves
<1>4. Goes(l, m, b)
  BY <1>3 DEF Walks, Goes
<1> QED
  BY <1>4, GoStep

\* A guard is dropped between plain labels.
Unlocks(l, m) ==
  /\ At(l) /\ Lock!Release
  /\ pc' = [pc EXCEPT ![depth] = m] /\ UNCHANGED back
  /\ UNCHANGED <<once, pic_lock, kbd_lock, pic, queue>>
  /\ Plain(l, m)
  /\ l \notin PanicLabels /\ m \in Label
  /\ Count(m) = Count(l) - 1 /\ \A i \in 1 .. Count(m) : Nth(m, i) = Nth(l, i)
  /\ Ctl(depth, m, back[depth])
  /\ depth = 1 => (l \in Masked <=> m \in Masked)

\* Such a step is in order.
LEMMA UnlockStep ==
  ASSUME KInv, NEW l, NEW m, Unlocks(l, m)
  PROVE  Keeps
<1>1. ~ dead /\ pc[depth] = l
  BY Runs DEF Unlocks, At
<1>2. Plain(l, m) /\ UNCHANGED <<once, pic_lock, kbd_lock, pic, queue>>
  BY DEF Unlocks
<1>3. Leaves(m)
  BY <1>1, <1>2, PlainLeaves
<1>4. Drops(l, m)
  BY <1>3 DEF Unlocks, Drops
<1> QED
  BY <1>4, DropStep

-----------------------------------------------------------------------------
(* The actions one by one.                                                 *)

\* set_mask takes and leaves PIC before interrupts are first enabled.
LEMMA SetMaskStep == KInv /\ SetMask => Keeps
<1> SUFFICES ASSUME KInv, SetMask PROVE Keeps
  OBVIOUS
<1> DEFINE b == back[depth]
<1> USE DEF Goto
<1>1. ASSUME At("set_mask"), pic_lock' = depth, Goto("write_masks"),
             UNCHANGED <<lockvars, back, queue, once, kbd_lock, devvars>>
      PROVE  Keeps
  <2> DEFINE l == "set_mask"
             m == "write_masks"
  <2>1. /\ ~ dead /\ depth \in {1, 2} /\ Ctl(depth, l, b) /\ b \in Label
        /\ back = [back EXCEPT ![depth] = b]
    BY <1>1, Runs DEF At, PanicLabels
  <2>2. depth = 1
    BY <2>1 DEF Ctl, HandlerLabels
  <2>3. Leaves(m)
    <3>1. Resources /\ pic \in Pic
      BY <2>1 DEF KInv, KernelInv
    <3> QED
      BY <1>1, <2>2, <3>1 DEF Resources, Leaves, devvars, WithKeyboard, At
  <2>4. Ctl(depth, m, b) /\ Count(l) = 0 /\ Count(m) = 0 /\ l \in Masked /\ m \in Masked
    BY <2>2 DEF Ctl, Count, KmainLabels, Masked
  <2>5. Goes(l, m, b)
    <3>1. UNCHANGED lockvars /\ UNCHANGED back
      BY <1>1
    <3>2. At(l) /\ pc' = [pc EXCEPT ![depth] = m]
      BY <1>1
    <3>3. back' = [back EXCEPT ![depth] = b]
      BY <2>1, <3>1
    <3>4. l \notin PanicLabels /\ m \in Label
      BY DEF PanicLabels, Label, KmainLabels
    <3> HIDE DEF l, m, b
    <3> QED
    BY <3>1, <3>2, <3>3, <3>4, <2>1, <2>3, <2>4 DEF Goes
  <2> QED
    BY <2>5, GoStep
<1>2. ASSUME At("write_masks"), pic_lock' = 0, pic' = [pic EXCEPT !.unmasked = {TIMER, KEYBOARD}],
             Goto("enable"), UNCHANGED <<lockvars, back, queue, once, kbd_lock>>
      PROVE  Keeps
  <2> DEFINE l == "write_masks"
             m == "enable"
  <2>1. /\ ~ dead /\ depth \in {1, 2} /\ Ctl(depth, l, b) /\ b \in Label
        /\ back = [back EXCEPT ![depth] = b]
    BY <1>2, Runs DEF At, PanicLabels
  <2>2. depth = 1
    BY <2>1 DEF Ctl, HandlerLabels
  <2>3. Leaves(m)
    <3>1. Resources /\ pic \in Pic
      BY <2>1 DEF KInv, KernelInv
    <3>2. pic' \in Pic /\ pic'.isr = pic.isr
      BY <1>2, <3>1 DEF Pic, TIMER, KEYBOARD
    <3> QED
      BY <1>2, <2>2, <3>1, <3>2 DEF Resources, Leaves, WithKeyboard, At
  <2>4. Ctl(depth, m, b) /\ Count(l) = 0 /\ Count(m) = 0 /\ l \in Masked /\ m \in Masked
    BY <2>2 DEF Ctl, Count, KmainLabels, Masked
  <2>5. Goes(l, m, b)
    <3>1. UNCHANGED lockvars /\ UNCHANGED back
      BY <1>2
    <3>2. At(l) /\ pc' = [pc EXCEPT ![depth] = m]
      BY <1>2
    <3>3. back' = [back EXCEPT ![depth] = b]
      BY <2>1, <3>1
    <3>4. l \notin PanicLabels /\ m \in Label
      BY DEF PanicLabels, Label, KmainLabels
    <3> HIDE DEF l, m, b
    <3> QED
      BY <3>1, <3>2, <3>3, <3>4, <2>1, <2>3, <2>4 DEF Goes
  <2> QED
    BY <2>5, GoStep
<1> QED
  BY <1>1, <1>2 DEF SetMask

\* The two log!()s after enable(), which finds no guard alive.
LEMMA StartStep == KInv /\ Start => Keeps
<1> SUFFICES ASSUME KInv, Start PROVE Keeps
  OBVIOUS
<1> USE DEF Enter
<1>1. ASSUME At("enable"), Lock!Sti, Enter("log", "log_done"), UNCHANGED <<datavars, devvars>>
      PROVE  Keeps
  <2>1. depth = 1 /\ ~ dead
    BY <1>1, InKmain DEF KmainLabels, HandlerLabels
  <2>2. Plain("enable", "log") /\ UNCHANGED <<once, pic_lock, kbd_lock, pic, queue>>
    BY <1>1 DEF Plain, WithKeyboard, datavars, devvars
  <2>3. Leaves("log")
    BY <1>1, <2>1, <2>2, PlainLeaves DEF At
  <2>4. Toggles("enable", "log", "log_done")
    BY <1>1, <2>1, <2>3
       DEF Toggles, Masked, PanicLabels, HandlerLabels, Label, KmainLabels, Count, Ctl
  <2> QED
    BY <2>4, ToggleStep
<1>2. ASSUME At("log_done"), Enter("log", "prompt"), UNCHANGED <<lockvars, datavars, devvars>>
      PROVE  Keeps
  <2>1. depth = 1
    BY <1>2, InKmain DEF KmainLabels, HandlerLabels
  <2>2. Walks("log_done", "log", "prompt")
    BY <1>2, <2>1 DEF Walks, Plain, WithKeyboard, datavars, devvars, Masked, PanicLabels, Label,
                      KmainLabels, Count, Ctl
  <2> QED
    BY <2>2, WalkStep
<1> QED
  BY <1>1, <1>2 DEF Start

\* _log: TERM and COM1 nest.
LEMMA LogStep == KInv /\ Log => Keeps
<1> SUFFICES ASSUME KInv, Log PROVE Keeps
  OBVIOUS
<1> USE DEF KmainLabels, HandlerLabels, PanicLabels, Label, Masked, WithKeyboard, Plain, Count
<1>1. ASSUME Begin("log", "TERM", "log_com1") PROVE Keeps
  <2>1. depth = 1 /\ Ctl(1, "log", back[1])
    BY <1>1, InKmain DEF Begin
  <2>2. Leads("log", "TERM", "log_com1") /\ Plain("log", "log_com1")
    BY DEF Leads, Nth, Mutex
  <2>3. Ctl(depth, "log_com1", back[depth])
    BY <2>1 DEF Ctl
  <2> QED
    BY <1>1, <2>2, <2>3, BeginStep
<1>2. ASSUME Begin("log_com1", "COM1", "log_drop_com1") PROVE Keeps
  <2>1. depth = 1 /\ Ctl(1, "log_com1", back[1])
    BY <1>2, InKmain DEF Begin
  <2>2. Leads("log_com1", "COM1", "log_drop_com1") /\ Plain("log_com1", "log_drop_com1")
    BY DEF Leads, Nth, Mutex
  <2>3. Ctl(depth, "log_drop_com1", back[depth])
    BY <2>1 DEF Ctl
  <2> QED
    BY <1>2, <2>2, <2>3, BeginStep
<1>3. ASSUME Drop("log_drop_com1"), Goto("log_drop_term"), UNCHANGED <<back, datavars, devvars>>
      PROVE  Keeps
  <2>1. depth = 1 /\ Ctl(1, "log_drop_com1", back[1])
    BY <1>3, InKmain DEF Drop
  <2>2. Unlocks("log_drop_com1", "log_drop_term")
    BY <1>3, <2>1 DEF Unlocks, Drop, Goto, Nth, Ctl, datavars, devvars
  <2> QED
    BY <2>2, UnlockStep
<1>4. ASSUME Drop("log_drop_term"), Leave, UNCHANGED <<back, datavars, devvars>>
      PROVE  Keeps
  <2>1. depth = 1 /\ Ctl(1, "log_drop_term", back[1])
    BY <1>4, InKmain DEF Drop
  <2>2. back[1] \in {"log_done", "prompt"}
    BY <2>1 DEF Ctl
  <2>3. Unlocks("log_drop_term", back[1])
    BY <1>4, <2>1, <2>2 DEF Unlocks, Drop, Leave, Goto, Nth, Ctl, datavars, devvars
  <2> QED
    BY <2>3, UnlockStep
<1> QED
  BY <1>1, <1>2, <1>3, <1>4 DEF Log

\* _print.
LEMMA PrintStep == KInv /\ PrintOut => Keeps
<1> SUFFICES ASSUME KInv, PrintOut PROVE Keeps
  OBVIOUS
<1> USE DEF KmainLabels, HandlerLabels, PanicLabels, Label, Masked, WithKeyboard, Plain, Count
<1>1. ASSUME Begin("print", "TERM", "print_drop") PROVE Keeps
  <2>1. depth = 1 /\ Ctl(1, "print", back[1])
    BY <1>1, InKmain DEF Begin
  <2>2. Leads("print", "TERM", "print_drop") /\ Plain("print", "print_drop")
    BY DEF Leads, Nth, Mutex
  <2>3. Ctl(depth, "print_drop", back[depth])
    BY <2>1 DEF Ctl
  <2> QED
    BY <1>1, <2>2, <2>3, BeginStep
<1>2. ASSUME Drop("print_drop"), Leave, UNCHANGED <<back, datavars, devvars>>
      PROVE  Keeps
  <2>1. depth = 1 /\ Ctl(1, "print_drop", back[1])
    BY <1>2, InKmain DEF Drop
  <2>2. back[1] \in {"start_inputting", "prompt"}
    BY <2>1 DEF Ctl
  <2>3. Unlocks("print_drop", back[1])
    BY <1>2, <2>1, <2>2 DEF Unlocks, Drop, Leave, Goto, Nth, Ctl, datavars, devvars
  <2> QED
    BY <2>3, UnlockStep
<1> QED
  BY <1>1, <1>2 DEF PrintOut

\* prompt.
LEMMA PromptStep == KInv /\ Prompt => Keeps
<1> SUFFICES ASSUME KInv, Prompt PROVE Keeps
  OBVIOUS
<1> USE DEF KmainLabels, HandlerLabels, PanicLabels, Label, Masked, WithKeyboard, Plain, Count
<1>1. ASSUME At("prompt"), Enter("print", "start_inputting"), UNCHANGED <<lockvars, datavars, devvars>>
      PROVE  Keeps
  <2>1. depth = 1
    BY <1>1, InKmain
  <2>2. Walks("prompt", "print", "start_inputting")
    BY <1>1, <2>1 DEF Walks, Enter, Ctl, datavars, devvars
  <2> QED
    BY <2>2, WalkStep
<1>2. ASSUME Begin("start_inputting", "TERM", "start_inputting_drop") PROVE Keeps
  <2>1. depth = 1
    BY <1>2, InKmain DEF Begin
  <2>2. /\ Leads("start_inputting", "TERM", "start_inputting_drop")
        /\ Plain("start_inputting", "start_inputting_drop")
    BY DEF Leads, Nth, Mutex
  <2>3. Ctl(depth, "start_inputting_drop", back[depth])
    BY <2>1 DEF Ctl
  <2> QED
    BY <1>2, <2>2, <2>3, BeginStep
<1>3. ASSUME Drop("start_inputting_drop"), Goto("loop"),
             UNCHANGED <<back, queue, once, pic_lock, kbd_lock, devvars>>
      PROVE  Keeps
  <2>1. depth = 1
    BY <1>3, InKmain DEF Drop
  <2>2. Unlocks("start_inputting_drop", "loop")
    BY <1>3, <2>1 DEF Unlocks, Drop, Goto, Nth, Ctl, devvars
  <2> QED
    BY <2>2, UnlockStep
<1> QED
  BY <1>1, <1>2, <1>3 DEF Prompt

\* The top of the loop turns interrupts off with no guard alive.
LEMMA LoopTopStep == KInv /\ LoopTop => Keeps
<1> SUFFICES ASSUME KInv, LoopTop PROVE Keeps
  OBVIOUS
<1> USE DEF KmainLabels, HandlerLabels, PanicLabels, Label, Masked, WithKeyboard, Plain, Count
<1>1. At("loop") /\ Lock!Cli /\ Enter("deref", "pop") /\ UNCHANGED <<datavars, devvars>>
  BY DEF LoopTop, LoopFlag
<1>2. depth = 1 /\ ~ dead
  BY <1>1, InKmain
<1>3. Plain("loop", "deref") /\ UNCHANGED <<once, pic_lock, kbd_lock, pic, queue>>
  BY <1>1 DEF datavars, devvars
<1>4. Leaves("deref")
  BY <1>1, <1>2, <1>3, PlainLeaves DEF At
<1>5. Toggles("loop", "deref", "pop")
  BY <1>1, <1>2, <1>4 DEF Toggles, Enter, Ctl
<1> QED
  BY <1>5, ToggleStep

\* The Once of QUEUE, in kmain with interrupts off or in a handler.
LEMMA DerefStep == KInv /\ Deref => Keeps
<1> SUFFICES ASSUME KInv, Deref PROVE Keeps
  OBVIOUS
<1> USE DEF KmainLabels, HandlerLabels, PanicLabels, Label, Masked, WithKeyboard, Plain, Count
<1> DEFINE b == back[depth]
<1>0. ASSUME NEW l \in {"deref", "build"}, At(l)
      PROVE  /\ ~ dead /\ depth \in {1, 2} /\ b \in Label /\ back = [back EXCEPT ![depth] = b]
             /\ b = IF depth = 1 THEN "pop" ELSE "push"
             /\ Ctl(depth, l, b) /\ Ctl(depth, b, b)
  <2>1. /\ ~ dead /\ depth \in {1, 2} /\ Ctl(depth, l, b) /\ b \in Label
        /\ back = [back EXCEPT ![depth] = b]
    BY <1>0, Runs DEF At
  <2>2. b = IF depth = 1 THEN "pop" ELSE "push"
    BY <2>1, <1>0 DEF Ctl
  <2> HIDE DEF b
  <2>3. Ctl(depth, b, b)
    BY <2>1, <2>2 DEF Ctl
  <2> QED
    BY <2>1, <2>2, <2>3
<1>1. ASSUME At("deref"), Leave, UNCHANGED <<lockvars, back, datavars, devvars>> PROVE Keeps
  <2>1. /\ ~ dead /\ depth \in {1, 2} /\ b \in Label /\ back = [back EXCEPT ![depth] = b]
        /\ b = IF depth = 1 THEN "pop" ELSE "push"
        /\ Ctl(depth, b, b)
    BY <1>0, <1>1
  <2>2. pc' = [pc EXCEPT ![depth] = b] /\ back' = back
    BY <1>1 DEF Leave, Goto
  <2> HIDE DEF b
  <2>3. Walks("deref", b, b)
    BY <1>1, <2>1, <2>2 DEF Walks, datavars, devvars
  <2> QED
    BY <2>3, WalkStep
<1>2. ASSUME At("deref"), once' = "Running", Goto("build"),
             UNCHANGED <<lockvars, back, queue, pic_lock, kbd_lock, devvars>>
      PROVE  Keeps
  <2>1. /\ ~ dead /\ depth \in {1, 2} /\ b \in Label /\ back = [back EXCEPT ![depth] = b]
        /\ b = IF depth = 1 THEN "pop" ELSE "push"
    BY <1>0, <1>2
  <2>2. pc' = [pc EXCEPT ![depth] = "build"] /\ back' = back
    BY <1>2 DEF Goto
  <2> HIDE DEF b
  <2>3. Resources /\ pic \in Pic
    BY <2>1 DEF KInv, KernelInv
  <2>4. Leaves("build")
    BY <1>2, <2>1, <2>3 DEF Leaves, Resources, At, devvars
  <2>5. Goes("deref", "build", b)
    BY <1>2, <2>1, <2>2, <2>4 DEF Goes, Ctl
  <2> QED
    BY <2>5, GoStep
<1>3. ASSUME At("build"), once' = "Complete", Leave,
             UNCHANGED <<lockvars, back, pic_lock, kbd_lock, devvars>>
      PROVE  Keeps
  <2>1. /\ ~ dead /\ depth \in {1, 2} /\ b \in Label /\ back = [back EXCEPT ![depth] = b]
        /\ b = IF depth = 1 THEN "pop" ELSE "push"
        /\ Ctl(depth, b, b)
    BY <1>0, <1>3
  <2>2. pc' = [pc EXCEPT ![depth] = b] /\ back' = back
    BY <1>3 DEF Leave, Goto
  <2> HIDE DEF b
  <2>3. Resources /\ pic \in Pic
    BY <2>1 DEF KInv, KernelInv
  <2>4. Leaves(b)
    BY <1>3, <2>1, <2>3 DEF Leaves, Resources, At, devvars
  <2>5. Goes("build", b, b)
    BY <1>3, <2>1, <2>2, <2>4 DEF Goes
  <2> QED
    BY <2>5, GoStep
<1> QED
  BY <1>1, <1>2, <1>3 DEF Deref, datavars

\* intmsg_pop: kmain goes to sleep only if the queue is empty.
LEMMA PopStep == KInv /\ Pop => Keeps
<1> SUFFICES ASSUME KInv, Pop PROVE Keeps
  OBVIOUS
<1> USE DEF KmainLabels, HandlerLabels, PanicLabels, Label, Masked, WithKeyboard, Plain, Count
<1>1. ASSUME Begin("pop", "QUEUE", "try_pop") PROVE Keeps
  <2>1. depth = 1
    BY <1>1, InKmain DEF Begin
  <2>2. Leads("pop", "QUEUE", "try_pop") /\ Plain("pop", "try_pop")
    BY DEF Leads, Nth, Mutex
  <2>3. Ctl(depth, "try_pop", back[depth])
    BY <2>1 DEF Ctl
  <2> QED
    BY <1>1, <2>2, <2>3, BeginStep
<1>2. ASSUME NEW m \in {"enable_and_hlt", "enable_loop"}, Drop("try_pop"), Goto(m),
             m = "enable_and_hlt" => queue'.empty,
             UNCHANGED <<back, once, pic_lock, kbd_lock, devvars>>
      PROVE  Keeps
  <2>1. depth = 1 /\ ~ dead
    BY <1>2, InKmain DEF Drop
  <2>2. Resources /\ pic \in Pic
    BY <2>1 DEF KInv, KernelInv
  <2>3. Leaves(m)
    BY <1>2, <2>1, <2>2 DEF Leaves, Resources, Drop, At, devvars
  <2>4. Drops("try_pop", m)
    BY <1>2, <2>1, <2>3 DEF Drops, Drop, Goto, Ctl
  <2> QED
    BY <2>4, DropStep
<1> QED
  BY <1>1, <1>2 DEF Pop

\* kmain turns interrupts on again, to handle a message or to sleep.
LEMMA EnableStep == KInv /\ (EnableLoop \/ EnableAndHlt) => Keeps
<1> SUFFICES ASSUME KInv, EnableLoop \/ EnableAndHlt PROVE Keeps
  OBVIOUS
<1> USE DEF KmainLabels, HandlerLabels, PanicLabels, Label, Masked, WithKeyboard, Plain, Count
<1> DEFINE b == back[1]
<1>1. ASSUME NEW l, NEW m, <<l, m>> \in {<<"enable_loop", "match">>, <<"enable_and_hlt", "halted">>},
             At(l), Lock!Sti, Goto(m), UNCHANGED <<back, datavars, devvars>>
      PROVE  Keeps
  <2>1. depth = 1 /\ ~ dead /\ b \in Label /\ back = [back EXCEPT ![1] = b]
    BY <1>1, InKmain
  <2>2. Resources /\ Asleep /\ pic \in Pic
    BY <2>1 DEF KInv, KernelInv
  <2>3. UNCHANGED <<once, pic_lock, kbd_lock, pic, queue>> /\ back' = back
    BY <1>1 DEF datavars, devvars
  <2>4. Leaves(m)
    BY <1>1, <2>1, <2>2, <2>3 DEF Leaves, Resources, Asleep, At
  <2> HIDE DEF b
  <2>5. Toggles(l, m, b)
    BY <1>1, <2>1, <2>3, <2>4 DEF Toggles, Goto, Ctl
  <2> QED
    BY <2>5, ToggleStep
<1> QED
  BY <1>1 DEF EnableLoop, EnableAndHlt

\* timer_handler.
LEMMA TimerStep == KInv /\ TimerHandler => Keeps
<1> SUFFICES ASSUME KInv, TimerHandler PROVE Keeps
  OBVIOUS
<1> USE DEF KmainLabels, HandlerLabels, PanicLabels, Label, Masked, WithKeyboard, Plain, Count
<1> DEFINE b == back[1]
<1>1. /\ At("match") /\ Goto("getline") /\ UNCHANGED lockvars /\ back' = back
      /\ UNCHANGED <<once, pic_lock, kbd_lock, pic, queue>>
  BY DEF TimerHandler, devvars
<1>2. depth = 1 /\ b \in Label /\ back = [back EXCEPT ![1] = b]
  BY <1>1, InKmain
<1> HIDE DEF b
<1>3. Walks("match", "getline", b)
  BY <1>1, <1>2 DEF Walks, Goto, Ctl
<1> QED
  BY <1>3, WalkStep

\* keyboard_handler: KEYBOARD is kmain's from "match" to "unlock_keyboard".
LEMMA KeyboardStep == KInv /\ KeyboardHandler => Keeps
<1> SUFFICES ASSUME KInv, KeyboardHandler PROVE Keeps
  OBVIOUS
<1> USE DEF KmainLabels, HandlerLabels, PanicLabels, Label, Masked, WithKeyboard, Plain, Count
<1> DEFINE b == back[1]
<1>1. ASSUME NEW l, NEW m, At(l), Goto(m), UNCHANGED <<lockvars, back, queue, once, pic_lock, devvars>>,
             \/ l = "match" /\ m \in {"unlock_keyboard", "process_input"}
             \/ l = "unlock_keyboard" /\ m = "getline" /\ kbd_lock' = 0
      PROVE  Keeps
  <2>1. depth = 1 /\ ~ dead /\ b \in Label /\ back = [back EXCEPT ![1] = b]
    BY <1>1, InKmain
  <2>2. Resources /\ pic \in Pic
    BY <2>1 DEF KInv, KernelInv
  <2>3. Leaves(m)
    BY <1>1, <2>1, <2>2 DEF Leaves, Resources, At, devvars
  <2> HIDE DEF b
  <2>4. UNCHANGED lockvars /\ back' = [back EXCEPT ![1] = b]
    BY <1>1, <2>1
  <2>5. Goes(l, m, b)
    BY <1>1, <2>1, <2>3, <2>4 DEF Goes, Goto, Ctl
  <2> QED
    BY <2>5, GoStep
<1>2. ASSUME Begin("process_input", "TERM", "process_input_drop") PROVE Keeps
  <2>1. depth = 1
    BY <1>2, InKmain DEF Begin
  <2>2. /\ Leads("process_input", "TERM", "process_input_drop")
        /\ Plain("process_input", "process_input_drop")
    BY DEF Leads, Nth, Mutex
  <2>3. Ctl(depth, "process_input_drop", back[depth])
    BY <2>1 DEF Ctl
  <2> QED
    BY <1>2, <2>2, <2>3, BeginStep
<1>3. ASSUME Drop("process_input_drop"), Goto("unlock_keyboard"),
             UNCHANGED <<back, queue, once, pic_lock, kbd_lock, devvars>>
      PROVE  Keeps
  <2>1. depth = 1
    BY <1>3, InKmain DEF Drop
  <2>2. Unlocks("process_input_drop", "unlock_keyboard")
    BY <1>3, <2>1 DEF Unlocks, Drop, Goto, Nth, Ctl, devvars
  <2> QED
    BY <2>2, UnlockStep
<1> QED
  BY <1>1, <1>2, <1>3 DEF KeyboardHandler

\* getline.
LEMMA GetlineStep == KInv /\ Getline => Keeps
<1> SUFFICES ASSUME KInv, Getline PROVE Keeps
  OBVIOUS
<1> USE DEF KmainLabels, HandlerLabels, PanicLabels, Label, Masked, WithKeyboard, Plain, Count
<1>1. ASSUME Begin("getline", "TERM", "getline_drop") PROVE Keeps
  <2>1. depth = 1
    BY <1>1, InKmain DEF Begin
  <2>2. Leads("getline", "TERM", "getline_drop") /\ Plain("getline", "getline_drop")
    BY DEF Leads, Nth, Mutex
  <2>3. Ctl(depth, "getline_drop", back[depth])
    BY <2>1 DEF Ctl
  <2> QED
    BY <1>1, <2>2, <2>3, BeginStep
<1>2. ASSUME NEW m \in {"input_line", "loop"}, At("getline_drop"), GetlineDrops, Goto(m),
             UNCHANGED <<back, queue, once, pic_lock, kbd_lock, devvars>>
      PROVE  Keeps
  <2>1. depth = 1
    BY <1>2, InKmain
  <2>2. Unlocks("getline_drop", m)
    BY <1>2, <2>1 DEF Unlocks, GetlineDrops, Goto, Nth, Ctl, devvars
  <2> QED
    BY <2>2, UnlockStep
<1> QED
  BY <1>1, <1>2 DEF Getline

\* A command, then the prompt.
LEMMA InputLineStep == KInv /\ InputLine => Keeps
<1> SUFFICES ASSUME KInv, InputLine PROVE Keeps
  OBVIOUS
<1> USE DEF KmainLabels, HandlerLabels, PanicLabels, Label, Masked, WithKeyboard, Plain, Count
<1>1. /\ At("input_line") /\ UNCHANGED lockvars
      /\ UNCHANGED <<once, pic_lock, kbd_lock, pic, queue>>
  BY DEF InputLine, datavars, devvars
<1>2. depth = 1 /\ back[1] \in Label /\ back = [back EXCEPT ![1] = back[1]]
  BY <1>1, InKmain
<1>3. CASE Goto("prompt") /\ UNCHANGED back
  <2> DEFINE b == back[1]
  <2>1. back' = [back EXCEPT ![1] = b] /\ b \in Label
    BY <1>2, <1>3
  <2> HIDE DEF b
  <2>2. Walks("input_line", "prompt", b)
    BY <1>1, <1>2, <1>3, <2>1, Zenon DEF Walks, Goto, Ctl
  <2> QED
    BY <2>2, WalkStep
<1>4. CASE Enter("print", "prompt")
  <2>1. Walks("input_line", "print", "prompt")
    BY <1>1, <1>2, <1>4 DEF Walks, Enter, Ctl
  <2> QED
    BY <2>1, WalkStep
<1> QED
  BY <1>3, <1>4 DEF InputLine, AfterCommand

\* keyboard_int_handler reads the scancode.
LEMMA ReadPortStep == KInv /\ ReadPort => Keeps
<1> SUFFICES ASSUME KInv, ReadPort PROVE Keeps
  OBVIOUS
<1> USE DEF KmainLabels, HandlerLabels, PanicLabels, Label, Masked, WithKeyboard, Plain, Count
<1>1. depth = 2 /\ At("read_port")
  BY InHandler DEF ReadPort
<1>2. Walks("read_port", "deref", "push")
  BY <1>1 DEF ReadPort, Walks, Enter, Ctl, datavars
<1> QED
  BY <1>2, WalkStep

\* intmsg_push.
LEMMA PushStep == KInv /\ Push => Keeps
<1> SUFFICES ASSUME KInv, Push PROVE Keeps
  OBVIOUS
<1> USE DEF KmainLabels, HandlerLabels, PanicLabels, Label, Masked, WithKeyboard, Plain, Count
<1>1. ASSUME Begin("push", "QUEUE", "try_push") PROVE Keeps
  <2>1. depth = 2
    BY <1>1, InHandler DEF Begin
  <2>2. Leads("push", "QUEUE", "try_push") /\ Plain("push", "try_push")
    BY DEF Leads, Nth, Mutex
  <2>3. Ctl(depth, "try_push", back[depth])
    BY <2>1 DEF Ctl
  <2> QED
    BY <1>1, <2>2, <2>3, BeginStep
<1>2. ASSUME Drop("try_push"), Goto("send_eoi"), UNCHANGED <<back, once, pic_lock, kbd_lock, devvars>>
      PROVE  Keeps
  <2>1. depth = 2 /\ ~ dead
    BY <1>2, InHandler DEF Drop
  <2>2. Resources /\ pic \in Pic
    BY <2>1 DEF KInv, KernelInv
  <2>3. Leaves("send_eoi")
    BY <1>2, <2>1, <2>2 DEF Leaves, Resources, Drop, At, devvars
  <2>4. Drops("try_push", "send_eoi")
    BY <1>2, <2>1, <2>3 DEF Drops, Drop, Goto, Ctl
  <2> QED
    BY <2>4, DropStep
<1> QED
  BY <1>1, <1>2 DEF Push

\* send_eoi: PIC is the handler's, and the one interrupt in service ends.
LEMMA SendEoiStep == KInv /\ SendEoi => Keeps
<1> SUFFICES ASSUME KInv, SendEoi PROVE Keeps
  OBVIOUS
<1> USE DEF KmainLabels, HandlerLabels, PanicLabels, Label, Masked, WithKeyboard, Plain, Count
<1> DEFINE b == back[2]
<1>1. ASSUME At("send_eoi"), Goto("end_of_interrupt"),
             UNCHANGED <<lockvars, back, queue, once, kbd_lock, devvars>>
      PROVE  Keeps
  <2>1. depth = 2 /\ ~ dead /\ b \in Label /\ back = [back EXCEPT ![2] = b]
    BY <1>1, InHandler
  <2>2. Resources /\ pic \in Pic
    BY <2>1 DEF KInv, KernelInv
  <2>3. Leaves("end_of_interrupt")
    BY <1>1, <2>1, <2>2 DEF Leaves, Resources, At, devvars
  <2> HIDE DEF b
  <2>4. UNCHANGED lockvars /\ back' = [back EXCEPT ![2] = b]
    BY <1>1, <2>1
  <2>5. Goes("send_eoi", "end_of_interrupt", b)
    BY <1>1, <2>1, <2>3, <2>4 DEF Goes, Goto, Ctl
  <2> QED
    BY <2>5, GoStep
<1>2. ASSUME At("end_of_interrupt"), pic_lock' = 0, pic' = [pic EXCEPT !.isr = InService(@)],
             Goto("iretq"), UNCHANGED <<lockvars, back, queue, once, kbd_lock>>
      PROVE  Keeps
  <2>1. depth = 2 /\ ~ dead /\ b \in Label /\ back = [back EXCEPT ![2] = b]
    BY <1>2, InHandler
  <2>2. Resources /\ pic \in Pic
    BY <2>1 DEF KInv, KernelInv
  <2>3. PICK i \in Int : pic.isr = {i}
    BY <1>2, <2>1, <2>2 DEF Resources, At
  <2>4. InService(pic.isr) = {}
    BY <2>3 DEF InService
  <2>5. pic' \in Pic /\ pic'.isr = {}
    BY <1>2, <2>2, <2>4 DEF Pic
  <2>6. Leaves("iretq")
    BY <1>2, <2>1, <2>2, <2>5 DEF Leaves, Resources, At
  <2> HIDE DEF b
  <2>7. UNCHANGED lockvars /\ back' = [back EXCEPT ![2] = b]
    BY <1>2, <2>1
  <2>8. Goes("end_of_interrupt", "iretq", b)
    BY <1>2, <2>1, <2>6, <2>7 DEF Goes, Goto, Ctl
  <2> QED
    BY <2>8, GoStep
<1> QED
  BY <1>1, <1>2 DEF SendEoi

\* iretq: the handler has no guard and no interrupt in service, and kmain is
\* where it was interrupted, or awake.
LEMMA IretqStep == KInv /\ Iretq => Keeps
<1> SUFFICES ASSUME KInv, Iretq PROVE Keeps
  OBVIOUS
<1> USE DEF KmainLabels, HandlerLabels, PanicLabels, Label
<1>1. At("iretq") /\ Lock!Iretq /\ UNCHANGED <<back, datavars, devvars>>
  BY DEF Iretq
<1>2. depth = 2 /\ ~ dead
  BY <1>1, InHandler
<1>3. /\ pc \in [Context -> Label] /\ back \in [Context -> Label] /\ pic \in Pic
      /\ Contexts /\ Resources /\ Asleep /\ pc[2] = "iretq" /\ call[2].phase = "idle"
  BY <1>1, <1>2 DEF KInv, KernelInv, At, Lock!Running
<1>4. 1 \in Context /\ 2 \in Context /\ guards[2] \in Seq(Lock!Guard) /\ asked
  BY <1>2, FromIrqMutex DEF KInv
<1>5. depth' = 1 /\ dead' = dead /\ UNCHANGED <<guards, call, asked>>
  BY <1>1, <1>2 DEF Lock!Iretq
<1>6. pc[1] \notin Masked
  BY <1>3, <1>4, Zenon DEF Contexts
<1>7. Lock!Return
  <2>1. Len(guards[2]) = 0
    BY <1>2, <1>3 DEF Contexts, Grd, Count
  <2>2. guards[2] = <<>>
    BY <1>4, <2>1
  <2> QED
    BY <1>1, <1>2, <2>2 DEF Lock!Return
<1>8. /\ pc' = [pc EXCEPT ![1] = IF @ = "halted" THEN "loop" ELSE @]
      /\ pc' \in [Context -> Label] /\ pc'[1] = IF pc[1] = "halted" THEN "loop" ELSE pc[1]
  BY <1>2, <1>3, <1>4 DEF Iretq
<1>9. Contexts'
  <2>0. 1 \in 1 .. depth
    BY <1>2
  <2>1. Ctl(1, pc[1], back[1]) /\ Grd(pc[1], call[1], guards[1])
    BY <1>3, <2>0, Zenon DEF Contexts
  <2>2. Ctl(1, pc'[1], back[1]) /\ Grd(pc'[1], call[1], guards[1])
    BY <1>8, <2>1 DEF Ctl, Grd, Count
  <2>3. pc'[1] \notin Masked
    BY <1>6, <1>8 DEF Masked
  <2>4. asked' = (pc'[1] \notin Masked)
    BY <1>4, <1>5, <2>3, Zenon
  <2>5. \A d \in 1 .. depth' : d = 1
    BY <1>5
  <2> QED
    BY <1>1, <1>5, <2>2, <2>4, <2>5, Zenon DEF Contexts
<1>10. Resources'
  <2>1. UNCHANGED <<once, pic_lock, kbd_lock, pic>>
    BY <1>1 DEF datavars, devvars
  <2> QED
    BY <1>2, <1>3, <1>5, <1>8, <2>1 DEF Resources, WithKeyboard
<1>11. Asleep'
  BY <1>6, <1>8 DEF Asleep, Masked
<1> QED
  BY <1>1, <1>2, <1>3, <1>5, <1>7, <1>8, <1>9, <1>10, <1>11 DEF Keeps, KernelInv, Lock!Next, devvars

\* An interrupt finds kmain with interrupts on, so with no lock that a handler
\* takes, and nothing in service.
LEMMA DeliverStep ==
  ASSUME KInv, NEW irq \in {TIMER, KEYBOARD}, Deliver(irq)
  PROVE  Keeps
<1> USE DEF KmainLabels, HandlerLabels, PanicLabels, Label
<1>1. /\ Lock!Interrupt /\ pic' = [pic EXCEPT !.irr = @ \ {irq}, !.isr = @ \cup {irq}]
      /\ pc' = [pc EXCEPT ![depth + 1] = IF irq = TIMER THEN "deref" ELSE "read_port"]
      /\ back' = [back EXCEPT ![depth + 1] = "push"]
      /\ UNCHANGED datavars
  BY DEF Deliver
<1>2. intf /\ depth < MaxDepth /\ depth' = depth + 1 /\ UNCHANGED <<guards, call, dead, asked>>
  BY <1>1 DEF Lock!Interrupt
<1>3. depth = 1 /\ ~ dead /\ asked
  BY <1>2, FromIrqMutex DEF KInv
<1>4. /\ 1 \in Context /\ 2 \in Context /\ guards[2] = <<>> /\ call[2].phase = "idle"
  BY <1>2, <1>3, FromIrqMutex DEF KInv
<1>5. /\ pc \in [Context -> Label] /\ back \in [Context -> Label] /\ pic \in Pic
      /\ Contexts /\ Resources /\ Asleep
  BY <1>3 DEF KInv, KernelInv
<1>6. pc[1] \notin Masked
  BY <1>3, <1>5, Zenon DEF Contexts
<1>7. /\ pc' \in [Context -> Label] /\ back' \in [Context -> Label]
      /\ pc'[1] = pc[1] /\ back'[1] = back[1]
      /\ pc'[2] \in {"deref", "read_port"} /\ back'[2] = "push"
  BY <1>1, <1>3, <1>4, <1>5
<1>8. pic' \in Pic /\ pic'.isr = {irq}
  <2>1. pic.isr = {}
    BY <1>3, <1>5 DEF Resources
  <2>2. irq \in Int
    BY DEF TIMER, KEYBOARD
  <2> QED
    BY <1>1, <1>5, <2>1, <2>2, Zenon DEF Pic
<1>9. Contexts'
  <2>1. Ctl(1, pc'[1], back'[1]) /\ Grd(pc'[1], call'[1], guards'[1])
    BY <1>2, <1>3, <1>5, <1>7 DEF Contexts
  <2>2. Ctl(2, pc'[2], back'[2])
    BY <1>7 DEF Ctl
  <2>3. Grd(pc'[2], call'[2], guards'[2])
    BY <1>2, <1>4, <1>7 DEF Grd, Count
  <2>4. asked' = (pc'[1] \notin Masked)
    BY <1>2, <1>3, <1>6, <1>7, Zenon
  <2>5. \A d \in 1 .. depth' : d = 1 \/ d = 2
    BY <1>2, <1>3
  <2> QED
    BY <2>1, <2>2, <2>3, <2>4, <2>5 DEF Contexts
<1>10. Resources'
  <2>1. UNCHANGED <<once, pic_lock, kbd_lock>>
    BY <1>1 DEF datavars
  <2>2. once # "Running" /\ pic_lock = 0
    BY <1>3, <1>5, <1>6 DEF Resources, Masked, Contexts, Ctl
  <2>3. irq \in Int
    BY DEF TIMER, KEYBOARD
  <2> QED
    BY <1>2, <1>3, <1>5, <1>7, <1>8, <2>1, <2>2, <2>3 DEF Resources
<1>11. Asleep'
  BY <1>2, <1>3, <1>6, <1>7 DEF Asleep, Masked
<1> QED
  BY <1>1, <1>2, <1>3, <1>7, <1>8, <1>9, <1>10, <1>11 DEF Keeps, KernelInv, Lock!Next

\* A panic or an exception leads to the panic handler.
LEMMA PanicStep == KInv /\ (Panic \/ Fault) => Keeps
<1> SUFFICES ASSUME KInv, Panic \/ Fault PROVE Keeps
  OBVIOUS
<1>1. /\ pc \in [Context -> Label] /\ back \in [Context -> Label] /\ pic \in Pic
  BY DEF KInv, KernelInv
<1>2. depth \in Context /\ Context = 1 .. MaxDepth /\ MaxDepth \in Nat \ {0}
  BY FromIrqMutex DEF KInv
<1>3. "panic" \in Label /\ "panic" \in PanicLabels
  BY DEF Label, PanicLabels
<1>4. CASE Panic
  <2>1. /\ Lock!Panic /\ dead' = TRUE /\ depth' = depth /\ pc' = [pc EXCEPT ![depth] = "panic"]
        /\ UNCHANGED <<back, pic>>
    BY <1>4 DEF Panic, Lock!Panic, Goto, devvars
  <2>2. pc' \in [Context -> Label] /\ pc'[depth'] = "panic"
    BY <1>1, <1>2, <1>3, <2>1
  <2> QED
    BY <1>1, <1>3, <2>1, <2>2 DEF Keeps, KernelInv, Lock!Next
<1>5. CASE Fault
  <2>1. /\ Lock!Fault /\ dead' = TRUE /\ depth' = depth + 1 /\ depth < MaxDepth
        /\ pc' = [pc EXCEPT ![depth + 1] = "panic"] /\ UNCHANGED <<back, pic>>
    BY <1>5 DEF Fault, Lock!Fault, devvars
  <2>2. pc' \in [Context -> Label] /\ pc'[depth'] = "panic"
    BY <1>1, <1>2, <1>3, <2>1
  <2> QED
    BY <1>1, <1>3, <2>1, <2>2 DEF Keeps, KernelInv, Lock!Next
<1> QED
  BY <1>4, <1>5

\* The panic handler runs only after a panic, and only tries to lock.
LEMMA PanicHandlerStep == KInv /\ PanicHandler => Keeps
<1> SUFFICES ASSUME KInv, PanicHandler PROVE Keeps
  OBVIOUS
<1>1. /\ pc \in [Context -> Label] /\ back \in [Context -> Label] /\ pic \in Pic
  BY DEF KInv, KernelInv
<1>2. depth \in Context /\ depth \in 1 .. depth /\ dead \in BOOLEAN
  BY FromIrqMutex DEF KInv
<1>3. ASSUME NEW l \in PanicLabels, At(l) PROVE dead
  <2>1. SUFFICES ASSUME ~ dead PROVE FALSE
    OBVIOUS
  <2>2. Ctl(depth, pc[depth], back[depth])
    BY <1>2, <2>1 DEF KInv, KernelInv, Contexts
  <2> QED
    BY <1>3, <2>2 DEF Ctl, At, PanicLabels, KmainLabels, HandlerLabels
<1>4. ASSUME NEW m \in PanicLabels, Goto(m), depth' = depth, UNCHANGED <<back, pic>>, dead'
      PROVE  KernelInv'
  <2>1. m \in Label
    BY DEF Label
  <2>2. pc' \in [Context -> Label] /\ pc'[depth'] = m
    BY <1>1, <1>2, <1>4, <2>1 DEF Goto
  <2> QED
    BY <1>1, <1>4, <2>2 DEF KernelInv
<1> USE DEF PanicLabels
<1>5. ASSUME At("panic"), Lock!CallLock("TERM", PanicTries), Goto("panic_drop"),
             UNCHANGED <<back, datavars, devvars>>
      PROVE  Keeps
  <2>1. dead
    BY <1>3, <1>5
  <2>2. depth' = depth /\ dead' /\ UNCHANGED <<back, pic>>
    BY <1>5, <2>1 DEF Lock!CallLock, devvars
  <2>3. Lock!Begin("TERM", "try_lock")
    BY <1>5 DEF Lock!Begin, PanicTries
  <2>4. KernelInv'
    BY <1>4, <1>5, <2>2
  <2> QED
    BY <2>3, <2>4 DEF Keeps, Lock!Next, Mutex
<1>6. ASSUME At("panic_drop"), Lock!Release \/ UNCHANGED lockvars, Goto("panic_halt"),
             UNCHANGED <<back, devvars>>
      PROVE  Keeps
  <2>1. dead
    BY <1>3, <1>6
  <2>2. depth' = depth /\ dead' /\ UNCHANGED <<back, pic>>
    BY <1>6, <2>1, Zenon DEF Lock!Release, lockvars, devvars
  <2>3. KernelInv'
    BY <1>4, <1>6, <2>2
  <2> QED
    BY <1>6, <2>3 DEF Keeps, Lock!Next
<1> QED
  BY <1>5, <1>6 DEF PanicHandler

\* The steps inside lock() and the drop of a guard: until the call is over the
\* context stays where it is.
LEMMA LockStepStep == KInv /\ LockStep => Keeps
<1> SUFFICES ASSUME KInv, LockStep PROVE Keeps
  OBVIOUS
<1> DEFINE l == pc[depth]
           b == back[depth]
<1>0. /\ Lock!Next /\ UNCHANGED <<depth, dead, asked, pc, back>>
      /\ UNCHANGED <<once, pic_lock, kbd_lock, pic, queue>>
  BY Zenon DEF LockStep, Lock!Next, Lock!Disable, Lock!Acquire, Lock!Refuse, Lock!Restore, progvars,
         datavars, devvars
<1>1. /\ pc \in [Context -> Label] /\ back \in [Context -> Label] /\ pic \in Pic
  BY DEF KInv, KernelInv
<1>2. /\ depth \in Context /\ depth \in 1 .. depth /\ dead \in BOOLEAN /\ intf \in BOOLEAN
      /\ guards \in [Context -> Seq(Lock!Guard)] /\ call \in [Context -> Lock!Call]
  BY FromIrqMutex DEF KInv
<1>3. CASE dead
  BY <1>0, <1>1, <1>3 DEF KInv, KernelInv, Keeps
<1>4. CASE ~ dead
  <2>1. Contexts /\ Resources /\ Asleep /\ depth \in {1, 2}
    BY <1>4, FromIrqMutex DEF KInv, KernelInv
  <2>2. Ctl(depth, l, b) /\ Grd(l, call[depth], guards[depth])
    BY <1>2, <2>1 DEF Contexts
  <2>3. /\ \A d \in Context \ {depth} : guards'[d] = guards[d] /\ call'[d] = call[d]
        /\ Grd(l, call'[depth], guards'[depth])
    <3> DEFINE c == call[depth]
               g == guards[depth]
    <3>1. c \in Lock!Call /\ g \in Seq(Lock!Guard)
      BY <1>2
    <3>2. CASE Lock!Disable
      <4>1. /\ call' = [call EXCEPT ![depth].phase = IF @ = "lock" THEN "inner" ELSE "try_inner"]
            /\ guards' = guards /\ c.phase \in {"lock", "try_lock"}
        BY <3>2 DEF Lock!Disable, Lock!Running
      <4>2. c.phase = "lock"
        BY <2>2, <4>1 DEF Grd
      <4>3. /\ call'[depth].phase = "inner" /\ call'[depth].mutex = c.mutex
            /\ \A d \in Context \ {depth} : call'[d] = call[d]
        BY <1>2, <4>1, <4>2 DEF Lock!Call
      <4> HIDE DEF l
      <4> QED
        BY <2>2, <4>1, <4>2, <4>3 DEF Grd
    <3>3. CASE Lock!Acquire
      <4> DEFINE x == [mutex |-> c.mutex, saved_intpt_flag |-> c.saved]
      <4>1. /\ guards' = [guards EXCEPT ![depth] = Append(@, x)]
            /\ call' = [call EXCEPT ![depth] = Lock!Idle]
            /\ c.phase \in {"inner", "try_inner"}
        BY <3>3, Zenon DEF Lock!Acquire, Lock!Running
      <4>2. c.phase = "inner"
        BY <2>2, <4>1 DEF Grd
      <4>3. /\ call'[depth].phase = "idle" /\ guards'[depth] = Append(g, x) /\ x.mutex = c.mutex
            /\ \A d \in Context \ {depth} : guards'[d] = guards[d] /\ call'[d] = call[d]
        BY <1>2, <4>1, Zenon DEF Lock!Idle
      <4>4. Len(g) = Count(l) - 1 /\ c.mutex = Nth(l, Count(l)) /\ \A i \in 1 .. Len(g) : g[i].mutex = Nth(l, i)
        BY <2>2, <4>2 DEF Grd
      <4> HIDE DEF x, g, c, l
      <4>5. /\ Len(guards'[depth]) = Len(g) + 1
            /\ guards'[depth][Len(g) + 1] = x /\ \A i \in 1 .. Len(g) : guards'[depth][i] = g[i]
        BY <3>1, <4>3
      <4>6. Count(l) \in Nat /\ Len(g) \in Nat
        BY <3>1 DEF Count
      <4>7. Len(guards'[depth]) = Count(l)
        BY <4>4, <4>5, <4>6
      <4>8. \A i \in 1 .. Count(l) : guards'[depth][i].mutex = Nth(l, i)
        BY <4>3, <4>4, <4>5, <4>6
      <4> QED
        BY <4>3, <4>7, <4>8 DEF Grd
    <3>4. CASE Lock!Refuse
      BY <2>2, <3>4, Zenon DEF Lock!Refuse, Lock!Running, Grd
    <3>5. CASE Lock!Restore
      <4>1. call' = [call EXCEPT ![depth] = Lock!Idle] /\ guards' = guards /\ c.phase = "restore"
        BY <3>5 DEF Lock!Restore, Lock!Running
      <4>2. call'[depth].phase = "idle" /\ \A d \in Context \ {depth} : call'[d] = call[d]
        BY <1>2, <4>1 DEF Lock!Idle
      <4> HIDE DEF l
      <4> QED
        BY <2>2, <4>1, <4>2 DEF Grd
    <3> QED
      BY <3>2, <3>3, <3>4, <3>5 DEF LockStep
  <2>4. asked' = IF depth = 1 THEN l \notin Masked ELSE asked
    <3>1. asked' = asked
      BY <1>0
    <3>2. depth = 1 => asked = (l \notin Masked)
      BY <2>1 DEF Contexts
    <3> QED
      BY <3>1, <3>2, Zenon
  <2>5. l \in Label /\ b \in Label /\ pc' = [pc EXCEPT ![depth] = l] /\ back' = [back EXCEPT ![depth] = b]
    BY <1>0, <1>1, <1>2
  <2>6. Leaves(l)
    BY <1>0, <1>1, <2>1 DEF Leaves, Resources, Asleep
  <2> HIDE DEF l, b
  <2>7. MoveTo(l, b)
    BY <1>0, <2>2, <2>3, <2>4, <2>5, Zenon DEF MoveTo
  <2> QED
    BY <1>0, <1>4, <2>5, <2>6, <2>7, Move DEF Keeps
<1> QED
  BY <1>2, <1>3, <1>4

\* The devices only raise requests.
LEMMA DeviceStep ==
  ASSUME KInv, TimerFires \/ Scancode \/ (\E k \in Decoded : Type(k))
  PROVE  Keeps
<1>1. UNCHANGED <<lockvars, progvars, datavars>>
  BY DEF TimerFires, Scancode, Type
<1>2. pic \in Pic
  BY DEF KInv, KernelInv
<1>3. pic' \in Pic /\ pic'.isr = pic.isr
  <2>1. TIMER \in Int /\ KEYBOARD \in Int
    BY DEF TIMER, KEYBOARD
  <2>2. \/ pic' = pic
        \/ pic' = [pic EXCEPT !.irr = pic.irr \cup {TIMER}]
        \/ pic' = [pic EXCEPT !.irr = pic.irr \cup {KEYBOARD}]
    BY Zenon DEF TimerFires, Scancode, Type
  <2>3. \A i \in {TIMER, KEYBOARD} : [pic EXCEPT !.irr = pic.irr \cup {i}] \in Pic
                                   /\ [pic EXCEPT !.irr = pic.irr \cup {i}].isr = pic.isr
    BY <1>2, <2>1 DEF Pic
  <2> QED
    BY <1>2, <2>2, <2>3, Zenon
<1>4. KernelInv'
  BY <1>1, <1>3 DEF KInv, KernelInv, Contexts, Resources, Asleep, lockvars, progvars, datavars
<1> QED
  BY <1>1, <1>4 DEF Keeps

-----------------------------------------------------------------------------

\* The locks and the queue as they are proved about.
Shared == INSTANCE SharedProofs WITH
            CAP <- BUFFER_SIZE, T <- Message, ring <- queue, ret <- queue

\* The inductive invariant.
IInv == Shared!IInv /\ KernelInv

\* What the invariant of IrqMutex says of the running context.
LEMMA LocksInOrder ==
  ASSUME Shared!IInv
  PROVE  LockFacts
<1>1. MaxDepth \in Nat \ {0} /\ Context = 1 .. MaxDepth /\ Shared!Context = 1 .. MaxDepth
  BY KernelAssumption DEF Context, Shared!Context
<1>2. /\ depth \in Context /\ intf \in BOOLEAN /\ dead \in BOOLEAN /\ asked \in BOOLEAN
      /\ guards \in [Context -> Seq(Lock!Guard)] /\ call \in [Context -> Lock!Call]
  BY <1>1, Zenon DEF Shared!IInv, Shared!TypeOK, Shared!Guard, Lock!Guard, Shared!Call, Lock!Call, Shared!Phase, Lock!Phase
<1>3. dead => ~ intf
  BY DEF Shared!IInv, Shared!PanicSavesFalse
<1>4. ASSUME ~ dead, depth # 1 PROVE depth = 2 /\ asked
  <2>1. \A d \in Context : d < depth => d = 1 /\ asked
    BY <1>1, <1>4 DEF Shared!IInv, Shared!BelowInterruptible
  <2>2. depth - 1 \in Context /\ depth - 1 < depth
    BY <1>1, <1>2, <1>4
  <2>3. depth - 1 = 1 /\ asked
    BY <2>1, <2>2, Zenon
  <2>4. depth = 2
    BY <1>1, <1>2, <2>3
  <2> QED
    BY <2>3, <2>4
<1>5. ~ dead /\ intf => depth = 1 /\ asked
  BY DEF Shared!IInv, Shared!EnabledOutside
<1>6. \A d \in Context : d > depth => guards[d] = <<>> /\ call[d].phase = "idle"
  BY <1>1 DEF Shared!IInv, Shared!AboveFresh
<1> QED
  BY <1>1, <1>2, <1>3, <1>4, <1>5, <1>6 DEF LockFacts

\* So the lemmas about the actions apply.
LEMMA Applies == IInv => KInv
BY LocksInOrder DEF IInv, KInv

\* IrqMutex as Kernel uses it and as it is proved about.
LEMMA SameSteps ==
  ASSUME [Lock!Next]_lockvars
  PROVE  [Shared!Next]_(Shared!vars)
<1>1. CASE UNCHANGED lockvars
  BY <1>1, Zenon DEF lockvars, Shared!vars
<1>2. ASSUME NEW m \in Mutex, NEW e \in {"lock", "try_lock"}, Lock!Begin(m, e)
      PROVE  Shared!Begin(m, e)
  BY <1>2 DEF Lock!Begin, Shared!Begin, Lock!CallLock, Shared!CallLock, Lock!Running, Shared!Running,
              Lock!Holds, Shared!Holds
<1> USE DEF Lock!Running, Shared!Running
<1>3. Lock!Disable => Shared!Disable
  BY DEF Lock!Disable, Shared!Disable
<1>4. Lock!Acquire => Shared!Acquire
  BY DEF Lock!Acquire, Shared!Acquire, Lock!Idle, Shared!Idle
<1>5. Lock!Refuse => Shared!Refuse
  BY DEF Lock!Refuse, Shared!Refuse
<1>6. Lock!Release => Shared!Release
  BY DEF Lock!Release, Shared!Release
<1>7. Lock!Restore => Shared!Restore
  BY DEF Lock!Restore, Shared!Restore, Lock!Idle, Shared!Idle
<1>8. Lock!DisableInterrupts => Shared!DisableInterrupts
  BY DEF Lock!DisableInterrupts, Shared!DisableInterrupts, Lock!MayToggle, Shared!MayToggle,
         Lock!Cli, Shared!Cli
<1>9. Lock!EnableInterrupts => Shared!EnableInterrupts
  BY DEF Lock!EnableInterrupts, Shared!EnableInterrupts, Lock!MayToggle, Shared!MayToggle,
         Lock!Sti, Shared!Sti
<1>10. Lock!Interrupt => Shared!Interrupt
  BY DEF Lock!Interrupt, Shared!Interrupt
<1>11. Lock!Return => Shared!Return
  BY DEF Lock!Return, Shared!Return, Lock!Iretq, Shared!Iretq
<1>12. Lock!Panic => Shared!Panic
  BY DEF Lock!Panic, Shared!Panic
<1>13. Lock!Fault => Shared!Fault
  BY DEF Lock!Fault, Shared!Fault
<1> QED
  BY <1>1, <1>2, <1>3, <1>4, <1>5, <1>6, <1>7, <1>8, <1>9, <1>10, <1>11, <1>12, <1>13
     DEF Lock!Next, Shared!Next

\* The invariant of IrqMutex is kept by every step that is one of its own.
LEMMA IrqStep ==
  ASSUME Shared!IInv, [Lock!Next]_lockvars
  PROVE  Shared!IInv'
<1>1. [Shared!Next]_(Shared!vars)
  BY SameSteps
<1> QED
  BY <1>1, Shared!Step, KernelAssumption DEF Mutex, NoMutex

\* Before kmain unmasks the interrupts nothing is held and nothing is pending.
LEMMA InitInv == Init => IInv
<1> SUFFICES ASSUME Init PROVE IInv
  OBVIOUS
<1>1. Lock!Init
  BY DEF Init
<1>2. Shared!Init
  BY <1>1 DEF Lock!Init, Shared!Init, Lock!Context, Shared!Context, Lock!Idle, Shared!Idle
<1>3. Shared!IInv
  BY <1>2, Shared!InitInvariant, KernelAssumption DEF Mutex, NoMutex
<1>4. /\ depth = 1 /\ dead = FALSE /\ asked = FALSE /\ 1 \in Context
      /\ guards[1] = <<>> /\ call[1].phase = "idle"
  <2>1. 1 \in Context /\ 1 \in Lock!Context
    BY KernelAssumption DEF Context, Lock!Context
  <2> QED
    BY <1>1, <2>1 DEF Lock!Init, Lock!Idle
<1>5. pc[1] = "set_mask" /\ pc \in [Context -> Label] /\ back \in [Context -> Label]
  BY <1>4, Zenon DEF Init, Label, KmainLabels
<1>6. Contexts
  <2>1. Ctl(1, pc[1], back[1]) /\ Grd(pc[1], call[1], guards[1])
    BY <1>4, <1>5 DEF Ctl, Grd, Count, KmainLabels
  <2>2. pc[1] \in Masked
    BY <1>5 DEF Masked
  <2>3. asked = (pc[1] \notin Masked)
    BY <1>4, <2>2, Zenon
  <2>4. \A d \in 1 .. depth : d = 1
    BY <1>4
  <2> QED
    BY <2>1, <2>3, <2>4, Zenon DEF Contexts
<1>7. Resources /\ Asleep
  <2>1. once = "Incomplete" /\ pic_lock = 0 /\ kbd_lock = 0 /\ pic.isr = {}
    BY Zenon DEF Init
  <2> QED
    BY <1>4, <1>5, <2>1 DEF Resources, Asleep
<1>8. pic \in Pic
  BY DEF Init, Pic
<1> QED
  BY <1>3, <1>4, <1>5, <1>6, <1>7, <1>8 DEF IInv, KernelInv

\* Every step of the kernel keeps the invariant and is a step of IrqMutex or
\* none that IrqMutex sees.
LEMMA KernelStep == IInv /\ [Next]_vars => IInv' /\ [Lock!Next]_lockvars
<1> SUFFICES ASSUME IInv, [Next]_vars PROVE IInv' /\ [Lock!Next]_lockvars
  OBVIOUS
<1>0. KInv
  BY Applies
<1>1. Keeps
  <2>1. CASE UNCHANGED vars
    BY <1>0, <2>1, Zenon DEF Keeps, KInv, KernelInv, Contexts, Resources, Asleep, vars, lockvars, progvars,
                datavars, devvars
  <2>2. CASE Program
    <3>1. CASE Kmain
      BY <1>0, <3>1, SetMaskStep, StartStep, LogStep, PrintStep, PromptStep, LoopTopStep, PopStep,
         EnableStep, TimerStep, KeyboardStep, GetlineStep, InputLineStep DEF Kmain
    <3>2. CASE Handler
      BY <1>0, <3>2, ReadPortStep, PushStep, SendEoiStep, IretqStep DEF Handler
    <3> QED
      BY <1>0, <2>2, <3>1, <3>2, LockStepStep, DerefStep, PanicHandlerStep DEF Program
  <2>3. CASE \E irq \in {TIMER, KEYBOARD} : Deliver(irq)
    BY <1>0, <2>3, DeliverStep
  <2>4. CASE Panic \/ Fault
    BY <1>0, <2>4, PanicStep
  <2>5. CASE TimerFires \/ Scancode \/ \E k \in Decoded : Type(k)
    BY <1>0, <2>5, DeviceStep
  <2> QED
    BY <2>1, <2>2, <2>3, <2>4, <2>5 DEF Next
<1>2. Shared!IInv'
  BY <1>1, IrqStep DEF Keeps, IInv
<1> QED
  BY <1>1, <1>2 DEF Keeps, IInv

\* What holds throughout: the invariant of IrqMutex, where every context is
\* and what it holds there.
THEOREM Invariance == Spec => []IInv
<1>1. IInv /\ [Next]_vars => IInv'
  BY KernelStep
<1> QED
  BY InitInv, <1>1, PTL DEF Spec

\* kmain, the handlers and the panic handler use TERM, COM1 and QUEUE as
\* IrqMutex asks of them: no lock() of what the context holds, guards dropped
\* innermost first, the flag touched by kmain alone and with no guard alive,
\* only try_lock() after a panic.
THEOREM ImplementsLock == Spec => ImplementsIrqMutex
<1>1. Init => Lock!Init
  BY DEF Init
<1>2. IInv /\ [Next]_vars => [Lock!Next]_(Lock!vars)
  BY KernelStep DEF lockvars, Lock!vars
<1> QED
  BY Invariance, <1>1, <1>2, PTL DEF Spec, ImplementsIrqMutex, Lock!Spec

\* kmain sleeps only on an empty queue: no message is pushed between the look
\* at the queue and hlt, and none stays there when the handler has returned.
THEOREM WakeupKept == Spec => []NoLostWakeup
<1>1. KInv => NoLostWakeup
  <2> SUFFICES ASSUME KInv, depth = 1, pc[1] = "halted" PROVE queue.empty
    BY DEF NoLostWakeup
  <2>1. ~ dead
    BY DEF KInv, KernelInv, PanicLabels
  <2> QED
    BY <2>1 DEF KInv, KernelInv, Asleep
<1> QED
  BY Invariance, Applies, <1>1, PTL

-----------------------------------------------------------------------------
(* Cardinalities.                                                          *)

\* Finite sets as the library proves about them.
Fin == INSTANCE FiniteSetTheorems

\* Sets of no and of one element.
LEMMA SmallSets == Cardinality({}) = 0 /\ \A x : Cardinality({x}) = 1
BY Fin!FS_EmptySet, Fin!FS_Singleton, Zenon DEF IsFiniteSet, Cardinality, Fin!IsFiniteSet, Fin!Cardinality

\* The operators of the library on sets are those of Kernel.
LEMMA SameSets ==
  ASSUME NEW S
  PROVE  Fin!Cardinality(S) = Cardinality(S) /\ (Fin!IsFiniteSet(S) <=> IsFiniteSet(S))
BY DEF IsFiniteSet, Cardinality, Fin!IsFiniteSet, Fin!Cardinality

\* How many timer messages it holds.
LEMMA TimersConcat ==
  ASSUME NEW s \in Seq(Message), NEW t \in Seq(Message)
  PROVE  TimersIn(s \o t) = TimersIn(s) + TimersIn(t) /\ TimersIn(s) \in Nat /\ TimersIn(t) \in Nat
<1> DEFINE I == {i \in DOMAIN s : s[i] = Timer}
           J == {i \in DOMAIN t : t[i] = Timer}
           R == {i \in DOMAIN (s \o t) : (s \o t)[i] = Timer}
           H == {i \in (Len(s) + 1) .. (Len(s) + Len(t)) : t[i - Len(s)] = Timer}
           f == [i \in J |-> i + Len(s)]
<1>1. /\ s \o t \in Seq(Message) /\ Len(s \o t) = Len(s) + Len(t)
      /\ \A i \in 1 .. Len(s) + Len(t) : (s \o t)[i] = IF i <= Len(s) THEN s[i] ELSE t[i - Len(s)]
  OBVIOUS
<1>2. DOMAIN s = 1 .. Len(s) /\ DOMAIN t = 1 .. Len(t) /\ DOMAIN (s \o t) = 1 .. Len(s) + Len(t)
      /\ Len(s) \in Nat /\ Len(t) \in Nat
  <2>1. DOMAIN s = 1 .. Len(s) /\ DOMAIN t = 1 .. Len(t) /\ Len(s) \in Nat /\ Len(t) \in Nat
    OBVIOUS
  <2>2. DOMAIN (s \o t) = 1 .. Len(s) + Len(t)
    OBVIOUS
  <2> QED
    BY <2>1, <2>2
<1>3. R = I \cup H /\ I \cap H = {}
  BY <1>1, <1>2
<1>4. IsFiniteSet(I) /\ IsFiniteSet(J) /\ IsFiniteSet(H)
  <2>1. IsFiniteSet(1 .. Len(s)) /\ IsFiniteSet(1 .. Len(t)) /\ IsFiniteSet((Len(s) + 1) .. (Len(s) + Len(t)))
    <3>1. Len(s) \in Int /\ Len(t) \in Int /\ 1 \in Int /\ Len(s) + 1 \in Int /\ Len(s) + Len(t) \in Int
      BY <1>2
    <3>2. \A a, b \in Int : IsFiniteSet(a .. b)
      BY SameSets, Fin!FS_Interval, Zenon
    <3> QED
      BY <3>1, <3>2, Zenon
  <2>2. I \in SUBSET (1 .. Len(s)) /\ J \in SUBSET (1 .. Len(t)) /\ H \in SUBSET ((Len(s) + 1) .. (Len(s) + Len(t)))
    BY <1>2
  <2> HIDE DEF I, J, H
  <2> QED
    BY <2>1, <2>2, SameSets, Fin!FS_Subset, Zenon
<1>5. f \in Fin!Bijection(J, H)
  <2>1. f \in [J -> H]
    BY <1>2
  <2>2. \A i, j \in J : f[i] = f[j] => i = j
    BY <1>2
  <2>3. \A h \in H : \E i \in J : f[i] = h
    <3>1. ASSUME NEW h \in H PROVE h - Len(s) \in J /\ f[h - Len(s)] = h
      BY <1>2, SMTT(30)
    <3> QED
      BY <3>1, Zenon
  <2> HIDE DEF f, J, H
  <2> QED
    BY <2>1, <2>2, <2>3 DEF Fin!Bijection, Fin!Injection, Fin!Surjection, Fin!IsInjective
<1>6. Cardinality(H) = Cardinality(J)
  <2>1. Fin!ExistsBijection(J, H)
    BY <1>5, Zenon DEF Fin!ExistsBijection
  <2> QED
    BY <1>4, <2>1, SameSets, Fin!FS_Bijection
<1>7. Cardinality(R) = Cardinality(I) + Cardinality(H)
  <2> HIDE DEF R, I, H
  <2>1. Cardinality(R) = Cardinality(I) + Cardinality(H) - Cardinality({})
    BY <1>3, <1>4, SameSets, Fin!FS_Union
  <2>2. Cardinality(I) \in Nat /\ Cardinality(H) \in Nat /\ Cardinality({}) = 0
    BY <1>4, SameSets, Fin!FS_CardinalityType, SmallSets, Zenon
  <2> QED
    BY <2>1, <2>2
<1>8. Cardinality(I) \in Nat /\ Cardinality(J) \in Nat
  BY <1>4, SameSets, Fin!FS_CardinalityType
<1> QED
  BY <1>6, <1>7, <1>8, Zenon DEF TimersIn

\* The facts about cardinalities that were used.
LEMMA Counted == SetFacts
  BY SmallSets, TimersConcat, Zenon DEF SetFacts

\* The Once of QUEUE and the spin locks PIC and KEYBOARD are free for whoever
\* comes for them, handlers do not nest, and lock() of an IrqMutex never waits.
THEOREM SpinFree == Spec => [](NothingSpins /\ Lock!LockNeverSpins)
<1>1. ASSUME KInv PROVE NothingSpins
  <2>1. ASSUME NEW l \in {"deref", "set_mask", "send_eoi", "match"}, At(l)
        PROVE  Resources /\ pc[depth] = l /\ depth \in {1, 2} /\ (l = "match" => depth = 1)
    <3>1. l \notin PanicLabels /\ pc[depth] = l
      BY <2>1 DEF PanicLabels, At
    <3>2. ~ dead /\ depth \in {1, 2} /\ Ctl(depth, l, back[depth])
      BY <1>1, <3>1, Runs, Zenon
    <3>3. Resources
      BY <1>1, <3>2, Zenon DEF KInv, KernelInv
    <3> QED
      BY <3>1, <3>2, <3>3, Zenon DEF Ctl, HandlerLabels
  <2>2. At("deref") => once # "Running"
    BY <2>1 DEF Resources
  <2>3. At("set_mask") \/ At("send_eoi") => pic_lock = 0
    BY <2>1 DEF Resources
  <2>4. At("match") => kbd_lock = 0
    BY <2>1, Zenon DEF Resources, WithKeyboard
  <2>5. ASSUME ~ dead PROVE depth <= 2 /\ Cardinality(pic.isr) <= depth - 1
    <3>1. Resources /\ depth \in {1, 2}
      BY <1>1, <2>5, FromIrqMutex DEF KInv, KernelInv
    <3>2. pic.isr = {} \/ (depth = 2 /\ \E i \in Int : pic.isr = {i})
      BY <3>1 DEF Resources
    <3>3. CASE pic.isr = {}
      BY <3>1, <3>3, SmallSets
    <3>4. CASE depth = 2 /\ \E i \in Int : pic.isr = {i}
      <4>1. PICK i \in Int : pic.isr = {i}
        BY <3>4
      <4>2. Cardinality(pic.isr) = 1
        BY <4>1, SmallSets
      <4> QED
        BY <3>4, <4>2
    <3> QED
      BY <3>2, <3>3, <3>4, Zenon
  <2> QED
    BY <2>2, <2>3, <2>4, <2>5 DEF NothingSpins
<1>2. ASSUME IInv PROVE Lock!LockNeverSpins
  <2>1. Shared!IInv
    BY <1>2 DEF IInv
  <2>2. Shared!LockNeverSpins
    BY <2>1, Shared!FreeWhenWanted, KernelAssumption DEF Mutex, NoMutex
  <2> QED
    BY <2>2 DEF Lock!LockNeverSpins, Shared!LockNeverSpins, Lock!Running, Shared!Running
<1> QED
  BY Invariance, Applies, <1>1, <1>2, PTL

-----------------------------------------------------------------------------

\* The queue of kmain is the ring buffer that SharedProofs is about: push and pop
\* on it append a message and take the oldest.
LEMMA QueueCalls == QueueFacts
<1> SUFFICES ASSUME NEW q \in Q!Ring, q.empty => q.first = q.last
             PROVE  /\ Q!Contents(q) \in Seq(Message)
                    /\ q.empty => Q!Contents(q) = <<>>
                    /\ ~ q.empty => /\ Q!Contents(q) # <<>> /\ Q!peek(q) = Head(Q!Contents(q))
                                    /\ Q!Contents(Q!pop(q)) = Tail(Q!Contents(q))
                                    /\ Q!pop(q) \in Q!Ring
                                    /\ Q!pop(q).empty => Q!pop(q).first = Q!pop(q).last
                    /\ Q!len(q) < BUFFER_SIZE =>
                         \A m \in Message :
                           /\ Q!Contents(Q!push(q, m)) = Append(Q!Contents(q), m)
                           /\ Q!push(q, m) \in Q!Ring
                           /\ ~ Q!push(q, m).empty
  BY Zenon DEF QueueFacts
<1>1. BUFFER_SIZE \in Nat \ {0} /\ MaxDepth \in Nat \ {0} /\ NoMutex \notin Mutex
  BY KernelAssumption DEF NoMutex, Mutex
<1>2. Shared!Tight(q)
  BY DEF Shared!Tight, Shared!Ring, Shared!Index, Q!Ring, Q!Index
<1>3. /\ Q!Contents(q) = Shared!Contents(q) /\ Q!len(q) = Shared!len(q) /\ Q!peek(q) = Shared!peek(q)
      /\ Q!pop(q) = Shared!pop(q) /\ \A m : Q!push(q, m) = Shared!push(q, m)
      /\ Q!Contents(Q!pop(q)) = Shared!Contents(Shared!pop(q))
      /\ \A m : Q!Contents(Q!push(q, m)) = Shared!Contents(Shared!push(q, m))
      /\ Q!Ring = Shared!Ring
  BY SMTT(30) DEF Q!Contents, Q!len, Q!get, Q!Cell, Q!peek, Q!pop, Q!push, Q!Succ, Q!Ring, Q!Index,
         Shared!Contents, Shared!len, Shared!get, Shared!Cell, Shared!peek, Shared!pop, Shared!push, Shared!Succ, Shared!Ring, Shared!Index
<1>4. /\ Shared!Contents(q) \in Seq(Message) /\ Len(Shared!Contents(q)) = Shared!len(q)
  BY <1>1, <1>2, Shared!ContentsSeq, Zenon
<1>5. q.empty => Shared!Contents(q) = <<>>
  <2>1. q.empty => Shared!len(q) = 0
    BY Zenon DEF Shared!len
  <2> QED
    BY <1>4, <2>1
<1>6. ~ q.empty => /\ Shared!len(q) >= 1 /\ Shared!peek(q) = Head(Shared!Contents(q))
                   /\ Shared!Contents(Shared!pop(q)) = Tail(Shared!Contents(q))
  BY <1>1, <1>2, Shared!PopContents
<1>7. Shared!Tight(Shared!pop(q))
  BY <1>1, <1>2, Shared!PopTight
<1>8. Shared!len(q) < BUFFER_SIZE => ~ Shared!full(q)
  <2>1. Shared!full(q) <=> Shared!len(q) = BUFFER_SIZE
    BY <1>1, <1>2, Shared!LenRange, Zenon
  <2> QED
    BY <1>1, <2>1
<1>9. ASSUME Shared!len(q) < BUFFER_SIZE, NEW m \in Message
      PROVE  Shared!Contents(Shared!push(q, m)) = Append(Shared!Contents(q), m) /\ Shared!Tight(Shared!push(q, m))
  BY <1>1, <1>2, <1>8, <1>9, Shared!PushContents, Shared!PushTight
<1>10. \A m : ~ Shared!push(q, m).empty
  BY <1>3, Zenon DEF Q!Ring, Shared!push
<1>11. ~ q.empty => Shared!Contents(q) # <<>>
  BY <1>4, <1>6
<1> QED
  BY <1>3, <1>4, <1>5, <1>6, <1>7, <1>9, <1>10, <1>11, Zenon DEF Shared!Tight

\* Everything that holds of a message under way.
LEMMA FlowInvariance == Spec => [](IInv /\ FlowInv)
<1>1. Init => IInv /\ FlowInv
  BY InitInv, FlowInit, QueueCalls, Counted
<1>2. IInv /\ FlowInv /\ [Next]_vars => (IInv /\ FlowInv)'
  BY KernelStep, Applies, FlowStep, QueueCalls, Counted, Zenon DEF IInv
<1> QED
  BY <1>1, <1>2, PTL DEF Spec

\* For every length of the queue, any number of keys and interrupts, and panics
\* anywhere: scancodes reach keyboard_handler in the order they were typed and
\* each once, only those that a full queue refused are missing, and the
\* terminal reads with no line left whenever it is given one.
THEOREM KeysArrive == Spec => []KeysDelivered
<1>1. IInv /\ FlowInv => KeysDelivered
  BY Applies, FlowSays, Counted
<1> QED
  BY FlowInvariance, <1>1, PTL

\* Every timer interrupt is counted once by TICK_COUNTER, or is merged by the
\* 8259, refused by a full queue or still on its way.
THEOREM TicksKept == Spec => []TicksCounted
<1>1. IInv /\ FlowInv => TicksCounted
  BY Applies, FlowSays, Counted
<1> QED
  BY FlowInvariance, <1>1, PTL

=============================================================================
