----------------------------- MODULE KernelFlow -----------------------------
(***************************************************************************)
(* The invariants of Kernel, and the messages on their way: how every step *)
(* of kmain, of the handlers and of the devices moves scancodes and ticks, *)
(* for every queue length and any number of interrupts and panics.         *)
(***************************************************************************)
EXTENDS Kernel, TLAPS

\* Where kmain has not asked for interrupts, and where it holds KEYBOARD.
Masked == {"set_mask", "write_masks", "enable", "deref", "build", "pop", "try_pop",
           "enable_loop", "enable_and_hlt"}
WithKeyboard == {"process_input", "process_input_drop", "unlock_keyboard"}

\* The guards of IrqMutexes that are alive at a label, once the lock() that
\* leads there has returned, and which mutex the i-th is of.
Count(l) ==
  IF l = "log_drop_com1" THEN 2
  ELSE IF l \in {"log_com1", "log_drop_term", "print_drop", "start_inputting_drop", "try_pop",
                 "process_input_drop", "getline_drop", "try_push"} THEN 1
  ELSE 0
Nth(l, i) == IF l \in {"try_pop", "try_push"} THEN "QUEUE" ELSE IF i = 1 THEN "TERM" ELSE "COM1"

\* Context d is at l, and returns to b if that is inside a function.
Ctl(d, l, b) ==
  /\ l \in IF d = 1 THEN KmainLabels ELSE HandlerLabels
  /\ l \in {"log", "log_com1", "log_drop_com1", "log_drop_term"} => b \in {"log_done", "prompt"}
  /\ l \in {"print", "print_drop"} => b \in {"start_inputting", "prompt"}
  /\ l \in {"deref", "build"} => b = IF d = 1 THEN "pop" ELSE "push"

\* The guards g of a context at l with lock() or drop c under way.
Grd(l, c, g) ==
  /\ c.phase \in {"idle", "lock", "inner", "restore"}
  /\ Len(g) = IF c.phase \in {"lock", "inner"} THEN Count(l) - 1 ELSE Count(l)
  /\ \A i \in 1 .. Len(g) : g[i].mutex = Nth(l, i)
  /\ c.phase \in {"lock", "inner"} => c.mutex = Nth(l, Count(l))

\* Every context is where its guards say it is, and the flag kmain asked for
\* is told by where kmain is.
Contexts ==
  /\ \A d \in 1 .. depth : Ctl(d, pc[d], back[d]) /\ Grd(pc[d], call[d], guards[d])
  /\ asked = (pc[1] \notin Masked)

\* The Once and the spin locks that do not mask interrupts are held only where
\* interrupts are off anyway (KEYBOARD: by kmain alone), and an interrupt is in
\* service exactly until its handler has sent the end of interrupt.
Resources ==
  /\ once = "Running" => pc[depth] = "build"
  /\ pic_lock # 0 => pc[depth] \in {"write_masks", "end_of_interrupt"}
  /\ kbd_lock # 0 => pc[1] \in WithKeyboard
  /\ depth = 1 => pic.isr = {}
  /\ depth = 2 => IF pc[2] = "iretq" THEN pic.isr = {} ELSE \E i \in Int : pic.isr = {i}

\* kmain goes to sleep on an empty queue, which stays empty until it is woken.
Asleep ==
  /\ pc[1] = "enable_and_hlt" => queue.empty
  /\ depth = 1 /\ pc[1] = "halted" => queue.empty

Pic == [irr : SUBSET Int, isr : SUBSET Int, unmasked : SUBSET Int]

\* Once something has panicked, the panic handler is what runs.
KernelInv ==
  /\ pc \in [Context -> Label] /\ back \in [Context -> Label] /\ pic \in Pic
  /\ dead => pc[depth] \in PanicLabels
  /\ ~ dead => Contexts /\ Resources /\ Asleep

\* What is used of the locks: which context runs, what a living kernel knows of
\* the flag, and that contexts above the running one have not begun.
LockFacts ==
  /\ depth \in Context
  /\ intf \in BOOLEAN /\ dead \in BOOLEAN /\ asked \in BOOLEAN
  /\ guards \in [Context -> Seq(Lock!Guard)] /\ call \in [Context -> Lock!Call]
  /\ dead => ~ intf
  /\ ~ dead => depth \in {1, 2}
  /\ ~ dead /\ depth # 1 => asked
  /\ ~ dead /\ intf => depth = 1 /\ asked
  /\ \A d \in Context : d > depth => guards[d] = <<>> /\ call[d].phase = "idle"

KInv == LockFacts /\ KernelInv

-----------------------------------------------------------------------------

\* The contexts are 1 .. MaxDepth, so what LockFacts says can be counted with.
LEMMA FromIrqMutex ==
  ASSUME LockFacts
  PROVE  /\ depth \in Context /\ Context = 1 .. MaxDepth /\ MaxDepth \in Nat \ {0}
         /\ intf \in BOOLEAN /\ dead \in BOOLEAN /\ asked \in BOOLEAN
         /\ guards \in [Context -> Seq(Lock!Guard)] /\ call \in [Context -> Lock!Call]
         /\ dead => ~ intf
         /\ ~ dead => depth \in {1, 2}
         /\ ~ dead /\ depth # 1 => asked
         /\ ~ dead /\ intf => depth = 1 /\ asked
         /\ \A d \in Context : d > depth => guards[d] = <<>> /\ call[d].phase = "idle"
<1>1. MaxDepth \in Nat \ {0} /\ Context = 1 .. MaxDepth
  BY KernelAssumption DEF Context
<1> QED
  BY <1>1, Zenon DEF LockFacts

\* The running context, as the invariant has it.
LEMMA Runs ==
  ASSUME KInv, NEW l, pc[depth] = l, l \notin PanicLabels
  PROVE  /\ ~ dead /\ depth \in {1, 2} /\ depth \in Context
         /\ Ctl(depth, l, back[depth]) /\ Grd(l, call[depth], guards[depth])
         /\ back[depth] \in Label /\ back = [back EXCEPT ![depth] = back[depth]]
         /\ guards[depth] \in Seq(Lock!Guard) /\ call[depth] \in Lock!Call
         /\ IF depth = 1 THEN asked = (l \notin Masked) ELSE asked
<1>1. ~ dead
  BY DEF KInv, KernelInv
<1>2. /\ depth \in {1, 2} /\ depth \in Context /\ depth \in 1 .. depth
      /\ guards[depth] \in Seq(Lock!Guard) /\ call[depth] \in Lock!Call
  BY <1>1, FromIrqMutex DEF KInv
<1>3. depth # 1 => asked
  BY <1>1, FromIrqMutex DEF KInv
<1>4. back \in [Context -> Label] /\ Contexts
  BY <1>1 DEF KInv, KernelInv
<1>5. depth = 1 => asked = (l \notin Masked)
  BY <1>4 DEF Contexts
<1>6. Ctl(depth, l, back[depth]) /\ Grd(l, call[depth], guards[depth])
  BY <1>2, <1>4 DEF Contexts
<1>7. back[depth] \in Label /\ back = [back EXCEPT ![depth] = back[depth]]
  BY <1>2, <1>4
<1>8. IF depth = 1 THEN asked = (l \notin Masked) ELSE asked
  BY <1>3, <1>5, Zenon
<1> QED
  BY <1>1, <1>2, <1>6, <1>7, <1>8

\* A label of kmain alone: kmain runs, with no handler on top of it.
LEMMA InKmain ==
  ASSUME KInv, NEW l, At(l), l \in KmainLabels \ HandlerLabels
  PROVE  /\ depth = 1 /\ ~ dead /\ Ctl(1, l, back[1]) /\ back[1] \in Label
         /\ back = [back EXCEPT ![1] = back[1]]
<1>1. l \notin PanicLabels
  BY DEF PanicLabels, KmainLabels
<1>2. /\ ~ dead /\ depth \in {1, 2} /\ Ctl(depth, l, back[depth]) /\ back[depth] \in Label
      /\ back = [back EXCEPT ![depth] = back[depth]]
  BY <1>1, Runs DEF At
<1>3. depth = 1
  BY <1>2 DEF Ctl
<1> QED
  BY <1>2, <1>3

\* A label of a handler alone: the handler runs, on top of kmain.
LEMMA InHandler ==
  ASSUME KInv, NEW l, At(l), l \in HandlerLabels \ KmainLabels
  PROVE  /\ depth = 2 /\ ~ dead /\ Ctl(2, l, back[2]) /\ back[2] \in Label
         /\ back = [back EXCEPT ![2] = back[2]]
<1>1. l \notin PanicLabels
  BY DEF PanicLabels, HandlerLabels
<1>2. /\ ~ dead /\ depth \in {1, 2} /\ Ctl(depth, l, back[depth]) /\ back[depth] \in Label
      /\ back = [back EXCEPT ![depth] = back[depth]]
  BY <1>1, Runs DEF At
<1>3. depth = 2
  BY <1>2 DEF Ctl
<1> QED
  BY <1>2, <1>3

\* Where only kmain can be.
LEMMA KmainRuns ==
  ASSUME KInv, NEW l \in {"match", "try_pop", "process_input_drop"}, At(l)
  PROVE  depth = 1 /\ ~ dead /\ pc[1] = l
<1>1. l \in KmainLabels \ HandlerLabels
  BY DEF KmainLabels, HandlerLabels
<1>2. depth = 1 /\ ~ dead
  BY <1>1, InKmain, Zenon
<1> QED
  BY <1>2 DEF At

\* And where only a handler can be.
LEMMA HandlerRuns ==
  ASSUME KInv, NEW l \in {"read_port", "push", "try_push", "send_eoi", "end_of_interrupt", "iretq"},
         At(l)
  PROVE  depth = 2 /\ ~ dead /\ pc[2] = l
<1>1. l \in HandlerLabels \ KmainLabels
  BY DEF KmainLabels, HandlerLabels
<1>2. depth = 2 /\ ~ dead
  BY <1>1, InHandler, Zenon
<1> QED
  BY <1>2 DEF At

\* What every step starts from.
LEMMA Basics ==
  ASSUME KInv
  PROVE  /\ depth \in Context /\ Context = 1 .. MaxDepth /\ MaxDepth \in Nat \ {0} /\ 1 \in Context
         /\ pc \in [Context -> Label]
<1>1. depth \in Context /\ Context = 1 .. MaxDepth /\ MaxDepth \in Nat \ {0}
  BY FromIrqMutex, Zenon DEF KInv
<1>2. 1 \in Context
  BY <1>1
<1> QED
  BY <1>1, <1>2, Zenon DEF KInv, KernelInv

-----------------------------------------------------------------------------
(* Messages in sequences.                                                  *)

\* What is used of cardinalities: those of no and of one element, and that timer
\* messages are counted one by one.
SetFacts ==
  /\ Cardinality({}) = 0 /\ \A x : Cardinality({x}) = 1
  /\ \A s, t \in Seq(Message) :
       TimersIn(s \o t) = TimersIn(s) + TimersIn(t) /\ TimersIn(s) \in Nat /\ TimersIn(t) \in Nat

\* Scancodes in S were typed before those in R.
Before(S, R) == \A x \in S, y \in R : IsKey(x) /\ IsKey(y) => x < y

\* What a concatenation holds.
LEMMA RangeConcat ==
  ASSUME NEW s \in Seq(Message), NEW t \in Seq(Message)
  PROVE  Range(s \o t) = Range(s) \cup Range(t)
<1>1. /\ s \o t \in Seq(Message) /\ Len(s \o t) = Len(s) + Len(t)
      /\ \A i \in 1 .. Len(s) + Len(t) : (s \o t)[i] = IF i <= Len(s) THEN s[i] ELSE t[i - Len(s)]
  OBVIOUS
<1>2. DOMAIN s = 1 .. Len(s) /\ DOMAIN t = 1 .. Len(t) /\ DOMAIN (s \o t) = 1 .. Len(s) + Len(t)
      /\ Len(s) \in Nat /\ Len(t) \in Nat
  BY <1>1
<1>3. ASSUME NEW m \in Range(s \o t) PROVE m \in Range(s) \cup Range(t)
  <2>1. PICK i \in 1 .. Len(s) + Len(t) : m = (s \o t)[i]
    BY <1>2, <1>3 DEF Range
  <2> QED
    BY <1>1, <1>2, <2>1 DEF Range
<1>4. ASSUME NEW m \in Range(s) PROVE m \in Range(s \o t)
  <2>1. PICK i \in 1 .. Len(s) : m = s[i]
    BY <1>2, <1>4 DEF Range
  <2>2. i \in 1 .. Len(s) + Len(t) /\ (s \o t)[i] = m
    BY <1>1, <1>2, <2>1
  <2> QED
    BY <1>2, <2>2 DEF Range
<1>5. ASSUME NEW m \in Range(t) PROVE m \in Range(s \o t)
  <2>1. PICK i \in 1 .. Len(t) : m = t[i]
    BY <1>2, <1>5 DEF Range
  <2>2. i + Len(s) \in 1 .. Len(s) + Len(t) /\ (s \o t)[i + Len(s)] = m
    BY <1>1, <1>2, <2>1
  <2> QED
    BY <1>2, <2>2 DEF Range
<1> QED
  BY <1>3, <1>4, <1>5

\* When its scancodes ascend.
LEMMA AscendConcat ==
  ASSUME NEW s \in Seq(Message), NEW t \in Seq(Message)
  PROVE  KeysAscend(s \o t) <=> KeysAscend(s) /\ KeysAscend(t) /\ Before(Range(s), Range(t))
<1>1. /\ s \o t \in Seq(Message) /\ Len(s \o t) = Len(s) + Len(t)
      /\ \A i \in 1 .. Len(s) + Len(t) : (s \o t)[i] = IF i <= Len(s) THEN s[i] ELSE t[i - Len(s)]
  OBVIOUS
<1>2. DOMAIN s = 1 .. Len(s) /\ DOMAIN t = 1 .. Len(t) /\ DOMAIN (s \o t) = 1 .. Len(s) + Len(t)
      /\ Len(s) \in Nat /\ Len(t) \in Nat
  BY <1>1
<1>3. /\ \A i \in 1 .. Len(s) : i \in 1 .. Len(s) + Len(t) /\ (s \o t)[i] = s[i]
      /\ \A i \in 1 .. Len(t) : i + Len(s) \in 1 .. Len(s) + Len(t) /\ (s \o t)[i + Len(s)] = t[i]
  BY <1>1, <1>2
<1>4. ASSUME KeysAscend(s \o t) PROVE KeysAscend(s) /\ KeysAscend(t) /\ Before(Range(s), Range(t))
  <2>1. KeysAscend(s)
    BY <1>2, <1>3, <1>4 DEF KeysAscend
  <2>2. ASSUME NEW i \in 1 .. Len(t), NEW j \in 1 .. Len(t), i < j, IsKey(t[i]), IsKey(t[j])
        PROVE  t[i] < t[j]
    <3>1. i + Len(s) < j + Len(s)
      BY <1>2, <2>2
    <3> QED
      BY <1>2, <1>3, <1>4, <2>2, <3>1, Zenon DEF KeysAscend
  <2>3. ASSUME NEW i \in 1 .. Len(s), NEW j \in 1 .. Len(t), IsKey(s[i]), IsKey(t[j])
        PROVE  s[i] < t[j]
    <3>1. i < j + Len(s)
      BY <1>2, <2>3
    <3> QED
      BY <1>2, <1>3, <1>4, <2>3, <3>1, Zenon DEF KeysAscend
  <2> QED
    BY <1>2, <2>1, <2>2, <2>3 DEF KeysAscend, Before, Range
<1>5. ASSUME KeysAscend(s), KeysAscend(t), Before(Range(s), Range(t)),
             NEW i \in 1 .. Len(s) + Len(t), NEW j \in 1 .. Len(s) + Len(t), i < j,
             IsKey((s \o t)[i]), IsKey((s \o t)[j])
      PROVE  (s \o t)[i] < (s \o t)[j]
  <2>1. CASE j <= Len(s)
    BY <1>1, <1>2, <1>5, <2>1 DEF KeysAscend
  <2>2. CASE i > Len(s)
    <3>1. i - Len(s) \in 1 .. Len(t) /\ j - Len(s) \in 1 .. Len(t) /\ i - Len(s) < j - Len(s)
      BY <1>2, <1>5, <2>2
    <3> QED
      BY <1>1, <1>2, <1>5, <2>2, <3>1 DEF KeysAscend
  <2>3. CASE i <= Len(s) /\ j > Len(s)
    <3>1. i \in 1 .. Len(s) /\ j - Len(s) \in 1 .. Len(t)
      BY <1>2, <1>5, <2>3
    <3>2. s[i] \in Range(s) /\ t[j - Len(s)] \in Range(t)
      BY <1>2, <3>1 DEF Range
    <3> QED
      BY <1>1, <1>5, <2>3, <3>2 DEF Before
  <2> QED
    BY <1>2, <2>1, <2>2, <2>3
<1>6. ASSUME KeysAscend(s), KeysAscend(t), Before(Range(s), Range(t)) PROVE KeysAscend(s \o t)
  BY <1>2, <1>5, <1>6 DEF KeysAscend
<1> QED
  BY <1>4, <1>6

\* A sequence of one message and the empty one.
LEMMA Short ==
  /\ <<>> \in Seq(Message) /\ Range(<<>>) = {} /\ KeysAscend(<<>>)
  /\ \A m \in Message : <<m>> \in Seq(Message) /\ Range(<<m>>) = {m} /\ KeysAscend(<<m>>)
<1>1. <<>> \in Seq(Message) /\ Range(<<>>) = {} /\ KeysAscend(<<>>)
  BY DEF Range, KeysAscend
<1>2. ASSUME NEW m \in Message
      PROVE  <<m>> \in Seq(Message) /\ Range(<<m>>) = {m} /\ KeysAscend(<<m>>)
  <2>1. <<m>> \in Seq(Message) /\ DOMAIN <<m>> = {1} /\ <<m>>[1] = m
    OBVIOUS
  <2> QED
    BY <2>1 DEF Range, KeysAscend
<1> QED
  BY <1>1, <1>2

\* The five places a message passes, put together.
Five(k, a, c, b, p) == k \o (a \o c \o b) \o p

\* Sequences of messages.
Places(k, a, c, b, p) ==
  /\ k \in Seq(Message) /\ a \in Seq(Message) /\ c \in Seq(Message)
  /\ b \in Seq(Message) /\ p \in Seq(Message)

\* What the five hold together, and when its scancodes ascend.
LEMMA FiveParts ==
  ASSUME NEW k, NEW a, NEW c, NEW b, NEW p, Places(k, a, c, b, p)
  PROVE  /\ Five(k, a, c, b, p) \in Seq(Message)
         /\ Range(Five(k, a, c, b, p)) = Range(k) \cup Range(a) \cup Range(c) \cup Range(b) \cup Range(p)
         /\ KeysAscend(Five(k, a, c, b, p)) <=>
              /\ KeysAscend(k) /\ KeysAscend(a) /\ KeysAscend(c) /\ KeysAscend(b) /\ KeysAscend(p)
              /\ Before(Range(k), Range(a) \cup Range(c) \cup Range(b) \cup Range(p))
              /\ Before(Range(a), Range(c) \cup Range(b) \cup Range(p))
              /\ Before(Range(c), Range(b) \cup Range(p))
              /\ Before(Range(b), Range(p))
<1> DEFINE ac == a \o c
           acb == ac \o b
           kacb == k \o acb
           all == kacb \o p
<1> USE DEF Places
<1>1. /\ ac \in Seq(Message) /\ Range(ac) = Range(a) \cup Range(c)
      /\ KeysAscend(ac) <=> KeysAscend(a) /\ KeysAscend(c) /\ Before(Range(a), Range(c))
  BY RangeConcat, AscendConcat
<1> HIDE DEF ac
<1>2. /\ acb \in Seq(Message) /\ Range(acb) = Range(ac) \cup Range(b)
      /\ KeysAscend(acb) <=> KeysAscend(ac) /\ KeysAscend(b) /\ Before(Range(ac), Range(b))
  <2>1. ac \in Seq(Message)
    BY <1>1
  <2> QED
    BY <2>1, RangeConcat, AscendConcat
<1> HIDE DEF acb
<1>3. /\ kacb \in Seq(Message) /\ Range(kacb) = Range(k) \cup Range(acb)
      /\ KeysAscend(kacb) <=> KeysAscend(k) /\ KeysAscend(acb) /\ Before(Range(k), Range(acb))
  <2>1. acb \in Seq(Message)
    BY <1>2
  <2> QED
    BY <2>1, RangeConcat, AscendConcat
<1> HIDE DEF kacb
<1>4. /\ all \in Seq(Message) /\ Range(all) = Range(kacb) \cup Range(p)
      /\ KeysAscend(all) <=> KeysAscend(kacb) /\ KeysAscend(p) /\ Before(Range(kacb), Range(p))
  <2>1. kacb \in Seq(Message)
    BY <1>3
  <2> QED
    BY <2>1, RangeConcat, AscendConcat
<1> HIDE DEF all
<1>5. Five(k, a, c, b, p) = all
  BY DEF Five, all, kacb, acb, ac
<1>6. /\ Before(Range(ac), Range(b)) <=> Before(Range(a), Range(b)) /\ Before(Range(c), Range(b))
      /\ Before(Range(k), Range(acb)) <=>
           Before(Range(k), Range(a)) /\ Before(Range(k), Range(c)) /\ Before(Range(k), Range(b))
      /\ Before(Range(kacb), Range(p)) <=>
           /\ Before(Range(k), Range(p)) /\ Before(Range(a), Range(p))
           /\ Before(Range(c), Range(p)) /\ Before(Range(b), Range(p))
  BY <1>1, <1>2, <1>3 DEF Before
<1>7. /\ Before(Range(k), Range(a) \cup Range(c) \cup Range(b) \cup Range(p)) <=>
           /\ Before(Range(k), Range(a)) /\ Before(Range(k), Range(c))
           /\ Before(Range(k), Range(b)) /\ Before(Range(k), Range(p))
      /\ Before(Range(a), Range(c) \cup Range(b) \cup Range(p)) <=>
           /\ Before(Range(a), Range(c)) /\ Before(Range(a), Range(b)) /\ Before(Range(a), Range(p))
      /\ Before(Range(c), Range(b) \cup Range(p)) <=>
           Before(Range(c), Range(b)) /\ Before(Range(c), Range(p))
  BY DEF Before
<1>8. Range(all) = Range(k) \cup Range(a) \cup Range(c) \cup Range(b) \cup Range(p)
  BY <1>1, <1>2, <1>3, <1>4
<1> QED
  BY <1>1, <1>2, <1>3, <1>4, <1>5, <1>6, <1>7, <1>8, Zenon

\* How many timer messages four sequences hold together.
LEMMA FourTimers ==
  ASSUME SetFacts, NEW a \in Seq(Message), NEW c \in Seq(Message), NEW b \in Seq(Message),
         NEW d \in Seq(Message)
  PROVE  /\ TimersIn(a \o c \o b \o d) = TimersIn(a) + TimersIn(c) + TimersIn(b) + TimersIn(d)
         /\ {TimersIn(a), TimersIn(c), TimersIn(b), TimersIn(d)} \subseteq Nat
<1> DEFINE ac == a \o c
           acb == ac \o b
<1>1. ac \in Seq(Message) /\ TimersIn(ac) = TimersIn(a) + TimersIn(c)
      /\ TimersIn(a) \in Nat /\ TimersIn(c) \in Nat
  BY DEF SetFacts
<1> HIDE DEF ac
<1>2. acb \in Seq(Message) /\ TimersIn(acb) = TimersIn(ac) + TimersIn(b) /\ TimersIn(b) \in Nat
  BY <1>1 DEF SetFacts
<1> HIDE DEF acb
<1>3. TimersIn(acb \o d) = TimersIn(acb) + TimersIn(d) /\ TimersIn(d) \in Nat
  BY <1>2 DEF SetFacts
<1>4. a \o c \o b \o d = acb \o d
  BY DEF acb, ac
<1> QED
  BY <1>1, <1>2, <1>3, <1>4

-----------------------------------------------------------------------------

\* The scancodes 1 .. n are in s or d, none in both, and those in s ascend.
Delivered(s, d, n) ==
  /\ KeysAscend(s)
  /\ {m \in Range(s) \cup Range(d) : IsKey(m)} = 1 .. n
  /\ \A m \in Range(s) \cap Range(d) : ~ IsKey(m)

\* What Delivered says of the five places.
Sorted(K, A, C, B, P) ==
  /\ Before(K, A \cup C \cup B \cup P) /\ Before(A, C \cup B \cup P)
  /\ Before(C, B \cup P) /\ Before(B, P)
Complete(S, D, n) ==
  /\ \A m \in Message : IsKey(m) => (m \in S \cup D <=> m \in 1 .. n)
  /\ \A m \in S \cap D : ~ IsKey(m)
Ascending(k, a, c, b, p) ==
  KeysAscend(k) /\ KeysAscend(a) /\ KeysAscend(c) /\ KeysAscend(b) /\ KeysAscend(p)

\* The places, what was dropped and how many scancodes there were.
Flows(k, a, c, b, p, d, n) ==
  Places(k, a, c, b, p) /\ d \in Seq(Message) /\ n \in 0 .. MaxKeys

\* Delivered, place by place.
LEMMA DeliveredParts ==
  ASSUME NEW k, NEW a, NEW c, NEW b, NEW p, NEW d, NEW n, Flows(k, a, c, b, p, d, n)
  PROVE  Delivered(Five(k, a, c, b, p), d, n) <=>
           /\ Ascending(k, a, c, b, p)
           /\ Sorted(Range(k), Range(a), Range(c), Range(b), Range(p))
           /\ Complete(Range(k) \cup Range(a) \cup Range(c) \cup Range(b) \cup Range(p), Range(d), n)
<1> DEFINE s == Five(k, a, c, b, p)
           S == Range(k) \cup Range(a) \cup Range(c) \cup Range(b) \cup Range(p)
<1>0. Places(k, a, c, b, p) /\ d \in Seq(Message) /\ n \in 0 .. MaxKeys
  BY DEF Flows
<1>1. /\ s \in Seq(Message) /\ Range(s) = S
      /\ KeysAscend(s) <=>
           /\ Ascending(k, a, c, b, p)
           /\ Sorted(Range(k), Range(a), Range(c), Range(b), Range(p))
  <2>1. /\ Five(k, a, c, b, p) \in Seq(Message)
        /\ Range(Five(k, a, c, b, p)) = Range(k) \cup Range(a) \cup Range(c) \cup Range(b) \cup Range(p)
        /\ KeysAscend(Five(k, a, c, b, p)) <=>
             /\ KeysAscend(k) /\ KeysAscend(a) /\ KeysAscend(c) /\ KeysAscend(b) /\ KeysAscend(p)
             /\ Before(Range(k), Range(a) \cup Range(c) \cup Range(b) \cup Range(p))
             /\ Before(Range(a), Range(c) \cup Range(b) \cup Range(p))
             /\ Before(Range(c), Range(b) \cup Range(p))
             /\ Before(Range(b), Range(p))
    BY <1>0, FiveParts, Zenon
  <2> QED
    BY <2>1, Zenon DEF Sorted, Ascending
<1>2. Range(s) \subseteq Message /\ Range(d) \subseteq Message
  <2> HIDE DEF s
  <2> QED
    BY <1>0, <1>1 DEF Range
<1>3. 1 .. n \subseteq Message /\ \A m \in 1 .. n : IsKey(m)
  BY <1>0, KernelAssumption DEF Message, IsKey, Timer
<1> HIDE DEF s, S
<1>4. {m \in Range(s) \cup Range(d) : IsKey(m)} = 1 .. n <=>
        \A m \in Message : IsKey(m) => (m \in S \cup Range(d) <=> m \in 1 .. n)
  BY <1>1, <1>2, <1>3
<1>5. Delivered(s, d, n) <=> KeysAscend(s) /\ Complete(S, Range(d), n)
  BY <1>1, <1>4 DEF Delivered, Complete
<1> QED
  BY <1>1, <1>5 DEF s, S

\* A full queue refuses the message that the handler holds.
LEMMA RefusedMove ==
  ASSUME NEW k, NEW a, NEW c, NEW m \in Message, NEW p, NEW d, NEW n,
         Flows(k, a, c, <<m>>, p, d, n), Delivered(Five(k, a, c, <<m>>, p), d, n)
  PROVE  Delivered(Five(k, a, c, <<>>, p), Append(d, m), n)
<1> DEFINE K == Range(k)
           A == Range(a)
           C == Range(c)
           P == Range(p)
           D == Range(d)
<1>1. Append(d, m) \in Seq(Message) /\ Range(Append(d, m)) = D \cup {m}
  <2>1. d \in Seq(Message) /\ <<m>> \in Seq(Message) /\ Append(d, m) = d \o <<m>>
    BY DEF Flows
  <2>2. Range(d \o <<m>>) = Range(d) \cup Range(<<m>>)
    BY <2>1, RangeConcat, Zenon
  <2>3. Range(<<m>>) = {m}
    BY Short
  <2> QED
    BY <2>1, <2>2, <2>3
<1>2. Flows(k, a, c, <<>>, p, Append(d, m), n)
  BY <1>1, Short DEF Flows, Places
<1>3. /\ Ascending(k, a, c, <<m>>, p) /\ Sorted(K, A, C, {m}, P)
      /\ Complete(K \cup A \cup C \cup {m} \cup P, D, n)
  <2>1. Range(<<m>>) = {m}
    BY Short
  <2>2. /\ Ascending(k, a, c, <<m>>, p) /\ Sorted(Range(k), Range(a), Range(c), Range(<<m>>), Range(p))
        /\ Complete(Range(k) \cup Range(a) \cup Range(c) \cup Range(<<m>>) \cup Range(p), Range(d), n)
    BY DeliveredParts, Zenon
  <2> QED
    BY <2>1, <2>2
<1> HIDE DEF K, A, C, P, D
<1>4. Ascending(k, a, c, <<>>, p) /\ Sorted(K, A, C, {}, P)
  BY <1>3, Short DEF Ascending, Sorted, Before
<1>5. IsKey(m) => m \notin K \cup A \cup C \cup P
  BY <1>3 DEF Sorted, Before, Message
<1>6. Complete(K \cup A \cup C \cup {} \cup P, D \cup {m}, n)
  BY <1>3, <1>5 DEF Complete
<1>7. /\ Sorted(Range(k), Range(a), Range(c), Range(<<>>), Range(p))
      /\ Complete(Range(k) \cup Range(a) \cup Range(c) \cup Range(<<>>) \cup Range(p),
                  Range(Append(d, m)), n)
  <2>1. Range(<<>>) = {}
    BY Short
  <2> QED
    BY <1>1, <1>4, <1>6, <2>1, Zenon DEF K, A, C, P, D
<1> QED
  BY <1>2, <1>4, <1>7, DeliveredParts, Zenon

\* kmain has counted the timer message it holds.
LEMMA CountedMove ==
  ASSUME NEW k, NEW c, NEW b, NEW p, NEW d, NEW n,
         Flows(k, <<Timer>>, c, b, p, d, n), Delivered(Five(k, <<Timer>>, c, b, p), d, n)
  PROVE  Delivered(Five(k, <<>>, c, b, p), d, n)
<1> DEFINE K == Range(k)
           B == Range(b)
           C == Range(c)
           P == Range(p)
           D == Range(d)
<1>0. Timer \in Message /\ ~ IsKey(Timer)
  BY KernelAssumption DEF Message, Timer, IsKey
<1>1. Flows(k, <<>>, c, b, p, d, n)
  BY Short DEF Flows, Places
<1>2. /\ Ascending(k, <<Timer>>, c, b, p) /\ Sorted(K, {Timer}, C, B, P)
      /\ Complete(K \cup {Timer} \cup C \cup B \cup P, D, n)
  <2>1. Range(<<Timer>>) = {Timer}
    BY <1>0, Short
  <2>2. /\ Ascending(k, <<Timer>>, c, b, p) /\ Sorted(Range(k), Range(<<Timer>>), Range(c), Range(b), Range(p))
        /\ Complete(Range(k) \cup Range(<<Timer>>) \cup Range(c) \cup Range(b) \cup Range(p), Range(d), n)
    BY DeliveredParts, Zenon
  <2> QED
    BY <2>1, <2>2
<1> HIDE DEF K, B, C, P, D
<1>3. /\ Ascending(k, <<>>, c, b, p) /\ Sorted(K, {}, C, B, P)
      /\ Complete(K \cup {} \cup C \cup B \cup P, D, n)
  BY <1>0, <1>2, Short DEF Ascending, Sorted, Before, Complete
<1> QED
  BY <1>1, <1>3, Short, DeliveredParts, Zenon DEF K, B, C, P, D

\* A handler starts with a timer message.
LEMMA StartedMove ==
  ASSUME NEW k, NEW a, NEW c, NEW p, NEW d, NEW n,
         Flows(k, a, c, <<>>, p, d, n), Delivered(Five(k, a, c, <<>>, p), d, n)
  PROVE  Delivered(Five(k, a, c, <<Timer>>, p), d, n)
<1> DEFINE K == Range(k)
           A == Range(a)
           C == Range(c)
           P == Range(p)
           D == Range(d)
<1>0. Timer \in Message /\ ~ IsKey(Timer)
  BY KernelAssumption DEF Message, Timer, IsKey
<1>1. Flows(k, a, c, <<Timer>>, p, d, n)
  BY <1>0, Short DEF Flows, Places
<1>2. /\ Ascending(k, a, c, <<>>, p) /\ Sorted(K, A, C, {}, P)
      /\ Complete(K \cup A \cup C \cup {} \cup P, D, n)
  <2>1. Range(<<>>) = {}
    BY Short
  <2>2. /\ Ascending(k, a, c, <<>>, p) /\ Sorted(Range(k), Range(a), Range(c), Range(<<>>), Range(p))
        /\ Complete(Range(k) \cup Range(a) \cup Range(c) \cup Range(<<>>) \cup Range(p), Range(d), n)
    BY DeliveredParts, Zenon
  <2> QED
    BY <2>1, <2>2, Zenon
<1> HIDE DEF K, A, C, P, D
<1>3. /\ Ascending(k, a, c, <<Timer>>, p) /\ Sorted(K, A, C, {Timer}, P)
      /\ Complete(K \cup A \cup C \cup {Timer} \cup P, D, n)
  BY <1>0, <1>2, Short DEF Ascending, Sorted, Before, Complete
<1> QED
  BY <1>0, <1>1, <1>3, Short, DeliveredParts, Zenon DEF K, A, C, P, D

\* The 8042 shows the next scancode.
LEMMA ShownMove ==
  ASSUME NEW k, NEW a, NEW c, NEW b, NEW d, NEW n, n < MaxKeys,
         Flows(k, a, c, b, <<>>, d, n), Delivered(Five(k, a, c, b, <<>>), d, n)
  PROVE  Delivered(Five(k, a, c, b, <<n + 1>>), d, n + 1)
<1> DEFINE K == Range(k)
           A == Range(a)
           C == Range(c)
           B == Range(b)
           D == Range(d)
           z == n + 1
<1>0. n \in 0 .. MaxKeys /\ z \in Message /\ z \in 0 .. MaxKeys
  BY KernelAssumption DEF Flows, Message
<1>1. Flows(k, a, c, b, <<z>>, d, z)
  BY <1>0, Short DEF Flows, Places
<1>2. /\ Ascending(k, a, c, b, <<>>) /\ Sorted(K, A, C, B, {})
      /\ Complete(K \cup A \cup C \cup B \cup {}, D, n)
  <2>1. Range(<<>>) = {}
    BY Short
  <2>2. /\ Ascending(k, a, c, b, <<>>) /\ Sorted(Range(k), Range(a), Range(c), Range(b), Range(<<>>))
        /\ Complete(Range(k) \cup Range(a) \cup Range(c) \cup Range(b) \cup Range(<<>>), Range(d), n)
    BY DeliveredParts, Zenon
  <2> QED
    BY <2>1, <2>2, Zenon
<1>3. K \subseteq Message /\ A \subseteq Message /\ C \subseteq Message /\ B \subseteq Message
      /\ D \subseteq Message
  BY DEF Range, Flows, Places
<1>4. /\ \A x \in Message : IsKey(x) => (x \in 1 .. z <=> x \in 1 .. n \/ x = z)
      /\ \A x \in Message : x \in 1 .. n => x < z
  BY <1>0 DEF Message, IsKey, Timer
<1> HIDE DEF K, A, C, B, D, z
<1>5. \A x \in K \cup A \cup C \cup B \cup D : IsKey(x) => x < z
  BY <1>2, <1>3, <1>4 DEF Complete
<1>6. Ascending(k, a, c, b, <<z>>) /\ Sorted(K, A, C, B, {z})
  BY <1>0, <1>2, <1>5, Short DEF Ascending, Sorted, Before
<1>7. z \notin D \/ ~ IsKey(z)
  BY <1>0, <1>5
<1>8. Complete(K \cup A \cup C \cup B \cup {z}, D, z)
  BY <1>2, <1>4, <1>7 DEF Complete
<1>9. Delivered(Five(k, a, c, b, <<z>>), d, z)
  BY <1>0, <1>1, <1>6, <1>8, Short, DeliveredParts, Zenon DEF K, A, C, B, D
<1> QED
  BY <1>9 DEF z

-----------------------------------------------------------------------------

\* What is true of the messages under way: n scancodes were shown, x timer
\* messages are not counted yet.
FlowOf(k, a, c, b, p, d, n, x) ==
  /\ Flows(k, a, c, b, p, d, n)
  /\ Delivered(Five(k, a, c, b, p), d, n)
  /\ \A m \in Range(k) : IsKey(m)
  /\ x = TimersIn(a) + TimersIn(c) + TimersIn(b) + TimersIn(d)

\* Messages are counted with numbers, one by one and together.
LEMMA Counting ==
  ASSUME SetFacts
  PROVE  /\ \A s \in Seq(Message) : TimersIn(s) \in Nat
         /\ TimersIn(<<>>) = 0
         /\ \A m \in Message : TimersIn(<<m>>) = IF m = Timer THEN 1 ELSE 0
         /\ \A s \in Seq(Message), m \in Message :
              TimersIn(Append(s, m)) = TimersIn(s) + TimersIn(<<m>>)
         /\ \A s \in Seq(Message) : s # <<>> => TimersIn(s) = TimersIn(<<Head(s)>>) + TimersIn(Tail(s))
<1>1. \A s \in Seq(Message) : TimersIn(s) \in Nat
  BY DEF SetFacts
<1>2. TimersIn(<<>>) = 0
  <2>1. {i \in DOMAIN <<>> : <<>>[i] = Timer} = {}
    OBVIOUS
  <2> QED
    BY <2>1 DEF SetFacts, TimersIn
<1>3. ASSUME NEW m \in Message PROVE TimersIn(<<m>>) = IF m = Timer THEN 1 ELSE 0
  <2>1. {i \in DOMAIN <<m>> : <<m>>[i] = Timer} = IF m = Timer THEN {1} ELSE {}
    OBVIOUS
  <2> QED
    BY <2>1, Zenon DEF SetFacts, TimersIn
<1>4. ASSUME NEW s \in Seq(Message), NEW m \in Message
      PROVE  TimersIn(Append(s, m)) = TimersIn(s) + TimersIn(<<m>>)
  <2>1. Append(s, m) = s \o <<m>> /\ <<m>> \in Seq(Message)
    OBVIOUS
  <2>2. TimersIn(s \o <<m>>) = TimersIn(s) + TimersIn(<<m>>)
    BY <2>1, Zenon DEF SetFacts
  <2> QED
    BY <2>1, <2>2
<1>5. ASSUME NEW s \in Seq(Message), s # <<>>
      PROVE  TimersIn(s) = TimersIn(<<Head(s)>>) + TimersIn(Tail(s))
  <2>1. s = <<Head(s)>> \o Tail(s) /\ <<Head(s)>> \in Seq(Message) /\ Tail(s) \in Seq(Message)
    BY <1>5
  <2>2. TimersIn(<<Head(s)>> \o Tail(s)) = TimersIn(<<Head(s)>>) + TimersIn(Tail(s))
    BY <2>1, Zenon DEF SetFacts
  <2> QED
    BY <2>1, <2>2, Zenon
<1> QED
  BY <1>1, <1>2, <1>3, <1>4, <1>5

\* intmsg_pop hands the head of the queue to kmain.
LEMMA PopMove ==
  ASSUME SetFacts, NEW k, NEW c, NEW b, NEW p, NEW d, NEW n, NEW x, FlowOf(k, <<>>, c, b, p, d, n, x), c # <<>>
  PROVE  FlowOf(k, <<Head(c)>>, Tail(c), b, p, d, n, x)
<1> DEFINE h == Head(c)
           r == Tail(c)
<1>1. Flows(k, <<>>, c, b, p, d, n) /\ c \in Seq(Message) /\ b \in Seq(Message) /\ d \in Seq(Message)
  BY DEF FlowOf, Flows, Places
<1>2. h \in Message /\ r \in Seq(Message) /\ <<h>> \in Seq(Message)
  BY <1>1
<1>3. TimersIn(c) = TimersIn(<<h>>) + TimersIn(r) /\ TimersIn(<<>>) = 0
  BY <1>1, Counting
<1>4. {TimersIn(<<h>>), TimersIn(r), TimersIn(b), TimersIn(d)} \subseteq Nat
  BY <1>1, <1>2, Counting, Zenon
<1>5. Five(k, <<h>>, r, b, p) = Five(k, <<>>, c, b, p)
  <2>1. <<h>> \o r = <<>> \o c
    BY <1>1
  <2> QED
    BY <2>1 DEF Five
<1> HIDE DEF h, r
<1>6. Flows(k, <<h>>, r, b, p, d, n)
  BY <1>1, <1>2 DEF Flows, Places
<1>7. FlowOf(k, <<h>>, r, b, p, d, n, x)
  BY <1>3, <1>4, <1>5, <1>6 DEF FlowOf
<1> QED
  BY <1>7 DEF h, r

\* intmsg_push puts the message of the handler behind the others.
LEMMA PushMove ==
  ASSUME SetFacts, NEW k, NEW a, NEW c, NEW m \in Message, NEW p, NEW d, NEW n, NEW x,
         FlowOf(k, a, c, <<m>>, p, d, n, x)
  PROVE  FlowOf(k, a, Append(c, m), <<>>, p, d, n, x)
<1>1. /\ Flows(k, a, c, <<m>>, p, d, n)
      /\ a \in Seq(Message) /\ c \in Seq(Message) /\ d \in Seq(Message)
  BY DEF FlowOf, Flows, Places
<1>2. Append(c, m) \in Seq(Message) /\ <<m>> \in Seq(Message)
  BY <1>1
<1>3. TimersIn(Append(c, m)) = TimersIn(c) + TimersIn(<<m>>) /\ TimersIn(<<>>) = 0
  BY <1>1, Counting
<1>4. {TimersIn(<<m>>), TimersIn(a), TimersIn(c), TimersIn(d)} \subseteq Nat
  BY <1>1, <1>2, Counting
<1>5. Five(k, a, Append(c, m), <<>>, p) = Five(k, a, c, <<m>>, p)
  <2>1. (a \o Append(c, m)) \o <<>> = (a \o c) \o <<m>>
    BY <1>1
  <2> QED
    BY <2>1, Zenon DEF Five
<1>6. Flows(k, a, Append(c, m), <<>>, p, d, n)
  BY <1>1, <1>2, Short DEF Flows, Places
<1> QED
  BY <1>3, <1>4, <1>5, <1>6 DEF FlowOf

\* A full queue refuses it.
LEMMA RefuseMove ==
  ASSUME SetFacts, NEW k, NEW a, NEW c, NEW m \in Message, NEW p, NEW d, NEW n, NEW x,
         FlowOf(k, a, c, <<m>>, p, d, n, x)
  PROVE  FlowOf(k, a, c, <<>>, p, Append(d, m), n, x)
<1>1. /\ Flows(k, a, c, <<m>>, p, d, n) /\ Delivered(Five(k, a, c, <<m>>, p), d, n)
      /\ a \in Seq(Message) /\ c \in Seq(Message) /\ d \in Seq(Message)
  BY DEF FlowOf, Flows, Places
<1>2. Delivered(Five(k, a, c, <<>>, p), Append(d, m), n)
  BY <1>1, RefusedMove
<1>3. TimersIn(Append(d, m)) = TimersIn(d) + TimersIn(<<m>>) /\ TimersIn(<<>>) = 0
  BY <1>1, Counting
<1>4. {TimersIn(<<m>>), TimersIn(a), TimersIn(c), TimersIn(d)} \subseteq Nat
  BY <1>1, Counting
<1>5. Flows(k, a, c, <<>>, p, Append(d, m), n)
  BY <1>1, Short DEF Flows, Places
<1> QED
  BY <1>2, <1>3, <1>4, <1>5 DEF FlowOf

\* keyboard_handler is given the scancode.
LEMMA KeyMove ==
  ASSUME SetFacts, NEW k, NEW m \in Message, NEW c, NEW b, NEW p, NEW d, NEW n, NEW x, m # Timer,
         FlowOf(k, <<m>>, c, b, p, d, n, x)
  PROVE  FlowOf(Append(k, m), <<>>, c, b, p, d, n, x)
<1>1. /\ Flows(k, <<m>>, c, b, p, d, n) /\ k \in Seq(Message)
      /\ b \in Seq(Message) /\ c \in Seq(Message) /\ d \in Seq(Message)
  BY DEF FlowOf, Flows, Places
<1>2. TimersIn(<<m>>) = 0 /\ TimersIn(<<>>) = 0
  BY Counting
<1>3. {TimersIn(c), TimersIn(b), TimersIn(d)} \subseteq Nat
  BY <1>1, Counting
<1>4. Five(Append(k, m), <<>>, c, b, p) = Five(k, <<m>>, c, b, p)
  <2>1. ASSUME NEW y \in Seq(Message) PROVE Append(k, m) \o (<<>> \o y) = k \o (<<m>> \o y)
    BY <1>1
  <2>2. /\ c \o b \in Seq(Message)
        /\ <<>> \o c \o b = <<>> \o (c \o b) /\ <<m>> \o c \o b = <<m>> \o (c \o b)
    BY <1>1
  <2> QED
    BY <2>1, <2>2 DEF Five
<1>5. Append(k, m) \in Seq(Message) /\ \A y \in Range(Append(k, m)) : IsKey(y)
  <2>1. Append(k, m) = k \o <<m>> /\ <<m>> \in Seq(Message)
    BY <1>1
  <2>2. Range(k \o <<m>>) = Range(k) \cup Range(<<m>>)
    BY <1>1, <2>1, RangeConcat, Zenon
  <2>3. Range(<<m>>) = {m}
    BY Short
  <2> QED
    BY <1>1, <2>1, <2>2, <2>3 DEF FlowOf, IsKey
<1>6. Flows(Append(k, m), <<>>, c, b, p, d, n)
  BY <1>1, <1>5, Short DEF Flows, Places
<1> QED
  BY <1>2, <1>3, <1>4, <1>5, <1>6 DEF FlowOf

\* timer_handler counts the message.
LEMMA TickMove ==
  ASSUME SetFacts, NEW k, NEW c, NEW b, NEW p, NEW d, NEW n, NEW x,
         FlowOf(k, <<Timer>>, c, b, p, d, n, x)
  PROVE  FlowOf(k, <<>>, c, b, p, d, n, x - 1)
<1>1. /\ Flows(k, <<Timer>>, c, b, p, d, n) /\ Delivered(Five(k, <<Timer>>, c, b, p), d, n)
      /\ b \in Seq(Message) /\ c \in Seq(Message) /\ d \in Seq(Message)
  BY DEF FlowOf, Flows, Places
<1>2. Delivered(Five(k, <<>>, c, b, p), d, n)
  BY <1>1, CountedMove
<1>3. TimersIn(<<Timer>>) = 1 /\ TimersIn(<<>>) = 0
  BY Counting, KernelAssumption DEF Timer, Message
<1>4. {TimersIn(c), TimersIn(b), TimersIn(d)} \subseteq Nat
  BY <1>1, Counting
<1>5. Flows(k, <<>>, c, b, p, d, n)
  BY <1>1, Short DEF Flows, Places
<1> QED
  BY <1>2, <1>3, <1>4, <1>5 DEF FlowOf

\* keyboard_int_handler reads the scancode from the port.
LEMMA ReadMove ==
  ASSUME SetFacts, NEW k, NEW a, NEW c, NEW m \in Message, NEW d, NEW n, NEW x, m # Timer,
         FlowOf(k, a, c, <<>>, <<m>>, d, n, x)
  PROVE  FlowOf(k, a, c, <<m>>, <<>>, d, n, x)
<1>1. /\ Flows(k, a, c, <<>>, <<m>>, d, n) /\ k \in Seq(Message)
      /\ a \in Seq(Message) /\ c \in Seq(Message) /\ d \in Seq(Message)
  BY DEF FlowOf, Flows, Places
<1>2. TimersIn(<<m>>) = 0 /\ TimersIn(<<>>) = 0
  BY Counting
<1>3. {TimersIn(a), TimersIn(c), TimersIn(d)} \subseteq Nat
  BY <1>1, Counting
<1>4. Five(k, a, c, <<m>>, <<>>) = Five(k, a, c, <<>>, <<m>>)
  <2>1. ASSUME NEW y \in Seq(Message)
        PROVE  (k \o (y \o <<m>>)) \o <<>> = (k \o (y \o <<>>)) \o <<m>>
    BY <1>1
  <2>2. a \o c \in Seq(Message)
    BY <1>1
  <2> QED
    BY <2>1, <2>2 DEF Five
<1>5. Flows(k, a, c, <<m>>, <<>>, d, n)
  BY <1>1, Short DEF Flows, Places
<1> QED
  BY <1>2, <1>3, <1>4, <1>5 DEF FlowOf

\* The timer handler starts, with a message of its own.
LEMMA StartMove ==
  ASSUME SetFacts, NEW k, NEW a, NEW c, NEW p, NEW d, NEW n, NEW x,
         FlowOf(k, a, c, <<>>, p, d, n, x)
  PROVE  FlowOf(k, a, c, <<Timer>>, p, d, n, x + 1)
<1>1. /\ Flows(k, a, c, <<>>, p, d, n) /\ Delivered(Five(k, a, c, <<>>, p), d, n)
      /\ a \in Seq(Message) /\ c \in Seq(Message) /\ d \in Seq(Message)
  BY DEF FlowOf, Flows, Places
<1>2. Delivered(Five(k, a, c, <<Timer>>, p), d, n)
  BY <1>1, StartedMove
<1>3. TimersIn(<<Timer>>) = 1 /\ TimersIn(<<>>) = 0 /\ Timer \in Message
  BY Counting, KernelAssumption DEF Timer, Message
<1>4. {TimersIn(a), TimersIn(c), TimersIn(d)} \subseteq Nat
  BY <1>1, Counting
<1>5. Flows(k, a, c, <<Timer>>, p, d, n)
  BY <1>1, <1>3, Short DEF Flows, Places
<1> QED
  BY <1>2, <1>3, <1>4, <1>5 DEF FlowOf

\* The 8042 shows one more scancode.
LEMMA ShowMove ==
  ASSUME NEW k, NEW a, NEW c, NEW b, NEW d, NEW n, NEW x, n < MaxKeys,
         FlowOf(k, a, c, b, <<>>, d, n, x)
  PROVE  FlowOf(k, a, c, b, <<n + 1>>, d, n + 1, x)
<1>1. Flows(k, a, c, b, <<>>, d, n) /\ Delivered(Five(k, a, c, b, <<>>), d, n)
  BY DEF FlowOf
<1>2. Delivered(Five(k, a, c, b, <<n + 1>>), d, n + 1)
  BY <1>1, ShownMove
<1>3. Flows(k, a, c, b, <<n + 1>>, d, n + 1)
  BY <1>1, KernelAssumption DEF Flows, Places, Message
<1> QED
  BY <1>2, <1>3 DEF FlowOf

-----------------------------------------------------------------------------
(* Messages on their way through the kernel.                               *)

\* Where kmain, and a handler, holds a message.
Holding == {"enable_loop", "match"}
Handing == {"deref", "build", "push", "try_push"}

\* Where the terminal reads with no line complete, and where a key may just
\* have completed one.
Reading ==
  {"loop", "deref", "build", "pop", "try_pop", "enable_loop", "enable_and_hlt", "halted",
   "match", "process_input", "process_input_drop"}
Between == {"unlock_keyboard", "getline", "getline_drop"}

Expects(t) == t.input_status = "Inputting" /\ ~ t.line
Completed(t) == t.input_status = "Waiting" /\ t.line

\* The Once of QUEUE where the running context is at l, and the terminal where
\* kmain is at l.
OnceAt(l, o) ==
  /\ l = "build" => o = "Running"
  /\ l \in {"pop", "try_pop", "push", "try_push"} => o = "Complete"
TermAt(l, t) ==
  /\ l \in Reading => Expects(t)
  /\ l \in Between => Expects(t) \/ Completed(t)
  /\ l \notin Reading \cup Between => ~ t.line

\* Only a running handler holds a message, the 8259 asks for the keyboard only
\* while the port holds a scancode, and the queue is empty until it is built.
Side ==
  /\ MaxDepth > 1 /\ depth = 1 => pc[2] \notin Handing
  /\ KEYBOARD \in pic.irr => port # 0
  /\ once # "Complete" => queue.empty
  /\ queue.empty => queue.first = queue.last
  /\ ~ dead => OnceAt(pc[depth], once) /\ TermAt(pc[1], term)
  /\ ~ dead /\ pc[depth] = "read_port" => port # 0 /\ KEYBOARD \notin pic.irr

PortOut == IF port = 0 THEN <<>> ELSE <<port>>
Requested == IF TIMER \in pic.irr THEN 1 ELSE 0

Flow ==
  FlowOf(keys, ByKmain, Q!Contents(queue), ByHandler, PortOut, dropped, sent,
         fired - ticks - merged - Requested)

Typed == TypeOK /\ Len(typed) <= MaxKeys

FlowInv == Typed /\ Side /\ Flow

\* Where nothing changes that a message can be in, the messages stay.
LEMMA FlowKept ==
  ASSUME Flow, UNCHANGED <<queue, ticks, keys, dropped, port, sent, fired, merged>>,
         pic'.irr = pic.irr, ByKmain' = ByKmain, ByHandler' = ByHandler
  PROVE  Flow'
<1>1. PortOut' = PortOut /\ Requested' = Requested
  BY Zenon DEF PortOut, Requested
<1> QED
  BY <1>1, Zenon DEF Flow

\* Where only control moves, types stay.
LEMMA TypesKept ==
  ASSUME FlowInv, KernelInv',
         UNCHANGED <<data, queue, once, pic_lock, kbd_lock, term, ticks, keys, shown, dropped,
                     pic, port, typed, sent, fired, merged>>
  PROVE  Typed'
<1>1. pc' \in [Context -> Label] /\ back' \in [Context -> Label]
  BY Zenon DEF KernelInv
<1> QED
  BY <1>1, Zenon DEF FlowInv, Typed, TypeOK

\* The running context goes from l to m, and no message moves.
Calm(l, m) ==
  /\ pc[depth] = l /\ pc' = [pc EXCEPT ![depth] = m] /\ depth' = depth
  /\ UNCHANGED <<data, queue, ticks, keys, dropped, port, typed, sent, fired, merged>>
  /\ pic'.irr = pic.irr /\ TypeOK'
  /\ depth = 1 => (l \in Holding <=> m \in Holding)
  /\ depth = 2 => (l \in Handing <=> m \in Handing)

\* The Once and the terminal are then as m asks.
Fits(m) ==
  /\ once' # "Complete" => once # "Complete"
  /\ dead' \/ (OnceAt(m, once') /\ TermAt(pc'[1], term') /\ m # "read_port")

\* Such a step is in order.
LEMMA CalmStep ==
  ASSUME KInv, FlowInv, NEW l, NEW m, Calm(l, m), Fits(m)
  PROVE  FlowInv'
<1> USE DEF Calm
<1>1. /\ pc \in [Context -> Label] /\ depth \in Context /\ Context = 1 .. MaxDepth
      /\ MaxDepth \in Nat \ {0}
  BY FromIrqMutex, Zenon DEF KInv, KernelInv
<1>3. Typed'
  BY DEF FlowInv, Typed
<1>4. pc'[1] \in Holding <=> pc[1] \in Holding
  BY <1>1
<1>5. MaxDepth > 1 => (pc'[2] \in Handing <=> pc[2] \in Handing)
  BY <1>1
<1>6. ByKmain' = ByKmain /\ ByHandler' = ByHandler
  BY <1>4, <1>5 DEF ByKmain, ByHandler, Carried, Holding, Handing
<1>8. Flow'
  BY <1>6, FlowKept DEF FlowInv
<1>9. pc'[depth'] = m
  BY <1>1
<1>10. Side'
  BY <1>5, <1>9 DEF Side, FlowInv, Fits
<1> QED
  BY <1>3, <1>8, <1>10 DEF FlowInv

\* A step between l and m that leaves the rest alone, and what it asks of them.
Still(l, m) ==
  /\ pc[depth] = l /\ pc' = [pc EXCEPT ![depth] = m] /\ depth' = depth
  /\ UNCHANGED <<data, datavars, devvars>>
  /\ depth = 1 => (l \in Holding <=> m \in Holding)
  /\ depth = 2 => (l \in Handing <=> m \in Handing)
Suits(l, m) ==
  /\ m \notin {"build", "pop", "push", "read_port"}
  /\ m = "try_pop" => l = "pop"
  /\ m = "try_push" => l = "push"
  /\ depth = 1 => /\ m \in Reading => l \in Reading
                  /\ m \in Between => l \in Between
                  /\ m \notin Reading \cup Between => l \notin Between

\* Most steps are such.
LEMMA StillStep ==
  ASSUME KInv, FlowInv, KernelInv', NEW l, NEW m, Still(l, m), dead' \/ (~ dead /\ Suits(l, m))
  PROVE  FlowInv'
<1>1. /\ pc \in [Context -> Label] /\ depth \in Context /\ Context = 1 .. MaxDepth
      /\ MaxDepth \in Nat \ {0}
  BY FromIrqMutex DEF KInv, KernelInv
<1>2. UNCHANGED <<data, queue, once, pic_lock, kbd_lock, term, ticks, keys, shown, dropped,
                  pic, port, typed, sent, fired, merged>>
  BY DEF Still, datavars, devvars
<1>3. Calm(l, m)
  <2>1. TypeOK'
    BY <1>2, TypesKept, Zenon DEF Typed
  <2> QED
    BY <1>2, <2>1 DEF Calm, Still
<1>4. ASSUME ~ dead' PROVE OnceAt(m, once') /\ TermAt(pc'[1], term') /\ m # "read_port"
  <2>1. ~ dead /\ Suits(l, m)
    BY <1>4
  <2>2. OnceAt(l, once) /\ TermAt(pc[1], term)
    BY <2>1 DEF FlowInv, Side, Still
  <2>3. OnceAt(m, once) /\ m # "read_port"
    BY <2>1, <2>2 DEF OnceAt, Suits
  <2>4. CASE depth = 1
    <3>1. pc[1] = l /\ pc'[1] = m
      BY <1>1, <2>4 DEF Still
    <3>2. TermAt(l, term) => TermAt(m, term)
      BY <2>1, <2>4, Zenon DEF TermAt, Suits, Expects
    <3> QED
      BY <1>2, <2>2, <2>3, <3>1, <3>2
  <2>5. CASE depth # 1
    <3>1. pc'[1] = pc[1]
      BY <1>1, <2>5 DEF Still
    <3> QED
      BY <1>2, <2>2, <2>3, <3>1
  <2> QED
    BY <2>4, <2>5
<1>5. Fits(m)
  BY <1>2, <1>4 DEF Fits
<1> QED
  BY <1>3, <1>5, CalmStep

\* kmain goes on from l to m.
Onward(l, m) ==
  /\ At(l) /\ Goto(m) /\ UNCHANGED <<depth, dead, data, datavars, devvars>>
  /\ l \in KmainLabels \ HandlerLabels
  /\ m \notin {"build", "pop", "push", "read_port", "try_push"}
  /\ m = "try_pop" => l = "pop"
  /\ l \in Holding <=> m \in Holding
  /\ m \in Reading => l \in Reading
  /\ m \in Between => l \in Between
  /\ m \notin Reading \cup Between => l \notin Between

\* Such a step is in order.
LEMMA OnwardStep ==
  ASSUME KInv, FlowInv, KernelInv', NEW l, NEW m, Onward(l, m)
  PROVE  FlowInv'
<1>1. depth = 1 /\ ~ dead
  BY InKmain DEF Onward
<1>2. Still(l, m) /\ Suits(l, m)
  <2>0. depth # 2
    BY <1>1
  <2>1. Still(l, m)
    BY <2>0, Zenon DEF Still, Onward, At, Goto
  <2>2. Suits(l, m)
    BY <1>1, Zenon DEF Suits, Onward
  <2> QED
    BY <2>1, <2>2
<1> QED
  BY <1>1, <1>2, StillStep

\* lock() and the drop of a guard leave the context and the kernel's life alone.
LEMMA LockKeeps ==
  /\ \A x, e : Lock!CallLock(x, e) => UNCHANGED <<depth, dead>>
  /\ Lock!Release \/ Lock!Sti \/ Lock!Cli \/ UNCHANGED lockvars => UNCHANGED <<depth, dead>>
BY DEF Lock!CallLock, Lock!Release, Lock!Sti, Lock!Cli, lockvars

\* enable(), log!() and print!() hold no message.
LEMMA StartFlow ==
  ASSUME KInv, FlowInv, KernelInv', Start \/ Log \/ PrintOut
  PROVE  FlowInv'
<1>1. ASSUME Start PROVE FlowInv'
  <2>1. Onward("enable", "log") \/ Onward("log_done", "log")
    BY <1>1, LockKeeps DEF Start, Onward, Enter, Goto, KmainLabels, HandlerLabels, Holding, Reading, Between
  <2> QED
    BY <2>1, OnwardStep
<1>2. ASSUME NEW l, NEW m, At(l), Goto(m), Lock!CallLock("TERM", "lock") \/ Lock!CallLock("COM1", "lock") \/ Lock!Release,
             UNCHANGED <<data, datavars, devvars>>,
             <<l, m>> \in {<<"log", "log_com1">>, <<"log_com1", "log_drop_com1">>,
                           <<"log_drop_com1", "log_drop_term">>, <<"log_drop_term", "log_done">>,
                           <<"log_drop_term", "prompt">>, <<"print", "print_drop">>,
                           <<"print_drop", "start_inputting">>, <<"print_drop", "prompt">>}
      PROVE  FlowInv'
  <2>1. Onward(l, m)
    BY <1>2, LockKeeps DEF Onward, KmainLabels, HandlerLabels, Holding, Reading, Between
  <2> QED
    BY <2>1, OnwardStep
<1>3. ASSUME NEW l \in {"log_drop_term", "print_drop"}, At(l)
      PROVE  back[depth] \in {"log_done", "prompt", "start_inputting"}
             /\ (l = "log_drop_term" => back[depth] # "start_inputting")
             /\ (l = "print_drop" => back[depth] # "log_done")
  BY <1>3, InKmain DEF Ctl, KmainLabels, HandlerLabels
<1>4. ASSUME Log PROVE FlowInv'
  BY <1>2, <1>3, <1>4 DEF Log, Begin, Drop, Leave
<1>5. ASSUME PrintOut PROVE FlowInv'
  BY <1>2, <1>3, <1>5 DEF PrintOut, Begin, Drop, Leave
<1> QED
  BY <1>1, <1>4, <1>5

\* The prompt, and the steps of the loop that hand nothing on.
LEMMA LoopFlow ==
  ASSUME KInv, FlowInv, KernelInv', LoopTop \/ EnableLoop \/ EnableAndHlt \/ InputLine
  PROVE  FlowInv'
<1>1. \/ Onward("loop", "deref") \/ Onward("enable_loop", "match")
      \/ Onward("enable_and_hlt", "halted")
      \/ Onward("input_line", "prompt") \/ Onward("input_line", "print")
  BY LockKeeps DEF LoopTop, LoopFlag, EnableLoop, EnableAndHlt, InputLine, AfterCommand, Onward, Enter, Goto,
     KmainLabels, HandlerLabels, Holding, Reading, Between
<1> QED
  BY <1>1, OnwardStep, Zenon

\* lock() leads from l to m.
LEMMA BeginFlow ==
  ASSUME KInv, FlowInv, KernelInv', NEW l, NEW x, NEW m, Begin(l, x, m),
         <<l, m>> \in {<<"start_inputting", "start_inputting_drop">>, <<"pop", "try_pop">>,
                       <<"process_input", "process_input_drop">>, <<"getline", "getline_drop">>}
  PROVE  FlowInv'
<1>1. Onward(l, m)
  BY LockKeeps DEF Begin, Onward, KmainLabels, HandlerLabels, Holding, Reading, Between
<1> QED
  BY <1>1, OnwardStep

\* kmain goes from l to m; terminal, spin locks and the 8259 may change.
Changes(l, m) ==
  /\ At(l) /\ Goto(m)
  /\ UNCHANGED <<depth, dead, data, queue, ticks, keys, dropped, port, typed, sent, fired, merged>>
  /\ pic'.irr = pic.irr /\ pic_lock' \in 0 .. MaxDepth /\ kbd_lock' \in 0 .. MaxDepth
  /\ pic' \in [irr : SUBSET {TIMER, KEYBOARD}, isr : SUBSET {TIMER, KEYBOARD},
               unmasked : SUBSET {TIMER, KEYBOARD}]
  /\ term' \in [input_status : {"Waiting", "Inputting"}, line : BOOLEAN]
  /\ once' \in {"Incomplete", "Running", "Complete"} /\ shown' \in BOOLEAN

\* They are then of their types.
LEMMA ChangedTypes ==
  ASSUME KInv, FlowInv, KernelInv', NEW l, NEW m, Changes(l, m)
  PROVE  TypeOK'
BY DEF FlowInv, Typed, TypeOK, KernelInv, Changes

\* Where l, m are of kmain and the terminal is as m asks, the step is in order.
LEMMA ChangeStep ==
  ASSUME KInv, FlowInv, KernelInv', NEW l, NEW m, Changes(l, m), l \in KmainLabels \ HandlerLabels,
         l \notin Holding, m \in KmainLabels \ (Holding \cup HandlerLabels \cup {"pop", "try_pop"}), once' = once,
         TermAt(l, term) => TermAt(m, term')
  PROVE  FlowInv'
<1>1. depth = 1 /\ ~ dead /\ pc[1] = l
  BY InKmain DEF Changes, At
<1>2. TypeOK'
  BY ChangedTypes
<1>3. pc \in [Context -> Label] /\ 1 \in Context
  BY Basics, Zenon
<1>4. pc' = [pc EXCEPT ![1] = m] /\ pc'[1] = m
  BY <1>1, <1>3 DEF Changes, Goto
<1>5. Calm(l, m)
  <2>1. m \notin Handing /\ l \notin Handing
    BY DEF Handing, HandlerLabels
  <2> QED
    BY <1>1, <1>2, <1>4, <2>1, Zenon DEF Calm, Changes
<1>6. TermAt(m, term')
  BY <1>1 DEF FlowInv, Side
<1>7. Fits(m)
  <2>1. OnceAt(m, once') /\ m # "read_port"
    BY DEF OnceAt, HandlerLabels
  <2> QED
    BY <1>4, <1>6, <2>1, Zenon DEF Fits
<1> QED
  BY <1>5, <1>7, CalmStep

\* set_mask.
LEMMA SetMaskFlow ==
  ASSUME KInv, FlowInv, KernelInv', SetMask
  PROVE  FlowInv'
<1>0. \A l \in {"set_mask", "write_masks", "enable"} : l \notin Reading \cup Between
  BY DEF Reading, Between
<1>1. TypeOK /\ depth \in 0 .. MaxDepth /\ MaxDepth \in Nat
  BY FromIrqMutex DEF KInv, FlowInv, Typed
<1>2. ASSUME At("set_mask"), Goto("write_masks"), pic_lock' = depth,
             UNCHANGED <<lockvars, data, queue, once, kbd_lock, term, ticks, keys, shown, dropped, devvars>>
      PROVE  FlowInv'
  <2>1. Changes("set_mask", "write_masks")
    BY <1>1, <1>2 DEF Changes, TypeOK, lockvars, devvars
  <2>2. once' = once /\ (TermAt("set_mask", term) => TermAt("write_masks", term'))
    BY <1>0, <1>2, Zenon DEF TermAt
  <2> QED
    BY <2>1, <2>2, ChangeStep DEF KmainLabels, HandlerLabels, Holding
<1>3. ASSUME At("write_masks"), Goto("enable"), pic_lock' = 0,
             pic' = [pic EXCEPT !.unmasked = {TIMER, KEYBOARD}],
             UNCHANGED <<lockvars, data, queue, once, kbd_lock, term, ticks, keys, shown, dropped,
                         port, typed, sent, fired, merged>>
      PROVE  FlowInv'
  <2>1. pic'.irr = pic.irr
        /\ pic' \in [irr : SUBSET {TIMER, KEYBOARD}, isr : SUBSET {TIMER, KEYBOARD},
                    unmasked : SUBSET {TIMER, KEYBOARD}]
    BY <1>1, <1>3, Zenon DEF TypeOK
  <2>2. /\ kbd_lock' \in 0 .. MaxDepth /\ shown' \in BOOLEAN
        /\ term' \in [input_status : {"Waiting", "Inputting"}, line : BOOLEAN]
        /\ once' \in {"Incomplete", "Running", "Complete"}
    BY <1>1, <1>3 DEF TypeOK
  <2>3. pic_lock' \in 0 .. MaxDepth /\ UNCHANGED <<depth, dead>>
    BY <1>1, <1>3 DEF lockvars
  <2>4. Changes("write_masks", "enable")
    BY <1>3, <2>1, <2>2, <2>3, Zenon DEF Changes
  <2>5. once' = once /\ (TermAt("write_masks", term) => TermAt("enable", term'))
    BY <1>0, <1>3, Zenon DEF TermAt
  <2> QED
    BY <2>4, <2>5, ChangeStep DEF KmainLabels, HandlerLabels, Holding
<1> QED
  BY <1>2, <1>3 DEF SetMask

\* print!(), then the terminal reads: no line is left in it.
LEMMA PromptFlow ==
  ASSUME KInv, FlowInv, KernelInv', Prompt
  PROVE  FlowInv'
<1>1. TypeOK
  BY DEF FlowInv, Typed
<1>2. ASSUME At("prompt"), Enter("print", "start_inputting"), UNCHANGED <<lockvars, data, datavars, devvars>>
      PROVE  FlowInv'
  <2>1. Onward("prompt", "print")
    BY <1>2, LockKeeps DEF Onward, Enter, Goto, Reading, Between, KmainLabels, HandlerLabels, Holding
  <2> QED
    BY <2>1, OnwardStep
<1>3. ASSUME Begin("start_inputting", "TERM", "start_inputting_drop") PROVE FlowInv'
  BY <1>3, BeginFlow
<1>4. ASSUME Drop("start_inputting_drop"), term' = [term EXCEPT !.input_status = "Inputting"], Goto("loop"),
             UNCHANGED <<data, queue, once, pic_lock, kbd_lock, ticks, keys, shown, dropped, devvars>>
      PROVE  FlowInv'
  <2>1. Changes("start_inputting_drop", "loop")
    BY <1>1, <1>4, LockKeeps, Zenon DEF Changes, TypeOK, Drop, devvars
  <2>2. TermAt("start_inputting_drop", term) => TermAt("loop", term')
    <3>1. term'.input_status = "Inputting" /\ term'.line = term.line
      BY <1>1, <1>4 DEF TypeOK
    <3> QED
      BY <3>1 DEF TermAt, Expects, Reading, Between
  <2> QED
    BY <1>4, <2>1, <2>2, ChangeStep DEF KmainLabels, HandlerLabels, Holding
<1> QED
  BY <1>2, <1>3, <1>4 DEF Prompt

\* getline takes the line: kmain prompts again before it looks for a message.
LEMMA GetlineFlow ==
  ASSUME KInv, FlowInv, KernelInv', Getline
  PROVE  FlowInv'
<1>1. TypeOK
  BY DEF FlowInv, Typed
<1>2. ASSUME Begin("getline", "TERM", "getline_drop") PROVE FlowInv'
  BY <1>2, BeginFlow
<1>3. ASSUME NEW m, At("getline_drop"), GetlineDrops, term' = [term EXCEPT !.line = FALSE],
             m = IF term.line THEN "input_line" ELSE "loop", Goto(m),
             UNCHANGED <<data, queue, once, pic_lock, kbd_lock, ticks, keys, shown, dropped, devvars>>
      PROVE  FlowInv'
  <2>1. Changes("getline_drop", m)
    BY <1>1, <1>3, LockKeeps, Zenon DEF Changes, TypeOK, GetlineDrops, devvars
  <2>2. term'.input_status = term.input_status /\ term'.line = FALSE
    BY <1>1, <1>3 DEF TypeOK
  <2>3. TermAt("getline_drop", term) => TermAt(m, term')
    BY <1>3, <2>2 DEF TermAt, Expects, Completed, Reading, Between
  <2>4. m \in {"input_line", "loop"}
    BY <1>3
  <2> QED
    BY <1>3, <2>1, <2>3, <2>4, ChangeStep, Zenon DEF KmainLabels, HandlerLabels, Holding
<1> QED
  BY <1>2, <1>3 DEF Getline

\* keyboard_handler: the scancode is given to it once, and the terminal reads.
LEMMA KeyboardFlow ==
  ASSUME SetFacts, KInv, FlowInv, KernelInv', KeyboardHandler
  PROVE  FlowInv'
<1>0. TypeOK /\ depth \in Context /\ Context = 1 .. MaxDepth /\ MaxDepth \in Nat \ {0}
  BY Basics, Zenon DEF FlowInv, Typed
<1>1. ASSUME NEW m \in {"unlock_keyboard", "process_input"}, At("match"), data[depth] # Timer, Goto(m),
             kbd_lock' = depth, keys' = Append(keys, data[depth]),
             UNCHANGED <<lockvars, data, queue, once, pic_lock, term, ticks, shown, dropped, devvars>>
      PROVE  FlowInv'
  <2>1. depth = 1 /\ ~ dead /\ pc[1] = "match"
    BY <1>1, KmainRuns
  <2>2. /\ pc' = [pc EXCEPT ![1] = m] /\ pc'[1] = m /\ pc \in [Context -> Label]
        /\ data[1] \in Message /\ data[1] # Timer
    BY <1>0, <1>1, <2>1 DEF TypeOK, Goto
  <2>3. UNCHANGED <<depth, dead, data, queue, once, pic_lock, term, ticks, shown, dropped,
                    pic, port, typed, sent, fired, merged>>
    BY <1>1 DEF lockvars, devvars
  <2>4. ByKmain = <<data[1]>> /\ ByKmain' = <<>>
    BY <2>1, <2>2 DEF ByKmain, Carried
  <2>5. ByHandler' = ByHandler
    <3>1. MaxDepth > 1 => pc'[2] = pc[2]
      BY <1>0, <2>2
    <3> QED
      BY <2>3, <3>1 DEF ByHandler, Carried
  <2>6. PortOut' = PortOut /\ Requested' = Requested
    BY <2>3 DEF PortOut, Requested
  <2> DEFINE x == fired - ticks - merged - Requested
  <2>7. FlowOf(keys, <<data[1]>>, Q!Contents(queue), ByHandler, PortOut, dropped, sent, x)
    BY <2>4 DEF FlowInv, Flow
  <2> HIDE DEF x
  <2>8. FlowOf(Append(keys, data[1]), <<>>, Q!Contents(queue), ByHandler, PortOut, dropped, sent, x)
    BY <2>2, <2>7, KeyMove
  <2>9. Flow'
    BY <1>1, <2>1, <2>3, <2>4, <2>5, <2>6, <2>8, Zenon DEF Flow, x
  <2>10. Typed'
    <3>1. keys' \in Seq(Message) /\ kbd_lock' \in 0 .. MaxDepth
      BY <1>0, <1>1, <2>1, <2>2 DEF TypeOK
    <3> QED
      BY <1>0, <2>3, <3>1, Zenon DEF FlowInv, Typed, TypeOK, KernelInv
  <2>11. Side'
    <3>1. MaxDepth > 1 => pc'[2] = pc[2]
      BY <1>0, <2>2
    <3>2. TermAt("match", term) => TermAt(m, term)
      BY Zenon DEF TermAt, Reading, Between
    <3> QED
      BY <2>1, <2>2, <2>3, <3>1, <3>2, Zenon DEF FlowInv, Side, OnceAt
  <2> QED
    BY <2>9, <2>10, <2>11 DEF FlowInv
<1>2. ASSUME Begin("process_input", "TERM", "process_input_drop") PROVE FlowInv'
  BY <1>2, BeginFlow
<1>3. ASSUME Drop("process_input_drop"), Goto("unlock_keyboard"),
             \/ term' = [input_status |-> "Waiting", line |-> TRUE]
             \/ term' = term,
             UNCHANGED <<data, queue, once, pic_lock, kbd_lock, ticks, keys, shown, dropped, devvars>>
      PROVE  FlowInv'
  <2>1. Changes("process_input_drop", "unlock_keyboard")
    <3>1. term' \in [input_status : {"Waiting", "Inputting"}, line : BOOLEAN]
      <4>1. [input_status |-> "Waiting", line |-> TRUE]
              \in [input_status : {"Waiting", "Inputting"}, line : BOOLEAN]
        OBVIOUS
      <4> QED
        BY <1>0, <1>3, <4>1, Zenon DEF TypeOK
    <3> QED
      BY <1>0, <1>3, <3>1, LockKeeps DEF Changes, TypeOK, Drop, devvars
  <2>2. TermAt("process_input_drop", term) => TermAt("unlock_keyboard", term')
    BY <1>3 DEF TermAt, Reading, Between, Completed
  <2> QED
    BY <1>3, <2>1, <2>2, ChangeStep DEF Holding, KmainLabels, HandlerLabels
<1>4. ASSUME At("unlock_keyboard"), Goto("getline"), kbd_lock' = 0,
             UNCHANGED <<lockvars, data, queue, once, pic_lock, term, ticks, keys, shown, dropped, devvars>>
      PROVE  FlowInv'
  <2>1. Changes("unlock_keyboard", "getline")
    BY <1>0, <1>4 DEF Changes, TypeOK, lockvars, devvars
  <2>2. TermAt("unlock_keyboard", term) => TermAt("getline", term')
    BY <1>4, Zenon DEF TermAt, Reading, Between
  <2> QED
    BY <1>4, <2>1, <2>2, ChangeStep DEF Holding, KmainLabels, HandlerLabels
<1> QED
  BY <1>1, <1>2, <1>3, <1>4 DEF KeyboardHandler

\* timer_handler counts the message kmain holds.
LEMMA TimerFlow ==
  ASSUME SetFacts, KInv, FlowInv, KernelInv', TimerHandler
  PROVE  FlowInv'
<1>0. TypeOK /\ depth \in Context /\ Context = 1 .. MaxDepth /\ MaxDepth \in Nat \ {0}
  BY Basics, Zenon DEF FlowInv, Typed
<1>1. At("match") /\ data[depth] = Timer /\ ticks' = ticks + 1 /\ Goto("getline")
  BY DEF TimerHandler
<1>2. depth = 1 /\ ~ dead /\ pc[1] = "match"
  BY <1>1, KmainRuns
<1>3. /\ pc' = [pc EXCEPT ![1] = "getline"] /\ pc'[1] = "getline" /\ pc \in [Context -> Label]
      /\ MaxDepth > 1 => pc'[2] = pc[2]
  BY <1>0, <1>1, <1>2 DEF TypeOK, Goto
<1>4. UNCHANGED <<depth, dead, data, queue, once, pic_lock, kbd_lock, term, keys, shown, dropped,
                  pic, port, typed, sent, fired, merged>>
  BY DEF TimerHandler, lockvars, devvars
<1>5. ByKmain = <<Timer>> /\ ByKmain' = <<>>
  <2>1. "match" \in {"enable_loop", "match"} /\ "getline" \notin {"enable_loop", "match"}
    OBVIOUS
  <2>2. pc[1] = "match" /\ pc'[1] = "getline" /\ data[1] = Timer
    BY <1>1, <1>2, <1>3, Zenon
  <2> QED
    BY <2>1, <2>2, Zenon DEF ByKmain, Carried
<1>6. ByHandler' = ByHandler /\ PortOut' = PortOut /\ Requested' = Requested
  BY <1>3, <1>4, Zenon DEF ByHandler, Carried, PortOut, Requested
<1> DEFINE x == fired - ticks - merged - Requested
<1>7. FlowOf(keys, <<Timer>>, Q!Contents(queue), ByHandler, PortOut, dropped, sent, x)
  BY <1>5 DEF FlowInv, Flow
<1>8. FlowOf(keys, <<>>, Q!Contents(queue), ByHandler, PortOut, dropped, sent, x - 1)
  <2> HIDE DEF x
  <2> QED
    BY <1>7, TickMove
<1>9. x - 1 = fired - ticks' - merged - Requested
  <2>1. {ticks, fired, merged} \subseteq Nat
    BY <1>0, Zenon DEF TypeOK
  <2>2. Requested \in {0, 1}
    BY Zenon DEF Requested
  <2> QED
    BY <1>1, <2>1, <2>2
<1>10. Flow'
  BY <1>4, <1>5, <1>6, <1>8, <1>9, Zenon DEF Flow
<1>11. Typed'
  <2>1. {ticks, fired, merged} \subseteq Nat
    BY <1>0, Zenon DEF TypeOK
  <2>2. {ticks', fired', merged'} \subseteq Nat
    BY <1>1, <1>4, <2>1
  <2> QED
    BY <1>0, <1>4, <2>2, Zenon DEF FlowInv, Typed, TypeOK, KernelInv
<1>12. Side'
  <2>1. TermAt("match", term) => TermAt("getline", term)
    BY Zenon DEF TermAt, Reading, Between
  <2> QED
    BY <1>2, <1>3, <1>4, <2>1, Zenon DEF FlowInv, Side, OnceAt
<1> QED
  BY <1>10, <1>11, <1>12 DEF FlowInv

\* The Once of QUEUE: the message of a handler stays with it.
LEMMA DerefFlow ==
  ASSUME KInv, FlowInv, KernelInv', Deref, ~ At("build")
  PROVE  FlowInv'
<1>1. At("deref") /\ pc[depth] = "deref"
  BY DEF Deref, At
<1>2. /\ ~ dead /\ depth \in {1, 2} /\ depth \in Context
      /\ back[depth] = IF depth = 1 THEN "pop" ELSE "push"
  BY <1>1, Runs DEF Ctl, PanicLabels
<1>3. /\ TypeOK /\ Context = 1 .. MaxDepth /\ MaxDepth \in Nat \ {0}
      /\ TermAt(pc[1], term)
  BY <1>2, FromIrqMutex DEF KInv, FlowInv, Typed, Side
<1>4. PICK m : /\ \/ m = back[depth] /\ once = "Complete" /\ once' = once
                  \/ m = "build" /\ once = "Incomplete" /\ once' = "Running"
               /\ Goto(m)
  BY DEF Deref, Leave, datavars
<1>5. /\ UNCHANGED <<depth, dead, data, queue, pic_lock, kbd_lock, term, ticks, keys, shown, dropped,
                     pic, port, typed, sent, fired, merged>>
      /\ pc' = [pc EXCEPT ![depth] = m]
  BY <1>4 DEF Deref, lockvars, datavars, devvars, Goto
<1>6. m \in {"build", "pop", "push"} /\ (depth = 1 => m \in {"build", "pop"}) /\ (depth = 2 => m \in {"build", "push"})
  BY <1>2, <1>4
<1>7. TypeOK'
  BY <1>3, <1>4, <1>5, Zenon DEF TypeOK, KernelInv
<1>8. Calm("deref", m)
  BY <1>1, <1>5, <1>6, <1>7 DEF Calm, Holding, Handing
<1>9. OnceAt(m, once') /\ (once' # "Complete" => once # "Complete")
  BY <1>2, <1>4 DEF OnceAt
<1>10. TermAt(pc'[1], term')
  <2>1. CASE depth = 1
    <3>1. pc[1] = "deref" /\ pc'[1] = m
      BY <1>1, <1>3, <1>5, <2>1 DEF TypeOK
    <3>2. TermAt("deref", term) => TermAt(m, term)
      BY <1>6, <2>1 DEF TermAt, Reading, Between
    <3> QED
      BY <1>3, <1>5, <3>1, <3>2
  <2>2. CASE depth = 2
    BY <1>3, <1>5, <2>2 DEF TypeOK
  <2> QED
    BY <1>2, <2>1, <2>2
<1>11. Fits(m)
  BY <1>6, <1>9, <1>10 DEF Fits
<1> QED
  BY <1>8, <1>11, CalmStep

\* What a handler does after its message is in the queue.
LEMMA EoiFlow ==
  ASSUME KInv, FlowInv, KernelInv', SendEoi \/ Begin("push", "QUEUE", "try_push")
  PROVE  FlowInv'
<1>0. /\ TypeOK /\ depth \in Context /\ Context = 1 .. MaxDepth /\ MaxDepth \in Nat \ {0}
      /\ 0 \in 0 .. MaxDepth /\ depth \in 0 .. MaxDepth
  BY FromIrqMutex DEF KInv, FlowInv, Typed
<1>1. PICK l, m : /\ At(l) /\ Goto(m)
                  /\ <<l, m>> \in {<<"push", "try_push">>, <<"send_eoi", "end_of_interrupt">>,
                                   <<"end_of_interrupt", "iretq">>}
  BY DEF SendEoi, Begin
<1>2. depth = 2 /\ ~ dead /\ pc[2] = l
  <2>1. l \in {"push", "send_eoi", "end_of_interrupt"}
    BY <1>1
  <2> QED
    BY <1>1, <2>1, HandlerRuns
<1>3. UNCHANGED <<depth, dead, data, queue, once, kbd_lock, term, ticks, keys, shown, dropped,
                  port, typed, sent, fired, merged>>
  BY LockKeeps DEF SendEoi, Begin, lockvars, datavars, devvars
<1>4. pic_lock' \in 0 .. MaxDepth
  BY <1>0 DEF SendEoi, Begin, TypeOK, datavars
<1>5. /\ pic'.irr = pic.irr
      /\ pic' \in [irr : SUBSET {TIMER, KEYBOARD}, isr : SUBSET {TIMER, KEYBOARD},
                   unmasked : SUBSET {TIMER, KEYBOARD}]
  <2>1. InService(pic.isr) \subseteq pic.isr
    BY DEF InService
  <2>2. pic' = pic \/ pic' = [pic EXCEPT !.isr = InService(pic.isr)]
    BY DEF SendEoi, Begin, devvars
  <2> QED
    BY <1>0, <2>1, <2>2, Zenon DEF TypeOK
<1>6. TypeOK'
  BY <1>0, <1>3, <1>4, <1>5, Zenon DEF TypeOK, KernelInv
<1>7. pc' = [pc EXCEPT ![2] = m] /\ pc'[1] = pc[1]
  BY <1>0, <1>1, <1>2 DEF Goto, TypeOK
<1>8. Calm(l, m)
  <2>1. depth # 1 /\ (l \in Handing <=> m \in Handing)
    BY <1>1, <1>2 DEF Handing
  <2> QED
    BY <1>2, <1>3, <1>5, <1>6, <1>7, <2>1, Zenon DEF Calm
<1>9. Fits(m)
  BY <1>1, <1>2, <1>3, <1>7 DEF Fits, FlowInv, Side, OnceAt
<1> QED
  BY <1>8, <1>9, CalmStep

\* The rest of a lock() or a drop touches no message.
LEMMA LockFlow ==
  ASSUME FlowInv, LockStep
  PROVE  FlowInv'
<1>1. UNCHANGED <<depth, dead, pc, back, data, queue, once, pic_lock, kbd_lock, term, ticks, keys,
                  shown, dropped, pic, port, typed, sent, fired, merged>>
  BY Zenon DEF LockStep, Lock!Disable, Lock!Acquire, Lock!Refuse, Lock!Restore, progvars, datavars, devvars
<1>2. Typed' /\ Side'
  BY <1>1, Zenon DEF FlowInv, Typed, TypeOK, Side
<1>3. Flow'
  BY <1>1, Zenon DEF FlowInv, Flow, ByKmain, ByHandler, Carried, PortOut, Requested
<1> QED
  BY <1>2, <1>3 DEF FlowInv

\* The end of a handler: kmain goes on where it was interrupted, or wakes up.
LEMMA IretqFlow ==
  ASSUME KInv, FlowInv, KernelInv', Iretq
  PROVE  FlowInv'
<1>1. depth = 2 /\ ~ dead /\ pc[2] = "iretq"
  BY HandlerRuns, Zenon DEF Iretq
<1>2. /\ TypeOK /\ 2 \in Context /\ Context = 1 .. MaxDepth /\ MaxDepth \in Nat \ {0}
      /\ asked /\ Contexts
  BY <1>1, FromIrqMutex DEF KInv, KernelInv, FlowInv, Typed
<1>3. pc[1] \notin Masked
  BY <1>2, Zenon DEF Contexts
<1>4. /\ depth' = 1 /\ ~ dead'
      /\ UNCHANGED <<data, queue, once, pic_lock, kbd_lock, term, ticks, keys,
                     shown, dropped, pic, port, typed, sent, fired, merged>>
      /\ pc' = [pc EXCEPT ![1] = IF pc[1] = "halted" THEN "loop" ELSE pc[1]]
  BY <1>1 DEF Iretq, Lock!Iretq, datavars, devvars
<1>5. pc'[2] = pc[2] /\ pc'[1] = IF pc[1] = "halted" THEN "loop" ELSE pc[1]
  BY <1>2, <1>4 DEF TypeOK
<1>6. Typed'
  BY <1>4, TypesKept, Zenon
<1>7. ByKmain' = ByKmain /\ ByHandler' = ByHandler
  BY <1>4, <1>5 DEF ByKmain, ByHandler, Carried
<1>8. Flow'
  BY <1>4, <1>7, FlowKept, Zenon DEF FlowInv
<1>9. OnceAt(pc'[1], once) /\ pc'[1] # "read_port"
  <2>1. pc[1] \in KmainLabels
    BY <1>1, <1>2 DEF Contexts, Ctl
  <2> QED
    BY <1>3, <1>5, <2>1 DEF OnceAt, Masked, KmainLabels
<1>10. TermAt(pc'[1], term)
  <2>1. TermAt(pc[1], term)
    BY <1>1 DEF FlowInv, Side
  <2> QED
    BY <1>5, <2>1 DEF TermAt, Reading, Between
<1>11. Side'
  BY <1>1, <1>4, <1>5, <1>9, <1>10, Zenon DEF FlowInv, Side, Handing
<1> QED
  BY <1>6, <1>8, <1>11 DEF FlowInv

\* A panic strikes where nobody holds a message, or on top of whoever holds one.
LEMMA PanicFlow ==
  ASSUME KInv, FlowInv, KernelInv', Panic \/ Fault
  PROVE  FlowInv'
<1>1. /\ TypeOK /\ depth \in Context /\ Context = 1 .. MaxDepth /\ MaxDepth \in Nat \ {0}
      /\ pc \in [Context -> Label]
  BY Basics, Zenon DEF FlowInv, Typed
<1>2. ASSUME Panic PROVE FlowInv'
  <2>1. /\ pc[depth] \in Fallible /\ pc' = [pc EXCEPT ![depth] = "panic"] /\ depth' = depth /\ dead'
        /\ UNCHANGED <<data, datavars, devvars>>
    BY <1>2 DEF Panic, Lock!Panic, Goto
  <2>2. Still(pc[depth], "panic")
    BY <2>1 DEF Still, Fallible, Holding, Handing
  <2> QED
    BY <2>1, <2>2, StillStep
<1>3. ASSUME Fault PROVE FlowInv'
  <2>1. /\ depth' = depth + 1 /\ dead' /\ depth < MaxDepth
        /\ UNCHANGED <<data, queue, once, pic_lock, kbd_lock, term, ticks, keys,
                       shown, dropped, pic, port, typed, sent, fired, merged>>
        /\ pc' = [pc EXCEPT ![depth + 1] = "panic"]
    BY <1>3 DEF Fault, Lock!Fault, datavars, devvars
  <2>2. Typed'
    BY <2>1, TypesKept, Zenon
  <2>3. ByKmain' = ByKmain
    BY <1>1, <2>1 DEF ByKmain, Carried
  <2>4. ByHandler' = ByHandler
    <3>1. MaxDepth > 1 /\ depth = 1 => pc[2] \notin Handing
      BY Zenon DEF FlowInv, Side
    <3>2. "panic" \notin Handing
      BY DEF Handing
    <3>3. MaxDepth > 1 => (pc'[2] \in Handing <=> pc[2] \in Handing)
      BY <1>1, <2>1, <3>1, <3>2
    <3> QED
      BY <2>1, <3>3, Zenon DEF ByHandler, Carried, Handing
  <2>5. Flow'
    BY <2>1, <2>3, <2>4, FlowKept, Zenon DEF FlowInv
  <2>6. Side'
    BY <1>1, <2>1 DEF FlowInv, Side
  <2> QED
    BY <2>2, <2>5, <2>6 DEF FlowInv
<1> QED
  BY <1>2, <1>3

\* The panic handler touches no message.
LEMMA PanicHandlerFlow ==
  ASSUME KInv, FlowInv, KernelInv', PanicHandler
  PROVE  FlowInv'
<1>1. /\ TypeOK /\ depth \in Context /\ Context = 1 .. MaxDepth /\ MaxDepth \in Nat \ {0}
      /\ pc \in [Context -> Label]
  BY Basics, Zenon DEF FlowInv, Typed
<1>2. PICK l, m : /\ At(l) /\ Goto(m)
                  /\ <<l, m>> \in {<<"panic", "panic_drop">>, <<"panic_drop", "panic_halt">>}
  BY DEF PanicHandler
<1>3. dead
  <2>1. ~ dead => pc[depth] \in KmainLabels \cup HandlerLabels
    <3>1. ASSUME ~ dead PROVE depth \in 1 .. depth /\ Contexts
      BY <1>1, <3>1 DEF KInv, KernelInv
    <3> QED
      BY <3>1 DEF Contexts, Ctl
  <2> QED
    BY <1>2, <2>1 DEF At, KmainLabels, HandlerLabels
<1>4. UNCHANGED <<depth, dead, data, queue, once, pic_lock, kbd_lock, term, ticks, keys,
                  dropped, pic, port, typed, sent, fired, merged>>
  BY LockKeeps DEF PanicHandler, datavars, devvars
<1>5. shown' \in BOOLEAN
  BY <1>1, Zenon DEF PanicHandler, TypeOK, datavars
<1>6. TypeOK'
  BY <1>1, <1>4, <1>5 DEF TypeOK, KernelInv
<1>7. Calm(l, m)
  BY <1>2, <1>4, <1>6 DEF Calm, At, Goto, Holding, Handing
<1>8. Fits(m)
  BY <1>3, <1>4 DEF Fits
<1> QED
  BY <1>7, <1>8, CalmStep

\* A timer interrupt is requested, or merged with one that is.
LEMMA TimerFiresFlow ==
  ASSUME FlowInv, TimerFires
  PROVE  FlowInv'
<1>1. TypeOK /\ pic.irr \subseteq {TIMER, KEYBOARD} /\ fired \in Nat /\ merged \in Nat /\ ticks \in Nat
  BY Zenon DEF FlowInv, Typed, TypeOK
<1>2. /\ UNCHANGED <<depth, dead, pc, back, data, queue, once, pic_lock, kbd_lock, term, ticks, keys,
                     shown, dropped, port, typed, sent>>
      /\ fired' = fired + 1 /\ merged' = IF TIMER \in pic.irr THEN merged + 1 ELSE merged
      /\ pic' = [pic EXCEPT !.irr = pic.irr \cup {TIMER}]
  BY DEF TimerFires, lockvars, progvars, datavars
<1>3. /\ pic'.irr = pic.irr \cup {TIMER}
      /\ pic' \in [irr : SUBSET {TIMER, KEYBOARD}, isr : SUBSET {TIMER, KEYBOARD},
                   unmasked : SUBSET {TIMER, KEYBOARD}]
  BY <1>1, <1>2, Zenon DEF TypeOK
<1>4. Typed'
  <2>1. {ticks', fired', merged'} \subseteq Nat
    BY <1>1, <1>2
  <2> QED
    BY <1>2, <1>3, <2>1, Zenon DEF FlowInv, Typed, TypeOK
<1>5. Side'
  BY <1>2, <1>3 DEF FlowInv, Side, TIMER, KEYBOARD
<1>6. fired' - ticks' - merged' - Requested' = fired - ticks - merged - Requested
  BY <1>1, <1>2, <1>3 DEF Requested
<1>7. Flow'
  BY <1>2, <1>6 DEF FlowInv, Flow, ByKmain, ByHandler, Carried, PortOut
<1> QED
  BY <1>4, <1>5, <1>7 DEF FlowInv

\* A key is typed.
LEMMA TypeFlow ==
  ASSUME FlowInv, NEW k \in Decoded, Type(k)
  PROVE  FlowInv'
<1>1. /\ UNCHANGED <<depth, dead, pc, back, data, queue, once, pic_lock, kbd_lock, term, ticks, keys,
                     shown, dropped, pic, port, sent, fired, merged>>
      /\ typed' = Append(typed, k) /\ Len(typed) < MaxKeys
  BY DEF Type, lockvars, progvars, datavars
<1>2. /\ typed' \in Seq(Decoded) /\ Len(typed') = Len(typed) + 1 /\ Len(typed) \in Nat
      /\ sent \in 0 .. Len(typed)
  BY <1>1 DEF FlowInv, Typed, TypeOK
<1>3. Typed'
  <2>1. sent' \in 0 .. Len(typed') /\ Len(typed') <= MaxKeys
    BY <1>1, <1>2, KernelAssumption
  <2> QED
    BY <1>1, <1>2, <2>1, Zenon DEF FlowInv, Typed, TypeOK
<1>4. Side' /\ Flow'
  BY <1>1, Zenon DEF FlowInv, Side, Flow, ByKmain, ByHandler, Carried, PortOut, Requested
<1> QED
  BY <1>3, <1>4 DEF FlowInv

\* The 8042 shows the next scancode and asks for the keyboard's interrupt.
LEMMA ScancodeFlow ==
  ASSUME KInv, FlowInv, Scancode
  PROVE  FlowInv'
<1>1. /\ TypeOK /\ pic.irr \subseteq {TIMER, KEYBOARD} /\ sent \in 0 .. Len(typed)
      /\ Len(typed) \in Nat /\ Len(typed) <= MaxKeys /\ MaxKeys \in Nat
  BY KernelAssumption DEF FlowInv, Typed, TypeOK
<1>2. /\ UNCHANGED <<depth, dead, pc, back, data, queue, once, pic_lock, kbd_lock, term, ticks, keys,
                     shown, dropped, typed, fired, merged>>
      /\ port = 0 /\ port' = sent + 1 /\ sent' = sent + 1 /\ sent < Len(typed)
      /\ pic' = [pic EXCEPT !.irr = pic.irr \cup {KEYBOARD}]
  BY DEF Scancode, lockvars, progvars, datavars
<1>3. /\ pic'.irr = pic.irr \cup {KEYBOARD}
      /\ pic' \in [irr : SUBSET {TIMER, KEYBOARD}, isr : SUBSET {TIMER, KEYBOARD},
                   unmasked : SUBSET {TIMER, KEYBOARD}]
  BY <1>1, <1>2, Zenon DEF TypeOK
<1>4. sent < MaxKeys /\ port' \in Message /\ sent' \in 0 .. Len(typed) /\ port' # 0
  BY <1>1, <1>2 DEF Message
<1>5. Typed'
  BY <1>1, <1>2, <1>3, <1>4, Zenon DEF FlowInv, Typed, TypeOK
<1>6. Side'
  BY <1>2, <1>4 DEF FlowInv, Side
<1> DEFINE x == fired - ticks - merged - Requested
<1>7. FlowOf(keys, ByKmain, Q!Contents(queue), ByHandler, <<>>, dropped, sent, x)
  BY <1>2 DEF FlowInv, Flow, PortOut
<1>8. FlowOf(keys, ByKmain, Q!Contents(queue), ByHandler, <<sent + 1>>, dropped, sent + 1, x)
  <2> HIDE DEF x
  <2> QED
    BY <1>4, <1>7, ShowMove
<1>9. Requested' = Requested
  BY <1>3 DEF Requested, TIMER, KEYBOARD
<1>10. ByKmain' = ByKmain /\ ByHandler' = ByHandler /\ PortOut' = <<sent + 1>>
  BY <1>2, <1>4 DEF ByKmain, ByHandler, Carried, PortOut
<1>11. Flow'
  BY <1>2, <1>8, <1>9, <1>10, Zenon DEF Flow
<1> QED
  BY <1>5, <1>6, <1>11 DEF FlowInv

\* keyboard_int_handler takes the scancode from the port into its message.
LEMMA ReadPortFlow ==
  ASSUME SetFacts, KInv, FlowInv, KernelInv', ReadPort
  PROVE  FlowInv'
<1>1. depth = 2 /\ ~ dead /\ pc[2] = "read_port"
  BY HandlerRuns, Zenon DEF ReadPort
<1>2. /\ TypeOK /\ 2 \in Context /\ Context = 1 .. MaxDepth /\ MaxDepth \in Nat \ {0} /\ MaxDepth > 1
      /\ port \in Message /\ port # 0 /\ KEYBOARD \notin pic.irr
  <2>1. /\ 2 \in Context /\ Context = 1 .. MaxDepth /\ MaxDepth \in Nat \ {0} /\ MaxDepth > 1
    BY <1>1, Basics
  <2>2. TypeOK /\ port \in Message
    BY Zenon DEF FlowInv, Typed, TypeOK
  <2>3. port # 0 /\ KEYBOARD \notin pic.irr
    BY <1>1, Zenon DEF FlowInv, Side
  <2> QED
    BY <2>1, <2>2, <2>3
<1>3. /\ UNCHANGED <<depth, dead, queue, once, pic_lock, kbd_lock, term, ticks, keys,
                     shown, dropped, pic, typed, sent, fired, merged>>
      /\ pc' = [pc EXCEPT ![2] = "deref"] /\ data' = [data EXCEPT ![2] = port] /\ port' = 0
  BY <1>1, Zenon DEF ReadPort, Enter, lockvars, datavars
<1>4. /\ pc'[1] = pc[1] /\ pc'[2] = "deref" /\ data'[1] = data[1] /\ data'[2] = port
      /\ data' \in [Context -> Message] /\ port' \in Message
  <2>1. data \in [Context -> Message] /\ pc \in [Context -> Label] /\ 1 \in Context /\ 0 \in Message
    BY <1>2, KernelAssumption DEF TypeOK, Message
  <2>2. pc' = [pc EXCEPT ![2] = "deref"] /\ data' = [data EXCEPT ![2] = port] /\ port' = 0
    BY <1>3, Zenon
  <2>3. 2 \in Context /\ 1 # 2 /\ port \in Message
    BY <1>2
  <2>4. data' \in [Context -> Message] /\ data'[1] = data[1] /\ data'[2] = port
    BY <2>1, <2>2, <2>3
  <2>5. pc'[1] = pc[1] /\ pc'[2] = "deref"
    BY <2>1, <2>2, <2>3
  <2> QED
    BY <2>1, <2>2, <2>4, <2>5, Zenon
<1>5. Typed'
  BY <1>2, <1>3, <1>4, Zenon DEF FlowInv, Typed, TypeOK, KernelInv
<1>6. Side'
  <2>1. depth' = 2 /\ depth' # 1 /\ pc'[depth'] = "deref" /\ "deref" # "read_port" /\ KEYBOARD \notin pic'.irr
    BY <1>1, <1>2, <1>3, <1>4
  <2>2. /\ once' # "Complete" => queue'.empty
        /\ queue'.empty => queue'.first = queue'.last
    BY <1>3, Zenon DEF FlowInv, Side
  <2>3. OnceAt(pc'[depth'], once')
    BY <2>1 DEF OnceAt
  <2>4. TermAt(pc'[1], term')
    BY <1>1, <1>3, <1>4, Zenon DEF FlowInv, Side
  <2> QED
    BY <2>1, <2>2, <2>3, <2>4, Zenon DEF Side
<1>7. /\ ByKmain' = ByKmain /\ ByHandler = <<>> /\ ByHandler' = <<port>>
      /\ PortOut = <<port>> /\ PortOut' = <<>> /\ Requested' = Requested
  BY <1>1, <1>2, <1>3, <1>4 DEF ByKmain, ByHandler, Carried, PortOut, Requested
<1> DEFINE x == fired - ticks - merged - Requested
<1>8. FlowOf(keys, ByKmain, Q!Contents(queue), <<>>, <<port>>, dropped, sent, x)
  BY <1>7 DEF FlowInv, Flow
<1>9. FlowOf(keys, ByKmain, Q!Contents(queue), <<port>>, <<>>, dropped, sent, x)
  <2> HIDE DEF x
  <2> QED
    BY <1>2, <1>8, ReadMove, Zenon DEF Timer
<1>10. Flow'
  BY <1>3, <1>7, <1>9, Zenon DEF Flow
<1> QED
  BY <1>5, <1>6, <1>10 DEF FlowInv

\* A handler starts; the timer's has its message from the start.
LEMMA DeliverFlow ==
  ASSUME SetFacts, KInv, FlowInv, KernelInv', NEW irq \in {TIMER, KEYBOARD}, Deliver(irq)
  PROVE  FlowInv'
<1>0. /\ TypeOK /\ depth \in Context /\ Context = 1 .. MaxDepth /\ MaxDepth \in Nat \ {0}
      /\ dead => ~ intf
      /\ ~ dead /\ intf => depth = 1 /\ asked
  BY FromIrqMutex DEF KInv, FlowInv, Typed
<1>1. depth = 1 /\ ~ dead /\ 1 < MaxDepth
  BY <1>0 DEF Deliver, Lock!Interrupt
<1>2. /\ depth' = 2 /\ ~ dead'
      /\ UNCHANGED <<queue, once, pic_lock, kbd_lock, term, ticks, keys,
                     shown, dropped, port, typed, sent, fired, merged>>
      /\ pc' = [pc EXCEPT ![2] = IF irq = TIMER THEN "deref" ELSE "read_port"]
      /\ data' = [data EXCEPT ![2] = Timer]
      /\ pic' = [pic EXCEPT !.irr = pic.irr \ {irq}, !.isr = pic.isr \cup {irq}]
      /\ irq \in pic.irr
  BY <1>1 DEF Deliver, Lock!Interrupt, datavars
<1>3. /\ pic'.irr = pic.irr \ {irq}
      /\ pic' \in [irr : SUBSET {TIMER, KEYBOARD}, isr : SUBSET {TIMER, KEYBOARD},
                   unmasked : SUBSET {TIMER, KEYBOARD}]
  BY <1>0, <1>2, Zenon DEF TypeOK
<1>4. /\ pc'[1] = pc[1] /\ pc'[2] = IF irq = TIMER THEN "deref" ELSE "read_port"
      /\ data'[1] = data[1] /\ data'[2] = Timer
      /\ data' \in [Context -> Message] /\ 2 \in Context
  <2>1. /\ data \in [Context -> Message] /\ pc \in [Context -> Label] /\ 1 \in Context /\ 2 \in Context
        /\ Timer \in Message
    BY <1>0, <1>1, KernelAssumption DEF TypeOK, Message, Timer
  <2> QED
    BY <1>2, <2>1
<1>5. Typed'
  BY <1>0, <1>2, <1>3, <1>4, Zenon DEF FlowInv, Typed, TypeOK, KernelInv
<1>6. pc[2] \notin Handing /\ TermAt(pc[1], term)
  BY <1>1 DEF FlowInv, Side
<1>7. Side'
  BY <1>2, <1>3, <1>4, <1>6 DEF FlowInv, Side, OnceAt
<1>8. ByKmain' = ByKmain /\ ByHandler = <<>> /\ PortOut' = PortOut
  BY <1>2, <1>4, <1>6 DEF ByKmain, ByHandler, Carried, PortOut, Handing
<1> DEFINE x == fired - ticks - merged - Requested
<1>9. FlowOf(keys, ByKmain, Q!Contents(queue), <<>>, PortOut, dropped, sent, x)
  BY <1>8 DEF FlowInv, Flow
<1>10. CASE irq = TIMER
  <2>1. ByHandler' = <<Timer>>
    BY <1>1, <1>4, <1>10 DEF ByHandler, Carried
  <2>2. FlowOf(keys, ByKmain, Q!Contents(queue), <<Timer>>, PortOut, dropped, sent, x + 1)
    <3> HIDE DEF x
    <3> QED
      BY <1>9, StartMove
  <2>3. x + 1 = fired - ticks - merged - Requested'
    <3>1. {ticks, fired, merged} \subseteq Nat
      BY <1>0, Zenon DEF TypeOK
    <3>2. Requested = 1 /\ Requested' = 0
      BY <1>2, <1>3, <1>10, Zenon DEF Requested
    <3> QED
      BY <3>1, <3>2
  <2>4. Flow'
    BY <1>2, <1>8, <2>1, <2>2, <2>3, Zenon DEF Flow
  <2> QED
    BY <1>5, <1>7, <2>4 DEF FlowInv
<1>11. CASE irq = KEYBOARD
  <2>1. ByHandler' = <<>> /\ Requested' = Requested
    BY <1>1, <1>3, <1>4, <1>11 DEF ByHandler, Carried, Requested, TIMER, KEYBOARD
  <2>2. Flow'
    BY <1>2, <1>8, <1>9, <2>1, Zenon DEF Flow
  <2> QED
    BY <1>5, <1>7, <2>2 DEF FlowInv
<1> QED
  BY <1>10, <1>11

\* The queue that the Once builds is empty.
LEMMA NewQueue ==
  Q!new_with(Timer) \in Q!Ring /\ Q!new_with(Timer).empty
  /\ Q!new_with(Timer).first = Q!new_with(Timer).last
BY KernelAssumption DEF Q!new_with, Q!Ring, Q!Index, Message, Timer

\* What the kernel uses of its queue.
QueueFacts ==
  \A q \in Q!Ring : (q.empty => q.first = q.last) =>
    /\ Q!Contents(q) \in Seq(Message)
    /\ q.empty => Q!Contents(q) = <<>>
    /\ ~ q.empty => /\ Q!Contents(q) # <<>> /\ Q!peek(q) = Head(Q!Contents(q))
                    /\ Q!Contents(Q!pop(q)) = Tail(Q!Contents(q))
                    /\ Q!pop(q) \in Q!Ring
                    /\ Q!pop(q).empty => Q!pop(q).first = Q!pop(q).last
    /\ Q!len(q) < BUFFER_SIZE =>
         \A m \in Message :
           /\ Q!Contents(Q!push(q, m)) = Append(Q!Contents(q), m)
           /\ Q!push(q, m) \in Q!Ring
           /\ ~ Q!push(q, m).empty

\* The queue that is built is as empty as what was there before.
LEMMA BuildFlow ==
  ASSUME QueueFacts, KInv, FlowInv, KernelInv', Deref, At("build")
  PROVE  FlowInv'
<1>1. pc[depth] = "build"
  BY DEF At
<1>2. /\ ~ dead /\ depth \in {1, 2} /\ depth \in Context
      /\ back[depth] = IF depth = 1 THEN "pop" ELSE "push"
  BY <1>1, Runs DEF Ctl, PanicLabels
<1>3. /\ TypeOK /\ Context = 1 .. MaxDepth /\ MaxDepth \in Nat \ {0}
      /\ TermAt(pc[1], term) /\ once = "Running" /\ queue.empty
  <2>1. Context = 1 .. MaxDepth /\ MaxDepth \in Nat \ {0}
    BY FromIrqMutex DEF KInv
  <2>2. TypeOK /\ OnceAt("build", once) /\ TermAt(pc[1], term) /\ (once # "Complete" => queue.empty)
    BY <1>1, <1>2, Zenon DEF FlowInv, Typed, Side
  <2>3. once = "Running"
    BY <2>2, Zenon DEF OnceAt
  <2> QED
    BY <2>1, <2>2, <2>3
<1> DEFINE m == back[depth]
<1>4. /\ UNCHANGED <<depth, dead, data, pic_lock, kbd_lock, term, ticks, keys, shown, dropped,
                     pic, port, typed, sent, fired, merged>>
      /\ pc' = [pc EXCEPT ![depth] = m] /\ once' = "Complete" /\ queue' = Q!new_with(Timer)
  BY <1>1, Zenon DEF Deref, At, lockvars, devvars, Goto, Leave
<1>5. m \in {"pop", "push"} /\ (depth = 1 => m = "pop") /\ (depth = 2 => m = "push")
  BY <1>2
<1> HIDE DEF m
<1>6. queue' \in Q!Ring /\ queue'.empty /\ queue'.first = queue'.last
  BY <1>4, NewQueue, Zenon
<1>7. Q!Contents(queue') = <<>> /\ Q!Contents(queue) = <<>>
  <2>1. queue \in Q!Ring /\ (queue.empty => queue.first = queue.last)
    BY <1>3 DEF TypeOK, FlowInv, Side
  <2> QED
    BY <1>3, <1>6, <2>1 DEF QueueFacts
<1>8. Typed'
  BY <1>3, <1>4, <1>6, Zenon DEF FlowInv, Typed, TypeOK, KernelInv
<1>9. pc'[depth] = m /\ \A d \in Context \ {depth} : pc'[d] = pc[d]
  BY <1>2, <1>3, <1>4 DEF TypeOK
<1>10. ByKmain' = ByKmain
  <2>1. 1 \in Context /\ (depth = 1 => pc[1] = "build")
    BY <1>1, <1>3
  <2>2. "build" \notin {"enable_loop", "match"} /\ "pop" \notin {"enable_loop", "match"}
    OBVIOUS
  <2>3. data' = data /\ (depth = 1 => pc'[1] = "pop") /\ (depth # 1 => pc'[1] = pc[1])
    BY <1>4, <1>5, <1>9, <2>1, Zenon
  <2> QED
    BY <2>1, <2>2, <2>3, Zenon DEF ByKmain, Carried
<1>11. ByHandler' = ByHandler
  <2>1. MaxDepth > 1 => 2 \in Context /\ (depth = 2 => pc[2] = "build")
    BY <1>1, <1>3
  <2>2. "build" \in Handing /\ "push" \in Handing
    BY DEF Handing
  <2>3. data' = data /\ (MaxDepth > 1 => IF depth = 2 THEN pc'[2] = "push" ELSE pc'[2] = pc[2])
    BY <1>4, <1>5, <1>9, <2>1, Zenon
  <2> QED
    BY <2>1, <2>2, <2>3, Zenon DEF ByHandler, Carried, Handing
<1>12. Flow'
  BY <1>4, <1>7, <1>10, <1>11, Zenon DEF FlowInv, Flow, PortOut, Requested
<1>13. TermAt(pc'[1], term')
  <2>1. CASE depth = 1
    <3>1. TermAt("build", term) => TermAt(m, term)
      BY <1>5, <2>1 DEF TermAt, Reading, Between
    <3> QED
      BY <1>1, <1>3, <1>4, <1>9, <2>1, <3>1, Zenon
  <2>2. CASE depth = 2
    BY <1>3, <1>4, <1>9, <2>2
  <2> QED
    BY <1>2, <2>1, <2>2, Zenon
<1>14. Side'
  <2>1. MaxDepth > 1 /\ depth = 1 => pc'[2] \notin Handing
    BY <1>3, <1>9 DEF FlowInv, Side
  <2>2. OnceAt(m, "Complete")
    BY <1>5 DEF OnceAt
  <2>3. m # "read_port"
    BY <1>5
  <2>4. KEYBOARD \in pic.irr => port # 0
    BY Zenon DEF FlowInv, Side
  <2> QED
    BY <1>4, <1>6, <1>9, <1>13, <2>1, <2>2, <2>3, <2>4, Zenon DEF Side
<1> QED
  BY <1>8, <1>12, <1>14 DEF FlowInv

\* intmsg_pop: the head of the queue passes to kmain.
LEMMA PopFlow ==
  ASSUME SetFacts, QueueFacts, KInv, FlowInv, KernelInv', Pop
  PROVE  FlowInv'
<1>0. TypeOK /\ depth \in Context /\ Context = 1 .. MaxDepth /\ MaxDepth \in Nat \ {0}
  BY Basics, Zenon DEF FlowInv, Typed
<1>1. ASSUME Begin("pop", "QUEUE", "try_pop") PROVE FlowInv'
  BY <1>1, BeginFlow
<1>2. ASSUME Drop("try_pop"), UNCHANGED <<data, queue>>, Goto("enable_and_hlt"),
             UNCHANGED <<once, pic_lock, kbd_lock, term, ticks, keys, shown, dropped, devvars>>
      PROVE  FlowInv'
  <2>1. Onward("try_pop", "enable_and_hlt")
    BY <1>2, LockKeeps DEF Drop, Onward, Holding, Reading, Between, datavars, KmainLabels, HandlerLabels
  <2> QED
    BY <2>1, OnwardStep
<1>3. ASSUME Drop("try_pop"), ~ queue.empty, data' = [data EXCEPT ![depth] = Q!peek(queue)],
             queue' = Q!pop(queue), Goto("enable_loop"),
             UNCHANGED <<once, pic_lock, kbd_lock, term, ticks, keys, shown, dropped, devvars>>
      PROVE  FlowInv'
  <2>1. depth = 1 /\ ~ dead /\ pc[1] = "try_pop"
    BY <1>3, KmainRuns, Zenon DEF Drop
  <2>2. UNCHANGED <<depth, dead, once, pic_lock, kbd_lock, term, ticks, keys, shown, dropped,
                    pic, port, typed, sent, fired, merged>>
    BY <1>3, LockKeeps DEF Drop, devvars
  <2> DEFINE c == Q!Contents(queue)
  <2>3. /\ c \in Seq(Message) /\ c # <<>> /\ Q!peek(queue) = Head(c)
        /\ Q!Contents(queue') = Tail(c) /\ queue' \in Q!Ring
        /\ queue'.empty => queue'.first = queue'.last
    BY <1>0, <1>3, Zenon DEF QueueFacts, TypeOK, FlowInv, Side
  <2> HIDE DEF c
  <2>4. /\ pc'[1] = "enable_loop" /\ data'[1] = Head(c) /\ data' \in [Context -> Message]
        /\ MaxDepth > 1 => pc'[2] = pc[2] /\ data'[2] = data[2]
    <3>1. Head(c) \in Message
      BY <2>3
    <3> QED
      BY <1>0, <1>3, <2>1, <2>3, <3>1 DEF TypeOK, Goto
  <2>5. ByKmain = <<>> /\ ByKmain' = <<Head(c)>>
    BY <2>1, <2>4 DEF ByKmain, Carried
  <2>6. ByHandler' = ByHandler /\ PortOut' = PortOut /\ Requested' = Requested
    BY <2>2, <2>4 DEF ByHandler, Carried, PortOut, Requested
  <2> DEFINE x == fired - ticks - merged - Requested
  <2>7. FlowOf(keys, <<>>, c, ByHandler, PortOut, dropped, sent, x)
    BY <2>5, Zenon DEF FlowInv, Flow, c
  <2>8. FlowOf(keys, <<Head(c)>>, Tail(c), ByHandler, PortOut, dropped, sent, x)
    <3> HIDE DEF x
    <3> QED
      BY <2>3, <2>7, PopMove
  <2>9. Flow'
    BY <2>2, <2>3, <2>5, <2>6, <2>8, Zenon DEF Flow
  <2>10. Typed'
    BY <1>0, <2>2, <2>3, <2>4, Zenon DEF FlowInv, Typed, TypeOK, KernelInv
  <2>11. TermAt("try_pop", term) => TermAt("enable_loop", term)
    BY Zenon DEF TermAt, Reading, Between
  <2>12. once = "Complete" /\ TermAt("try_pop", term)
    BY <2>1 DEF FlowInv, Side, OnceAt
  <2>13. Side'
    BY <2>1, <2>2, <2>3, <2>4, <2>11, <2>12, Zenon DEF FlowInv, Side, OnceAt
  <2> QED
    BY <2>9, <2>10, <2>13 DEF FlowInv
<1> QED
  BY <1>1, <1>2, <1>3 DEF Pop, Rest

\* intmsg_push: the message of the handler passes to the queue, or is refused.
LEMMA PushFlow ==
  ASSUME SetFacts, QueueFacts, KInv, FlowInv, KernelInv', Push
  PROVE  FlowInv'
<1>1. ASSUME Begin("push", "QUEUE", "try_push") PROVE FlowInv'
  BY <1>1, EoiFlow
<1>2. ASSUME Drop("try_push"), TryPush, Goto("send_eoi"),
             UNCHANGED <<data, once, pic_lock, kbd_lock, term, ticks, keys, shown, devvars>>
      PROVE  FlowInv'
  <2>1. depth = 2 /\ ~ dead /\ pc[2] = "try_push"
    BY <1>2, HandlerRuns, Zenon DEF Drop
  <2>2. /\ TypeOK /\ 2 \in Context /\ Context = 1 .. MaxDepth /\ MaxDepth \in Nat \ {0}
        /\ MaxDepth > 1 /\ data[2] \in Message /\ once = "Complete"
    <3>1. TypeOK /\ 2 \in Context /\ Context = 1 .. MaxDepth /\ MaxDepth \in Nat \ {0}
      BY <2>1, Basics, Zenon DEF FlowInv, Typed
    <3>2. once = "Complete"
      BY <2>1 DEF FlowInv, Side, OnceAt
    <3> QED
      BY <3>1, <3>2 DEF TypeOK
  <2>3. UNCHANGED <<depth, dead, data, once, pic_lock, kbd_lock, term, ticks, keys, shown,
                    pic, port, typed, sent, fired, merged>>
    BY <1>2, LockKeeps DEF Drop, devvars
  <2>4. pc'[1] = pc[1] /\ pc'[2] = "send_eoi"
    <3>1. pc' = [pc EXCEPT ![2] = "send_eoi"] /\ pc \in [Context -> Label]
      BY <1>2, <2>1, <2>2, Zenon DEF Goto, TypeOK
    <3>2. 1 \in Context /\ 2 \in Context
      BY <2>2
    <3> QED
      BY <3>1, <3>2
  <2>5. /\ ByHandler = <<data[2]>> /\ ByHandler' = <<>> /\ ByKmain' = ByKmain
        /\ PortOut' = PortOut /\ Requested' = Requested
    BY <2>1, <2>2, <2>3, <2>4 DEF ByHandler, ByKmain, Carried, PortOut, Requested
  <2> DEFINE c == Q!Contents(queue)
             x == fired - ticks - merged - Requested
  <2>6. FlowOf(keys, ByKmain, c, <<data[2]>>, PortOut, dropped, sent, x)
    BY <2>5 DEF FlowInv, Flow
  <2>7. ASSUME queue' \in Q!Ring, queue'.empty => queue'.first = queue'.last,
               dropped' \in Seq(Message)
        PROVE  Typed' /\ Side'
    <3>1. Typed'
      BY <2>2, <2>3, <2>7, Zenon DEF FlowInv, Typed, TypeOK, KernelInv
    <3>2. Side'
      BY <2>1, <2>2, <2>3, <2>4, <2>7, Zenon DEF FlowInv, Side, OnceAt
    <3> QED
      BY <3>1, <3>2
  <2>8. CASE Q!len(queue) < BUFFER_SIZE
    <3>1. queue' = Q!push(queue, data[2]) /\ dropped' = dropped
      BY <1>2, <2>1, <2>8 DEF TryPush
    <3>2. Q!Contents(queue') = Append(c, data[2]) /\ queue' \in Q!Ring /\ ~ queue'.empty
      BY <2>2, <2>8, <3>1, Zenon DEF QueueFacts, TypeOK, FlowInv, Side
    <3> HIDE DEF c, x
    <3>3. FlowOf(keys, ByKmain, Append(c, data[2]), <<>>, PortOut, dropped, sent, x)
      BY <2>2, <2>6, PushMove
    <3>4. Flow'
      BY <2>3, <2>5, <3>1, <3>2, <3>3, Zenon DEF Flow, x
    <3> QED
      BY <2>2, <2>7, <3>1, <3>2, <3>4, Zenon DEF FlowInv, TypeOK
  <2>9. CASE ~ (Q!len(queue) < BUFFER_SIZE)
    <3>1. queue' = queue /\ dropped' = Append(dropped, data[2])
      BY <1>2, <2>1, <2>9 DEF TryPush
    <3> HIDE DEF c, x
    <3>2. FlowOf(keys, ByKmain, c, <<>>, PortOut, Append(dropped, data[2]), sent, x)
      BY <2>2, <2>6, RefuseMove
    <3>3. Flow'
      BY <2>3, <2>5, <3>1, <3>2, Zenon DEF Flow, x, c
    <3>4. dropped' \in Seq(Message) /\ queue' \in Q!Ring /\ (queue'.empty => queue'.first = queue'.last)
      BY <2>2, <3>1 DEF TypeOK, FlowInv, Side
    <3> QED
      BY <2>7, <3>3, <3>4 DEF FlowInv
  <2> QED
    BY <2>8, <2>9
<1> QED
  BY <1>1, <1>2 DEF Push

\* At the start nothing is under way.
LEMMA FlowInit ==
  ASSUME SetFacts, QueueFacts, Init
  PROVE  FlowInv
<1>1. /\ depth = 1 /\ pc = [d \in Context |-> "set_mask"] /\ back = [d \in Context |-> "set_mask"]
      /\ data = [d \in Context |-> Timer] /\ queue = Q!new_with(Timer) /\ once = "Incomplete"
      /\ pic_lock = 0 /\ kbd_lock = 0 /\ term = [input_status |-> "Waiting", line |-> FALSE]
      /\ ticks = 0 /\ keys = <<>> /\ shown = FALSE
      /\ pic = [irr |-> {}, isr |-> {}, unmasked |-> {}]
      /\ port = 0 /\ typed = <<>> /\ sent = 0 /\ fired = 0 /\ merged = 0 /\ dropped = <<>>
  BY Zenon DEF Init, Lock!Init
<1>2. MaxDepth \in Nat \ {0} /\ Context = 1 .. MaxDepth /\ MaxKeys \in Nat /\ Timer \in Message
  <2>1. MaxDepth \in Nat \ {0} /\ Context = 1 .. MaxDepth /\ MaxKeys \in Nat
    BY KernelAssumption, Zenon DEF Context
  <2>2. Timer \in Message
    BY KernelAssumption DEF Message, Timer
  <2> QED
    BY <2>1, <2>2, Zenon
<1>3. queue \in Q!Ring /\ queue.empty /\ queue.first = queue.last
  BY <1>1, NewQueue, Zenon
<1>4. Q!Contents(queue) = <<>>
  BY <1>3 DEF QueueFacts
<1>5. Typed
  <2>1. "set_mask" \in Label
    BY DEF Label, KmainLabels
  <2>2. term \in [input_status : {"Waiting", "Inputting"}, line : BOOLEAN] /\ shown \in BOOLEAN
    BY <1>1, Zenon
  <2>3. pic \in [irr : SUBSET {TIMER, KEYBOARD}, isr : SUBSET {TIMER, KEYBOARD},
                 unmasked : SUBSET {TIMER, KEYBOARD}]
    BY <1>1, Zenon
  <2>4. Len(typed) = 0 /\ typed \in Seq(Decoded) /\ keys \in Seq(Message) /\ dropped \in Seq(Message)
    BY <1>1
  <2>5. {ticks, fired, merged} \subseteq Nat /\ port \in Message
    BY <1>1, <1>2 DEF Message
  <2>6. sent \in 0 .. Len(typed) /\ Len(typed) <= MaxKeys /\ pic_lock \in 0 .. MaxDepth /\ kbd_lock \in 0 .. MaxDepth
    BY <1>1, <1>2, <2>4
  <2>7. once \in {"Incomplete", "Running", "Complete"}
    BY <1>1
  <2> QED
    BY <1>1, <1>2, <1>3, <2>1, <2>2, <2>3, <2>4, <2>5, <2>6, <2>7, Zenon DEF Typed, TypeOK
<1>6. Side
  <2>1. pc[1] = "set_mask" /\ (MaxDepth > 1 => pc[2] = "set_mask") /\ KEYBOARD \notin pic.irr /\ ~ term.line
    BY <1>1, <1>2
  <2>2. OnceAt("set_mask", once) /\ "set_mask" \notin Handing
    BY DEF OnceAt, Handing
  <2>3. TermAt("set_mask", term)
    BY <2>1 DEF TermAt, Reading, Between
  <2>4. "set_mask" # "read_port"
    OBVIOUS
  <2> QED
    BY <1>1, <1>3, <2>1, <2>2, <2>3, <2>4, Zenon DEF Side
<1>7. ByKmain = <<>> /\ ByHandler = <<>> /\ PortOut = <<>> /\ Requested = 0
  BY <1>1, <1>2 DEF ByKmain, ByHandler, Carried, PortOut, Requested
<1>8. FlowOf(<<>>, <<>>, <<>>, <<>>, <<>>, <<>>, 0, 0)
  <2>1. Five(<<>>, <<>>, <<>>, <<>>, <<>>) = <<>>
    BY DEF Five
  <2>2. Range(<<>>) = {} /\ KeysAscend(<<>>) /\ <<>> \in Seq(Message) /\ TimersIn(<<>>) = 0
    BY Short, Counting
  <2>3. Flows(<<>>, <<>>, <<>>, <<>>, <<>>, <<>>, 0)
    BY <1>2, <2>2 DEF Flows, Places
  <2>4. Delivered(<<>>, <<>>, 0)
    BY <2>2 DEF Delivered
  <2> QED
    BY <2>1, <2>2, <2>3, <2>4 DEF FlowOf
<1>9. Flow
  <2>1. fired - ticks - merged - Requested = 0
    BY <1>1, <1>7
  <2> QED
    BY <1>1, <1>4, <1>7, <1>8, <2>1, Zenon DEF Flow
<1> QED
  BY <1>5, <1>6, <1>9 DEF FlowInv

\* No step of the kernel loses, doubles or reorders a message.
LEMMA FlowStep ==
  ASSUME SetFacts, QueueFacts, KInv, FlowInv, KernelInv', [Next]_vars
  PROVE  FlowInv'
<1>1. CASE LockStep
  BY <1>1, LockFlow
<1>2. CASE Deref
  BY <1>2, DerefFlow, BuildFlow
<1>3. CASE Kmain
  <2>1. CASE SetMask
    BY <2>1, SetMaskFlow
  <2>2. CASE Start \/ Log \/ PrintOut
    BY <2>2, StartFlow
  <2>3. CASE Prompt
    BY <2>3, PromptFlow
  <2>4. CASE LoopTop \/ EnableLoop \/ EnableAndHlt \/ InputLine
    BY <2>4, LoopFlow
  <2>5. CASE Pop
    BY <2>5, PopFlow
  <2>6. CASE TimerHandler
    BY <2>6, TimerFlow
  <2>7. CASE KeyboardHandler
    BY <2>7, KeyboardFlow
  <2>8. CASE Getline
    BY <2>8, GetlineFlow
  <2> QED
    BY <1>3, <2>1, <2>2, <2>3, <2>4, <2>5, <2>6, <2>7, <2>8 DEF Kmain
<1>4. CASE Handler
  <2>1. CASE ReadPort
    BY <2>1, ReadPortFlow
  <2>2. CASE Push
    BY <2>2, PushFlow
  <2>3. CASE SendEoi
    BY <2>3, EoiFlow
  <2>4. CASE Iretq
    BY <2>4, IretqFlow
  <2> QED
    BY <1>4, <2>1, <2>2, <2>3, <2>4 DEF Handler
<1>5. CASE PanicHandler
  BY <1>5, PanicHandlerFlow
<1>6. CASE \E irq \in {TIMER, KEYBOARD} : Deliver(irq)
  BY <1>6, DeliverFlow
<1>7. CASE Panic \/ Fault
  BY <1>7, PanicFlow
<1>8. CASE TimerFires
  BY <1>8, TimerFiresFlow
<1>9. CASE Scancode
  BY <1>9, ScancodeFlow
<1>10. CASE \E k \in Decoded : Type(k)
  BY <1>10, TypeFlow
<1>11. CASE UNCHANGED vars
  <2>1. UNCHANGED <<depth, dead, pc, back, data, queue, once, pic_lock, kbd_lock, term, ticks, keys,
                    shown, dropped, pic, port, typed, sent, fired, merged>>
    BY <1>11 DEF vars, lockvars, progvars, datavars, devvars
  <2>2. Typed' /\ Side'
    BY <2>1, Zenon DEF FlowInv, Typed, TypeOK, Side
  <2>3. Flow'
    BY <2>1, Zenon DEF FlowInv, Flow, ByKmain, ByHandler, Carried, PortOut, Requested
  <2> QED
    BY <2>2, <2>3 DEF FlowInv
<1> QED
  BY <1>1, <1>2, <1>3, <1>4, <1>5, <1>6, <1>7, <1>8, <1>9, <1>10, <1>11 DEF Next, Program

\* What it says of keys and ticks.
LEMMA FlowSays ==
  ASSUME SetFacts, KInv, FlowInv
  PROVE  KeysDelivered /\ TicksCounted
<1> DEFINE a == ByKmain
           c == Q!Contents(queue)
           b == ByHandler
           x == fired - ticks - merged - Requested
<1>1. FlowOf(keys, a, c, b, PortOut, dropped, sent, x) /\ TypeOK
  BY DEF FlowInv, Flow, Typed
<1>2. Stream = Five(keys, a, c, b, PortOut)
  BY DEF Stream, InFlight, Five, PortOut
<1>3. At("process_input_drop") => term.input_status = "Inputting" /\ ~ term.line
  <2> SUFFICES ASSUME At("process_input_drop") PROVE term.input_status = "Inputting" /\ ~ term.line
    OBVIOUS
  <2>1. depth = 1 /\ ~ dead /\ pc[1] = "process_input_drop"
    BY KmainRuns
  <2> QED
    BY <2>1, Zenon DEF FlowInv, Side, TermAt, Reading, Expects
<1>4. KeysDelivered
  BY <1>1, <1>2, <1>3 DEF KeysDelivered, FlowOf, Delivered
<1>5. Cardinality(pic.irr \cap {TIMER}) = Requested
  <2>1. pic.irr \cap {TIMER} = IF TIMER \in pic.irr THEN {TIMER} ELSE {}
    BY Zenon
  <2> QED
    BY <2>1, Zenon DEF SetFacts, Requested
<1>6. TicksCounted
  <2>1. a \in Seq(Message) /\ c \in Seq(Message) /\ b \in Seq(Message) /\ dropped \in Seq(Message)
    BY <1>1 DEF FlowOf, Flows, Places
  <2>2. InFlight \o dropped = a \o c \o b \o dropped
    BY DEF InFlight
  <2>3. x = TimersIn(a) + TimersIn(c) + TimersIn(b) + TimersIn(dropped)
    BY <1>1 DEF FlowOf
  <2> HIDE DEF a, b, c, x
  <2>4. /\ TimersIn(a \o c \o b \o dropped) = TimersIn(a) + TimersIn(c) + TimersIn(b) + TimersIn(dropped)
        /\ TimersIn(a) \in Nat /\ TimersIn(c) \in Nat /\ TimersIn(b) \in Nat /\ TimersIn(dropped) \in Nat
    BY <2>1, FourTimers
  <2>5. fired \in Nat /\ ticks \in Nat /\ merged \in Nat /\ Requested \in Nat
    BY <1>1 DEF TypeOK, Requested
  <2>6. fired = ticks + merged + Requested + x
    BY <2>5 DEF x
  <2> QED
    BY <1>5, <2>2, <2>3, <2>4, <2>6, Zenon DEF TicksCounted
<1> QED
  BY <1>4, <1>6

=============================================================================
