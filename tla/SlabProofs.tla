----------------------------- MODULE SlabProofs -----------------------------
(***************************************************************************)
(* Proofs about SlabLayout, for every type and page size that SIZE_ASSERT  *)
(* admits, and about Slab, for every number of pages and of objects in a   *)
(* page.                                                                   *)
(***************************************************************************)
EXTENDS Slab, SlabLayout, FiniteSetTheorems, Arithmetic

-----------------------------------------------------------------------------
(* SlotObject.                                                             *)

\* align_ceil rounds up to a multiple, by less than the alignment.
LEMMA AlignCeil ==
  ASSUME NEW x \in Nat, NEW align \in Nat \ {0}
  PROVE  /\ align_ceil(x, align) \in Nat
         /\ align_ceil(x, align) >= x /\ align_ceil(x, align) < x + align
         /\ align_ceil(x, align) % align = 0
<1> DEFINE y == x + align - 1
           q == y \div align
<1>1. y \in Nat
  OBVIOUS
<1>2. q \in Nat /\ q * align <= y /\ y < q * align + align
  BY <1>1, DivBounds
<1>3. (q * align) % align = 0 /\ q * align \in Nat
  BY <1>2, ModMultiple
<1> QED
  BY <1>2, <1>3 DEF align_ceil

\* What the layout constants of a type are worth: the object has its header,
\* a redzone, the payload and a redzone in this order, and keeps alignment
\* when objects follow one another.
LEMMA TypeLayout ==
  ASSUME NEW T, T.align \in Nat \ {0}, T.size \in Nat
  PROVE  /\ align_of(T) \in Nat \ {0} /\ align_of(T) % T.align = 0
         /\ payload_offset(T) \in Nat /\ payload_offset(T) % T.align = 0
         /\ redzone1_size(T) >= REDZONE_SIZE /\ redzone2_size(T) >= REDZONE_SIZE
         /\ size_of(T) \in Nat \ {0} /\ size_of(T) % align_of(T) = 0
         /\ object_offset(T) \in Nat /\ object_offset(T) >= PageHeader.size
         /\ object_offset(T) % align_of(T) = 0
<1>1. align_of(T) \in Nat \ {0} /\ align_of(T) % T.align = 0
  BY DEF align_of, ObjectHeader
<1>2. /\ payload_offset(T) \in Nat /\ payload_offset(T) >= 20
      /\ payload_offset(T) % T.align = 0
  <2>1. redzone1_offset + REDZONE_SIZE = 20
    BY DEF redzone1_offset, ObjectHeader, REDZONE_SIZE
  <2>2. payload_offset(T) = align_ceil(20, T.align)
    BY <2>1 DEF payload_offset
  <2> QED
    BY <2>2, AlignCeil, Zenon
<1>3. /\ size_of(T) \in Nat /\ size_of(T) >= payload_offset(T) + T.size + 16
      /\ size_of(T) % align_of(T) = 0
  <2>1. redzone2_offset(T) + REDZONE_SIZE \in Nat
    BY <1>2 DEF redzone2_offset, REDZONE_SIZE
  <2> QED
    BY <1>1, <2>1, AlignCeil, Zenon DEF size_of, redzone2_offset, REDZONE_SIZE
<1>4. /\ object_offset(T) \in Nat /\ object_offset(T) >= PageHeader.size
      /\ object_offset(T) % align_of(T) = 0
  BY <1>1, AlignCeil, Zenon DEF object_offset, PageHeader
<1>5. redzone1_size(T) >= REDZONE_SIZE
  BY <1>2 DEF redzone1_size, redzone1_offset, ObjectHeader, REDZONE_SIZE
<1>6. redzone2_size(T) >= REDZONE_SIZE
  BY <1>2, <1>3 DEF redzone2_size, redzone2_offset, REDZONE_SIZE
<1> QED
  BY <1>1, <1>2, <1>3, <1>4, <1>5, <1>6

-----------------------------------------------------------------------------
(* SlotPage::init.                                                         *)

\* The first n objects, one behind the other.
Row(first, size, n) == {first + k * size : k \in 0 .. n - 1}

\* The loop has made n objects.  It goes on while another one fits, and the
\* first one fits by SIZE_ASSERT.
Made(n) ==
  LET first == object_offset(type)
      size == size_of(type)
  IN  /\ objects = Row(first, size, n)
      /\ looping => offset = first + n * size /\ (n > 0 => first + n * size + size < PAGE_SIZE)
      /\ ~ looping => /\ n > 0
                      /\ n > 1 => first + n * size < PAGE_SIZE
                      /\ first + n * size + size >= PAGE_SIZE

LayoutInv ==
  /\ type \in Types /\ SIZE_ASSERT(type) /\ addr \in Addr
  /\ \E n \in Nat : Made(n)

\* SlotPage::init starts with no object made.
LEMMA LayoutInitInv == LayoutInit => LayoutInv
<1> SUFFICES ASSUME LayoutInit PROVE LayoutInv
  OBVIOUS
<1>1. object_offset(type) \in Nat /\ size_of(type) \in Nat \ {0}
  BY LayoutAssumption, TypeLayout DEF LayoutInit
<1>2. Made(0)
  BY <1>1 DEF LayoutInit, Made, Row
<1> QED
  BY <1>2 DEF LayoutInit, LayoutInv

\* Every pass of the loop of SlotPage::init makes the next object of the row.
LEMMA LayoutStep == LayoutInv /\ [InitObject]_layout_vars => LayoutInv'
<1> SUFFICES ASSUME LayoutInv, [InitObject]_layout_vars PROVE LayoutInv'
  OBVIOUS
<1>1. CASE InitObject
  <2> DEFINE first == object_offset(type)
             size == size_of(type)
  <2>1. first \in Nat /\ size \in Nat \ {0}
    BY LayoutAssumption, TypeLayout DEF LayoutInv
  <2>2. PICK n \in Nat : Made(n)
    BY DEF LayoutInv
  <2>3. /\ looping /\ offset = first + n * size
        /\ objects = Row(first, size, n) /\ (n > 0 => first + n * size + size < PAGE_SIZE)
    BY <1>1, <2>2 DEF Made, InitObject
  <2>4. objects' = Row(first, size, n + 1)
    <3> HIDE DEF first, size
    <3>1. Row(first, size, n + 1) = Row(first, size, n) \cup {first + n * size}
      <4>1. 0 .. (n + 1) - 1 = (0 .. n - 1) \cup {n}
        OBVIOUS
      <4> QED
        BY <4>1, Zenon DEF Row
    <3>2. objects' = objects \cup {offset}
      BY <1>1 DEF InitObject
    <3> QED
      BY <2>3, <3>1, <3>2
  <2>5. (n + 1) * size = n * size + size /\ n * size \in Nat
    BY <2>1
  <2>6. looping' <=> first + n * size + size + size < PAGE_SIZE
    <3>1. offset + size + size = first + n * size + size + size
      BY <2>3
    <3> QED
      BY <1>1, <3>1, Zenon DEF InitObject, Room
  <2>7. looping' => offset' = first + n * size + size
    BY <1>1, <2>3 DEF InitObject
  <2>8. type' = type /\ addr' = addr
    BY <1>1 DEF InitObject
  <2>9. Made(n + 1)'
    <3>1. PAGE_SIZE \in Nat
      BY LayoutAssumption
    <3> HIDE DEF first, size
    <3>2. /\ looping' => /\ offset' = first + (n + 1) * size
                         /\ first + (n + 1) * size + size < PAGE_SIZE
          /\ ~ looping' => /\ n + 1 > 1 => first + (n + 1) * size < PAGE_SIZE
                           /\ first + (n + 1) * size + size >= PAGE_SIZE
      BY <2>1, <2>3, <2>5, <2>6, <2>7, <3>1
    <3> QED
      BY <2>4, <2>8, <3>2 DEF Made, first, size
  <2> QED
    BY <2>8, <2>9 DEF LayoutInv
<1>2. CASE UNCHANGED layout_vars
  BY <1>2 DEF layout_vars, LayoutInv, Made
<1> QED
  BY <1>1, <1>2

\* Of two different multiples, the larger is at least one step further.
LEMMA MultipleSteps ==
  ASSUME NEW size \in Nat \ {0}
  PROVE  /\ \A j, k \in Nat : j < k => j * size + size <= k * size
         /\ \A j, k \in Nat : j * size < k * size => j < k
         /\ \A k \in Nat : k * size \in Nat
<1>1. ASSUME NEW j \in Nat, NEW k \in Nat, j < k PROVE j * size + size <= k * size
  <2>1. k - (j + 1) \in Nat /\ k * size = (k - (j + 1)) * size + j * size + size
    BY <1>1
  <2> QED
    BY <2>1
<1>2. ASSUME NEW j \in Nat, NEW k \in Nat, j * size < k * size PROVE j < k
  <2>1. ~ (j < k) => k * size <= j * size
    BY <1>1
  <2> QED
    BY <1>2, <2>1
<1> QED
  BY <1>1, <1>2

\* The objects made so far lie in the page, one behind the other.
LEMMA ObjectsFit ==
  ASSUME LayoutInv, NEW o \in objects
  PROVE  /\ o \in Nat /\ o >= object_offset(type) /\ o + size_of(type) <= PAGE_SIZE
         /\ o % align_of(type) = 0
         /\ \A q \in objects : o < q => o + size_of(type) <= q
<1> DEFINE first == object_offset(type)
           size == size_of(type)
<1>1. /\ first \in Nat /\ size \in Nat \ {0} /\ PAGE_SIZE \in Nat
      /\ align_of(type) \in Nat \ {0} /\ first % align_of(type) = 0 /\ size % align_of(type) = 0
  BY LayoutAssumption, TypeLayout DEF LayoutInv
<1>2. PICK n \in Nat : Made(n)
  BY DEF LayoutInv
<1>3. objects = Row(first, size, n)
  BY <1>2 DEF Made
<1>4. first + size <= PAGE_SIZE
  BY DEF LayoutInv, SIZE_ASSERT
<1>5. n > 1 => first + n * size < PAGE_SIZE
  <2>1. n * size \in Nat
    BY <1>1, MultipleSteps
  <2> QED
    BY <1>1, <1>2, <2>1 DEF Made
<1> HIDE DEF first, size
<1>6. PICK k \in 0 .. n - 1 : o = first + k * size
  BY <1>3 DEF Row
<1>7. k \in Nat /\ k * size \in Nat /\ k * size + size <= n * size
  BY <1>1, <1>6, MultipleSteps
<1>8. o \in Nat /\ o >= first /\ o + size <= PAGE_SIZE
  <2>1. CASE n > 1
    BY <1>1, <1>5, <1>6, <1>7, <2>1
  <2>2. CASE k = 0
    BY <1>1, <1>4, <1>6, <2>2
  <2> QED
    BY <1>6, <2>1, <2>2
<1>9. o % align_of(type) = 0
  BY <1>1, <1>6, <1>7, ModProduct, ModSum, Zenon
<1>10. ASSUME NEW q \in objects, o < q PROVE o + size <= q
  <2>1. PICK j \in 0 .. n - 1 : q = first + j * size
    BY <1>3 DEF Row
  <2>2. j \in Nat /\ j * size \in Nat
    BY <1>1, MultipleSteps
  <2>3. k * size < j * size
    BY <1>1, <1>6, <1>7, <1>10, <2>1, <2>2
  <2>4. k * size + size <= j * size
    BY <1>1, <1>7, <2>2, <2>3, MultipleSteps
  <2> QED
    BY <1>1, <1>6, <1>7, <2>1, <2>2, <2>4
<1> QED
  BY <1>8, <1>9, <1>10 DEF first, size

\* When the loop ends it has made the objects that Slab works with.
LEMMA ObjectsComplete ==
  ASSUME LayoutInv, ~ looping
  PROVE  objects = Offsets(object_offset(type), size_of(type))
<1> DEFINE first == object_offset(type)
           size == size_of(type)
           K == (PAGE_SIZE - first - 1) \div size
<1>1. first \in Nat /\ size \in Nat \ {0} /\ PAGE_SIZE \in Nat
  BY LayoutAssumption, TypeLayout DEF LayoutInv
<1>2. PICK n \in Nat : Made(n)
  BY DEF LayoutInv
<1>3. /\ objects = Row(first, size, n) /\ n > 0 /\ (n > 1 => first + n * size < PAGE_SIZE)
      /\ first + n * size + size >= PAGE_SIZE
  BY <1>2 DEF Made
<1>4. first + size <= PAGE_SIZE
  BY DEF LayoutInv, SIZE_ASSERT
<1> HIDE DEF first, size
<1>5. n * size \in Nat /\ PAGE_SIZE - first - 1 \in Nat
  BY <1>1, <1>4, MultipleSteps
<1>6. K \in Nat /\ K * size <= PAGE_SIZE - first - 1 /\ PAGE_SIZE - first - 1 < K * size + size
  BY <1>1, <1>5, DivBounds
<1> HIDE DEF K
<1>7. Offsets(first, size) = {first} \cup Row(first, size, K)
  BY DEF Offsets, Row, K
<1>8. first \in Row(first, size, n)
  <2>1. first = first + 0 * size /\ 0 \in 0 .. n - 1
    BY <1>1, <1>3
  <2> QED
    BY <2>1 DEF Row
<1>9. CASE n > 1
  <2>1. K = n
    BY <1>1, <1>3, <1>5, <1>9, DivUnique DEF K
  <2> QED
    BY <1>3, <1>7, <1>8, <2>1 DEF first, size
<1>10. CASE n = 1
  <2>1. K * size < 2 * size
    BY <1>1, <1>3, <1>5, <1>6, <1>10
  <2>2. K < 2
    BY <1>1, <1>6, <2>1, MultipleSteps
  <2>3. Row(first, size, K) \subseteq {first}
    BY <1>1, <1>6, <2>2 DEF Row
  <2>4. Row(first, size, n) = {first}
    BY <1>1, <1>10 DEF Row
  <2> QED
    BY <1>3, <1>7, <2>3, <2>4 DEF first, size
<1> QED
  BY <1>3, <1>9, <1>10

\* The pointers of the objects made so far.
LEMMA LayoutSound == LayoutInv => PayloadsSound
<1> SUFFICES ASSUME LayoutInv PROVE PayloadsSound
  OBVIOUS
<1>1. /\ type.align \in Nat \ {0} /\ align_of(type) \in Nat \ {0} /\ align_of(type) % type.align = 0
      /\ payload_offset(type) \in Nat /\ payload_offset(type) % type.align = 0
      /\ redzone1_size(type) >= REDZONE_SIZE /\ redzone2_size(type) >= REDZONE_SIZE
      /\ object_offset(type) \in Nat /\ object_offset(type) >= PageHeader.size
      /\ size_of(type) \in Nat \ {0}
  BY LayoutAssumption, TypeLayout DEF LayoutInv
<1>2. /\ PAGE_SIZE \in Nat \ {0} /\ PAGE_SIZE % align_of(type) = 0
      /\ addr \in Nat /\ addr % PAGE_SIZE = 0
  BY LayoutAssumption DEF LayoutInv
<1>3. addr % align_of(type) = 0
  BY <1>1, <1>2, ModTrans
<1>4. ASSUME NEW o \in objects
      PROVE  /\ Payload(o) % type.align = 0
             /\ (addr + o) % align_of(type) = 0
             /\ o >= PageHeader.size /\ o + size_of(type) <= PAGE_SIZE
             /\ \A q \in objects : o < q => o + size_of(type) <= q
             /\ page_from_object(Payload(o) - payload_offset(type)) = addr
  <2>1. /\ o \in Nat /\ o >= object_offset(type) /\ o + size_of(type) <= PAGE_SIZE
        /\ o % align_of(type) = 0
        /\ \A q \in objects : o < q => o + size_of(type) <= q
    BY ObjectsFit
  <2>2. (addr + o) % align_of(type) = 0 /\ addr + o \in Nat
    BY <1>1, <1>2, <1>3, <2>1, ModSum
  <2>3. (addr + o) % type.align = 0
    BY <1>1, <2>2, ModTrans
  <2>4. Payload(o) % type.align = 0
    BY <1>1, <2>2, <2>3, ModSum DEF Payload
  <2>5. o >= PageHeader.size
    BY <1>1, <2>1 DEF PageHeader
  <2>6. page_from_object(addr + o) = addr
    <3>1. PICK q \in Nat : addr = q * PAGE_SIZE
      BY <1>2, ModWitness
    <3>2. o < PAGE_SIZE
      BY <1>1, <1>2, <2>1
    <3>3. (addr + o) \div PAGE_SIZE = q
      BY <1>2, <2>1, <2>2, <3>1, <3>2, DivUnique
    <3> QED
      BY <3>1, <3>3 DEF page_from_object
  <2>7. Payload(o) - payload_offset(type) = addr + o
    BY <1>1, <2>2 DEF Payload
  <2> QED
    BY <2>1, <2>2, <2>4, <2>5, <2>6, <2>7
<1> QED
  BY <1>1, <1>4, ObjectsComplete DEF PayloadsSound

\* Whatever the size and the alignment of the type, as long as SIZE_ASSERT
\* admits it, every pointer that a page cut by SlotPage::init can yield is
\* aligned, fenced by its redzones and leads back to its object and page.
THEOREM Payloads == LayoutSpec => []PayloadsSound
  BY LayoutInitInv, LayoutStep, LayoutSound, PTL DEF LayoutSpec

-----------------------------------------------------------------------------
(* Lists.  A list is described by the function s that numbers its elements *)
(* from 1 to n.                                                            *)

\* s numbers the elements of S, each once.
Numbers(s, n, S) ==
  /\ s \in [1 .. n -> S]
  /\ \A i, j \in 1 .. n : s[i] = s[j] => i = j
  /\ \A x \in S : \E i \in 1 .. n : s[i] = x

\* start leads to the first element and step from each one to the next.
Chain(s, n, start, step, end) ==
  /\ start = IF n = 0 THEN end ELSE s[1]
  /\ \A i \in 1 .. n : step[s[i]] = IF i = n THEN end ELSE s[i + 1]

\* The length of a list is the number of its elements.
LEMMA NumbersCount ==
  ASSUME NEW S, NEW n \in Nat, NEW s, Numbers(s, n, S)
  PROVE  IsFiniteSet(S) /\ Cardinality(S) = n
<1>1. IsFiniteSet(1 .. n) /\ Cardinality(1 .. n) = n
  BY FS_Interval
<1>2. s \in Bijection(1 .. n, S)
  BY DEF Numbers, Bijection, Injection, Surjection, IsInjective
<1>3. ExistsBijection(1 .. n, S)
  BY <1>2 DEF ExistsBijection
<1> QED
  BY <1>1, <1>3, FS_Bijection

\* What Follow finds: the elements in order, then the end.
Found(s, n, start, step, end, N) ==
  \A i \in 0 .. N : Follow(start, step, end, N)[i] = IF i < n THEN s[i + 1] ELSE end

\* A list read by Follow.
LEMMA FollowChain ==
  ASSUME NEW S, NEW n \in Nat, NEW s, Numbers(s, n, S),
         NEW start, NEW step, NEW end, end \notin S, Chain(s, n, start, step, end), NEW N \in Nat
  PROVE  Found(s, n, start, step, end, N)
<1> DEFINE Nth(f) == [i \in 0 .. N |->
                        IF i = 0 THEN start ELSE IF f[i - 1] = end THEN end ELSE step[f[i - 1]]]
           g == [i \in 0 .. N |-> IF i < n THEN s[i + 1] ELSE end]
           h == Follow(start, step, end, N)
<1>1. \A i \in 1 .. n : s[i] # end
  BY DEF Numbers
<1>2. g = Nth(g)
  <2>1. ASSUME NEW i \in 0 .. N PROVE g[i] = Nth(g)[i]
    <3>1. CASE i = 0
      BY <3>1 DEF Chain
    <3>2. CASE i > 0
      <4>1. i - 1 \in 0 .. N /\ g[i - 1] = IF i - 1 < n THEN s[i] ELSE end
        BY <3>2
      <4>2. CASE i - 1 < n
        <5>1. i \in 1 .. n /\ g[i - 1] = s[i] /\ g[i - 1] # end
          BY <1>1, <3>2, <4>1, <4>2
        <5>2. step[s[i]] = g[i]
          BY <5>1 DEF Chain
        <5> QED
          BY <3>2, <5>1, <5>2
      <4> QED
        BY <3>2, <4>1, <4>2
    <3> QED
      BY <3>1, <3>2
  <2> QED
    BY <2>1
<1>3. h = Nth(h)
  <2>1. h = CHOOSE f : f = Nth(f)
    BY DEF Follow
  <2> HIDE DEF g, h, Nth
  <2> QED
    BY <1>2, <2>1
<1> DEFINE T == {i \in 0 .. N : h[i] = g[i]}
<1>4. 0 .. N \subseteq T
  <2> HIDE DEF h
  <2>1. 0 \in T
    <3>1. Nth(h)[0] = start /\ Nth(g)[0] = start
      OBVIOUS
    <3> HIDE DEF g, Nth
    <3> QED
      BY <1>2, <1>3, <3>1
  <2>2. ASSUME NEW i \in 0 .. N - 1, i \in T PROVE i + 1 \in T
    <3>1. i + 1 \in 0 .. N /\ i + 1 # 0 /\ (i + 1) - 1 = i
      OBVIOUS
    <3>2. Nth(h)[i + 1] = IF h[i] = end THEN end ELSE step[h[i]]
      BY <3>1
    <3>3. Nth(g)[i + 1] = IF g[i] = end THEN end ELSE step[g[i]]
      BY <3>1
    <3>4. h[i] = g[i]
      BY <2>2
    <3> HIDE DEF g, Nth
    <3> QED
      BY <1>2, <1>3, <3>1, <3>2, <3>3, <3>4
  <2> HIDE DEF T
  <2> QED
    BY <2>1, <2>2, IntervalInduction
<1> QED
  <2> HIDE DEF h
  <2>1. \A i \in 0 .. N : h[i] = g[i]
    BY <1>4
  <2> QED
    BY <2>1 DEF h, Found

\* A list without its first element.
LEMMA ChainTail ==
  ASSUME NEW S, NEW n \in Nat, n > 0, NEW s, Numbers(s, n, S),
         NEW start, NEW step, NEW end, Chain(s, n, start, step, end)
  PROVE  /\ start \in S
         /\ \E t : Numbers(t, n - 1, S \ {start}) /\ Chain(t, n - 1, step[start], step, end)
         /\ step[start] = IF n = 1 THEN end ELSE s[2]
<1> DEFINE t == [i \in 1 .. n - 1 |-> s[i + 1]]
<1>1. start = s[1] /\ start \in S /\ 1 \in 1 .. n
  BY DEF Numbers, Chain
<1>2. step[start] = IF n = 1 THEN end ELSE s[2]
  BY <1>1 DEF Chain
<1>3. \A i \in 1 .. n - 1 : i + 1 \in 1 .. n /\ t[i] = s[i + 1] /\ i + 1 # 1
  OBVIOUS
<1>4. Numbers(t, n - 1, S \ {start})
  <2>1. ASSUME NEW i \in 1 .. n - 1 PROVE t[i] \in S \ {start}
    BY <1>1, <1>3 DEF Numbers
  <2>2. ASSUME NEW i \in 1 .. n - 1, NEW j \in 1 .. n - 1, t[i] = t[j] PROVE i = j
    BY <1>3, <2>2 DEF Numbers
  <2>3. ASSUME NEW x \in S \ {start} PROVE \E i \in 1 .. n - 1 : t[i] = x
    <3>1. PICK j \in 1 .. n : s[j] = x
      BY DEF Numbers
    <3>2. j # 1
      BY <1>1, <3>1
    <3>3. j - 1 \in 1 .. n - 1 /\ t[j - 1] = x
      BY <3>1, <3>2
    <3> QED
      BY <3>3
  <2> HIDE DEF t
  <2>4. t \in [1 .. n - 1 -> S \ {start}]
    BY <2>1 DEF t
  <2> QED
    BY <2>2, <2>3, <2>4 DEF Numbers
<1>5. Chain(t, n - 1, step[start], step, end)
  <2>1. step[start] = IF n - 1 = 0 THEN end ELSE t[1]
    BY <1>2
  <2>2. ASSUME NEW i \in 1 .. n - 1 PROVE step[t[i]] = IF i = n - 1 THEN end ELSE t[i + 1]
    BY <1>3 DEF Chain
  <2> HIDE DEF t
  <2> QED
    BY <2>1, <2>2 DEF Chain
<1> QED
  BY <1>1, <1>2, <1>4, <1>5

\* A list with another element in front.
LEMMA ChainCons ==
  ASSUME NEW S, NEW n \in Nat, NEW s, Numbers(s, n, S), NEW x, x \notin S,
         NEW start, NEW step, NEW end, Chain(s, n, start, step, end),
         NEW next, next[x] = start, \A y \in S : next[y] = step[y]
  PROVE  \E t : Numbers(t, n + 1, S \cup {x}) /\ Chain(t, n + 1, x, next, end)
<1> DEFINE t == [i \in 1 .. n + 1 |-> IF i = 1 THEN x ELSE s[i - 1]]
<1>1. t[1] = x /\ 1 \in 1 .. n + 1
  OBVIOUS
<1>2. \A i \in 1 .. n + 1 : i # 1 => i - 1 \in 1 .. n /\ t[i] = s[i - 1] /\ t[i] \in S
  BY DEF Numbers
<1>3. Numbers(t, n + 1, S \cup {x})
  <2>1. ASSUME NEW i \in 1 .. n + 1 PROVE t[i] \in S \cup {x}
    BY <1>1, <1>2
  <2>2. ASSUME NEW i \in 1 .. n + 1, NEW j \in 1 .. n + 1, t[i] = t[j] PROVE i = j
    <3>1. CASE i = 1 \/ j = 1
      BY <1>1, <1>2, <2>2, <3>1
    <3>2. CASE i # 1 /\ j # 1
      <4>1. i - 1 = j - 1
        BY <1>2, <2>2, <3>2 DEF Numbers
      <4> QED
        BY <4>1
    <3> QED
      BY <3>1, <3>2
  <2>3. ASSUME NEW y \in S \cup {x} PROVE \E i \in 1 .. n + 1 : t[i] = y
    <3>1. CASE y = x
      BY <1>1, <3>1
    <3>2. CASE y \in S
      <4>1. PICK j \in 1 .. n : s[j] = y
        BY <3>2 DEF Numbers
      <4>2. j + 1 \in 1 .. n + 1 /\ t[j + 1] = y
        BY <4>1
      <4> QED
        BY <4>2
    <3> QED
      BY <3>1, <3>2
  <2>4. t \in [1 .. n + 1 -> S \cup {x}]
    BY <2>1
  <2> HIDE DEF t
  <2> QED
    BY <2>2, <2>3, <2>4 DEF Numbers
<1>4. Chain(t, n + 1, x, next, end)
  <2>1. ASSUME NEW i \in 1 .. n + 1 PROVE next[t[i]] = IF i = n + 1 THEN end ELSE t[i + 1]
    <3>1. CASE i = 1
      BY <1>1, <3>1 DEF Chain
    <3>2. CASE i # 1
      <4>1. next[t[i]] = step[s[i - 1]] /\ i - 1 \in 1 .. n
        BY <1>2, <3>2
      <4>2. step[s[i - 1]] = IF i - 1 = n THEN end ELSE s[i]
        BY <4>1 DEF Chain
      <4> QED
        BY <3>2, <4>1, <4>2
    <3> QED
      BY <3>1, <3>2
  <2> HIDE DEF t
  <2> QED
    BY <1>1, <2>1 DEF Chain
<1> QED
  BY <1>3, <1>4

\* step leads from start through the elements of S, each once, to end.
List(S, start, step, end) ==
  \E n \in Nat : \E s : Numbers(s, n, S) /\ Chain(s, n, start, step, end)

\* A list is empty exactly when it starts with the end.
LEMMA ListEmpty ==
  ASSUME NEW S, NEW start, NEW step, NEW end, List(S, start, step, end), end \notin S
  PROVE  start = end <=> S = {}
<1>1. PICK n \in Nat : \E s : Numbers(s, n, S) /\ Chain(s, n, start, step, end)
  BY DEF List
<1>2. PICK s : Numbers(s, n, S) /\ Chain(s, n, start, step, end)
  BY <1>1
<1>3. CASE n = 0
  BY <1>2, <1>3 DEF Numbers, Chain
<1>4. CASE n > 0
  BY <1>2, <1>4 DEF Numbers, Chain
<1> QED
  BY <1>1, <1>3, <1>4

\* Links outside of the list do not matter.
LEMMA ListFrame ==
  ASSUME NEW S, NEW start, NEW step, NEW end, List(S, start, step, end),
         NEW next, \A y \in S : next[y] = step[y]
  PROVE  List(S, start, next, end)
<1>1. PICK n \in Nat : \E s : Numbers(s, n, S) /\ Chain(s, n, start, step, end)
  BY DEF List
<1>2. PICK s : Numbers(s, n, S) /\ Chain(s, n, start, step, end)
  BY <1>1
<1>3. \A i \in 1 .. n : next[s[i]] = step[s[i]]
  BY <1>2 DEF Numbers
<1>4. Chain(s, n, start, next, end)
  BY <1>2, <1>3 DEF Chain
<1> QED
  BY <1>1, <1>2, <1>4 DEF List

\* A free list without its head, as alloc takes it.
LEMMA ListTail ==
  ASSUME NEW S, NEW start, NEW step, NEW end, List(S, start, step, end), start # end
  PROVE  start \in S /\ List(S \ {start}, step[start], step, end)
<1>1. PICK n \in Nat : \E s : Numbers(s, n, S) /\ Chain(s, n, start, step, end)
  BY DEF List
<1>2. PICK s : Numbers(s, n, S) /\ Chain(s, n, start, step, end)
  BY <1>1
<1>3. n > 0 /\ n - 1 \in Nat
  BY <1>1, <1>2 DEF Chain
<1>4. /\ start \in S
      /\ \E t : Numbers(t, n - 1, S \ {start}) /\ Chain(t, n - 1, step[start], step, end)
  BY <1>1, <1>2, <1>3, ChainTail, Zenon
<1> QED
  BY <1>3, <1>4 DEF List

\* A free list with a new head, as dealloc puts it there.
LEMMA ListCons ==
  ASSUME NEW S, NEW start, NEW step, NEW end, List(S, start, step, end), NEW x, x \notin S,
         NEW next, next[x] = start, \A y \in S : next[y] = step[y]
  PROVE  List(S \cup {x}, x, next, end)
<1>1. PICK n \in Nat : \E s : Numbers(s, n, S) /\ Chain(s, n, start, step, end)
  BY DEF List
<1>2. PICK s : Numbers(s, n, S) /\ Chain(s, n, start, step, end)
  BY <1>1
<1>3. \E t : Numbers(t, n + 1, S \cup {x}) /\ Chain(t, n + 1, x, next, end)
  BY <1>1, <1>2, ChainCons
<1>4. n + 1 \in Nat
  BY <1>1
<1> QED
  BY <1>3, <1>4 DEF List

-----------------------------------------------------------------------------
(* PageList.                                                               *)

\* The shape of the memory; alloc_count is any number until it is bounded.
Memory ==
  [head : Page \cup {Null}, tail : Page \cup {Null},
   next : [Page -> Page \cup {Null}], prev : [Page -> Page \cup {Null}],
   free_index : [Page -> Offset \cup {0}], alloc_count : [Page -> Int],
   magic : [Object -> {"EMPTY", "OBJECT"}],
   obj_next : [Object -> Offset \cup {0}],
   payload : [Object -> {"UNUSED", "ZERO", "DATA"}]]

\* Two memories that differ at most in the partial_list and its links.
SameObjects(m, r) ==
  /\ r.free_index = m.free_index /\ r.alloc_count = m.alloc_count
  /\ r.magic = m.magic /\ r.obj_next = m.obj_next /\ r.payload = m.payload

\* Two memories with the same links at page q.
SameLinks(m, r, q) == r.next[q] = m.next[q] /\ r.prev[q] = m.prev[q]

\* The partial_list of m has the pages that t numbers.
Linked(m, t, n) ==
  /\ m.head = IF n = 0 THEN Null ELSE t[1]
  /\ m.tail = IF n = 0 THEN Null ELSE t[n]
  /\ \A i \in 1 .. n : m.next[t[i]] = IF i = n THEN Null ELSE t[i + 1]
  /\ \A i \in 1 .. n : m.prev[t[i]] = IF i = 1 THEN Null ELSE t[i - 1]

\* The fields that remove writes.
LEMMA RemoveFields ==
  ASSUME NEW m \in Memory, NEW p \in Page, NEW n, n = m.next[p], NEW v, v = m.prev[p]
  PROVE  /\ remove(m, p) \in Memory /\ SameObjects(m, remove(m, p))
         /\ remove(m, p).head = IF v = Null THEN n ELSE m.head
         /\ remove(m, p).tail = IF n = Null THEN v ELSE m.tail
         /\ \A q \in Page : remove(m, p).next[q] =
              IF q = p THEN Null ELSE IF q = v THEN n ELSE m.next[q]
         /\ \A q \in Page : remove(m, p).prev[q] =
              IF q = p THEN Null ELSE IF q = n THEN v ELSE m.prev[q]
<1> DEFINE before == IF v = Null THEN [m EXCEPT !.head = n] ELSE [m EXCEPT !.next[v] = n]
           after == IF n = Null THEN [before EXCEPT !.tail = v] ELSE [before EXCEPT !.prev[n] = v]
           r == [after EXCEPT !.next[p] = Null, !.prev[p] = Null]
<1>1. n \in Page \cup {Null} /\ v \in Page \cup {Null} /\ Null \notin Page
  BY SizeAssumption DEF Memory
<1>2. /\ before \in Memory /\ SameObjects(m, before)
      /\ before.head = (IF v = Null THEN n ELSE m.head) /\ before.tail = m.tail
      /\ \A q \in Page : before.next[q] = IF q = v THEN n ELSE m.next[q]
      /\ before.prev = m.prev
  BY <1>1, Zenon DEF Memory, SameObjects
<1>3. /\ after \in Memory /\ SameObjects(before, after)
      /\ after.head = before.head /\ after.tail = (IF n = Null THEN v ELSE before.tail)
      /\ after.next = before.next
      /\ \A q \in Page : after.prev[q] = IF q = n THEN v ELSE before.prev[q]
  <2> HIDE DEF before
  <2>1. CASE n = Null
    BY <1>1, <1>2, <2>1 DEF Memory, SameObjects
  <2>2. CASE n # Null
    BY <1>1, <1>2, <2>2 DEF Memory, SameObjects
  <2> QED
    BY <2>1, <2>2
<1>4. /\ r \in Memory /\ SameObjects(after, r) /\ r.head = after.head /\ r.tail = after.tail
      /\ \A q \in Page : r.next[q] = IF q = p THEN Null ELSE after.next[q]
      /\ \A q \in Page : r.prev[q] = IF q = p THEN Null ELSE after.prev[q]
  <2> HIDE DEF after
  <2> QED
    BY <1>1, <1>3, ZenonT(40) DEF Memory, SameObjects
<1>5. remove(m, p) = r
  BY DEF remove, TailWithout
<1> HIDE DEF before, after, r
<1> QED
  BY <1>2, <1>3, <1>4, <1>5 DEF SameObjects

\* remove takes a page out of any place of the list and touches only pages
\* of the list.
LEMMA RemoveLinked ==
  ASSUME NEW m \in Memory, NEW S, S \subseteq Page, NEW n \in Nat, NEW t, Numbers(t, n, S),
         Linked(m, t, n), NEW p \in S
  PROVE  /\ \E u : Numbers(u, n - 1, S \ {p}) /\ Linked(remove(m, p), u, n - 1)
         /\ n - 1 \in Nat
         /\ \A q \in Page \ S : SameLinks(m, remove(m, p), q)
<1>1. PICK k \in 1 .. n : t[k] = p
  BY DEF Numbers
<1> DEFINE u == [i \in 1 .. n - 1 |-> IF i < k THEN t[i] ELSE t[i + 1]]
           r == remove(m, p)
<1>2. /\ m.next[p] = (IF k = n THEN Null ELSE t[k + 1])
      /\ m.prev[p] = (IF k = 1 THEN Null ELSE t[k - 1])
      /\ Null \notin Page /\ \A i \in 1 .. n : t[i] \in Page /\ t[i] \in S /\ t[i] # Null
  BY <1>1, SizeAssumption, ZenonT(40) DEF Linked, Numbers
<1>3. /\ r.head = (IF k = 1 THEN m.next[p] ELSE m.head)
      /\ r.tail = (IF k = n THEN m.prev[p] ELSE m.tail)
      /\ \A q \in Page : r.next[q] =
           IF q = p THEN Null ELSE IF q = m.prev[p] THEN m.next[p] ELSE m.next[q]
      /\ \A q \in Page : r.prev[q] =
           IF q = p THEN Null ELSE IF q = m.next[p] THEN m.prev[p] ELSE m.prev[q]
  <2>1. (m.prev[p] = Null <=> k = 1) /\ (m.next[p] = Null <=> k = n)
    BY <1>1, <1>2
  <2> QED
    BY <2>1, RemoveFields
<1> HIDE DEF r
<1>4. \A i, j \in 1 .. n : t[i] = t[j] => i = j
  BY DEF Numbers
<1>5. Numbers(u, n - 1, S \ {p})
  <2>1. ASSUME NEW i \in 1 .. n - 1 PROVE u[i] \in S \ {p}
    BY <1>1, <1>2, <1>4
  <2>2. ASSUME NEW i \in 1 .. n - 1, NEW j \in 1 .. n - 1, u[i] = u[j] PROVE i = j
    BY <1>4, <2>2
  <2>3. ASSUME NEW x \in S \ {p} PROVE \E i \in 1 .. n - 1 : u[i] = x
    <3>1. PICK j \in 1 .. n : t[j] = x
      BY DEF Numbers
    <3>2. CASE j < k
      BY <3>1, <3>2
    <3>3. CASE j > k
      <4>1. j - 1 \in 1 .. n - 1 /\ u[j - 1] = x
        BY <3>1, <3>3
      <4> QED
        BY <4>1
    <3> QED
      BY <1>1, <3>1, <3>2, <3>3
  <2>4. u \in [1 .. n - 1 -> S \ {p}]
    BY <2>1
  <2> HIDE DEF u
  <2> QED
    BY <2>2, <2>3, <2>4 DEF Numbers
<1>6. \A i \in 1 .. n - 1 : u[i] = IF i < k THEN t[i] ELSE t[i + 1]
  OBVIOUS
<1> HIDE DEF u
<1>7. Linked(r, u, n - 1)
  <2>1. r.head = IF n - 1 = 0 THEN Null ELSE u[1]
    BY <1>2, <1>3, <1>6 DEF Linked
  <2>2. r.tail = IF n - 1 = 0 THEN Null ELSE u[n - 1]
    BY <1>2, <1>3, <1>6 DEF Linked
  <2>3. ASSUME NEW i \in 1 .. n - 1
        PROVE  r.next[u[i]] = IF i = n - 1 THEN Null ELSE u[i + 1]
    <3>1. CASE i < k
      <4>1. u[i] = t[i] /\ t[i] \in Page /\ t[i] # p /\ (t[i] = t[k - 1] => i = k - 1)
        BY <1>1, <1>2, <1>4, <1>6, <3>1
      <4>2. m.next[t[i]] = t[i + 1]
        BY <3>1 DEF Linked
      <4>3. CASE i = k - 1
        BY <1>2, <1>3, <1>6, <4>1, <4>3
      <4>4. CASE i < k - 1
        BY <1>2, <1>3, <1>6, <3>1, <4>1, <4>2, <4>4
      <4> QED
        BY <3>1, <4>3, <4>4
    <3>2. CASE i >= k
      <4>1. u[i] = t[i + 1] /\ t[i + 1] \in Page /\ t[i + 1] # p /\ t[i + 1] # m.prev[p]
        BY <1>1, <1>2, <1>4, <1>6, <3>2
      <4>2. m.next[t[i + 1]] = IF i + 1 = n THEN Null ELSE t[i + 2]
        BY <3>2 DEF Linked
      <4> QED
        BY <1>3, <1>6, <3>2, <4>1, <4>2
    <3> QED
      BY <3>1, <3>2
  <2>4. ASSUME NEW i \in 1 .. n - 1
        PROVE  r.prev[u[i]] = IF i = 1 THEN Null ELSE u[i - 1]
    <3>1. CASE i < k
      <4>1. u[i] = t[i] /\ t[i] \in Page /\ t[i] # p /\ t[i] # m.next[p]
        BY <1>1, <1>2, <1>4, <1>6, <3>1
      <4>2. m.prev[t[i]] = IF i = 1 THEN Null ELSE t[i - 1]
        BY <3>1 DEF Linked
      <4> QED
        BY <1>3, <1>6, <3>1, <4>1, <4>2
    <3>2. CASE i = k
      <4>1. u[i] = t[k + 1] /\ t[k + 1] \in Page /\ t[k + 1] # p /\ m.next[p] = t[k + 1]
        BY <1>1, <1>2, <1>4, <1>6, <3>2
      <4> QED
        BY <1>2, <1>3, <1>6, <3>2, <4>1
    <3>3. CASE i > k
      <4>1. u[i] = t[i + 1] /\ t[i + 1] \in Page /\ t[i + 1] # p /\ t[i + 1] # m.next[p]
        BY <1>1, <1>2, <1>4, <1>6, <3>3
      <4>2. m.prev[t[i + 1]] = t[i]
        BY <3>3 DEF Linked
      <4> QED
        BY <1>3, <1>6, <3>3, <4>1, <4>2
    <3> QED
      BY <3>1, <3>2, <3>3
  <2> QED
    BY <2>1, <2>2, <2>3, <2>4 DEF Linked
<1>8. ASSUME NEW q \in Page \ S PROVE SameLinks(m, r, q)
  <2>1. q # p /\ q # m.next[p] /\ q # m.prev[p]
    BY <1>2
  <2> QED
    BY <1>3, <2>1 DEF SameLinks
<1> QED
  BY <1>5, <1>7, <1>8 DEF r

\* The fields that push_back writes.
LEMMA PushBackFields ==
  ASSUME NEW m \in Memory, NEW p \in Page, m.tail = Null => m.head = Null, m.tail # p
  PROVE  /\ push_back(m, p) \in Memory /\ SameObjects(m, push_back(m, p))
         /\ push_back(m, p).head = IF m.tail = Null THEN p ELSE m.head
         /\ push_back(m, p).tail = p
         /\ \A q \in Page : push_back(m, p).next[q] =
              IF q = p THEN Null ELSE IF q = m.tail THEN p ELSE m.next[q]
         /\ \A q \in Page : push_back(m, p).prev[q] = IF q = p THEN m.tail ELSE m.prev[q]
<1> DEFINE linked == [m EXCEPT !.next[p] = Null, !.prev[p] = m.tail]
<1>1. m.tail \in Page \cup {Null} /\ Null \notin Page
  BY SizeAssumption DEF Memory
<1>2. /\ linked \in Memory /\ SameObjects(m, linked) /\ linked.head = m.head /\ linked.tail = m.tail
      /\ \A q \in Page : linked.next[q] = IF q = p THEN Null ELSE m.next[q]
      /\ \A q \in Page : linked.prev[q] = IF q = p THEN m.tail ELSE m.prev[q]
  BY <1>1, Zenon DEF Memory, SameObjects
<1>3. push_back(m, p) = IF m.tail # Null THEN [linked EXCEPT !.next[m.tail] = p, !.tail = p]
                        ELSE [linked EXCEPT !.head = IF linked.head = Null THEN p ELSE linked.head, !.tail = p]
  BY <1>2 DEF push_back
<1> HIDE DEF linked
<1>4. CASE m.tail = Null
  <2>1. push_back(m, p) = [linked EXCEPT !.head = p, !.tail = p]
    BY <1>2, <1>3, <1>4, Zenon
  <2> DEFINE first == [linked EXCEPT !.head = p]
  <2>2. /\ first \in Memory /\ SameObjects(linked, first) /\ first.head = p
        /\ first.next = linked.next /\ first.prev = linked.prev
    BY <1>2 DEF Memory, SameObjects
  <2>3. push_back(m, p) = [first EXCEPT !.tail = p]
    BY <2>1
  <2> HIDE DEF first
  <2> DEFINE r == [first EXCEPT !.tail = p]
  <2>4. /\ r \in Memory /\ SameObjects(first, r) /\ r.head = first.head /\ r.tail = p
        /\ r.next = first.next /\ r.prev = first.prev
    BY <2>2 DEF Memory, SameObjects
  <2> HIDE DEF r
  <2>5. push_back(m, p) = r
    BY <2>3 DEF r
  <2>6. /\ SameObjects(m, r) /\ r.head = p
        /\ \A q \in Page : r.next[q] = IF q = p THEN Null ELSE m.next[q]
        /\ \A q \in Page : r.prev[q] = IF q = p THEN m.tail ELSE m.prev[q]
    BY <1>2, <2>2, <2>4 DEF SameObjects
  <2>7. \A q \in Page : q # m.tail
    BY <1>1, <1>4
  <2> QED
    BY <1>4, <2>4, <2>5, <2>6, <2>7
<1>5. CASE m.tail # Null
  <2> DEFINE behind == [linked EXCEPT !.next[m.tail] = p]
  <2>1. push_back(m, p) = [behind EXCEPT !.tail = p]
    BY <1>3, <1>5
  <2>2. /\ behind \in Memory /\ SameObjects(linked, behind) /\ behind.head = linked.head
        /\ \A q \in Page : behind.next[q] = IF q = m.tail THEN p ELSE linked.next[q]
        /\ behind.prev = linked.prev
    BY <1>1, <1>2, <1>5 DEF Memory, SameObjects
  <2> HIDE DEF behind
  <2> DEFINE r == [behind EXCEPT !.tail = p]
  <2>3. /\ r \in Memory /\ SameObjects(behind, r) /\ r.head = behind.head /\ r.tail = p
        /\ r.next = behind.next /\ r.prev = behind.prev
    BY <2>2 DEF Memory, SameObjects
  <2> HIDE DEF r
  <2>4. push_back(m, p) = r
    BY <2>1 DEF r
  <2> QED
    BY <1>2, <1>5, <2>2, <2>3, <2>4 DEF SameObjects
<1> QED
  BY <1>4, <1>5

\* push_back puts a page behind the list and touches only it and the last one.
LEMMA PushBackLinked ==
  ASSUME NEW m \in Memory, NEW S, S \subseteq Page, NEW n \in Nat, NEW t, Numbers(t, n, S),
         Linked(m, t, n), NEW p \in Page \ S
  PROVE  /\ \E u : Numbers(u, n + 1, S \cup {p}) /\ Linked(push_back(m, p), u, n + 1)
         /\ push_back(m, p) \in Memory /\ SameObjects(m, push_back(m, p))
         /\ \A q \in Page \ (S \cup {p}) : SameLinks(m, push_back(m, p), q)
<1> DEFINE u == [i \in 1 .. n + 1 |-> IF i = n + 1 THEN p ELSE t[i]]
           r == push_back(m, p)
<1>1. /\ Null \notin Page
      /\ \A i \in 1 .. n : t[i] \in Page /\ t[i] \in S /\ t[i] # Null /\ t[i] # p
  BY SizeAssumption DEF Numbers
<1>2. m.tail = (IF n = 0 THEN Null ELSE t[n]) /\ (m.tail = Null <=> n = 0)
  BY <1>1 DEF Linked
<1>3. m.tail # p /\ (m.tail = Null => m.head = Null)
  BY <1>1, <1>2 DEF Linked
<1>4. /\ r \in Memory /\ SameObjects(m, r)
      /\ r.head = (IF n = 0 THEN p ELSE m.head) /\ r.tail = p
      /\ \A q \in Page : r.next[q] = IF q = p THEN Null ELSE IF q = m.tail THEN p ELSE m.next[q]
      /\ \A q \in Page : r.prev[q] = IF q = p THEN m.tail ELSE m.prev[q]
  BY <1>2, <1>3, PushBackFields
<1> HIDE DEF r
<1>5. \A i, j \in 1 .. n : t[i] = t[j] => i = j
  BY DEF Numbers
<1>6. Numbers(u, n + 1, S \cup {p})
  <2>1. ASSUME NEW i \in 1 .. n + 1 PROVE u[i] \in S \cup {p}
    BY <1>1
  <2>2. ASSUME NEW i \in 1 .. n + 1, NEW j \in 1 .. n + 1, u[i] = u[j] PROVE i = j
    BY <1>1, <1>5, <2>2
  <2>3. ASSUME NEW x \in S \cup {p} PROVE \E i \in 1 .. n + 1 : u[i] = x
    <3>1. CASE x = p
      BY <3>1
    <3>2. CASE x \in S
      <4>1. PICK j \in 1 .. n : t[j] = x
        BY <3>2 DEF Numbers
      <4> QED
        BY <4>1
    <3> QED
      BY <3>1, <3>2
  <2>4. u \in [1 .. n + 1 -> S \cup {p}]
    BY <2>1
  <2> HIDE DEF u
  <2> QED
    BY <2>2, <2>3, <2>4 DEF Numbers
<1>7. \A i \in 1 .. n + 1 : u[i] = IF i = n + 1 THEN p ELSE t[i]
  OBVIOUS
<1> HIDE DEF u
<1>8. Linked(r, u, n + 1)
  <2>1. r.head = u[1] /\ r.tail = u[n + 1]
    BY <1>4, <1>7 DEF Linked
  <2>2. ASSUME NEW i \in 1 .. n + 1
        PROVE  r.next[u[i]] = IF i = n + 1 THEN Null ELSE u[i + 1]
    <3>1. CASE i = n + 1
      BY <1>4, <1>7, <3>1
    <3>2. CASE i \in 1 .. n
      <4>1. u[i] = t[i] /\ m.next[t[i]] = (IF i = n THEN Null ELSE t[i + 1]) /\ (t[i] = m.tail <=> i = n)
        BY <1>2, <1>5, <1>7, <3>2 DEF Linked
      <4> QED
        BY <1>1, <1>4, <1>7, <3>2, <4>1
    <3> QED
      BY <3>1, <3>2
  <2>3. ASSUME NEW i \in 1 .. n + 1
        PROVE  r.prev[u[i]] = IF i = 1 THEN Null ELSE u[i - 1]
    <3>1. CASE i = n + 1
      BY <1>2, <1>4, <1>7, <3>1
    <3>2. CASE i \in 1 .. n
      <4>1. u[i] = t[i] /\ m.prev[t[i]] = (IF i = 1 THEN Null ELSE t[i - 1])
        BY <1>7, <3>2 DEF Linked
      <4> QED
        BY <1>1, <1>4, <1>7, <3>2, <4>1
    <3> QED
      BY <3>1, <3>2
  <2> QED
    BY <2>1, <2>2, <2>3 DEF Linked
<1>9. ASSUME NEW q \in Page \ (S \cup {p}) PROVE SameLinks(m, r, q)
  <2>1. q # m.tail
    BY <1>1, <1>2
  <2> QED
    BY <1>4, <2>1 DEF SameLinks
<1> QED
  BY <1>4, <1>6, <1>8, <1>9 DEF r

\* The partial_list of m has exactly the pages of S, linked both ways.
PageList(m, S) == \E n \in Nat : \E t : Numbers(t, n, S) /\ Linked(m, t, n)

\* Two memories with the same partial_list.
SameList(m, r) == r.head = m.head /\ r.tail = m.tail /\ r.next = m.next /\ r.prev = m.prev

\* The list of pages does not depend on what is inside of them.
LEMMA PageListFrame ==
  ASSUME NEW m, NEW r, NEW S, PageList(m, S), SameList(m, r)
  PROVE  PageList(r, S)
  BY DEF PageList, SameList, Linked

\* The head is a page of the list, unless the list is empty.
LEMMA PageListHead ==
  ASSUME NEW m, NEW S, S \subseteq Page, PageList(m, S)
  PROVE  IF S = {} THEN m.head = Null /\ m.tail = Null ELSE m.head \in S
<1>1. PICK n \in Nat : \E t : Numbers(t, n, S) /\ Linked(m, t, n)
  BY DEF PageList
<1>2. PICK t : Numbers(t, n, S) /\ Linked(m, t, n)
  BY <1>1
<1>3. CASE n = 0
  BY <1>2, <1>3 DEF Numbers, Linked
<1>4. CASE n > 0
  BY <1>2, <1>4 DEF Numbers, Linked
<1> QED
  BY <1>1, <1>3, <1>4

\* PageList::remove takes the page out of the list wherever it is, and touches
\* no page outside of the list.
LEMMA RemovePage ==
  ASSUME NEW m \in Memory, NEW S, S \subseteq Page, PageList(m, S), NEW p \in S
  PROVE  /\ PageList(remove(m, p), S \ {p})
         /\ remove(m, p) \in Memory /\ SameObjects(m, remove(m, p))
         /\ \A q \in Page \ S : SameLinks(m, remove(m, p), q)
<1>1. PICK n \in Nat : \E t : Numbers(t, n, S) /\ Linked(m, t, n)
  BY DEF PageList
<1>2. PICK t : Numbers(t, n, S) /\ Linked(m, t, n)
  BY <1>1
<1>3. /\ \E u : Numbers(u, n - 1, S \ {p}) /\ Linked(remove(m, p), u, n - 1)
      /\ n - 1 \in Nat
      /\ \A q \in Page \ S : SameLinks(m, remove(m, p), q)
  BY <1>1, <1>2, RemoveLinked, Zenon
<1>4. remove(m, p) \in Memory /\ SameObjects(m, remove(m, p))
  BY RemoveFields
<1> QED
  BY <1>3, <1>4 DEF PageList

\* PageList::push_back puts the page at the end of the list, and touches no
\* page outside of it.
LEMMA PushBackPage ==
  ASSUME NEW m \in Memory, NEW S, S \subseteq Page, PageList(m, S), NEW p \in Page \ S
  PROVE  /\ PageList(push_back(m, p), S \cup {p})
         /\ push_back(m, p) \in Memory /\ SameObjects(m, push_back(m, p))
         /\ \A q \in Page \ (S \cup {p}) : SameLinks(m, push_back(m, p), q)
<1>1. PICK n \in Nat : \E t : Numbers(t, n, S) /\ Linked(m, t, n)
  BY DEF PageList
<1>2. PICK t : Numbers(t, n, S) /\ Linked(m, t, n)
  BY <1>1
<1>3. /\ \E u : Numbers(u, n + 1, S \cup {p}) /\ Linked(push_back(m, p), u, n + 1)
      /\ push_back(m, p) \in Memory /\ SameObjects(m, push_back(m, p))
      /\ \A q \in Page \ (S \cup {p}) : SameLinks(m, push_back(m, p), q)
  BY <1>1, <1>2, PushBackLinked, Zenon
<1>4. n + 1 \in Nat
  BY <1>1
<1> QED
  BY <1>3, <1>4 DEF PageList

\* assign_singleton makes a list of one page.
LEMMA SingletonPage ==
  ASSUME NEW m \in Memory, NEW p \in Page
  PROVE  /\ PageList(assign_singleton(m, p), {p})
         /\ assign_singleton(m, p) \in Memory /\ SameObjects(m, assign_singleton(m, p))
         /\ assign_singleton(m, p).head = p
         /\ \A q \in Page \ {p} : SameLinks(m, assign_singleton(m, p), q)
<1> DEFINE r == assign_singleton(m, p)
           t == [i \in 1 .. 1 |-> p]
<1>1. /\ r \in Memory /\ SameObjects(m, r) /\ r.head = p /\ r.tail = p
      /\ r.next[p] = Null /\ r.prev[p] = Null
      /\ \A q \in Page \ {p} : SameLinks(m, r, q)
  BY Zenon DEF assign_singleton, Memory, SameObjects, SameLinks
<1> HIDE DEF r
<1>2. Numbers(t, 1, {p}) /\ Linked(r, t, 1)
  BY <1>1 DEF Numbers, Linked
<1>3. PageList(r, {p})
  <2> HIDE DEF t
  <2> QED
    BY <1>2 DEF PageList
<1> QED
  BY <1>1, <1>3 DEF r

-----------------------------------------------------------------------------
(* SlotPage.                                                               *)

\* A page has objects; no offset is 0, which ends a free list.
LEMMA OffsetRow ==
  /\ OBJ_OFFSET \in Nat \ {0} /\ OBJ_SIZE \in Nat \ {0}
  /\ \E n \in Nat \ {0} : Offset = Row(OBJ_OFFSET, OBJ_SIZE, n)
<1>1. OBJ_OFFSET \in Nat /\ OBJ_SIZE \in Nat \ {0} /\ OBJ_OFFSET >= 24
  BY SizeAssumption, TypeLayout DEF OBJ_OFFSET, OBJ_SIZE, PageHeader
<1>2. PAGE_SIZE \in Nat /\ OBJ_OFFSET + OBJ_SIZE <= PAGE_SIZE
  BY SizeAssumption DEF SIZE_ASSERT, OBJ_OFFSET, OBJ_SIZE
<1> DEFINE K == (PAGE_SIZE - OBJ_OFFSET - 1) \div OBJ_SIZE
<1>3. K \in Nat
  <2>1. PAGE_SIZE - OBJ_OFFSET - 1 \in Nat
    BY <1>1, <1>2
  <2> QED
    BY <1>1, <2>1, DivBounds
<1> HIDE DEF K
<1>4. Offset = {OBJ_OFFSET} \cup Row(OBJ_OFFSET, OBJ_SIZE, K)
  BY DEF Offset, Offsets, Row, K
<1>5. CASE K = 0
  <2>1. Offset = Row(OBJ_OFFSET, OBJ_SIZE, 1)
    BY <1>1, <1>4, <1>5 DEF Row
  <2> QED
    BY <1>1, <2>1
<1>6. CASE K # 0
  <2>1. OBJ_OFFSET = OBJ_OFFSET + 0 * OBJ_SIZE /\ 0 \in 0 .. K - 1
    BY <1>1, <1>3, <1>6
  <2>2. OBJ_OFFSET \in Row(OBJ_OFFSET, OBJ_SIZE, K)
    BY <2>1 DEF Row
  <2>3. Offset = Row(OBJ_OFFSET, OBJ_SIZE, K)
    BY <1>4, <2>2
  <2> QED
    BY <1>1, <1>3, <1>6, <2>3
<1> QED
  BY <1>5, <1>6

\* The offsets of the objects of a page: finitely many, never 0 (which stands
\* for no object), and the first one is among them.
LEMMA OffsetFacts ==
  IsFiniteSet(Offset) /\ 0 \notin Offset /\ OBJ_OFFSET \in Offset /\ Offset \subseteq Nat
<1>1. PICK n \in Nat \ {0} : Offset = Row(OBJ_OFFSET, OBJ_SIZE, n)
  BY OffsetRow
<1>2. /\ OBJ_OFFSET \in Nat \ {0} /\ OBJ_SIZE \in Nat \ {0}
      /\ \A j, k \in Nat : j < k => j * OBJ_SIZE + OBJ_SIZE <= k * OBJ_SIZE
      /\ \A k \in Nat : k * OBJ_SIZE \in Nat
  BY OffsetRow, MultipleSteps
<1>3. ASSUME NEW o \in Offset PROVE o \in 1 .. OBJ_OFFSET + n * OBJ_SIZE
  <2>1. PICK k \in 0 .. n - 1 : o = OBJ_OFFSET + k * OBJ_SIZE
    BY <1>1 DEF Row
  <2>2. k \in Nat /\ n \in Nat /\ k < n /\ k * OBJ_SIZE \in Nat /\ n * OBJ_SIZE \in Nat
    BY <1>2
  <2>3. k * OBJ_SIZE + OBJ_SIZE <= n * OBJ_SIZE
    BY <1>2, <2>2
  <2> QED
    BY <1>2, <2>1, <2>2, <2>3
<1>4. n * OBJ_SIZE \in Nat /\ OBJ_OFFSET + n * OBJ_SIZE \in Int
  BY <1>2
<1>5. IsFiniteSet(1 .. OBJ_OFFSET + n * OBJ_SIZE)
  BY <1>4, FS_Interval
<1>6. IsFiniteSet(Offset)
  BY <1>3, <1>5, FS_Subset, Zenon
<1>7. OBJ_OFFSET \in Offset
  <2>1. 0 \in 0 .. n - 1 /\ OBJ_OFFSET = OBJ_OFFSET + 0 * OBJ_SIZE
    BY <1>2
  <2> QED
    BY <1>1, <2>1 DEF Row
<1> QED
  BY <1>3, <1>6, <1>7

\* The links that SlotPage::init writes lead through all objects.
LEMMA InitList ==
  List(Offset, OBJ_OFFSET,
       [o \in Offset |-> IF o + OBJ_SIZE \in Offset THEN o + OBJ_SIZE ELSE 0], 0)
<1>1. PICK n \in Nat \ {0} : Offset = Row(OBJ_OFFSET, OBJ_SIZE, n)
  BY OffsetRow
<1> DEFINE At(k) == OBJ_OFFSET + k * OBJ_SIZE
           s == [i \in 1 .. n |-> At(i - 1)]
           step == [o \in Offset |-> IF o + OBJ_SIZE \in Offset THEN o + OBJ_SIZE ELSE 0]
<1>2. OBJ_OFFSET \in Nat \ {0} /\ OBJ_SIZE \in Nat \ {0}
  BY OffsetRow
<1>3. \A j, k \in Nat : j < k => j * OBJ_SIZE + OBJ_SIZE <= k * OBJ_SIZE
  BY <1>2, MultipleSteps
<1>4. \A k \in Nat : k * OBJ_SIZE \in Nat /\ At(k) \in Nat
  BY <1>2, MultipleSteps
<1>5. ASSUME NEW j \in Nat, NEW k \in Nat, At(j) = At(k) PROVE j = k
  <2>1. j * OBJ_SIZE = k * OBJ_SIZE /\ j * OBJ_SIZE \in Nat
    BY <1>2, <1>4, <1>5
  <2> QED
    BY <1>2, <1>3, <2>1
<1>6. \A k \in Nat : At(k) + OBJ_SIZE = At(k + 1)
  BY <1>2
<1> HIDE DEF At
<1>7. \A o : o \in Offset <=> \E k \in 0 .. n - 1 : o = At(k)
  BY <1>1 DEF Row, At
<1>8. \A k \in Nat : At(k) \in Offset <=> k < n
  BY <1>5, <1>7
<1>9. Numbers(s, n, Offset)
  <2>1. \A i \in 1 .. n : i - 1 \in Nat /\ i - 1 < n /\ s[i] = At(i - 1)
    OBVIOUS
  <2>2. \A i \in 1 .. n : s[i] \in Offset
    BY <1>8, <2>1
  <2>3. s \in [1 .. n -> Offset]
    BY <2>2
  <2>4. ASSUME NEW i \in 1 .. n, NEW j \in 1 .. n, s[i] = s[j] PROVE i = j
    <3>1. i - 1 = j - 1
      BY <1>5, <2>1, <2>4
    <3> QED
      BY <3>1
  <2>5. ASSUME NEW o \in Offset PROVE \E i \in 1 .. n : s[i] = o
    <3>1. PICK k \in 0 .. n - 1 : o = At(k)
      BY <1>7
    <3>2. k + 1 \in 1 .. n /\ s[k + 1] = At(k)
      BY <2>1
    <3> QED
      BY <3>1, <3>2
  <2> HIDE DEF s
  <2> QED
    BY <2>3, <2>4, <2>5 DEF Numbers
<1>10. Chain(s, n, OBJ_OFFSET, step, 0)
  <2>1. s[1] = OBJ_OFFSET /\ n # 0
    BY <1>2 DEF At
  <2>2. ASSUME NEW i \in 1 .. n PROVE step[s[i]] = IF i = n THEN 0 ELSE s[i + 1]
    <3>1. i - 1 \in Nat /\ i \in Nat /\ s[i] = At(i - 1) /\ s[i] \in Offset
      BY <1>8
    <3>2. s[i] + OBJ_SIZE = At(i)
      <4>1. At(i - 1) + OBJ_SIZE = At((i - 1) + 1)
        BY <1>6, <3>1
      <4> QED
        BY <3>1, <4>1
    <3>3. At(i) \in Offset <=> i # n
      BY <1>8, <3>1
    <3>4. i # n => s[i + 1] = At(i)
      OBVIOUS
    <3> HIDE DEF s
    <3> QED
      BY <3>1, <3>2, <3>3, <3>4
  <2> HIDE DEF s, step
  <2> QED
    BY <2>1, <2>2 DEF Chain
<1> QED
  BY <1>1, <1>9, <1>10 DEF List

\* The objects of page p in a set of objects, and the links between objects.
In(L, p) == {o \in Offset : <<p, o>> \in L}
Links(m, p) == [o \in Offset |-> m.obj_next[<<p, o>>]]

\* The memory m of page p fits the set L of objects that are handed out.
PageObjects(m, L, p) ==
  /\ m.alloc_count[p] = Cardinality(In(L, p))
  /\ \A o \in Offset : <<p, o>> \in L => m.magic[<<p, o>>] = "OBJECT" /\ m.obj_next[<<p, o>>] = 0
  /\ \A o \in Offset : <<p, o>> \notin L => m.magic[<<p, o>>] = "EMPTY" /\ m.payload[<<p, o>>] = "UNUSED"
  /\ List(Offset \ In(L, p), m.free_index[p], Links(m, p), 0)

\* Memory r has on the objects of page p what m has.
SameSlots(m, r, p) ==
  /\ r.free_index[p] = m.free_index[p] /\ r.alloc_count[p] = m.alloc_count[p]
  /\ \A o \in Offset : /\ r.magic[<<p, o>>] = m.magic[<<p, o>>]
                      /\ r.obj_next[<<p, o>>] = m.obj_next[<<p, o>>]
                      /\ r.payload[<<p, o>>] = m.payload[<<p, o>>]

\* What is said of the objects of a page does not depend on other pages.
LEMMA PageObjectsFrame ==
  ASSUME NEW m, NEW r, NEW L, NEW M, NEW p, PageObjects(m, L, p), SameSlots(m, r, p),
         \A o \in Offset : <<p, o>> \in M <=> <<p, o>> \in L
  PROVE  PageObjects(r, M, p)
<1>1. In(M, p) = In(L, p)
  BY DEF In
<1>2. Links(r, p) = Links(m, p)
  BY DEF Links, SameSlots
<1> QED
  BY <1>1, <1>2 DEF PageObjects, SameSlots

\* A page is full exactly when its free list is empty.
LEMMA FullPage ==
  ASSUME NEW m, NEW L, NEW p, PageObjects(m, L, p)
  PROVE  m.free_index[p] = 0 <=> In(L, p) = Offset
<1>1. 0 \notin Offset \ In(L, p) /\ In(L, p) \subseteq Offset
  BY OffsetFacts DEF In
<1>2. m.free_index[p] = 0 <=> Offset \ In(L, p) = {}
  BY <1>1, ListEmpty DEF PageObjects
<1> QED
  BY <1>1, <1>2

\* pop_front_object and on_alloc take the first free object of page p.
Takes(m, r, L, p, o, obj) ==
  /\ PageObjects(m, L, p) /\ m.alloc_count[p] \in Int
  /\ o = m.free_index[p] /\ o # 0 /\ obj = <<p, o>>
  /\ r.free_index[p] = m.obj_next[obj] /\ r.alloc_count[p] = m.alloc_count[p] + 1
  /\ r.magic[obj] = "OBJECT" /\ r.obj_next[obj] = 0
  /\ \A q \in Offset \ {o} : /\ r.magic[<<p, q>>] = m.magic[<<p, q>>]
                             /\ r.obj_next[<<p, q>>] = m.obj_next[<<p, q>>]
                             /\ r.payload[<<p, q>>] = m.payload[<<p, q>>]

\* The first free object is handed out, and the page is full if it was the
\* last one.
LEMMA TakeObject ==
  ASSUME NEW m, NEW r, NEW L, NEW p, NEW o, NEW obj, Takes(m, r, L, p, o, obj)
  PROVE  /\ o \in Offset /\ obj \notin L
         /\ m.magic[obj] = "EMPTY" /\ m.payload[obj] = "UNUSED"
         /\ PageObjects(r, L \cup {obj}, p)
         /\ m.obj_next[obj] = 0 <=> In(L \cup {obj}, p) = Offset
<1> USE DEF Takes
<1> DEFINE M == L \cup {obj}
<1>3. /\ o \in Offset \ In(L, p)
      /\ List((Offset \ In(L, p)) \ {o}, Links(m, p)[o], Links(m, p), 0)
  BY ListTail, Zenon DEF PageObjects
<1>4. o \in Offset /\ obj \notin L /\ Links(m, p)[o] = m.obj_next[obj]
  BY <1>3 DEF In, Links
<1>5. /\ In(M, p) = In(L, p) \cup {o} /\ o \notin In(L, p)
      /\ Offset \ In(M, p) = (Offset \ In(L, p)) \ {o}
      /\ In(L, p) \subseteq Offset
  BY <1>4 DEF In
<1>6. Cardinality(In(M, p)) = Cardinality(In(L, p)) + 1
  <2>1. IsFiniteSet(In(L, p))
    BY <1>5, OffsetFacts, FS_Subset
  <2>2. Cardinality(In(L, p) \cup {o}) = Cardinality(In(L, p)) + 1
    BY <1>5, <2>1, FS_AddElement, Zenon
  <2> QED
    BY <1>5, <2>2, Zenon
<1>7. List(Offset \ In(M, p), m.obj_next[obj], Links(m, p), 0)
  BY <1>3, <1>4, <1>5, Zenon
<1>8. List(Offset \ In(M, p), r.free_index[p], Links(r, p), 0)
  <2>1. \A q \in Offset \ In(M, p) : Links(r, p)[q] = Links(m, p)[q]
    BY <1>5 DEF Links
  <2> DEFINE F == Offset \ In(M, p)
             start == m.obj_next[obj]
             step == Links(m, p)
             next == Links(r, p)
  <2>2. r.free_index[p] = start /\ List(F, start, step, 0) /\ \A q \in F : next[q] = step[q]
    BY <1>7, <2>1, Zenon
  <2> HIDE DEF F, start, step, next
  <2>3. List(F, start, next, 0)
    BY <2>2, ListFrame
  <2> QED
    BY <2>2, <2>3 DEF F, next
<1>9. \A q \in Offset : q # o => (<<p, q>> \in M <=> <<p, q>> \in L)
  BY <1>4
<1>10. PageObjects(r, M, p)
  <2>1. r.alloc_count[p] = Cardinality(In(M, p))
    BY <1>6 DEF PageObjects
  <2>2. ASSUME NEW q \in Offset, <<p, q>> \in M
        PROVE  r.magic[<<p, q>>] = "OBJECT" /\ r.obj_next[<<p, q>>] = 0
    BY <1>9, <2>2 DEF PageObjects
  <2>3. ASSUME NEW q \in Offset, <<p, q>> \notin M
        PROVE  r.magic[<<p, q>>] = "EMPTY" /\ r.payload[<<p, q>>] = "UNUSED"
    <3>1. q # o
      BY <2>3
    <3> QED
      BY <1>9, <2>3, <3>1 DEF PageObjects
  <2> HIDE DEF M
  <2> QED
    BY <1>8, <2>1, <2>2, <2>3 DEF PageObjects
<1>11. m.obj_next[obj] = 0 <=> In(M, p) = Offset
  BY <1>10, FullPage
<1> QED
  BY <1>4, <1>10, <1>11 DEF PageObjects

\* Memory r is m with object o of page p, which was handed out, put back.
Given(m, r, L, p, o, obj) ==
  /\ PageObjects(m, L, p) /\ m.alloc_count[p] \in Int
  /\ o \in Offset /\ obj = <<p, o>> /\ obj \in L
  /\ r.free_index[p] = o /\ r.alloc_count[p] = m.alloc_count[p] - 1
  /\ r.magic[obj] = "EMPTY" /\ r.obj_next[obj] = m.free_index[p] /\ r.payload[obj] = "UNUSED"
  /\ \A q \in Offset \ {o} : /\ r.magic[<<p, q>>] = m.magic[<<p, q>>]
                            /\ r.obj_next[<<p, q>>] = m.obj_next[<<p, q>>]
                            /\ r.payload[<<p, q>>] = m.payload[<<p, q>>]

\* on_dealloc and push_front_object: the object is the first free one.
LEMMA GiveObject ==
  ASSUME NEW m, NEW r, NEW L, NEW p, NEW o, NEW obj, Given(m, r, L, p, o, obj)
  PROVE  /\ PageObjects(r, L \ {obj}, p)
         /\ r.alloc_count[p] = 0 <=> In(L \ {obj}, p) = {}
         /\ r.alloc_count[p] \in 0 .. Cardinality(Offset)
<1> USE DEF Given
<1> DEFINE M == L \ {obj}
<1>2. /\ In(M, p) = In(L, p) \ {o} /\ o \in In(L, p)
      /\ Offset \ In(M, p) = (Offset \ In(L, p)) \cup {o}
      /\ In(L, p) \subseteq Offset
  BY DEF In
<1>3. /\ IsFiniteSet(In(L, p)) /\ IsFiniteSet(In(M, p))
      /\ Cardinality(In(M, p)) = Cardinality(In(L, p)) - 1
      /\ Cardinality(In(M, p)) \in Nat /\ Cardinality(In(M, p)) <= Cardinality(Offset)
      /\ (Cardinality(In(M, p)) = 0 <=> In(M, p) = {})
      /\ Cardinality(Offset) \in Nat
  <2>1. IsFiniteSet(In(L, p)) /\ IsFiniteSet(Offset)
    BY <1>2, OffsetFacts, FS_Subset
  <2>2. IsFiniteSet(In(M, p)) /\ Cardinality(In(M, p)) <= Cardinality(Offset)
    BY <1>2, <2>1, FS_Subset, Zenon
  <2>3. Cardinality(In(M, p)) = Cardinality(In(L, p)) - 1
    BY <1>2, <2>1, FS_RemoveElement, Zenon
  <2>4. Cardinality(In(M, p)) = 0 <=> In(M, p) = {}
    BY <2>2, FS_EmptySet, Zenon
  <2> QED
    BY <2>1, <2>2, <2>3, <2>4, FS_CardinalityType, Zenon
<1>4. List(Offset \ In(M, p), o, Links(r, p), 0)
  <2>1. Links(r, p)[o] = m.free_index[p] /\ o \notin Offset \ In(L, p)
    BY <1>2 DEF Links
  <2>2. \A q \in Offset \ In(L, p) : Links(r, p)[q] = Links(m, p)[q]
    BY <1>2 DEF Links
  <2>3. List((Offset \ In(L, p)) \cup {o}, o, Links(r, p), 0)
    BY <2>1, <2>2, ListCons DEF PageObjects
  <2> QED
    BY <1>2, <2>3, Zenon
<1>5. r.alloc_count[p] = Cardinality(In(M, p))
  BY <1>3 DEF PageObjects
<1>6. PageObjects(r, M, p)
  <2>1. ASSUME NEW q \in Offset, <<p, q>> \in M
        PROVE  r.magic[<<p, q>>] = "OBJECT" /\ r.obj_next[<<p, q>>] = 0
    <3>1. q # o /\ <<p, q>> \in L
      BY <2>1
    <3> QED
      BY <3>1 DEF PageObjects
  <2>2. ASSUME NEW q \in Offset, <<p, q>> \notin M
        PROVE  r.magic[<<p, q>>] = "EMPTY" /\ r.payload[<<p, q>>] = "UNUSED"
    <3>1. q = o \/ <<p, q>> \notin L
      BY <2>2
    <3> QED
      BY <3>1 DEF PageObjects
  <2> HIDE DEF M
  <2> QED
    BY <1>4, <1>5, <2>1, <2>2 DEF PageObjects
<1>7. r.alloc_count[p] = 0 <=> In(M, p) = {}
  BY <1>3, <1>5, Zenon
<1>8. r.alloc_count[p] \in 0 .. Cardinality(Offset)
  BY <1>3, <1>5
<1> QED
  BY <1>6, <1>7, <1>8, Zenon

\* Memory stays memory when a link of a free object, the head of a page's free
\* list or its alloc_count is written.
LEMMA FieldSet ==
  ASSUME NEW m \in Memory
  PROVE  /\ \A obj \in Object, n \in Offset \cup {0} : [m EXCEPT !.obj_next[obj] = n] \in Memory
         /\ \A p \in Page, o \in Offset \cup {0} : [m EXCEPT !.free_index[p] = o] \in Memory
         /\ \A p \in Page, c \in Int : [m EXCEPT !.alloc_count[p] = c] \in Memory
<1>1. ASSUME NEW obj \in Object, NEW n \in Offset \cup {0}
      PROVE  [m EXCEPT !.obj_next[obj] = n] \in Memory
  BY Zenon DEF Memory
<1>2. ASSUME NEW p \in Page, NEW o \in Offset \cup {0}
      PROVE  [m EXCEPT !.free_index[p] = o] \in Memory
  BY Zenon DEF Memory
<1>3. ASSUME NEW p \in Page, NEW c \in Int
      PROVE  [m EXCEPT !.alloc_count[p] = c] \in Memory
  BY Zenon DEF Memory
<1> QED
  BY <1>1, <1>2, <1>3

\* SlotPage::init makes a page with all objects free.
LEMMA FreshPage ==
  ASSUME NEW m \in Memory, NEW p \in Page, NEW L, In(L, p) = {}
  PROVE  /\ init(m, p) \in Memory /\ PageObjects(init(m, p), L, p)
         /\ init(m, p).alloc_count[p] = 0
         /\ \A q \in Page \ {p} : SameSlots(m, init(m, p), q) /\ SameLinks(m, init(m, p), q)
<1> DEFINE r == init(m, p)
           step == [o \in Offset |-> IF o + OBJ_SIZE \in Offset THEN o + OBJ_SIZE ELSE 0]
<1>1. \A q \in Page, o \in Offset : <<q, o>> \in Object /\ <<q, o>>[1] = q /\ <<q, o>>[2] = o
  BY DEF Object
<1>2. OBJ_OFFSET \in Offset
  BY OffsetFacts
<1> DEFINE magic == [o \in Object |-> IF o[1] = p THEN "EMPTY" ELSE m.magic[o]]
           payload == [o \in Object |-> IF o[1] = p THEN "UNUSED" ELSE m.payload[o]]
           obj_next == [o \in Object |-> IF o[1] # p THEN m.obj_next[o]
                                        ELSE IF o[2] + OBJ_SIZE \in Offset THEN o[2] + OBJ_SIZE ELSE 0]
<1>3. r = [m EXCEPT !.next[p] = Null, !.prev[p] = Null,
                    !.free_index[p] = OBJ_OFFSET, !.alloc_count[p] = 0,
                    !.magic = magic, !.payload = payload, !.obj_next = obj_next]
  BY DEF init
<1>4. /\ r \in Memory
      /\ r.free_index = [m.free_index EXCEPT ![p] = OBJ_OFFSET]
      /\ r.alloc_count = [m.alloc_count EXCEPT ![p] = 0]
      /\ r.next = [m.next EXCEPT ![p] = Null] /\ r.prev = [m.prev EXCEPT ![p] = Null]
      /\ r.magic = magic /\ r.payload = payload /\ r.obj_next = obj_next
      /\ r.head = m.head /\ r.tail = m.tail
  <2>1. /\ magic \in [Object -> {"EMPTY", "OBJECT"}]
        /\ payload \in [Object -> {"UNUSED", "ZERO", "DATA"}]
    BY DEF Memory
  <2>2. obj_next \in [Object -> Offset \cup {0}]
    BY DEF Memory
  <2> HIDE DEF magic, payload, obj_next, r
  <2>3. r \in Memory
    <3> DEFINE m1 == [m EXCEPT !.next[p] = Null, !.prev[p] = Null]
               m2 == [m1 EXCEPT !.free_index[p] = OBJ_OFFSET]
               m3 == [m2 EXCEPT !.alloc_count[p] = 0]
    <3>1. m1 \in Memory
      BY Zenon DEF Memory
    <3>2. m2 \in Memory
      <4> HIDE DEF m1
      <4> QED
        BY <1>2, <3>1, FieldSet
    <3>3. m3 \in Memory
      <4> HIDE DEF m2
      <4> QED
        BY <3>2, FieldSet
    <3>4. r = [m3 EXCEPT !.magic = magic, !.payload = payload, !.obj_next = obj_next]
      BY <1>3
    <3> HIDE DEF m3
    <3> QED
      BY <2>1, <2>2, <3>3, <3>4, Zenon DEF Memory
  <2> QED
    BY <1>3, <2>3 DEF Memory
<1> HIDE DEF r
<1>5. r.free_index[p] = OBJ_OFFSET /\ r.alloc_count[p] = 0
  BY <1>4 DEF Memory
<1>6. Links(r, p) = step
  BY <1>1, <1>4 DEF Links
<1>7. PageObjects(r, L, p)
  <2>1. \A o \in Offset : <<p, o>> \notin L
    BY DEF In
  <2>2. \A o \in Offset : r.magic[<<p, o>>] = "EMPTY" /\ r.payload[<<p, o>>] = "UNUSED"
    BY <1>1, <1>4
  <2>3. List(Offset \ In(L, p), r.free_index[p], Links(r, p), 0)
    <3>1. List(Offset, OBJ_OFFSET, step, 0)
      BY InitList
    <3>2. Offset \ In(L, p) = Offset
      OBVIOUS
    <3> HIDE DEF step
    <3> QED
      BY <1>5, <1>6, <3>1, <3>2
  <2>4. Cardinality(In(L, p)) = 0
    BY FS_EmptySet
  <2> QED
    BY <1>5, <2>1, <2>2, <2>3, <2>4 DEF PageObjects
<1>8. ASSUME NEW q \in Page \ {p} PROVE SameSlots(m, r, q) /\ SameLinks(m, r, q)
  BY <1>1, <1>4 DEF SameSlots, SameLinks, Memory
<1> QED
  BY <1>4, <1>5, <1>7, <1>8 DEF r

\* The fields that pop_front_object writes.
LEMMA PopFields ==
  ASSUME NEW m \in Memory, NEW p \in Page, NEW o, o = m.free_index[p], o \in Offset
  PROVE  /\ pop_front_object(m, p) \in Memory /\ SameList(m, pop_front_object(m, p))
         /\ pop_front_object(m, p).free_index = [m.free_index EXCEPT ![p] = m.obj_next[<<p, o>>]]
         /\ pop_front_object(m, p).obj_next = [m.obj_next EXCEPT ![<<p, o>>] = 0]
         /\ pop_front_object(m, p).alloc_count = [m.alloc_count EXCEPT ![p] = @ + 1]
         /\ pop_front_object(m, p).magic = m.magic /\ pop_front_object(m, p).payload = m.payload
<1>1. <<p, o>> \in Object
  BY DEF Object
<1>2. m.obj_next[<<p, o>>] \in Offset \cup {0} /\ m.alloc_count[p] + 1 \in Int
  BY <1>1 DEF Memory
<1> QED
  BY <1>1, <1>2, Zenon DEF pop_front_object, Memory, SameList

\* The fields that on_dealloc and push_front_object write.
LEMMA PushFields ==
  ASSUME NEW m \in Memory, NEW obj \in Object, NEW r, r = push_front_object(on_dealloc(m, obj), obj)
  PROVE  /\ r \in Memory /\ SameList(m, r)
         /\ r.free_index = [m.free_index EXCEPT ![obj[1]] = obj[2]]
         /\ r.obj_next = [m.obj_next EXCEPT ![obj] = m.free_index[obj[1]]]
         /\ r.alloc_count = [m.alloc_count EXCEPT ![obj[1]] = @ - 1]
         /\ r.magic = [m.magic EXCEPT ![obj] = "EMPTY"]
         /\ r.payload = [m.payload EXCEPT ![obj] = "UNUSED"]
<1> DEFINE d == on_dealloc(m, obj)
<1>1. obj[1] \in Page /\ obj[2] \in Offset
  BY DEF Object
<1>2. /\ d \in Memory /\ SameList(m, d) /\ d.free_index = m.free_index
      /\ d.obj_next = m.obj_next /\ d.alloc_count = m.alloc_count
      /\ d.magic = [m.magic EXCEPT ![obj] = "EMPTY"]
      /\ d.payload = [m.payload EXCEPT ![obj] = "UNUSED"]
  BY Zenon DEF on_dealloc, Memory, SameList
<1> HIDE DEF d
<1>3. r = [d EXCEPT !.obj_next[obj] = d.free_index[obj[1]],
                    !.free_index[obj[1]] = obj[2],
                    !.alloc_count[obj[1]] = @ - 1]
  BY DEF push_front_object, NextFree, d
<1>4. d.free_index[obj[1]] \in Offset \cup {0} /\ d.alloc_count[obj[1]] - 1 \in Int
  BY <1>1, <1>2 DEF Memory
<1>5. /\ r \in Memory /\ SameList(d, r) /\ r.magic = d.magic /\ r.payload = d.payload
      /\ r.free_index = [d.free_index EXCEPT ![obj[1]] = obj[2]]
      /\ r.obj_next = [d.obj_next EXCEPT ![obj] = d.free_index[obj[1]]]
      /\ r.alloc_count = [d.alloc_count EXCEPT ![obj[1]] = @ - 1]
  <2> DEFINE p == obj[1]
             o == obj[2]
             n == d.free_index[obj[1]]
             c == d.alloc_count[obj[1]] - 1
  <2>1. r = [d EXCEPT !.obj_next[obj] = n, !.free_index[p] = o, !.alloc_count[p] = c]
    BY <1>2, <1>3 DEF Memory
  <2>2. p \in Page /\ o \in Offset /\ n \in Offset \cup {0} /\ c \in Int
    BY <1>1, <1>4
  <2>3. d \in Memory
    BY <1>2
  <2> HIDE DEF p, o, n, c
  <2>4. /\ SameList(d, r) /\ r.magic = d.magic /\ r.payload = d.payload
        /\ r.free_index = [d.free_index EXCEPT ![p] = o]
        /\ r.obj_next = [d.obj_next EXCEPT ![obj] = n]
        /\ r.alloc_count = [d.alloc_count EXCEPT ![p] = c]
    BY <2>1, <2>3 DEF Memory, SameList
  <2>5. r \in Memory
    <3> DEFINE d1 == [d EXCEPT !.obj_next[obj] = n]
               d2 == [d1 EXCEPT !.free_index[p] = o]
    <3>1. d1 \in Memory
      BY <2>2, <2>3, FieldSet
    <3>2. d2 \in Memory
      <4> HIDE DEF d1
      <4> QED
        BY <2>2, <3>1, FieldSet
    <3>3. r = [d2 EXCEPT !.alloc_count[p] = c]
      BY <2>1
    <3> HIDE DEF d2
    <3> QED
      BY <2>2, <3>2, <3>3, FieldSet
  <2> QED
    BY <2>4, <2>5 DEF p, o, n, c
<1> QED
  BY <1>2, <1>5 DEF SameList

\* The fields that on_alloc writes.
LEMMA OnAllocFields ==
  ASSUME NEW m \in Memory, NEW obj \in Object
  PROVE  /\ on_alloc(m, obj) \in Memory /\ SameList(m, on_alloc(m, obj))
         /\ on_alloc(m, obj).free_index = m.free_index /\ on_alloc(m, obj).obj_next = m.obj_next
         /\ on_alloc(m, obj).alloc_count = m.alloc_count
         /\ on_alloc(m, obj).magic = [m.magic EXCEPT ![obj] = "OBJECT"]
         /\ on_alloc(m, obj).payload = [m.payload EXCEPT ![obj] = "ZERO"]
  BY Zenon DEF on_alloc, Memory, SameList

-----------------------------------------------------------------------------
(* SlabAllocator.                                                          *)

Partial(own, L) == {p \in own : In(L, p) # Offset}

\* The memory m fits the pages own and the objects L that are handed out.
Sound(m, own, L) ==
  /\ m \in Memory /\ own \subseteq Page /\ L \subseteq Object
  /\ \A p \in own : PageObjects(m, L, p)
  /\ \A p \in Page \ own : m.alloc_count[p] \in 0 .. Cardinality(Offset)
  /\ \A obj \in L : obj[1] \in own
  /\ PageList(m, Partial(own, L))

\* Memory r has on page q what m has.
SamePage(m, r, q) == SameSlots(m, r, q) /\ SameLinks(m, r, q)

\* The inductive invariant: besides what Sound says, every page in use has an
\* object that is handed out.
IInv ==
  /\ Sound(mem, owned, live)
  /\ \A p \in owned : In(live, p) # {}
  /\ ret \in Object \cup {NoObject}
  /\ failed = FALSE

\* An allocator that has no page.
LEMMA InitInvariant == Init => IInv
<1> SUFFICES ASSUME Init PROVE IInv
  OBVIOUS
<1>1. mem \in Memory
  <2>1. [p \in Page |-> 0] \in [Page -> Int] /\ [p \in Page |-> 0] \in [Page -> Offset \cup {0}]
    OBVIOUS
  <2> QED
    BY <2>1 DEF Init, Memory
<1>2. Cardinality(Offset) \in Nat
  BY OffsetFacts, FS_CardinalityType
<1>3. \A p \in Page : mem.alloc_count[p] \in 0 .. Cardinality(Offset)
  BY <1>2 DEF Init
<1>4. PageList(mem, Partial(owned, live))
  <2> DEFINE t == [i \in 1 .. 0 |-> Null]
  <2>1. Partial(owned, live) = {}
    BY DEF Init, Partial
  <2>2. Numbers(t, 0, {}) /\ Linked(mem, t, 0)
    BY DEF Init, Numbers, Linked
  <2> HIDE DEF t
  <2> QED
    BY <2>1, <2>2 DEF PageList
<1> QED
  BY <1>1, <1>3, <1>4 DEF Init, IInv, Sound

\* The rest of alloc, once the partial_list has a page.
LEMMA AllocFrom ==
  ASSUME NEW m, NEW own, Sound(m, own, live), m.head # Null, alloc_from(m)
  PROVE  /\ Sound(mem', own, live') /\ In(live', m.head) # {} /\ live \subseteq live'
         /\ ret' \in Object /\ failed' = failed
         /\ \A q \in Page \ own : SamePage(m, mem', q)
<1> DEFINE page == m.head
           o == m.free_index[page]
           obj == <<page, o>>
           popped == pop_front_object(m, page)
           full == m.obj_next[obj] = 0
           listed == IF full THEN remove(popped, page) ELSE popped
           r == on_alloc(listed, obj)
           S == Partial(own, live)
           L == live \cup {obj}
<1>1. /\ m \in Memory /\ own \subseteq Page /\ live \subseteq Object
      /\ S \subseteq Page /\ PageList(m, S)
  BY DEF Sound, Partial
<1>2. page \in S
  <2> HIDE DEF S
  <2> QED
    BY <1>1, PageListHead
<1>3. page \in Page /\ page \in own /\ PageObjects(m, live, page) /\ In(live, page) # Offset
  BY <1>1, <1>2 DEF Sound, Partial
<1>4. o # 0 /\ o \in Offset
  <2>1. o # 0
    BY <1>3, FullPage
  <2>2. o \in Offset \cup {0}
    BY <1>1, <1>3 DEF Memory
  <2> QED
    BY <2>1, <2>2
<1>5. obj \in Object
  BY <1>3, <1>4 DEF Object
<1>6. /\ popped \in Memory /\ SameList(m, popped)
      /\ popped.free_index = [m.free_index EXCEPT ![page] = m.obj_next[obj]]
      /\ popped.obj_next = [m.obj_next EXCEPT ![obj] = 0]
      /\ popped.alloc_count = [m.alloc_count EXCEPT ![page] = @ + 1]
      /\ popped.magic = m.magic /\ popped.payload = m.payload
  BY <1>1, <1>3, <1>4, PopFields, Zenon
<1> HIDE DEF popped
<1>7. PageList(popped, S)
  BY <1>1, <1>6, PageListFrame
<1>8. /\ listed \in Memory /\ SameObjects(popped, listed)
      /\ PageList(listed, IF full THEN S \ {page} ELSE S)
      /\ \A q \in Page \ S : SameLinks(m, listed, q)
  <2>1. \A q \in Page \ S : SameLinks(m, popped, q)
    BY <1>6, Zenon DEF SameList, SameLinks
  <2>2. CASE full
    <3>1. /\ PageList(remove(popped, page), S \ {page})
          /\ remove(popped, page) \in Memory /\ SameObjects(popped, remove(popped, page))
          /\ \A q \in Page \ S : SameLinks(popped, remove(popped, page), q)
      <4> HIDE DEF S, page
      <4> QED
        BY <1>1, <1>2, <1>6, <1>7, RemovePage, Zenon
    <3> QED
      BY <2>1, <2>2, <3>1, Zenon DEF SameLinks
  <2>3. CASE ~ full
    BY <1>6, <1>7, <2>1, <2>3, Zenon DEF SameObjects
  <2> QED
    BY <2>2, <2>3, Zenon
<1> HIDE DEF listed
<1>9. /\ r \in Memory /\ SameList(listed, r)
      /\ r.free_index = [m.free_index EXCEPT ![page] = m.obj_next[obj]]
      /\ r.obj_next = [m.obj_next EXCEPT ![obj] = 0]
      /\ r.alloc_count = [m.alloc_count EXCEPT ![page] = @ + 1]
      /\ r.magic = [m.magic EXCEPT ![obj] = "OBJECT"]
      /\ r.payload = [m.payload EXCEPT ![obj] = "ZERO"]
  <2> HIDE DEF page, obj
  <2>1. /\ r \in Memory /\ SameList(listed, r)
        /\ r.free_index = listed.free_index /\ r.obj_next = listed.obj_next
        /\ r.alloc_count = listed.alloc_count
        /\ r.magic = [listed.magic EXCEPT ![obj] = "OBJECT"]
        /\ r.payload = [listed.payload EXCEPT ![obj] = "ZERO"]
    BY <1>5, <1>8, OnAllocFields, Zenon
  <2> HIDE DEF r
  <2> QED
    BY <1>6, <1>8, <2>1 DEF SameObjects
<1> HIDE DEF r
<1>10. /\ r.free_index[page] = m.obj_next[obj] /\ r.alloc_count[page] = m.alloc_count[page] + 1
       /\ r.magic[obj] = "OBJECT" /\ r.obj_next[obj] = 0 /\ m.alloc_count[page] \in Int
  <2>1. /\ m.free_index \in [Page -> Offset \cup {0}] /\ m.alloc_count \in [Page -> Int]
        /\ m.magic \in [Object -> {"EMPTY", "OBJECT"}] /\ m.obj_next \in [Object -> Offset \cup {0}]
    BY <1>1, Zenon DEF Memory
  <2>2. page \in Page /\ obj \in Object
    BY <1>3, <1>5, Zenon
  <2> HIDE DEF page, obj
  <2> QED
    BY <1>9, <2>1, <2>2, Zenon
<1>11. \A q \in Page, b \in Offset : <<q, b>> # obj =>
         /\ <<q, b>> \in Object
         /\ r.magic[<<q, b>>] = m.magic[<<q, b>>]
         /\ r.obj_next[<<q, b>>] = m.obj_next[<<q, b>>]
         /\ r.payload[<<q, b>>] = m.payload[<<q, b>>]
  <2>1. \A q \in Page, b \in Offset : <<q, b>> \in Object
    BY DEF Object
  <2>2. /\ m.magic \in [Object -> {"EMPTY", "OBJECT"}]
        /\ m.obj_next \in [Object -> Offset \cup {0}]
        /\ m.payload \in [Object -> {"UNUSED", "ZERO", "DATA"}]
    BY <1>1, Zenon DEF Memory
  <2>3. /\ r.magic = [m.magic EXCEPT ![obj] = "OBJECT"]
        /\ r.obj_next = [m.obj_next EXCEPT ![obj] = 0]
        /\ r.payload = [m.payload EXCEPT ![obj] = "ZERO"]
    BY <1>9, Zenon
  <2> HIDE DEF obj
  <2> QED
    BY <2>1, <2>2, <2>3, Zenon
<1>12. /\ obj \notin live /\ m.magic[obj] = "EMPTY" /\ m.payload[obj] = "UNUSED"
       /\ PageObjects(r, L, page)
       /\ full <=> In(L, page) = Offset
  <2>1. \A q \in Offset \ {o} : /\ r.magic[<<page, q>>] = m.magic[<<page, q>>]
                               /\ r.obj_next[<<page, q>>] = m.obj_next[<<page, q>>]
                               /\ r.payload[<<page, q>>] = m.payload[<<page, q>>]
    BY <1>3, <1>11
  <2>2. o = m.free_index[page] /\ obj = <<page, o>>
    OBVIOUS
  <2> HIDE DEF page, o, obj
  <2>3. Takes(m, r, live, page, o, obj)
    BY <1>3, <1>4, <1>10, <2>1, <2>2, Zenon DEF Takes
  <2>4. /\ obj \notin live /\ m.magic[obj] = "EMPTY" /\ m.payload[obj] = "UNUSED"
        /\ PageObjects(r, live \cup {obj}, page)
        /\ m.obj_next[obj] = 0 <=> In(live \cup {obj}, page) = Offset
    BY <2>3, TakeObject
  <2> QED
    BY <2>4
<1>13. mem' = r /\ ret' = obj /\ live' = L /\ failed' = failed
  <2>1. MayAlloc(listed, obj)
    BY <1>1, <1>5, <1>6, <1>8, <1>12, SMTT(30) DEF MayAlloc, SameObjects, Memory
  <2>2. IF o # 0 /\ MayAlloc(listed, obj)
        THEN mem' = r /\ ret' = obj /\ live' = L /\ UNCHANGED failed
        ELSE Panic
    BY Zenon DEF alloc_from, r, listed, popped
  <2> QED
    BY <1>4, <2>1, <2>2, Zenon
<1>14. ASSUME NEW q \in Page, q # page PROVE SameSlots(m, r, q) /\ In(L, q) = In(live, q)
  <2>1. \A b \in Offset : <<q, b>> # obj
    BY <1>14
  <2>2. r.free_index[q] = m.free_index[q] /\ r.alloc_count[q] = m.alloc_count[q]
    <3>1. m.free_index \in [Page -> Offset \cup {0}] /\ m.alloc_count \in [Page -> Int]
      BY <1>1, Zenon DEF Memory
    <3>2. q # page /\ q \in Page
      BY <1>14, Zenon
    <3> HIDE DEF page
    <3> QED
      BY <1>9, <3>1, <3>2, Zenon
  <2>3. SameSlots(m, r, q)
    BY <1>11, <2>1, <2>2 DEF SameSlots
  <2>4. In(L, q) = In(live, q)
    BY <2>1 DEF In
  <2> QED
    BY <2>3, <2>4, Zenon
<1>15. ASSUME NEW q \in Page \ own PROVE SamePage(m, r, q)
  <2>1. q # page /\ q \notin S
    BY <1>3 DEF Partial
  <2>2. SameLinks(m, r, q)
    BY <1>8, <1>9, <2>1, Zenon DEF SameLinks, SameList
  <2> QED
    BY <1>14, <2>1, <2>2 DEF SamePage
<1>16. Sound(r, own, L)
  <2>1. L \subseteq Object /\ \A x \in L : x[1] \in own
    BY <1>1, <1>3, <1>5 DEF Sound
  <2>2. ASSUME NEW q \in own PROVE PageObjects(r, L, q)
    <3>1. CASE q = page
      BY <1>12, <3>1
    <3>2. CASE q # page
      <4>1. \A b \in Offset : <<q, b>> \in L <=> <<q, b>> \in live
        BY <3>2
      <4>2. SameSlots(m, r, q) /\ PageObjects(m, live, q)
        BY <1>1, <1>14, <3>2 DEF Sound
      <4> HIDE DEF L
      <4> QED
        BY <4>1, <4>2, PageObjectsFrame
    <3> QED
      BY <3>1, <3>2
  <2>3. \A q \in Page \ own : r.alloc_count[q] \in 0 .. Cardinality(Offset)
    BY <1>15 DEF Sound, SamePage, SameSlots
  <2>4. Partial(own, L) = IF full THEN S \ {page} ELSE S
    <3>1. \A q \in own : q # page => In(L, q) = In(live, q)
      BY <1>1, <1>14
    <3> HIDE DEF full, L
    <3> QED
      BY <1>3, <1>12, <3>1 DEF Partial
  <2>5. PageList(r, Partial(own, L))
    BY <1>8, <1>9, <2>4, PageListFrame, Zenon
  <2> QED
    BY <1>1, <1>9, <2>1, <2>2, <2>3, <2>5, Zenon DEF Sound
<1>17. In(L, page) # {}
  BY <1>4, Zenon DEF In
<1> QED
  BY <1>5, <1>13, <1>15, <1>16, <1>17

\* alloc, from a partial page, from a new one or without one.
LEMMA AllocStep ==
  ASSUME IInv, Alloc
  PROVE  IInv' /\ \A q \in Page : q \notin owned /\ q \notin owned' => SamePage(mem, mem', q)
<1>1. CASE mem.head # Null /\ alloc_from(mem) /\ UNCHANGED owned
  <2>1. /\ Sound(mem', owned, live') /\ In(live', mem.head) # {} /\ live \subseteq live'
        /\ ret' \in Object /\ failed' = failed
        /\ \A q \in Page \ owned : SamePage(mem, mem', q)
    BY <1>1, AllocFrom DEF IInv
  <2>2. \A p \in owned : In(live', p) # {}
    BY <2>1 DEF IInv, In
  <2>3. IInv'
    BY <1>1, <2>1, <2>2 DEF IInv
  <2> QED
    BY <1>1, <2>1, <2>3
<1>2. ASSUME mem.head = Null, NEW p \in Page \ owned, owned' = owned \cup {p},
             alloc_from(assign_singleton(init(mem, p), p))
      PROVE  IInv' /\ \A q \in Page : q \notin owned /\ q \notin owned' => SamePage(mem, mem', q)
  <2> DEFINE i == init(mem, p)
             m == assign_singleton(i, p)
             own == owned \cup {p}
  <2>1. /\ mem \in Memory /\ owned \subseteq Page /\ live \subseteq Object
        /\ \A q \in owned : PageObjects(mem, live, q)
        /\ \A q \in Page \ owned : mem.alloc_count[q] \in 0 .. Cardinality(Offset)
        /\ \A obj \in live : obj[1] \in owned
        /\ PageList(mem, Partial(owned, live))
    BY DEF IInv, Sound
  <2>2. Partial(owned, live) = {}
    <3>1. Partial(owned, live) \subseteq Page /\ Null \notin Page
      BY <2>1, SizeAssumption DEF Partial
    <3> QED
      BY <1>2, <2>1, <3>1, PageListHead, Zenon
  <2>3. In(live, p) = {}
    <3>1. \A o \in Offset : <<p, o>>[1] = p
      OBVIOUS
    <3> QED
      BY <1>2, <2>1, <3>1 DEF In
  <2>4. /\ i \in Memory /\ PageObjects(i, live, p)
        /\ \A q \in Page \ {p} : SameSlots(mem, i, q) /\ SameLinks(mem, i, q)
    BY <1>2, <2>1, <2>3, FreshPage, Zenon
  <2> HIDE DEF i
  <2>5. /\ PageList(m, {p}) /\ m \in Memory /\ SameObjects(i, m) /\ m.head = p
        /\ \A q \in Page \ {p} : SameLinks(i, m, q)
    <3>1. i \in Memory /\ p \in Page
      BY <1>2, <2>4
    <3> QED
      BY <3>1, SingletonPage, Zenon
  <2>6. alloc_from(m)
    BY <1>2, Zenon DEF i
  <2> HIDE DEF m
  <2>7. SameSlots(i, m, p) /\ \A q \in Page \ {p} : SamePage(mem, m, q)
    BY <2>4, <2>5 DEF SamePage, SameSlots, SameLinks, SameObjects
  <2>8. Sound(m, own, live)
    <3>1. ASSUME NEW q \in own PROVE PageObjects(m, live, q)
      <4>1. CASE q = p
        BY <2>4, <2>7, <4>1, PageObjectsFrame
      <4>2. CASE q # p
        <5>1. SameSlots(mem, m, q) /\ PageObjects(mem, live, q)
          BY <2>1, <2>7, <4>2, Zenon DEF SamePage
        <5> QED
          BY <5>1, PageObjectsFrame, Zenon
      <4> QED
        BY <4>1, <4>2
    <3>2. \A q \in Page \ own : m.alloc_count[q] \in 0 .. Cardinality(Offset)
      BY <2>1, <2>7 DEF SamePage, SameSlots
    <3>3. Partial(own, live) = {p}
      <4>1. In(live, p) # Offset
        BY <2>3, OffsetFacts
      <4> QED
        BY <2>2, <4>1 DEF Partial
    <3> QED
      BY <1>2, <2>1, <2>5, <3>1, <3>2, <3>3, Zenon DEF Sound
  <2>9. m.head # Null
    BY <2>5, SizeAssumption
  <2> HIDE DEF own
  <2>10. /\ Sound(mem', own, live') /\ In(live', m.head) # {} /\ live \subseteq live'
         /\ ret' \in Object /\ failed' = failed
         /\ \A q \in Page \ own : SamePage(m, mem', q)
    BY <2>6, <2>8, <2>9, AllocFrom, Zenon
  <2>11. \A q \in own : In(live', q) # {}
    <3>1. \A q \in owned : In(live', q) # {}
      BY <2>10 DEF IInv, In
    <3> QED
      BY <2>5, <2>10, <3>1 DEF own
  <2>12. owned' = own
    BY <1>2 DEF own
  <2>13. IInv'
    BY <2>10, <2>11, <2>12 DEF IInv
  <2>14. ASSUME NEW q \in Page, q \notin owned, q \notin owned' PROVE SamePage(mem, mem', q)
    <3>1. q \in Page \ {p} /\ q \in Page \ own
      BY <2>12, <2>14 DEF own
    <3>2. SamePage(mem, m, q) /\ SamePage(m, mem', q)
      BY <2>7, <2>10, <3>1
    <3> QED
      BY <3>2 DEF SamePage, SameSlots, SameLinks
  <2> QED
    BY <2>13, <2>14
<1>3. CASE mem.head = Null /\ ret' = NoObject /\ UNCHANGED <<mem, owned, live, failed>>
  BY <1>3 DEF IInv, SamePage, SameSlots, SameLinks
<1> QED
  BY <1>1, <1>2, <1>3 DEF Alloc

\* dealloc of an object that is handed out.
LEMMA DeallocStep ==
  ASSUME IInv, NEW obj \in live, Dealloc(obj)
  PROVE  IInv' /\ \A q \in Page : q \notin owned /\ q \notin owned' => SamePage(mem, mem', q)
<1> DEFINE page == obj[1]
           o == obj[2]
           was_full == mem.free_index[page] = 0
           pushed == push_front_object(on_dealloc(mem, obj), obj)
           unused == pushed.alloc_count[page] = 0
           r == IF unused THEN (IF was_full THEN pushed ELSE remove(pushed, page))
                ELSE IF was_full THEN push_back(pushed, page) ELSE pushed
           own == IF unused THEN owned \ {page} ELSE owned
           S == Partial(owned, live)
           L == live \ {obj}
<1>1. /\ mem \in Memory /\ owned \subseteq Page /\ live \subseteq Object
      /\ \A q \in owned : PageObjects(mem, live, q)
      /\ \A x \in live : x[1] \in owned
      /\ PageList(mem, S) /\ S \subseteq owned
  BY DEF IInv, Sound, Partial
<1>2. obj \in Object /\ page \in Page /\ o \in Offset /\ obj = <<page, o>> /\ page \in owned
  BY <1>1 DEF Object
<1> HIDE DEF page, o
<1>3. PageObjects(mem, live, page) /\ (was_full <=> In(live, page) = Offset)
  BY <1>1, <1>2, FullPage
<1>4. MayDealloc(mem, obj)
  BY <1>2, <1>3, Zenon DEF MayDealloc, PageObjects
<1>5. mem' = r /\ owned' = own /\ live' = L /\ UNCHANGED <<ret, failed>>
  BY <1>4 DEF Dealloc, page
<1>6. /\ pushed \in Memory /\ SameList(mem, pushed)
      /\ pushed.free_index = [mem.free_index EXCEPT ![page] = o]
      /\ pushed.obj_next = [mem.obj_next EXCEPT ![obj] = mem.free_index[page]]
      /\ pushed.alloc_count = [mem.alloc_count EXCEPT ![page] = @ - 1]
      /\ pushed.magic = [mem.magic EXCEPT ![obj] = "EMPTY"]
      /\ pushed.payload = [mem.payload EXCEPT ![obj] = "UNUSED"]
  BY <1>1, <1>2, PushFields DEF page, o
<1> HIDE DEF pushed
<1>7. \A q \in Page, b \in Offset : <<q, b>> # obj =>
         /\ pushed.magic[<<q, b>>] = mem.magic[<<q, b>>]
         /\ pushed.obj_next[<<q, b>>] = mem.obj_next[<<q, b>>]
         /\ pushed.payload[<<q, b>>] = mem.payload[<<q, b>>]
  <2>1. \A q \in Page, b \in Offset : <<q, b>> \in Object
    BY DEF Object
  <2> QED
    BY <1>1, <1>6, <2>1 DEF Memory
<1>8. /\ pushed.free_index[page] = o /\ pushed.alloc_count[page] = mem.alloc_count[page] - 1
      /\ pushed.magic[obj] = "EMPTY" /\ pushed.obj_next[obj] = mem.free_index[page]
      /\ pushed.payload[obj] = "UNUSED" /\ mem.alloc_count[page] \in Int
  BY <1>1, <1>2, <1>6 DEF Memory
<1>9. /\ PageObjects(pushed, L, page) /\ (unused <=> In(L, page) = {})
      /\ pushed.alloc_count[page] \in 0 .. Cardinality(Offset)
  <2>1. \A q \in Offset \ {o} : /\ pushed.magic[<<page, q>>] = mem.magic[<<page, q>>]
                               /\ pushed.obj_next[<<page, q>>] = mem.obj_next[<<page, q>>]
                               /\ pushed.payload[<<page, q>>] = mem.payload[<<page, q>>]
    BY <1>2, <1>7
  <2>2. Given(mem, pushed, live, page, o, obj)
    BY <1>2, <1>3, <1>8, <2>1 DEF Given
  <2>3. /\ PageObjects(pushed, live \ {obj}, page)
        /\ pushed.alloc_count[page] = 0 <=> In(live \ {obj}, page) = {}
        /\ pushed.alloc_count[page] \in 0 .. Cardinality(Offset)
    BY <2>2, GiveObject, Zenon
  <2> QED
    BY <2>3
<1>10. ASSUME NEW q \in Page, q # page PROVE SameSlots(mem, pushed, q) /\ In(L, q) = In(live, q)
  <2>1. \A b \in Offset : <<q, b>> # obj
    BY <1>2, <1>10
  <2>2. pushed.free_index[q] = mem.free_index[q] /\ pushed.alloc_count[q] = mem.alloc_count[q]
    <3>1. mem.free_index \in [Page -> Offset \cup {0}] /\ mem.alloc_count \in [Page -> Int]
      BY <1>1, Zenon DEF Memory
    <3>2. q # page /\ q \in Page
      BY <1>10, Zenon
    <3> HIDE DEF page
    <3> QED
      BY <1>6, <3>1, <3>2, Zenon
  <2>3. SameSlots(mem, pushed, q)
    BY <1>7, <2>1, <2>2 DEF SameSlots
  <2>4. In(L, q) = In(live, q)
    BY <2>1 DEF In
  <2> QED
    BY <2>3, <2>4
<1>11. In(L, page) # Offset
  BY <1>2 DEF In
<1>12. page \in S <=> ~ was_full
  BY <1>2, <1>3 DEF Partial
<1>13. Partial(own, L) = IF unused THEN S \ {page} ELSE S \cup {page}
  <2>1. \A q \in owned : q # page => In(L, q) = In(live, q)
    BY <1>1, <1>10
  <2> HIDE DEF unused, L
  <2> QED
    BY <1>2, <1>11, <2>1 DEF Partial
<1> HIDE DEF S, L
<1>14. PageList(pushed, S) /\ \A q \in Page : SameLinks(mem, pushed, q)
  BY <1>1, <1>6, PageListFrame DEF SameList, SameLinks
<1>15. /\ r \in Memory /\ SameObjects(pushed, r) /\ PageList(r, Partial(own, L))
       /\ \A q \in Page \ owned : SameLinks(pushed, r, q)
  <2>1. CASE unused /\ was_full
    <3>1. S \ {page} = S /\ r = pushed
      BY <1>12, <2>1, Zenon
    <3>2. Partial(own, L) = S
      BY <1>13, <2>1, <3>1
    <3> QED
      BY <1>6, <1>14, <3>1, <3>2, Zenon DEF SameObjects, SameLinks
  <2>2. CASE unused /\ ~ was_full
    <3>1. /\ PageList(remove(pushed, page), S \ {page})
          /\ remove(pushed, page) \in Memory /\ SameObjects(pushed, remove(pushed, page))
          /\ \A q \in Page \ S : SameLinks(pushed, remove(pushed, page), q)
      BY <1>1, <1>6, <1>12, <1>14, <2>2, RemovePage, Zenon
    <3> QED
      BY <1>1, <1>13, <2>2, <3>1, Zenon
  <2>3. CASE ~ unused /\ was_full
    <3>1. /\ PageList(push_back(pushed, page), S \cup {page})
          /\ push_back(pushed, page) \in Memory /\ SameObjects(pushed, push_back(pushed, page))
          /\ \A q \in Page \ (S \cup {page}) : SameLinks(pushed, push_back(pushed, page), q)
      BY <1>1, <1>2, <1>6, <1>12, <1>14, <2>3, PushBackPage, Zenon
    <3> QED
      BY <1>1, <1>2, <1>13, <2>3, <3>1, Zenon
  <2>4. CASE ~ unused /\ ~ was_full
    <3>1. S \cup {page} = S
      BY <1>12, <2>4
    <3> QED
      BY <1>6, <1>13, <1>14, <2>4, <3>1, Zenon DEF SameObjects, SameLinks
  <2> QED
    BY <2>1, <2>2, <2>3, <2>4, Zenon
<1> HIDE DEF r
<1>16. SameSlots(pushed, r, page) /\ \A q \in Page : q # page => SameSlots(mem, r, q)
  <2>1. \A q \in Page : SameSlots(pushed, r, q)
    BY <1>15 DEF SameSlots, SameObjects
  <2>2. ASSUME NEW q \in Page, q # page PROVE SameSlots(mem, r, q)
    <3>1. SameSlots(mem, pushed, q) /\ SameSlots(pushed, r, q)
      BY <1>10, <2>1, <2>2
    <3> QED
      BY <3>1 DEF SameSlots
  <2>3. page \in Page
    BY <1>2
  <2> QED
    BY <2>1, <2>2, <2>3
<1>17. ASSUME NEW q \in own PROVE PageObjects(r, L, q) /\ In(L, q) # {}
  <2>1. CASE q = page
    BY <1>9, <1>16, <1>17, <2>1, PageObjectsFrame
  <2>2. CASE q # page
    <3>1. q \in owned /\ q \in Page
      BY <1>1, <1>17
    <3>2. SameSlots(mem, r, q) /\ PageObjects(mem, live, q) /\ In(L, q) = In(live, q)
      BY <1>1, <1>10, <1>16, <2>2, <3>1, SMTT(30)
    <3>3. \A b \in Offset : <<q, b>> \in L <=> <<q, b>> \in live
      BY <3>2 DEF In
    <3> QED
      BY <3>1, <3>2, <3>3, PageObjectsFrame, Zenon DEF IInv
  <2> QED
    BY <2>1, <2>2, Zenon
<1>18. \A q \in Page \ own : r.alloc_count[q] \in 0 .. Cardinality(Offset)
  <2>1. r.alloc_count[page] \in 0 .. Cardinality(Offset)
    BY <1>9, <1>16, Zenon DEF SameSlots
  <2>2. ASSUME NEW q \in Page, q \notin owned PROVE r.alloc_count[q] \in 0 .. Cardinality(Offset)
    <3>1. q # page
      BY <1>2, <2>2
    <3> QED
      BY <1>16, <2>2, <3>1, Zenon DEF SameSlots, IInv, Sound
  <2> QED
    BY <2>1, <2>2
<1>19. L \subseteq Object /\ \A x \in L : x[1] \in own
  <2>1. ASSUME NEW x \in L PROVE x \in Object /\ x[1] \in owned
    BY <1>1 DEF L
  <2>2. ASSUME NEW x \in L, unused PROVE x[1] # page
    <3>1. x \in Object /\ x[2] \in Offset /\ x = <<x[1], x[2]>>
      BY <2>1, <2>2 DEF Object
    <3>2. x[1] = page => x[2] \in In(L, page)
      BY <2>2, <3>1 DEF In
    <3> QED
      BY <1>9, <2>2, <3>2
  <2> QED
    BY <2>1, <2>2
<1>20. own \subseteq Page
  BY <1>1
<1>21. Sound(r, own, L)
  BY <1>15, <1>17, <1>18, <1>19, <1>20, Zenon DEF Sound
<1>22. IInv'
  BY <1>5, <1>17, <1>21, Zenon DEF IInv
<1>23. ASSUME NEW q \in Page, q \notin owned PROVE SamePage(mem, r, q)
  <2>1. q # page
    BY <1>2, <1>23
  <2> QED
    BY <1>14, <1>15, <1>16, <1>23, <2>1 DEF SamePage, SameLinks
<1> QED
  BY <1>5, <1>22, <1>23

\* A client's write to an object that it holds changes no list.
LEMMA UseStep ==
  ASSUME IInv, NEW obj \in live, Use(obj)
  PROVE  IInv' /\ \A q \in Page : q \notin owned /\ q \notin owned' => SamePage(mem, mem', q)
<1> DEFINE page == obj[1]
           o == obj[2]
           r == [mem EXCEPT !.payload[obj] = "DATA"]
<1>1. /\ mem \in Memory /\ live \subseteq Object /\ owned \subseteq Page
      /\ \A q \in owned : PageObjects(mem, live, q)
      /\ \A x \in live : x[1] \in owned
      /\ PageList(mem, Partial(owned, live))
  BY DEF IInv, Sound
<1>2. obj \in Object /\ page \in owned /\ obj = <<page, o>>
  BY <1>1 DEF Object
<1>3. mem' = r /\ UNCHANGED <<owned, live, ret, failed>>
  BY DEF Use
<1>4. /\ r \in Memory /\ SameList(mem, r)
      /\ r.free_index = mem.free_index /\ r.obj_next = mem.obj_next
      /\ r.alloc_count = mem.alloc_count /\ r.magic = mem.magic
      /\ r.payload = [mem.payload EXCEPT ![obj] = "DATA"]
  BY <1>1, <1>2 DEF Memory, SameList
<1> HIDE DEF r, page, o
<1>5. \A q \in Page, b \in Offset : <<q, b>> # obj => r.payload[<<q, b>>] = mem.payload[<<q, b>>]
  <2>1. \A q \in Page, b \in Offset : <<q, b>> \in Object
    BY DEF Object
  <2> QED
    BY <1>1, <1>4, <2>1 DEF Memory
<1>6. ASSUME NEW q \in owned PROVE PageObjects(r, live, q)
  <2>1. q \in Page /\ PageObjects(mem, live, q)
    BY <1>1
  <2>2. ASSUME NEW b \in Offset, <<q, b>> \notin live
        PROVE  r.magic[<<q, b>>] = "EMPTY" /\ r.payload[<<q, b>>] = "UNUSED"
    <3>1. <<q, b>> # obj /\ mem.magic[<<q, b>>] = "EMPTY" /\ mem.payload[<<q, b>>] = "UNUSED"
      BY <2>1, <2>2 DEF PageObjects
    <3> QED
      BY <1>4, <1>5, <2>1, <3>1
  <2>3. Links(r, q) = Links(mem, q)
    BY <1>4 DEF Links
  <2> QED
    BY <1>4, <2>1, <2>2, <2>3, Zenon DEF PageObjects
<1>7. PageList(r, Partial(owned, live))
  BY <1>1, <1>4, PageListFrame
<1>8. Sound(r, owned, live)
  BY <1>4, <1>6, <1>7, Zenon DEF Sound, IInv
<1>9. IInv'
  BY <1>3, <1>8 DEF IInv
<1>10. ASSUME NEW q \in Page, q \notin owned PROVE SamePage(mem, r, q)
  <2>1. \A b \in Offset : <<q, b>> # obj
    BY <1>2, <1>10
  <2> QED
    BY <1>4, <1>5, <2>1 DEF SamePage, SameSlots, SameLinks, SameList
<1> QED
  BY <1>3, <1>9, <1>10

\* Every call keeps the pages and their lists in order, and writes to no page
\* that is with the page allocator before and after.
LEMMA Step ==
  ASSUME IInv, [Next]_vars
  PROVE  IInv' /\ \A q \in Page : q \notin owned /\ q \notin owned' => SamePage(mem, mem', q)
<1>1. CASE Alloc
  BY <1>1, AllocStep
<1>2. ASSUME NEW obj \in live, Dealloc(obj)
      PROVE  IInv' /\ \A q \in Page : q \notin owned /\ q \notin owned' => SamePage(mem, mem', q)
  BY <1>2, DeallocStep
<1>3. ASSUME NEW obj \in live, Use(obj)
      PROVE  IInv' /\ \A q \in Page : q \notin owned /\ q \notin owned' => SamePage(mem, mem', q)
  BY <1>3, UseStep
<1>4. CASE UNCHANGED vars
  BY <1>4 DEF vars, IInv, SamePage, SameSlots, SameLinks
<1> QED
  BY <1>1, <1>2, <1>3, <1>4 DEF Next

\* The invariant of SlabAllocator: the lists, the counts and the marks of the
\* objects agree with what the clients hold.
THEOREM Invariance == Spec => []IInv
<1>1. IInv /\ [Next]_vars => IInv'
  BY Step
<1> QED
  BY <1>1, InitInvariant, PTL DEF Spec

\* No assert of alloc or dealloc fails, for every type that passes SIZE_ASSERT,
\* every supply of pages and every order in which clients return objects.
THEOREM NoAssertFails == Spec => []NotPoisoned
<1>1. IInv => NotPoisoned
  BY DEF IInv, NotPoisoned
<1> QED
  BY <1>1, Invariance, PTL

-----------------------------------------------------------------------------

\* The invariant gives alloc_count its range, also on the pages given back.
LEMMA TypeCorrect == IInv => TypeOK
<1> SUFFICES ASSUME IInv PROVE TypeOK
  OBVIOUS
<1>1. /\ mem \in Memory /\ owned \subseteq Page /\ live \subseteq Object
      /\ \A p \in owned : PageObjects(mem, live, p)
      /\ \A p \in Page \ owned : mem.alloc_count[p] \in 0 .. Cardinality(Offset)
  BY DEF IInv, Sound
<1>2. ASSUME NEW p \in Page PROVE mem.alloc_count[p] \in 0 .. Cardinality(Offset)
  <2>1. CASE p \in owned
    <3>1. In(live, p) \subseteq Offset /\ mem.alloc_count[p] = Cardinality(In(live, p))
      BY <1>1, <2>1, Zenon DEF In, PageObjects
    <3>2. IsFiniteSet(In(live, p)) /\ Cardinality(In(live, p)) <= Cardinality(Offset)
      BY <3>1, OffsetFacts, FS_Subset
    <3> QED
      BY <3>1, <3>2, OffsetFacts, FS_CardinalityType
  <2> QED
    BY <1>1, <2>1
<1>3. mem.alloc_count \in [Page -> 0 .. Cardinality(Offset)]
  BY <1>1, <1>2, Zenon DEF Memory
<1> QED
  <2>1. mem \in [head : Page \cup {Null}, tail : Page \cup {Null},
                next : [Page -> Page \cup {Null}], prev : [Page -> Page \cup {Null}],
                free_index : [Page -> Offset \cup {0}],
                alloc_count : [Page -> 0 .. Cardinality(Offset)],
                magic : [Object -> {"EMPTY", "OBJECT"}],
                obj_next : [Object -> Offset \cup {0}],
                payload : [Object -> {"UNUSED", "ZERO", "DATA"}]]
    BY <1>1, <1>3 DEF Memory
  <2>2. ret \in Object \cup {NoObject} /\ failed \in BOOLEAN
    BY Zenon DEF IInv
  <2> QED
    BY <1>1, <2>1, <2>2 DEF TypeOK

\* FreeListExact for every type and every number of pages.
THEOREM FreeLists == Spec => []FreeListExact
<1>1. ASSUME IInv, NEW p \in owned
      PROVE  LET free == Offset \ LiveOf(p)
                 list == FreeList(p)
                 n == Cardinality(free)
             IN  /\ {list[i] : i \in 0 .. n - 1} = free
                 /\ list[n] = 0
                 /\ mem.alloc_count[p] = Cardinality(LiveOf(p))
  <2> DEFINE free == Offset \ LiveOf(p)
             list == FreeList(p)
             k == Cardinality(free)
             N == Cardinality(Offset)
  <2>1. LiveOf(p) = In(live, p)
    BY DEF LiveOf, In
  <2>2. PageObjects(mem, live, p)
    BY <1>1 DEF IInv, Sound
  <2>3. List(free, mem.free_index[p], Links(mem, p), 0)
    BY <2>1, <2>2 DEF PageObjects
  <2>4. PICK n \in Nat : \E s : Numbers(s, n, free) /\ Chain(s, n, mem.free_index[p], Links(mem, p), 0)
    BY <2>3 DEF List
  <2>5. PICK s : Numbers(s, n, free) /\ Chain(s, n, mem.free_index[p], Links(mem, p), 0)
    BY <2>4
  <2>6. k = n
    BY <2>5, NumbersCount
  <2>7. N \in Nat /\ n <= N /\ 0 \notin free
    <3>1. free \subseteq Offset
      OBVIOUS
    <3> QED
      BY <2>6, <3>1, OffsetFacts, FS_Subset, FS_CardinalityType
  <2>8. list = Follow(mem.free_index[p], Links(mem, p), 0, N)
    BY DEF FreeList, Links
  <2> HIDE DEF free, list, k, N
  <2>9. \A i \in 0 .. N : list[i] = IF i < n THEN s[i + 1] ELSE 0
    <3> DEFINE start == mem.free_index[p]
               step == Links(mem, p)
               end == 0
    <3>1. /\ Numbers(s, n, free) /\ Chain(s, n, start, step, end) /\ end \notin free
          /\ n \in Nat /\ N \in Nat
      BY <2>4, <2>5, <2>7
    <3>2. list = Follow(start, step, end, N)
      BY <2>8
    <3> HIDE DEF start, step, end
    <3>3. Found(s, n, start, step, end, N)
      BY ONLY <3>1, FollowChain
    <3> QED
      BY <3>2, <3>3 DEF end, Found
  <2>10. list[n] = 0 /\ \A i \in 0 .. n - 1 : list[i] = s[i + 1]
    BY <2>7, <2>9
  <2>11. {list[i] : i \in 0 .. n - 1} = free
    <3>1. \A i \in 0 .. n - 1 : list[i] \in free
      BY <2>5, <2>10 DEF Numbers
    <3>2. ASSUME NEW x \in free PROVE \E i \in 0 .. n - 1 : list[i] = x
      <4>1. PICK i \in 1 .. n : s[i] = x
        BY <2>5, <3>2 DEF Numbers
      <4>2. i - 1 \in 0 .. n - 1 /\ list[i - 1] = x
        BY <2>10, <4>1
      <4> QED
        BY <4>2
    <3> QED
      BY <3>1, <3>2
  <2> QED
    BY <2>1, <2>2, <2>6, <2>10, <2>11 DEF PageObjects, free, list, k
<1>2. IInv => FreeListExact
  BY <1>1, TypeCorrect DEF FreeListExact
<1> QED
  BY <1>2, Invariance, PTL

\* A numbering read from its end.
LEMMA ReverseNumbers ==
  ASSUME NEW S, NEW n \in Nat, NEW t, Numbers(t, n, S)
  PROVE  Numbers([i \in 1 .. n |-> t[n + 1 - i]], n, S)
<1> DEFINE u == [i \in 1 .. n |-> t[n + 1 - i]]
<1>1. \A i \in 1 .. n : n + 1 - i \in 1 .. n
  OBVIOUS
<1>2. u \in [1 .. n -> S]
  BY <1>1 DEF Numbers
<1>3. ASSUME NEW i \in 1 .. n, NEW j \in 1 .. n, u[i] = u[j] PROVE i = j
  <2>1. n + 1 - i = n + 1 - j
    BY <1>1, <1>3 DEF Numbers
  <2> QED
    BY <2>1
<1>4. ASSUME NEW x \in S PROVE \E i \in 1 .. n : u[i] = x
  <2>1. PICK i \in 1 .. n : t[i] = x
    BY DEF Numbers
  <2>2. n + 1 - i \in 1 .. n /\ u[n + 1 - i] = x
    BY <2>1
  <2> QED
    BY <2>2
<1> QED
  BY <1>2, <1>3, <1>4 DEF Numbers

\* PartialListExact for every type and every number of pages.
THEOREM PartialLists == Spec => []PartialListExact
<1>1. ASSUME IInv PROVE PartialListExact
  <2> DEFINE partial == {p \in owned : LiveOf(p) # Offset}
             k == Cardinality(partial)
             N == Cardinality(Page)
             forth == ListFrom(mem.head, mem.next)
             back == ListFrom(mem.tail, mem.prev)
  <2>1. /\ owned \subseteq Page /\ live \subseteq Object
        /\ \A obj \in live : obj[1] \in owned
        /\ PageList(mem, Partial(owned, live))
        /\ \A p \in owned : In(live, p) # {}
    BY <1>1, Zenon DEF IInv, Sound
  <2>2. partial = Partial(owned, live) /\ partial \subseteq Page
    BY <2>1 DEF LiveOf, In, Partial
  <2>3. PICK n \in Nat : \E t : Numbers(t, n, partial) /\ Linked(mem, t, n)
    BY <2>1, <2>2, Zenon DEF PageList
  <2>4. PICK t : Numbers(t, n, partial) /\ Linked(mem, t, n)
    BY <2>3
  <2>5. k = n /\ N \in Nat /\ n <= N /\ Null \notin partial
    <3>1. k = n
      BY <2>3, <2>4, NumbersCount, Zenon
    <3> QED
      BY <2>2, <3>1, SizeAssumption, FS_Subset, FS_CardinalityType
  <2>6. owned = {obj[1] : obj \in live}
    <3>1. ASSUME NEW p \in owned PROVE \E obj \in live : obj[1] = p
      <4>1. PICK o \in Offset : <<p, o>> \in live
        BY <2>1, Zenon DEF In
      <4> QED
        BY <4>1
    <3> QED
      BY <2>1, <3>1
  <2> DEFINE u == [i \in 1 .. n |-> t[n + 1 - i]]
  <2>7. Numbers(u, n, partial)
    BY <2>3, <2>4, ReverseNumbers
  <2> HIDE DEF partial, k, N
  <2>8. Chain(t, n, mem.head, mem.next, Null)
    BY <2>4 DEF Chain, Linked
  <2>9. Chain(u, n, mem.tail, mem.prev, Null)
    <3>1. mem.tail = IF n = 0 THEN Null ELSE u[1]
      BY <2>3, <2>4 DEF Linked
    <3>2. ASSUME NEW i \in 1 .. n PROVE mem.prev[u[i]] = IF i = n THEN Null ELSE u[i + 1]
      <4>1. n + 1 - i \in 1 .. n /\ u[i] = t[n + 1 - i]
        BY <2>3
      <4>2. mem.prev[u[i]] = IF n + 1 - i = 1 THEN Null ELSE t[n + 1 - i - 1]
        BY <2>4, <4>1 DEF Linked
      <4>3. i # n => u[i + 1] = t[n + 1 - i - 1] /\ n + 1 - i # 1
        BY <2>3
      <4>4. i = n => n + 1 - i = 1
        BY <2>3
      <4> QED
        BY <4>2, <4>3, <4>4
    <3> QED
      BY <3>1, <3>2 DEF Chain
  <2> HIDE DEF u
  <2>10. Found(t, n, mem.head, mem.next, Null, N)
    BY <2>3, <2>4, <2>5, <2>8, FollowChain
  <2>11. Found(u, n, mem.tail, mem.prev, Null, N)
    BY <2>3, <2>5, <2>7, <2>9, FollowChain, Zenon
  <2>12. /\ \A i \in 0 .. N : forth[i] = IF i < n THEN t[i + 1] ELSE Null
         /\ \A i \in 0 .. N : back[i] = IF i < n THEN u[i + 1] ELSE Null
    BY <2>10, <2>11 DEF Found, ListFrom, N
  <2> HIDE DEF forth, back
  <2>13. forth[n] = Null /\ back[n] = Null /\ \A i \in 0 .. n - 1 : forth[i] = t[i + 1]
    BY <2>5, <2>12
  <2>14. {forth[i] : i \in 0 .. n - 1} = partial
    <3>1. \A i \in 0 .. n - 1 : forth[i] \in partial
      BY <2>3, <2>4, <2>13 DEF Numbers
    <3>2. ASSUME NEW x \in partial PROVE \E i \in 0 .. n - 1 : forth[i] = x
      <4>1. PICK i \in 1 .. n : t[i] = x
        BY <2>4, <3>2 DEF Numbers
      <4>2. i - 1 \in 0 .. n - 1 /\ forth[i - 1] = x
        BY <2>13, <4>1
      <4> QED
        BY <4>2
    <3> QED
      BY <3>1, <3>2
  <2>15. ASSUME NEW i \in 0 .. n - 1 PROVE back[i] = forth[n - 1 - i]
    <3>1. i \in 0 .. N /\ n - 1 - i \in 0 .. N /\ i < n /\ n - 1 - i < n /\ i + 1 \in 1 .. n
      BY <2>3, <2>5
    <3>2. back[i] = u[i + 1] /\ forth[n - 1 - i] = t[n - 1 - i + 1]
      BY <2>12, <3>1
    <3>3. u[i + 1] = t[n + 1 - (i + 1)] /\ n + 1 - (i + 1) = n - 1 - i + 1
      BY <2>3, <3>1 DEF u
    <3> QED
      BY <3>2, <3>3
  <2> QED
    BY <2>5, <2>6, <2>13, <2>14, <2>15, Zenon DEF PartialListExact, partial, k, forth, back
<1> QED
  BY <1>1, Invariance, PTL

\* A page that was given back is never written again.
THEOREM FreedStaysUntouched == Spec => FreedUntouched
<1>1. ASSUME IInv, [Next]_vars
      PROVE  [\A p \in Page : p \notin owned /\ p \notin owned' => PageMemory(p)' = PageMemory(p)]_vars
  <2>1. ASSUME NEW p \in Page, p \notin owned, p \notin owned' PROVE PageMemory(p)' = PageMemory(p)
    <3>1. SamePage(mem, mem', p)
      BY <1>1, <2>1, Step
    <3>2. [o \in Offset |-> <<mem'.magic[<<p, o>>], mem'.obj_next[<<p, o>>], mem'.payload[<<p, o>>]>>]
            = [o \in Offset |-> <<mem.magic[<<p, o>>], mem.obj_next[<<p, o>>], mem.payload[<<p, o>>]>>]
      BY <3>1 DEF SamePage, SameSlots
    <3> QED
      BY <3>1, <3>2 DEF PageMemory, SamePage, SameSlots, SameLinks
  <2> QED
    BY <2>1
<1> QED
  BY <1>1, Invariance, PTL DEF Spec, FreedUntouched

=============================================================================
