---------------------------- MODULE SharedProofs ----------------------------
(***************************************************************************)
(* Proofs about the two structures kmain and the interrupt handlers share: *)
(* RingBuffer, for every capacity and element type (its fields stay        *)
(* consistent and it implements the bounded list), and IrqMutex, for every *)
(* set of mutexes and every nesting bound.                                 *)
(***************************************************************************)
EXTENDS RingBufferSpec, IrqMutex, SequenceTheorems, TLAPS

-----------------------------------------------------------------------------
(* RingBuffer.                                                             *)

\* The fields of a buffer agree.
RingInv == RingTypeOK /\ EmptyIsTight

\* A struct whose fields agree, as every reachable one is.
Tight(r) == r \in Ring /\ (r.empty => r.first = r.last)

-----------------------------------------------------------------------------

\* A cell index that moves right stays in the array.
LEMMA SuccType == \A i \in Index : Succ(i) \in Index
BY CapAssumption DEF Index, Succ

\* len() is at most the capacity, zero exactly for the empty buffer and the
\* capacity exactly for the full one.
LEMMA LenRange ==
  ASSUME NEW r, Tight(r)
  PROVE  /\ len(r) \in 0 .. CAP
         /\ len(r) = 0 <=> r.empty
         /\ len(r) = CAP <=> full(r)
BY CapAssumption DEF Tight, Ring, Index, len, full

\* Elements lie in cells of the array, in different cells for different
\* positions, and Position finds the position back.
LEMMA CellType ==
  ASSUME NEW r, Tight(r), NEW i \in Index
  PROVE  Cell(r, i) \in Index /\ Position(r, Cell(r, i)) = i
BY CapAssumption DEF Tight, Ring, Index, Cell, Position

\* Every cell of the array is at some position from first on.
LEMMA PositionType ==
  ASSUME NEW r, Tight(r), NEW k \in Index
  PROVE  Position(r, k) \in Index /\ Cell(r, Position(r, k)) = k
<1>1. r.first \in 0 .. CAP - 1 /\ k \in 0 .. CAP - 1
  BY DEF Tight, Ring, Index
<1>2. CASE k >= r.first
  BY CapAssumption, <1>1, <1>2 DEF Index, Cell, Position
<1>3. CASE k < r.first
  BY CapAssumption, <1>1, <1>3 DEF Index, Cell, Position
<1> QED
  BY <1>1, <1>2, <1>3

\* try_push, push_force, try_pop and assignment keep the fields consistent.
LEMMA PushTight ==
  ASSUME NEW r, Tight(r), NEW data \in T
  PROVE  Tight(push(r, data)) /\ Tight(push_force(r, data))
BY SuccType, Zenon DEF Tight, Ring, push, push_force, full

\* pop keeps the indices in order.
LEMMA PopTight ==
  ASSUME NEW r, Tight(r)
  PROVE  Tight(pop(r))
BY SuccType, Zenon DEF Tight, Ring, pop

\* An assignment through IndexMut keeps the indices in order.
LEMMA SetTight ==
  ASSUME NEW r, Tight(r), NEW i \in Index, NEW data \in T
  PROVE  Tight(set(r, i, data))
BY CellType DEF Tight, Ring, set

\* insert_force keeps the indices in order.
LEMMA InsertTight ==
  ASSUME NEW r, Tight(r), NEW pos \in 0 .. len(r), NEW data \in T
  PROVE  Tight(insert_force(r, pos, data))
<1>1. Tight(push_force(r, data)) /\ Tight(push(r, data))
  BY PushTight
<1>2. len(r) \in 0 .. CAP
  BY LenRange
<1>3. \A i \in Index : get(r, i) \in T
  BY CellType DEF get, Tight, Ring
<1>4. ~ r.empty /\ r.first # r.last => Tight(ShiftRight(r, pos, data))
  <2>1. \A k \in Index : LET i == Position(r, k) IN
           (IF i > pos /\ i <= len(r) THEN get(r, i - 1)
            ELSE IF i = pos THEN data ELSE r.buffer[k]) \in T
    <3> SUFFICES ASSUME NEW k \in Index,
                        Position(r, k) > pos, Position(r, k) <= len(r)
                 PROVE  get(r, Position(r, k) - 1) \in T
      BY DEF Tight, Ring
    <3>1. Position(r, k) - 1 \in Index
      BY <1>2, PositionType, CapAssumption DEF Index
    <3> QED
      BY <1>3, <3>1
  <2> QED
    BY <1>1, <2>1 DEF ShiftRight, Tight, Ring
<1>5. ~ r.empty /\ pos # len(r) => Tight(ShiftLeft(r, pos, data))
  <2> HAVE ~ r.empty /\ pos # len(r)
  <2>1. \A k \in Index : LET i == Position(r, k) IN
           (IF i < pos THEN get(r, i + 1)
            ELSE IF i = pos THEN data ELSE r.buffer[k]) \in T
    <3> SUFFICES ASSUME NEW k \in Index, Position(r, k) < pos
                 PROVE  get(r, Position(r, k) + 1) \in T
      BY DEF Tight, Ring
    <3>1. Position(r, k) + 1 \in Index
      BY <1>2, PositionType, CapAssumption DEF Index
    <3> QED
      BY <1>3, <3>1
  <2> QED
    BY <2>1 DEF ShiftLeft, Tight, Ring
<1> QED
  BY <1>1, <1>4, <1>5 DEF insert_force

-----------------------------------------------------------------------------

\* The contents are a sequence of len() elements.
LEMMA ContentsSeq ==
  ASSUME NEW r, Tight(r)
  PROVE  /\ Contents(r) \in Seq(T)
         /\ Len(Contents(r)) = len(r)
         /\ \A i \in 1 .. len(r) : Contents(r)[i] = get(r, i - 1)
<1>1. len(r) \in Nat /\ len(r) <= CAP
  BY LenRange, CapAssumption
<1>2. \A i \in 1 .. len(r) : get(r, i - 1) \in T
  <2> TAKE i \in 1 .. len(r)
  <2>1. i - 1 \in Index
    BY <1>1, CapAssumption DEF Index
  <2> QED
    BY <2>1, CellType DEF get, Tight, Ring
<1> QED
  BY <1>1, <1>2 DEF Contents

\* Two structs with the same elements position by position.
LEMMA ContentsEqual ==
  ASSUME NEW r, Tight(r), NEW s \in Seq(T), Len(s) = len(r),
         \A i \in 1 .. len(r) : get(r, i - 1) = s[i]
  PROVE  Contents(r) = s
BY ContentsSeq, SeqEqual

\* A push with room left adds one to len().
LEMMA PushLen ==
  ASSUME NEW r, Tight(r), ~ full(r), NEW data \in T
  PROVE  len(push(r, data)) = len(r) + 1
<1>1. /\ r.first \in 0 .. CAP - 1
      /\ r.last \in 0 .. CAP - 1
      /\ r.first = r.last <=> r.empty
  BY DEF Tight, Ring, Index, full
<1>2. len(push(r, data)) = IF r.first < Succ(r.last) THEN Succ(r.last) - r.first
                           ELSE Succ(r.last) + CAP - r.first
  BY DEF push, len, Tight, Ring
<1>3. CASE r.empty
  BY <1>1, <1>2, <1>3, CapAssumption DEF len, Succ
<1>4. CASE ~ r.empty
  BY <1>1, <1>2, <1>4, CapAssumption DEF len, Succ
<1> QED
  BY <1>3, <1>4

\* try_push with room left appends.
LEMMA PushContents ==
  ASSUME NEW r, Tight(r), ~ full(r), NEW data \in T
  PROVE  Contents(push(r, data)) = Append(Contents(r), data)
<1> DEFINE p == push(r, data)
<1>1. Tight(p) /\ p.first = r.first /\ p.last = Succ(r.last) /\ ~ p.empty
  BY PushTight, Zenon DEF push, Tight, Ring
<1>2. len(r) \in 0 .. CAP - 1
  BY LenRange, CapAssumption
<1>3. len(p) = len(r) + 1
  BY PushLen
<1>4. Cell(r, len(r)) = r.last
  BY CapAssumption DEF Cell, len, full, Tight, Ring, Index
<1>5. \A i \in Index : Cell(p, i) = Cell(r, i)
  BY <1>1 DEF Cell
<1>6. p.buffer = [r.buffer EXCEPT ![r.last] = data]
  BY DEF push, Tight, Ring
<1>7. \A i \in 0 .. len(r) : get(p, i) = IF i = len(r) THEN data ELSE get(r, i)
  <2> TAKE i \in 0 .. len(r)
  <2>1. i \in Index /\ len(r) \in Index
    BY <1>2, CapAssumption DEF Index
  <2>2. Cell(r, i) \in Index /\ (Cell(r, i) = r.last <=> i = len(r))
    BY <1>4, <2>1, CellType, Zenon
  <2> QED
    BY <1>4, <1>5, <1>6, <2>1, <2>2 DEF get, Tight, Ring
<1>8. \A i \in 1 .. len(r) + 1 : get(p, i - 1) = Append(Contents(r), data)[i]
  BY <1>2, <1>7, ContentsSeq
<1>9. Append(Contents(r), data) \in Seq(T) /\ Len(Append(Contents(r), data)) = len(r) + 1
  BY ContentsSeq
<1> QED
  BY <1>1, <1>3, <1>8, <1>9, ContentsEqual, Zenon

\* The indices as arithmetic sees them.
LEMMA Indices ==
  ASSUME NEW r, Tight(r)
  PROVE  /\ r.first \in 0 .. CAP - 1
         /\ r.last \in 0 .. CAP - 1
         /\ r.empty \in BOOLEAN
         /\ r.empty => r.first = r.last
BY DEF Tight, Ring, Index

\* push_force on a full buffer drops the head and appends.
LEMMA PushForceContents ==
  ASSUME NEW r, Tight(r), full(r), NEW data \in T
  PROVE  Contents(push_force(r, data)) = Append(Tail(Contents(r)), data)
<1> DEFINE p == push_force(r, data)
<1>1. /\ Tight(p) /\ ~ p.empty
      /\ p.first = Succ(r.first) /\ p.last = Succ(r.first)
      /\ p.buffer = [r.buffer EXCEPT ![r.last] = data]
  BY PushTight, Zenon DEF push_force, Tight, Ring, full
<1>2. ~ r.empty /\ r.first = r.last
  BY DEF full
<1>3. len(p) = CAP /\ len(r) = CAP
  BY <1>1, <1>2, SuccType, Indices, CapAssumption DEF len, Index
<1>4. \A i \in 0 .. CAP - 2 : Cell(p, i) = Cell(r, i + 1) /\ Cell(p, i) # r.last
  BY <1>1, <1>2, Indices, CapAssumption DEF Cell, Succ
<1>5. Cell(p, CAP - 1) = r.last
  BY <1>1, <1>2, Indices, CapAssumption DEF Cell, Succ
<1>6. \A i \in 0 .. CAP - 2 : Cell(p, i) \in Index
  BY <1>1, CellType, CapAssumption DEF Index
<1>7. r.last \in Index /\ r.buffer \in [Index -> T]
  BY DEF Tight, Ring
<1>8. \A i \in 0 .. CAP - 2 : get(p, i) = get(r, i + 1)
  BY <1>1, <1>4, <1>6, <1>7 DEF get
<1>9. get(p, CAP - 1) = data
  BY <1>1, <1>5, <1>7 DEF get
<1> DEFINE c == Contents(r)
<1>10. /\ c \in Seq(T) /\ Len(c) = CAP
       /\ \A i \in 1 .. CAP : c[i] = get(r, i - 1)
  BY <1>3, ContentsSeq
<1> HIDE DEF c
<1>11. /\ Tail(c) \in Seq(T) /\ Len(Tail(c)) = CAP - 1
       /\ \A i \in 1 .. CAP - 1 : Tail(c)[i] = c[i + 1]
  BY <1>10, CapAssumption
<1> DEFINE a == Append(Tail(c), data)
<1>12. /\ a \in Seq(T) /\ Len(a) = CAP
       /\ \A i \in 1 .. CAP - 1 : a[i] = c[i + 1]
       /\ a[CAP] = data
  BY <1>11, CapAssumption
<1> HIDE DEF a, p
<1>13. \A i \in 1 .. CAP : get(p, i - 1) = a[i]
  <2> TAKE i \in 1 .. CAP
  <2>1. CASE i = CAP
    BY <2>1, <1>9, <1>12
  <2>2. CASE i # CAP
    <3>1. i - 1 \in 0 .. CAP - 2 /\ i + 1 \in 1 .. CAP /\ i \in 1 .. CAP - 1
      BY <2>2, CapAssumption
    <3> QED
      BY <3>1, <1>8, <1>10, <1>12
  <2> QED
    BY <2>1, <2>2
<1>14. Contents(p) = a
  BY <1>1, <1>3, <1>12, <1>13, ContentsEqual
<1> QED
  BY <1>14 DEF a, c, p

\* try_pop returns the head and keeps the rest.
LEMMA PopContents ==
  ASSUME NEW r, Tight(r), ~ r.empty
  PROVE  /\ len(r) >= 1
         /\ Contents(r) # <<>>
         /\ peek(r) = Head(Contents(r))
         /\ Contents(pop(r)) = Tail(Contents(r))
<1> DEFINE p == pop(r)
<1>1. /\ Tight(p) /\ p.first = Succ(r.first) /\ p.last = r.last
      /\ p.buffer = r.buffer /\ p.empty = (Succ(r.first) = r.last)
  BY PopTight, Zenon DEF pop, Tight, Ring
<1>2. len(r) \in 1 .. CAP
  BY Indices, CapAssumption DEF len
<1>3. len(p) = len(r) - 1
  <2>1. CASE Succ(r.first) = r.last
    BY <2>1, <1>1, Indices, CapAssumption DEF len, Succ
  <2>2. CASE Succ(r.first) # r.last
    BY <2>2, <1>1, Indices, CapAssumption DEF len, Succ
  <2> QED
    BY <2>1, <2>2
<1>4. \A i \in 0 .. CAP - 2 : Cell(p, i) = Cell(r, i + 1)
  BY <1>1, Indices, CapAssumption DEF Cell, Succ
<1>5. Cell(r, 0) = r.first
  BY Indices, CapAssumption DEF Cell
<1> DEFINE c == Contents(r)
<1>6. /\ c \in Seq(T) /\ Len(c) = len(r)
      /\ \A i \in 1 .. len(r) : c[i] = get(r, i - 1)
  BY ContentsSeq
<1> HIDE DEF c, p
<1>7. c # <<>> /\ Head(c) = c[1]
  BY <1>2, <1>6
<1>8. c[1] = peek(r)
  BY <1>2, <1>5, <1>6 DEF get, peek
<1> DEFINE t == Tail(c)
<1>9. /\ t \in Seq(T) /\ Len(t) = len(p)
      /\ \A i \in 1 .. len(p) : t[i] = c[i + 1]
  BY <1>2, <1>3, <1>6
<1> HIDE DEF t
<1>10. \A i \in 1 .. len(p) : get(p, i - 1) = t[i]
  <2> TAKE i \in 1 .. len(p)
  <2>1. i - 1 \in 0 .. CAP - 2 /\ i + 1 \in 1 .. len(r) /\ i \in Nat
    BY <1>2, <1>3, CapAssumption
  <2>2. get(p, i - 1) = get(r, i)
    BY <2>1, <1>1, <1>4 DEF get
  <2> QED
    BY <2>1, <2>2, <1>6, <1>9
<1>11. Contents(p) = t
  BY <1>1, <1>9, <1>10, ContentsEqual
<1> QED
  BY <1>2, <1>7, <1>8, <1>11 DEF c, p, t

\* IndexMut writes one element.
LEMMA SetContents ==
  ASSUME NEW r, Tight(r), NEW i \in 0 .. len(r) - 1, NEW data \in T
  PROVE  Contents(set(r, i, data)) = [Contents(r) EXCEPT ![i + 1] = data]
<1> DEFINE p == set(r, i, data)
<1>1. len(r) \in 0 .. CAP
  BY LenRange
<1>2. \A j \in 0 .. len(r) - 1 : j \in Index
  BY <1>1, CapAssumption DEF Index
<1>3. Tight(p)
  BY <1>2, SetTight
<1>4. /\ p.first = r.first /\ p.last = r.last /\ p.empty = r.empty
      /\ p.buffer = [r.buffer EXCEPT ![Cell(r, i)] = data]
  BY DEF set, Tight, Ring
<1>5. len(p) = len(r)
  BY <1>4 DEF len
<1>6. \A j \in 0 .. len(r) - 1 : get(p, j) = IF j = i THEN data ELSE get(r, j)
  <2> TAKE j \in 0 .. len(r) - 1
  <2>1. /\ Cell(p, j) = Cell(r, j) /\ Cell(r, j) \in Index
        /\ Cell(r, j) = Cell(r, i) <=> j = i
    BY <1>2, <1>4, CellType DEF Cell
  <2> QED
    BY <2>1, <1>4 DEF get, Tight, Ring
<1> DEFINE c == Contents(r)
<1>7. /\ c \in Seq(T) /\ Len(c) = len(r)
      /\ \A j \in 1 .. len(r) : c[j] = get(r, j - 1)
  BY ContentsSeq
<1> HIDE DEF c, p
<1> DEFINE d == [c EXCEPT ![i + 1] = data]
<1>8. /\ d \in Seq(T) /\ Len(d) = len(r)
      /\ \A j \in 1 .. len(r) : d[j] = IF j = i + 1 THEN data ELSE c[j]
  BY <1>1, <1>7
<1> HIDE DEF d
<1>9. \A j \in 1 .. len(p) : get(p, j - 1) = d[j]
  <2> TAKE j \in 1 .. len(p)
  <2>1. j - 1 \in 0 .. len(r) - 1 /\ (j - 1 = i <=> j = i + 1) /\ j \in 1 .. len(r)
    BY <1>1, <1>5
  <2> QED
    BY <2>1, <1>6, <1>7, <1>8
<1>10. Contents(p) = d
  BY <1>3, <1>5, <1>8, <1>9, ContentsEqual
<1> QED
  BY <1>10 DEF c, d, p

\* What the shift in a buffer with room leaves: data at pos, the elements
\* from pos on one further.
LEMMA ShiftRightContents ==
  ASSUME NEW r, Tight(r), ~ r.empty, r.first # r.last,
         NEW pos \in 0 .. len(r) - 1, NEW data \in T
  PROVE  Contents(ShiftRight(r, pos, data)) = List!Insert(Contents(r), pos, data)
<1> DEFINE q == push(r, data)
           p == ShiftRight(r, pos, data)
<1>1. len(r) \in 1 .. CAP - 1
  BY LenRange, CapAssumption DEF full
<1>2. Tight(p)
  <2>1. Tight(insert_force(r, pos, data))
    BY <1>1, InsertTight
  <2>2. insert_force(r, pos, data) = p
    BY <1>1 DEF insert_force
  <2> QED
    BY <2>1, <2>2
<1>3. /\ p.first = r.first /\ p.last = q.last /\ ~ p.empty /\ ~ q.empty
      /\ q.first = r.first /\ q.last \in Index
      /\ p.buffer = [k \in Index |->
            IF Position(r, k) > pos /\ Position(r, k) <= len(r)
            THEN get(r, Position(r, k) - 1)
            ELSE IF Position(r, k) = pos THEN data ELSE r.buffer[k]]
  BY SuccType DEF ShiftRight, push, Tight, Ring
<1>4. len(p) = len(r) + 1
  <2>1. len(q) = len(r) + 1
    BY PushLen DEF full, q
  <2> QED
    BY <2>1, <1>3 DEF len
<1>5. \A i \in 0 .. len(r) :
        get(p, i) = IF i > pos THEN get(r, i - 1) ELSE IF i = pos THEN data ELSE get(r, i)
  <2> TAKE i \in 0 .. len(r)
  <2>1. i \in Index
    BY <1>1, CapAssumption DEF Index
  <2>2. Cell(p, i) = Cell(r, i) /\ Cell(r, i) \in Index /\ Position(r, Cell(r, i)) = i
    BY <2>1, <1>3, CellType DEF Cell
  <2> QED
    BY <2>2, <1>1, <1>3 DEF get
<1> DEFINE c == Contents(r)
<1>6. /\ c \in Seq(T) /\ Len(c) = len(r)
      /\ \A j \in 1 .. len(r) : c[j] = get(r, j - 1)
  BY ContentsSeq
<1> HIDE DEF c, p, q
<1> DEFINE d == List!Insert(c, pos, data)
<1>7. /\ d \in Seq(T) /\ Len(d) = len(r) + 1
      /\ \A j \in 1 .. len(r) + 1 :
           d[j] = IF j <= pos THEN c[j] ELSE IF j = pos + 1 THEN data ELSE c[j - 1]
  <2>1. \A j \in 1 .. len(r) + 1 :
           (IF j <= pos THEN c[j] ELSE IF j = pos + 1 THEN data ELSE c[j - 1]) \in T
    BY <1>1, <1>6
  <2> QED
    BY <2>1, <1>1, <1>6 DEF List!Insert
<1> HIDE DEF d
<1>8. \A j \in 1 .. len(p) : get(p, j - 1) = d[j]
  <2> TAKE j \in 1 .. len(p)
  <2>1. j \in 1 .. len(r) + 1 /\ j - 1 \in 0 .. len(r) /\ pos \in Nat /\ pos < len(r)
    BY <1>1, <1>4
  <2>2. CASE j <= pos
    BY <2>1, <2>2, <1>1, <1>5, <1>6, <1>7
  <2>3. CASE j = pos + 1
    BY <2>1, <2>3, <1>1, <1>5, <1>6, <1>7
  <2>4. CASE j > pos + 1
    BY <2>1, <2>4, <1>1, <1>5, <1>6, <1>7
  <2> QED
    BY <2>1, <2>2, <2>3, <2>4
<1>9. Contents(p) = d
  BY <1>2, <1>4, <1>7, <1>8, ContentsEqual
<1> QED
  BY <1>9 DEF c, d, p

\* What the shift in a full buffer leaves: the head gone, data at pos.
LEMMA ShiftLeftContents ==
  ASSUME NEW r, Tight(r), full(r), NEW pos \in 0 .. len(r) - 1, NEW data \in T
  PROVE  Contents(ShiftLeft(r, pos, data)) = List!Insert(Tail(Contents(r)), pos, data)
<1> DEFINE p == ShiftLeft(r, pos, data)
<1>1. len(r) = CAP /\ ~ r.empty /\ r.first = r.last
  BY LenRange, CapAssumption DEF full
<1>2. Tight(p)
  <2>1. Tight(insert_force(r, pos, data))
    BY <1>1, CapAssumption, InsertTight
  <2>2. insert_force(r, pos, data) = p
    BY <1>1, CapAssumption DEF insert_force
  <2> QED
    BY <2>1, <2>2
<1>3. /\ p.first = r.first /\ p.last = r.last /\ p.empty = r.empty
      /\ p.buffer = [k \in Index |->
            IF Position(r, k) < pos THEN get(r, Position(r, k) + 1)
            ELSE IF Position(r, k) = pos THEN data ELSE r.buffer[k]]
  BY DEF ShiftLeft, Tight, Ring
<1>4. len(p) = CAP
  BY <1>1, <1>3 DEF len
<1>5. \A i \in 0 .. CAP - 1 :
        get(p, i) = IF i < pos THEN get(r, i + 1) ELSE IF i = pos THEN data ELSE get(r, i)
  <2> TAKE i \in 0 .. CAP - 1
  <2>1. i \in Index
    BY DEF Index
  <2>2. Cell(p, i) = Cell(r, i) /\ Cell(r, i) \in Index /\ Position(r, Cell(r, i)) = i
    BY <2>1, <1>3, CellType DEF Cell
  <2> QED
    BY <2>2, <1>3 DEF get
<1> DEFINE c == Contents(r)
<1>6. /\ c \in Seq(T) /\ Len(c) = CAP
      /\ \A j \in 1 .. CAP : c[j] = get(r, j - 1)
  BY <1>1, ContentsSeq
<1> HIDE DEF c, p
<1> DEFINE t == Tail(c)
<1>7. /\ t \in Seq(T) /\ Len(t) = CAP - 1
      /\ \A j \in 1 .. CAP - 1 : t[j] = c[j + 1]
  BY <1>6, CapAssumption
<1> HIDE DEF t
<1> DEFINE d == List!Insert(t, pos, data)
<1>8. /\ d \in Seq(T) /\ Len(d) = CAP
      /\ \A j \in 1 .. CAP :
           d[j] = IF j <= pos THEN t[j] ELSE IF j = pos + 1 THEN data ELSE t[j - 1]
  <2>1. \A j \in 1 .. CAP :
           (IF j <= pos THEN t[j] ELSE IF j = pos + 1 THEN data ELSE t[j - 1]) \in T
    <3> TAKE j \in 1 .. CAP
    <3>1. j <= pos => j \in 1 .. CAP - 1
      BY <1>1, CapAssumption
    <3>2. j > pos + 1 => j - 1 \in 1 .. CAP - 1
      BY <1>1, CapAssumption
    <3>3. \A i \in 1 .. CAP - 1 : t[i] \in T
      BY <1>7
    <3> QED
      BY <1>1, <3>1, <3>2, <3>3
  <2>2. Len(t) + 1 = CAP
    BY <1>7, CapAssumption
  <2>3. d = [j \in 1 .. CAP |->
               IF j <= pos THEN t[j] ELSE IF j = pos + 1 THEN data ELSE t[j - 1]]
    BY <2>2 DEF List!Insert
  <2> QED
    BY <2>1, <2>3, CapAssumption
<1> HIDE DEF d
<1>9. \A j \in 1 .. CAP : get(p, j - 1) = d[j]
  <2> TAKE j \in 1 .. CAP
  <2>1. j - 1 \in 0 .. CAP - 1 /\ pos \in 0 .. CAP - 1
    BY <1>1, CapAssumption
  <2>2. CASE j <= pos
    <3>1. j - 1 < pos /\ j \in 1 .. CAP - 1 /\ j + 1 \in 1 .. CAP
      BY <2>1, <2>2, CapAssumption
    <3>2. d[j] = c[j + 1]
      BY <2>2, <3>1, <1>7, <1>8
    <3>3. c[j + 1] = get(r, j)
      BY <3>1, <1>6
    <3> QED
      BY <2>1, <3>1, <3>2, <3>3, <1>5
  <2>3. CASE j = pos + 1
    BY <2>1, <2>3, <1>5, <1>8, CapAssumption
  <2>4. CASE j > pos + 1
    <3>1. j - 1 > pos /\ j - 1 \in 1 .. CAP - 1
      BY <2>1, <2>4, CapAssumption
    <3>2. d[j] = c[j]
      BY <2>1, <2>4, <3>1, <1>7, <1>8
    <3> QED
      BY <2>1, <3>1, <3>2, <1>5, <1>6
  <2> QED
    BY <2>1, <2>2, <2>3, <2>4
<1>10. Contents(p) = d
  BY <1>2, <1>4, <1>8, <1>9, ContentsEqual
<1> QED
  BY <1>10 DEF c, d, p, t

-----------------------------------------------------------------------------

\* A buffer that was just made.
LEMMA RingInitInv == RingInit => RingInv
BY CapAssumption DEF RingInit, RingInv, RingTypeOK, EmptyIsTight, new_with, Ring, Index

\* Every call keeps the fields consistent and acts on the contents as the
\* same call acts on the list.
LEMMA RingStep ==
  ASSUME RingInv, [RingNext]_ring_vars
  PROVE  RingInv' /\ [List!Next]_List!vars
<1> DEFINE c == Contents(ring)
<1>1. Tight(ring)
  BY DEF RingInv, RingTypeOK, EmptyIsTight, Tight
<1>2. Tight(ring') => RingInv'
  BY DEF RingInv, RingTypeOK, EmptyIsTight, Tight
<1>3. /\ c \in Seq(T) /\ Len(c) = len(ring)
      /\ \A i \in 1 .. len(ring) : c[i] = get(ring, i - 1)
  BY <1>1, ContentsSeq
<1>4. /\ len(ring) \in 0 .. CAP
      /\ len(ring) = 0 <=> ring.empty
      /\ len(ring) < CAP <=> ~ full(ring)
      /\ len(ring) = CAP <=> full(ring)
  BY <1>1, LenRange, CapAssumption
<1>5. c = <<>> <=> ring.empty
  BY <1>3, <1>4, EmptySeq
<1>6. ASSUME UNCHANGED ring PROVE UNCHANGED c /\ RingInv'
  BY <1>1, <1>2, <1>6 DEF Contents
<1> HIDE DEF c
<1>7. ASSUME TryPop PROVE RingInv' /\ List!TryPop
  <2>1. CASE ring.empty
    BY <1>5, <1>6, <1>7, <2>1 DEF TryPop, List!TryPop, c
  <2>2. CASE ~ ring.empty
    BY <1>1, <1>2, <1>5, <1>7, <2>2, PopTight, PopContents DEF TryPop, List!TryPop, c
  <2> QED
    BY <2>1, <2>2
<1>8. ASSUME NEW i \in List!Positions, Get(i) PROVE RingInv' /\ List!Get(i)
  <2>1. InBounds(ring, i) <=> i < Len(c)
    BY <1>3, <1>4 DEF InBounds, List!Positions
  <2>2. i < Len(c) => c[i + 1] = get(ring, i)
    BY <1>3, <1>4 DEF List!Positions
  <2> QED
    BY <1>6, <1>8, <2>1, <2>2 DEF Get, List!Get, c
<1>9. ASSUME NEW data \in T, TryPush(data) PROVE RingInv' /\ List!TryPush(data)
  <2>1. (ring.empty \/ ring.first # ring.last) <=> Len(c) < CAP
    BY <1>3, <1>4 DEF full
  <2>2. CASE Len(c) < CAP
    BY <1>1, <1>2, <1>3, <1>4, <1>9, <2>1, <2>2, PushTight, PushContents
    DEF TryPush, List!TryPush, c
  <2>3. CASE ~ (Len(c) < CAP)
    BY <1>6, <1>9, <2>1, <2>3 DEF TryPush, List!TryPush, c
  <2> QED
    BY <2>2, <2>3
<1>10. ~ full(ring) => \A data \in T : push_force(ring, data) = push(ring, data)
  BY <1>1, Zenon DEF push_force, push, Tight, Ring
<1>11. ~ full(ring) => List!Forced(full(ring)) = List!Forced(FALSE)
  BY Zenon DEF List!Forced, full
<1>12. ASSUME NEW data \in T, PushForce(data) PROVE RingInv' /\ List!PushForce(data)
  <2>1. CASE full(ring)
    BY <1>1, <1>2, <1>3, <1>4, <1>12, <2>1, PushTight, PushForceContents, Zenon
    DEF PushForce, List!PushForce, c
  <2>2. CASE ~ full(ring)
    BY <1>1, <1>2, <1>3, <1>4, <1>10, <1>12, <1>11, <2>2, PushTight, PushContents, Zenon
    DEF PushForce, List!PushForce, c
  <2> QED
    BY <2>1, <2>2
<1>13. ASSUME NEW i \in List!Positions, NEW data \in T, Assign(i, data)
       PROVE  RingInv' /\ List!Assign(i, data)
  <2>1. InBounds(ring, i) <=> i < Len(c)
    BY <1>3, <1>4 DEF InBounds, List!Positions
  <2>2. CASE InBounds(ring, i)
    <3>1. i \in 0 .. len(ring) - 1 /\ i \in Index
      BY <1>4, <2>2, CapAssumption DEF InBounds, Index
    <3>2. ring' = set(ring, i, data) /\ ret' = List!Some(data)
      BY <1>13, <2>2 DEF Assign
    <3>3. Tight(ring')
      BY <1>1, <3>1, <3>2, SetTight
    <3>4. c' = [c EXCEPT ![i + 1] = data]
      BY <1>1, <3>1, <3>2, SetContents DEF c
    <3> QED
      BY <1>2, <2>1, <2>2, <3>2, <3>3, <3>4 DEF List!Assign, c
  <2>3. CASE ~ InBounds(ring, i)
    BY <1>6, <1>13, <2>1, <2>3 DEF Assign, List!Assign, c
  <2> QED
    BY <2>2, <2>3
<1>14. ASSUME NEW pos \in List!Positions, NEW data \in T, InsertForce(pos, data)
       PROVE  RingInv' /\ List!InsertForce(pos, data)
  <2>1. CASE pos > len(ring)
    BY <1>3, <1>6, <1>14, <2>1 DEF InsertForce, List!InsertForce, c
  <2>2. CASE ~ (pos > len(ring))
    <3>1. pos \in 0 .. len(ring)
      BY <1>4, <2>2 DEF List!Positions
    <3>2. ring' = insert_force(ring, pos, data) /\ ret' = List!Forced(full(ring))
      BY <1>14, <2>2 DEF InsertForce
    <3>3. RingInv'
      BY <1>1, <1>2, <3>1, <3>2, InsertTight
    <3>4. CASE pos = len(ring) /\ ~ full(ring)
      <4>1. c' = Append(c, data)
        BY <1>1, <1>10, <3>2, <3>4, PushContents DEF insert_force, c
      <4>2. Append(c, data) = List!Insert(c, pos, data)
        <5>1. List!Insert(c, pos, data) = [i \in 1 .. Len(c) + 1 |-> IF i = Len(c) + 1 THEN data ELSE c[i]]
          BY <1>3, <1>4, <3>4 DEF List!Insert
        <5>2. \A i \in 1 .. Len(c) + 1 : (IF i = Len(c) + 1 THEN data ELSE c[i]) \in T
          BY <1>3
        <5> DEFINE a == Append(c, data)
        <5>3. /\ a \in Seq(T) /\ Len(a) = Len(c) + 1
              /\ \A i \in 1 .. Len(c) + 1 : a[i] = IF i = Len(c) + 1 THEN data ELSE c[i]
          BY <1>3
        <5> DEFINE d == List!Insert(c, pos, data)
        <5>4. /\ d \in Seq(T) /\ Len(d) = Len(c) + 1
              /\ \A i \in 1 .. Len(c) + 1 : d[i] = IF i = Len(c) + 1 THEN data ELSE c[i]
          BY <1>3, <1>4, <5>1, <5>2
        <5> HIDE DEF a, d
        <5>5. a = d
          BY <5>3, <5>4, SeqEqual
        <5> QED
          BY <5>5 DEF a, d
      <4> QED
        BY <1>3, <1>4, <2>2, <3>2, <3>3, <3>4, <4>1, <4>2, <1>11, Zenon DEF List!InsertForce, c
    <3>5. CASE pos = len(ring) /\ full(ring)
      <4>1. c' = Append(Tail(c), data)
        BY <1>1, <3>2, <3>5, PushForceContents DEF insert_force, c
      <4> QED
        BY <1>3, <1>4, <2>2, <3>2, <3>3, <3>5, <4>1 DEF List!InsertForce, c
    <3>6. CASE pos # len(ring) /\ ~ full(ring)
      <4>1. pos \in 0 .. len(ring) - 1 /\ ~ ring.empty /\ ring.first # ring.last
        BY <1>4, <3>1, <3>6 DEF full
      <4>2. c' = List!Insert(c, pos, data)
        BY <1>1, <3>2, <3>6, <4>1, ShiftRightContents DEF insert_force, c
      <4> QED
        BY <1>3, <1>4, <2>2, <3>2, <3>3, <3>6, <4>2, <1>11, Zenon DEF List!InsertForce, c
    <3>7. CASE pos # len(ring) /\ full(ring)
      <4>1. pos \in 0 .. len(ring) - 1 /\ ~ ring.empty /\ ring.first = ring.last
        BY <1>4, <3>1, <3>7 DEF full
      <4>2. c' = List!Insert(Tail(c), pos, data)
        BY <1>1, <3>2, <3>7, <4>1, ShiftLeftContents DEF insert_force, c
      <4> QED
        BY <1>3, <1>4, <2>2, <3>2, <3>3, <3>7, <4>2 DEF List!InsertForce, c
    <3> QED
      BY <3>4, <3>5, <3>6, <3>7
  <2> QED
    BY <2>1, <2>2
<1>15. ASSUME UNCHANGED ring_vars PROVE RingInv' /\ UNCHANGED List!vars
  BY <1>6, <1>15 DEF ring_vars, List!vars, c
<1> QED
  BY <1>7, <1>8, <1>9, <1>12, <1>13, <1>14, <1>15 DEF RingNext, List!Next

\* The fields of a RingBuffer agree after any sequence of calls, for every
\* capacity: `first` and `last` index the array, an empty buffer has them
\* equal.
THEOREM Consistent == RingSpec => [](RingTypeOK /\ EmptyIsTight)
<1>1. RingInv /\ [RingNext]_ring_vars => RingInv'
  BY RingStep
<1> QED
  BY RingInitInv, <1>1, PTL DEF RingSpec, RingInv

\* For every capacity and element type the ring buffer implements the list
\* of at most CAP elements: each of its calls returns what the call on the
\* list returns and leaves the elements the list is left with.
THEOREM Refinement == RingSpec => ImplementsList
<1>1. RingInit => List!Init
  BY CapAssumption DEF RingInit, List!Init, Contents, len, new_with
<1>2. RingInv /\ [RingNext]_ring_vars => RingInv' /\ [List!Next]_List!vars
  BY RingStep
<1> QED
  BY RingInitInv, <1>1, <1>2, PTL DEF RingSpec, ImplementsList, List!Spec

-----------------------------------------------------------------------------
(* IrqMutex.                                                               *)

\* A context between reading the flag and clearing it.
Entering(c) == c.phase \in {"lock", "try_lock"}

\* Contexts that do not exist yet hold nothing and are in no call.
AboveFresh ==
  \A d \in Context : d > depth => guards[d] = <<>> /\ call[d].phase = "idle"

\* A context is interrupted only where interrupts are on: outside of critical
\* sections, at the latest between reading the flag and clearing it.
BelowInterruptible ==
  ~ dead => \A d \in Context : d < depth =>
    /\ guards[d] = <<>>
    /\ call[d].phase = "idle" \/ (Entering(call[d]) /\ call[d].saved)
    /\ d = 1
    /\ asked

\* Interrupts are on only outside of critical sections and in kmain.
EnabledOutside ==
  ~ dead /\ intf =>
    /\ depth = 1
    /\ asked
    /\ guards[depth] = <<>>
    /\ Running.phase = "idle" \/ Entering(Running)

\* The flag a call has saved is the one it found; only the outermost critical
\* section has saved TRUE, and only kmain's when it asked for interrupts.
SavedByOutermost ==
  ~ dead =>
    /\ Entering(Running) => Running.saved = intf
    /\ Running.phase # "idle" =>
         Running.saved = (guards[depth] = <<>> /\ depth = 1 /\ asked)
    /\ \A i \in 1 .. Len(guards[depth]) :
         guards[depth][i].saved_intpt_flag = (i = 1 /\ depth = 1 /\ asked)

\* What the panic handler saves is FALSE, and it drops only its own guards.
PanicSavesFalse ==
  dead =>
    /\ ~ intf
    /\ Running.phase # "idle" => ~ Running.saved
    /\ Running.phase \notin {"lock", "inner"}
    /\ \A i \in 1 .. Len(guards[depth]) :
         i > floor => ~ guards[depth][i].saved_intpt_flag

\* A blocking call is for a mutex its context does not hold.
NoRelock ==
  Running.phase \in {"lock", "inner"} => ~ Holds(depth, Running.mutex)

\* A call that is still to take the inner lock names it.
CallNamesMutex ==
  \A d \in Context :
    call[d].phase \in {"lock", "try_lock", "inner", "try_inner"} => call[d].mutex \in Mutex

FloorZero == ~ dead => floor = 0

IInv ==
  /\ TypeOK
  /\ AboveFresh
  /\ BelowInterruptible
  /\ EnabledOutside
  /\ SavedByOutermost
  /\ PanicSavesFalse
  /\ NoRelock
  /\ CallNamesMutex
  /\ FloorZero
  /\ FlagRestored
  /\ OneGuardPerMutex

-----------------------------------------------------------------------------

\* Every variable keeps its type, call by call.
LEMMA TypeStep == TypeOK /\ CallNamesMutex /\ [Next]_vars => TypeOK'
<1> SUFFICES ASSUME TypeOK, CallNamesMutex, [Next]_vars PROVE TypeOK'
  OBVIOUS
<1> USE DEF TypeOK
<1>1. ASSUME NEW m \in Mutex, NEW entry \in {"lock", "try_lock"}, Begin(m, entry)
      PROVE  TypeOK'
  BY <1>1 DEF Begin, CallLock, Call, Phase
<1>2. CASE Disable
  BY <1>2, Zenon DEF Disable, Call, Phase
<1>3. CASE Acquire
  <2>1. Running.mutex \in Mutex
    BY <1>3 DEF Acquire, Running, CallNamesMutex
  <2>2. [mutex |-> Running.mutex, saved_intpt_flag |-> Running.saved] \in Guard
    BY <2>1 DEF Running, Call, Guard
  <2>3. Idle \in Call
    BY DEF Idle, Call, Phase
  <2> QED
    <3>1. owner' \in [Mutex -> 0 .. MaxDepth]
      BY <1>3, <2>1, DepthAssumption DEF Acquire, Context
    <3>2. guards' \in [Context -> Seq(Guard)]
      BY <1>3, <2>2 DEF Acquire
    <3>3. call' \in [Context -> Call]
      BY <1>3, <2>3 DEF Acquire
    <3> QED
      BY <1>3, <3>1, <3>2, <3>3 DEF Acquire
<1>4. CASE Refuse
  BY <1>4, Zenon DEF Refuse, Call, Phase
<1>5. CASE Release
  <2> DEFINE n == Len(guards[depth])
             g == guards[depth][n]
  <2>1. n \in Nat /\ n > 0 /\ g \in Guard
    BY <1>5 DEF Release
  <2>2. SubSeq(guards[depth], 1, n - 1) \in Seq(Guard)
    BY <2>1
  <2>3. [phase |-> "restore", mutex |-> NoMutex, saved |-> g.saved_intpt_flag] \in Call
    BY <2>1 DEF Guard, Call, Phase
  <2> HIDE DEF n, g
  <2> QED
    <3>1. owner' \in [Mutex -> 0 .. MaxDepth]
      BY <1>5, <2>1, DepthAssumption DEF Release, n, g, Guard
    <3>2. guards' \in [Context -> Seq(Guard)]
      BY <1>5, <2>2 DEF Release, n, g
    <3>3. call' \in [Context -> Call]
      BY <1>5, <2>3 DEF Release, n, g
    <3> QED
      BY <1>5, <3>1, <3>2, <3>3 DEF Release
<1>6. CASE Restore
  <2>1. Idle \in Call
    BY DEF Idle, Call, Phase
  <2> QED
    BY <1>6, <2>1, Zenon DEF Restore
<1>7. CASE DisableInterrupts
  BY <1>7, Zenon DEF DisableInterrupts, Cli, MayToggle
<1>8. CASE EnableInterrupts
  BY <1>8 DEF EnableInterrupts, Sti, MayToggle
<1>9. CASE Interrupt
  <2>1. depth' \in Context
    BY <1>9, DepthAssumption DEF Interrupt, Context
  <2> QED
    BY <1>9, <2>1, Zenon DEF Interrupt
<1>10. CASE Return
  <2>1. depth' \in Context
    BY <1>10, DepthAssumption DEF Return, Iretq, Context
  <2> QED
    BY <1>10, <2>1 DEF Return, Iretq
<1>11. CASE Panic
  <2>1. Len(guards[depth]) \in Nat
    OBVIOUS
  <2> QED
    BY <1>11, <2>1, Zenon DEF Panic
<1>12. CASE Fault
  <2>1. depth' \in Context
    BY <1>12, DepthAssumption DEF Fault, Context
  <2> QED
    BY <1>12, <2>1, Zenon DEF Fault
<1>13. CASE UNCHANGED vars
  BY <1>13 DEF vars
<1>14. QED
  BY <1>1, <1>2, <1>3, <1>4, <1>5, <1>6, <1>7, <1>8, <1>9, <1>10, <1>11, <1>12, <1>13
  DEF Next

\* Each step of the processor or of a call preserves the inductive invariant.
LEMMA Step == IInv /\ [Next]_vars => IInv'
<1> SUFFICES ASSUME IInv, [Next]_vars PROVE IInv'
  OBVIOUS
<1>0. TypeOK'
  BY TypeStep DEF IInv
<1> USE <1>0, DepthAssumption
<1>1. ASSUME NEW m \in Mutex, NEW entry \in {"lock", "try_lock"}, Begin(m, entry)
      PROVE  IInv'
  <2>1. /\ call'[depth] = [phase |-> entry, mutex |-> m, saved |-> intf]
        /\ \A d \in Context : d # depth => call'[d] = call[d]
    BY <1>1 DEF Begin, CallLock, IInv, TypeOK
  <2>2. UNCHANGED <<intf, depth, owner, guards, dead, floor, asked>>
    BY <1>1 DEF Begin, CallLock
  <2>3. (AboveFresh /\ FloorZero /\ CallNamesMutex)'
    <3>1. AboveFresh'
      <4> SUFFICES ASSUME NEW d \in Context, d > depth'
                   PROVE  guards'[d] = <<>> /\ call'[d].phase = "idle"
        BY DEF AboveFresh
      <4>1. d # depth /\ d > depth
        BY <2>1, <2>2 DEF IInv, TypeOK, Context
      <4> QED
        BY <4>1, <2>1, <2>2 DEF IInv, AboveFresh
    <3>2. FloorZero'
      BY <2>1, <2>2 DEF IInv, FloorZero
    <3>3. CallNamesMutex'
      BY <2>1, <2>2 DEF IInv, CallNamesMutex
    <3> QED
      BY <3>1, <3>2, <3>3
  <2>4. BelowInterruptible'
    <3> SUFFICES ASSUME ~ dead', NEW d \in Context, d < depth'
                 PROVE  /\ guards'[d] = <<>>
                        /\ call'[d].phase = "idle" \/ (Entering(call'[d]) /\ call'[d].saved)
                        /\ d = 1 /\ asked'
      BY DEF BelowInterruptible, Entering
    <3>1. d # depth /\ d < depth /\ ~ dead
      BY <2>1, <2>2 DEF IInv, TypeOK, Context
    <3> QED
      BY <3>1, <2>1, <2>2 DEF IInv, BelowInterruptible
  <2>5. (EnabledOutside /\ SavedByOutermost /\ FlagRestored)'
    BY <1>1, <2>1, <2>2
    DEF Begin, CallLock, IInv, TypeOK, Context, Running, Call, Idle, EnabledOutside, SavedByOutermost, Entering, FlagRestored, BelowInterruptible, AboveFresh
  <2>6. PanicSavesFalse'
    BY <1>1, <2>1, <2>2
    DEF Begin, CallLock, IInv, TypeOK, Context, Running, Call, Idle, PanicSavesFalse, AboveFresh, FloorZero
  <2>7. (NoRelock /\ OneGuardPerMutex)'
    <3>1. NoRelock'
      BY <1>1, <2>1, <2>2 DEF Begin, CallLock, IInv, NoRelock, Holds, Running
    <3>2. OneGuardPerMutex'
      BY <2>2 DEF IInv, OneGuardPerMutex, Holds
    <3> QED
      BY <3>1, <3>2
  <2> QED
    BY <1>0, <2>3, <2>4, <2>5, <2>6, <2>7 DEF IInv
<1>2. CASE Disable
  <2>1. (AboveFresh /\ FloorZero /\ CallNamesMutex)'
    BY <1>2
    DEF Disable, IInv, TypeOK, Context, Running, Call, Idle, AboveFresh, FloorZero, CallNamesMutex
  <2>2. BelowInterruptible'
    BY <1>2
    DEF Disable, IInv, TypeOK, Context, Running, Call, Idle, BelowInterruptible, AboveFresh, EnabledOutside, SavedByOutermost, Entering
  <2>3. (EnabledOutside /\ SavedByOutermost /\ FlagRestored)'
    BY <1>2
    DEF Disable, IInv, TypeOK, Context, Running, Call, Idle, EnabledOutside, SavedByOutermost, Entering, FlagRestored, BelowInterruptible, AboveFresh
  <2>4. PanicSavesFalse'
    BY <1>2
    DEF Disable, IInv, TypeOK, Context, Running, Call, Idle, PanicSavesFalse, AboveFresh, FloorZero
  <2>5. (NoRelock /\ OneGuardPerMutex)'
    BY <1>2
    DEF Disable, IInv, TypeOK, Context, Running, Call, Idle, NoRelock, OneGuardPerMutex, Holds, AboveFresh, BelowInterruptible
  <2> QED
    BY <1>0, <2>1, <2>2, <2>3, <2>4, <2>5 DEF IInv
<1>3. CASE Acquire
  <2> DEFINE n == Len(guards[depth])
             x == [mutex |-> Running.mutex, saved_intpt_flag |-> Running.saved]
  <2>1. guards[depth] \in Seq(Guard) /\ n \in Nat
    BY DEF IInv, TypeOK
  <2>2. x \in Guard /\ Running.mutex \in Mutex
    BY <1>3 DEF IInv, TypeOK, Acquire, CallNamesMutex, Running, Call, Guard
  <2>3. /\ guards'[depth] = Append(guards[depth], x)
        /\ \A d \in Context : d # depth => guards'[d] = guards[d]
    BY <1>3 DEF Acquire, IInv, TypeOK
  <2>4. /\ Len(guards'[depth]) = n + 1
        /\ guards'[depth][n + 1] = x
        /\ \A i \in 1 .. n : guards'[depth][i] = guards[depth][i]
        /\ guards'[depth] # <<>>
    BY <2>1, <2>2, <2>3
  <2>5. /\ call'[depth].phase = "idle"
        /\ \A d \in Context : d # depth => call'[d] = call[d]
        /\ UNCHANGED <<intf, depth, dead, floor, asked>>
    BY <1>3 DEF Acquire, IInv, TypeOK, Idle
  <2> HIDE DEF n, x
  <2>6. (AboveFresh /\ FloorZero /\ CallNamesMutex)'
    <3>1. AboveFresh'
      <4> SUFFICES ASSUME NEW d \in Context, d > depth'
                   PROVE  guards'[d] = <<>> /\ call'[d].phase = "idle"
        BY DEF AboveFresh
      <4>1. d # depth /\ d > depth
        BY <2>1, <2>2, <2>3, <2>4, <2>5 DEF IInv, TypeOK, Context
      <4> QED
        BY <4>1, <2>1, <2>2, <2>3, <2>4, <2>5 DEF IInv, AboveFresh
    <3>2. FloorZero'
      BY <2>1, <2>2, <2>3, <2>4, <2>5 DEF IInv, FloorZero
    <3>3. CallNamesMutex'
      BY <2>1, <2>2, <2>3, <2>4, <2>5 DEF IInv, CallNamesMutex
    <3> QED
      BY <3>1, <3>2, <3>3
  <2>7. BelowInterruptible'
    <3> SUFFICES ASSUME ~ dead', NEW d \in Context, d < depth'
                 PROVE  /\ guards'[d] = <<>>
                        /\ call'[d].phase = "idle" \/ (Entering(call'[d]) /\ call'[d].saved)
                        /\ d = 1 /\ asked'
      BY DEF BelowInterruptible, Entering
    <3>1. d # depth /\ d < depth /\ ~ dead
      BY <2>1, <2>2, <2>3, <2>4, <2>5 DEF IInv, TypeOK, Context
    <3> QED
      BY <3>1, <2>1, <2>2, <2>3, <2>4, <2>5 DEF IInv, BelowInterruptible
  <2>8. (EnabledOutside /\ SavedByOutermost /\ FlagRestored)'
    <3>1. ~ intf \/ dead
      BY <1>3 DEF Acquire, IInv, EnabledOutside, Entering
    <3>2. EnabledOutside'
      BY <2>5, <3>1 DEF EnabledOutside
    <3>3. ~ dead => \A i \in 1 .. n + 1 :
            guards'[depth][i].saved_intpt_flag = (i = 1 /\ depth = 1 /\ asked)
      <4> SUFFICES ASSUME ~ dead, NEW i \in 1 .. n + 1
                   PROVE  guards'[depth][i].saved_intpt_flag = (i = 1 /\ depth = 1 /\ asked)
        OBVIOUS
      <4>1. CASE i \in 1 .. n
        <5>1. n # 0 /\ (i = 1 => i \in 1 .. n)
          BY <2>1, <4>1
        <5> QED
          BY <2>4, <4>1 DEF IInv, SavedByOutermost, n
      <4>2. CASE i = n + 1
        <5>1. guards[depth] = <<>> <=> n = 0
          BY <2>1, EmptySeq DEF n
        <5>2. Running.saved = (n = 0 /\ depth = 1 /\ asked)
          BY <1>3, <5>1 DEF Acquire, IInv, SavedByOutermost
        <5> QED
          BY <2>1, <2>4, <4>2, <5>2 DEF x
      <4> QED
        BY <2>1, <4>1, <4>2
    <3>4. SavedByOutermost'
      BY <2>4, <2>5, <3>3 DEF SavedByOutermost, Entering, Running
    <3>5. FlagRestored'
      BY <2>4, <2>5 DEF FlagRestored
    <3> QED
      BY <3>2, <3>4, <3>5
  <2>9. PanicSavesFalse'
    <3> SUFFICES ASSUME dead
                 PROVE  \A i \in 1 .. n + 1 :
                          i > floor => ~ guards'[depth][i].saved_intpt_flag
      BY <2>4, <2>5 DEF IInv, PanicSavesFalse, Running
    <3>1. ~ Running.saved
      BY <1>3 DEF Acquire, IInv, PanicSavesFalse
    <3> TAKE i \in 1 .. n + 1
    <3>2. CASE i \in 1 .. n
      BY <2>4, <3>2 DEF IInv, PanicSavesFalse, n
    <3>3. CASE i = n + 1
      BY <2>4, <3>1, <3>3 DEF x
    <3> QED
      BY <2>1, <3>2, <3>3
  <2>10. (NoRelock /\ OneGuardPerMutex)'
    <3>1. \A e \in Context : ~ Holds(e, Running.mutex)
      BY <1>3, <2>2, DepthAssumption DEF Acquire, IInv, OneGuardPerMutex, Context
    <3>2. owner' = [owner EXCEPT ![Running.mutex] = depth]
      BY <1>3 DEF Acquire
    <3>3. \A k \in Mutex, e \in Context :
            Holds(e, k)' <=> Holds(e, k) \/ (e = depth /\ k = Running.mutex)
      <4> SUFFICES ASSUME NEW k \in Mutex, NEW e \in Context
                   PROVE  Holds(e, k)' <=> Holds(e, k) \/ (e = depth /\ k = Running.mutex)
        OBVIOUS
      <4>1. CASE e # depth
        BY <2>3, <4>1 DEF Holds
      <4>2. CASE e = depth
        <5>1. Holds(depth, k)' <=> \E i \in 1 .. n + 1 : guards'[depth][i].mutex = k
          BY <2>4, <2>5 DEF Holds
        <5>2. (\E i \in 1 .. n + 1 : guards'[depth][i].mutex = k)
              <=> (\E i \in 1 .. n : guards'[depth][i].mutex = k) \/ guards'[depth][n + 1].mutex = k
          BY <2>1
        <5>3. guards'[depth][n + 1].mutex = Running.mutex
          BY <2>4 DEF x
        <5> QED
          BY <2>4, <4>2, <5>1, <5>2, <5>3, Zenon DEF Holds, n
      <4> QED
        BY <4>1, <4>2
    <3>4. \A k \in Mutex, e \in Context : owner'[k] = e <=> Holds(e, k)'
      BY <2>2, <3>1, <3>2, <3>3 DEF IInv, TypeOK, OneGuardPerMutex
    <3>5. \A e \in Context : \A i, j \in 1 .. Len(guards'[e]) :
            guards'[e][i].mutex = guards'[e][j].mutex => i = j
      <4> SUFFICES ASSUME NEW e \in Context, NEW i \in 1 .. Len(guards'[e]),
                          NEW j \in 1 .. Len(guards'[e]),
                          guards'[e][i].mutex = guards'[e][j].mutex
                   PROVE  i = j
        OBVIOUS
      <4>1. CASE e # depth
        BY <2>3, <4>1 DEF IInv, OneGuardPerMutex
      <4>2. CASE e = depth
        <5>1. \A k \in 1 .. n : guards'[depth][k].mutex # guards'[depth][n + 1].mutex
          <6>1. ~ Holds(depth, Running.mutex)
            BY <3>1 DEF IInv, TypeOK
          <6> QED
            BY <2>4, <6>1 DEF Holds, x, n
        <5>2. i \in 1 .. n /\ j \in 1 .. n => i = j
          BY <2>4, <4>2 DEF IInv, OneGuardPerMutex, n
        <5> QED
          BY <2>1, <2>4, <4>2, <5>1, <5>2
      <4> QED
        BY <4>1, <4>2
    <3>6. NoRelock'
      BY <2>5 DEF NoRelock, Running
    <3> QED
      BY <2>5, <3>4, <3>5, <3>6 DEF OneGuardPerMutex
  <2> QED
    BY <1>0, <2>6, <2>7, <2>8, <2>9, <2>10 DEF IInv
<1>4. CASE Refuse
  <2>1. (AboveFresh /\ FloorZero /\ CallNamesMutex)'
    BY <1>4
    DEF Refuse, IInv, TypeOK, Context, Running, Call, Idle, AboveFresh, FloorZero, CallNamesMutex
  <2>2. BelowInterruptible'
    BY <1>4
    DEF Refuse, IInv, TypeOK, Context, Running, Call, Idle, BelowInterruptible, AboveFresh, EnabledOutside, SavedByOutermost, Entering
  <2>3. (EnabledOutside /\ SavedByOutermost /\ FlagRestored)'
    BY <1>4
    DEF Refuse, IInv, TypeOK, Context, Running, Call, Idle, EnabledOutside, SavedByOutermost, Entering, FlagRestored, BelowInterruptible, AboveFresh
  <2>4. PanicSavesFalse'
    BY <1>4
    DEF Refuse, IInv, TypeOK, Context, Running, Call, Idle, PanicSavesFalse, AboveFresh, FloorZero
  <2>5. (NoRelock /\ OneGuardPerMutex)'
    BY <1>4
    DEF Refuse, IInv, TypeOK, Context, Running, Call, Idle, NoRelock, OneGuardPerMutex, Holds, AboveFresh, BelowInterruptible
  <2> QED
    BY <1>0, <2>1, <2>2, <2>3, <2>4, <2>5 DEF IInv
<1>5. CASE Release
  <2> DEFINE n == Len(guards[depth])
             g == guards[depth][n]
  <2>1. guards[depth] \in Seq(Guard) /\ n \in Nat /\ n > 0 /\ g \in Guard
    BY <1>5 DEF IInv, TypeOK, Release
  <2>2. /\ guards'[depth] = SubSeq(guards[depth], 1, n - 1)
        /\ \A d \in Context : d # depth => guards'[d] = guards[d]
    BY <1>5 DEF Release, IInv, TypeOK
  <2>3. /\ Len(guards'[depth]) = n - 1
        /\ \A i \in 1 .. n - 1 : guards'[depth][i] = guards[depth][i]
        /\ guards'[depth] = <<>> <=> n = 1
    <3>1. /\ Len(guards'[depth]) = n - 1
          /\ \A i \in 1 .. n - 1 : guards'[depth][i] = guards[depth][i]
      BY <2>1, <2>2
    <3>2. guards'[depth] \in Seq(Guard)
      BY <2>1, <2>2
    <3> QED
      <4>1. \A s \in Seq(Guard) : s = <<>> <=> Len(s) = 0
        BY EmptySeq
      <4>2. guards'[depth] = <<>> <=> Len(guards'[depth]) = 0
        BY <3>2, <4>1
      <4>3. guards'[depth] = <<>> <=> n = 1
        BY <2>1, <3>1, <4>2
      <4> QED
        BY <3>1, <4>3
  <2>4. guards[depth] # <<>>
    BY <2>1
  <2>5. /\ call'[depth] = [phase |-> "restore", mutex |-> NoMutex, saved |-> g.saved_intpt_flag]
        /\ \A d \in Context : d # depth => call'[d] = call[d]
        /\ UNCHANGED <<intf, depth, dead, floor, asked>>
    BY <1>5 DEF Release, IInv, TypeOK
  <2> HIDE DEF n, g
  <2>6. (AboveFresh /\ FloorZero /\ CallNamesMutex)'
    <3>1. AboveFresh'
      BY <2>1, <2>2, <2>3, <2>4, <2>5, Zenon DEF IInv, TypeOK, Context, AboveFresh
    <3>2. FloorZero'
      BY <2>1, <2>2, <2>3, <2>4, <2>5 DEF IInv, FloorZero
    <3>3. CallNamesMutex'
      BY <2>1, <2>2, <2>3, <2>4, <2>5 DEF IInv, CallNamesMutex
    <3> QED
      BY <3>1, <3>2, <3>3
  <2>7. BelowInterruptible'
    <3> SUFFICES ASSUME ~ dead', NEW d \in Context, d < depth'
                 PROVE  /\ guards'[d] = <<>>
                        /\ call'[d].phase = "idle" \/ (Entering(call'[d]) /\ call'[d].saved)
                        /\ d = 1 /\ asked'
      BY DEF BelowInterruptible, Entering
    <3>1. d # depth /\ d < depth /\ ~ dead
      BY <2>1, <2>2, <2>3, <2>4, <2>5 DEF IInv, TypeOK, Context
    <3> QED
      BY <3>1, <2>1, <2>2, <2>3, <2>4, <2>5 DEF IInv, BelowInterruptible
  <2>8. (EnabledOutside /\ SavedByOutermost /\ FlagRestored)'
    <3>1. ~ intf \/ dead
      BY <2>4 DEF IInv, EnabledOutside
    <3>2. EnabledOutside'
      BY <2>5, <3>1 DEF EnabledOutside
    <3>3. ~ dead => \A i \in 1 .. n :
            guards[depth][i].saved_intpt_flag = (i = 1 /\ depth = 1 /\ asked)
      BY DEF IInv, SavedByOutermost, n
    <3>4. ~ dead => g.saved_intpt_flag = (guards'[depth] = <<>> /\ depth = 1 /\ asked)
      BY <2>1, <2>3, <3>3 DEF g
    <3>5. ~ dead => \A i \in 1 .. n - 1 :
            guards'[depth][i].saved_intpt_flag = (i = 1 /\ depth = 1 /\ asked)
      BY <2>1, <2>3, <3>3
    <3>6. SavedByOutermost'
      BY <2>3, <2>5, <3>4, <3>5 DEF SavedByOutermost, Entering, Running
    <3>7. FlagRestored'
      BY <2>5 DEF FlagRestored, Running
    <3> QED
      BY <3>2, <3>6, <3>7
  <2>9. PanicSavesFalse'
    <3> SUFFICES ASSUME dead
                 PROVE  /\ ~ g.saved_intpt_flag
                        /\ \A i \in 1 .. n - 1 :
                             i > floor => ~ guards'[depth][i].saved_intpt_flag
      BY <2>3, <2>5 DEF IInv, PanicSavesFalse, Running
    <3>1. n > floor
      BY <1>5 DEF Release, n
    <3>2. \A i \in 1 .. n : i > floor => ~ guards[depth][i].saved_intpt_flag
      BY DEF IInv, PanicSavesFalse, n
    <3> QED
      BY <2>1, <2>3, <3>1, <3>2 DEF g
  <2>10. (NoRelock /\ OneGuardPerMutex)'
    <3>1. owner' = [owner EXCEPT ![g.mutex] = 0] /\ g.mutex \in Mutex
      BY <1>5, <2>1 DEF Release, g, n, Guard
    <3>2. \A i \in 1 .. n - 1 : guards[depth][i].mutex # g.mutex
      BY <2>1 DEF IInv, TypeOK, OneGuardPerMutex, g, n
    <3>3. \A k \in Mutex, e \in Context :
            Holds(e, k)' <=> Holds(e, k) /\ ~ (e = depth /\ k = g.mutex)
      <4> SUFFICES ASSUME NEW k \in Mutex, NEW e \in Context
                   PROVE  Holds(e, k)' <=> Holds(e, k) /\ ~ (e = depth /\ k = g.mutex)
        OBVIOUS
      <4>1. CASE e # depth
        BY <2>2, <4>1 DEF Holds
      <4>2. CASE e = depth
        <5>1. Holds(e, k)' <=> \E i \in 1 .. n - 1 : guards[depth][i].mutex = k
          BY <2>3, <4>2 DEF Holds
        <5>2. (\E i \in 1 .. n : guards[depth][i].mutex = k)
              <=> (\E i \in 1 .. n - 1 : guards[depth][i].mutex = k) \/ g.mutex = k
          BY <2>1 DEF g
        <5> QED
          <6>1. Holds(depth, k) <=> \E i \in 1 .. n : guards[depth][i].mutex = k
            BY DEF Holds, n
          <6>2. k = g.mutex => ~ \E i \in 1 .. n - 1 : guards[depth][i].mutex = k
            BY <3>2
          <6> QED
            BY <4>2, <5>1, <5>2, <6>1, <6>2
      <4> QED
        BY <4>1, <4>2
    <3>4. Holds(depth, g.mutex)
      BY <2>1 DEF Holds, g, n
    <3>5. \A k \in Mutex, e \in Context : owner'[k] = e <=> Holds(e, k)'
      <4> SUFFICES ASSUME NEW k \in Mutex, NEW e \in Context
                   PROVE  owner'[k] = e <=> Holds(e, k)'
        OBVIOUS
      <4>1. owner[k] = e <=> Holds(e, k)
        BY DEF IInv, OneGuardPerMutex
      <4>2. Holds(e, k)' <=> Holds(e, k) /\ ~ (e = depth /\ k = g.mutex)
        BY <3>3
      <4>3. owner \in [Mutex -> 0 .. MaxDepth] /\ depth \in Context
        BY DEF IInv, TypeOK
      <4>4. CASE k # g.mutex
        <5>1. owner'[k] = owner[k]
          BY <3>1, <4>3, <4>4
        <5> QED
          BY <4>1, <4>2, <4>4, <5>1
      <4>5. CASE k = g.mutex
        <5>1. owner'[k] = 0
          BY <3>1, <4>3, <4>5
        <5>2. e # 0
          BY DepthAssumption DEF Context
        <5>3. owner[k] = depth
          BY <3>1, <3>4, <4>3, <4>5 DEF IInv, OneGuardPerMutex
        <5>4. ~ Holds(e, k)'
          BY <4>1, <4>2, <4>5, <5>3
        <5> QED
          BY <5>1, <5>2, <5>4
      <4> QED
        BY <4>4, <4>5
    <3>6. \A e \in Context : \A i, j \in 1 .. Len(guards'[e]) :
            guards'[e][i].mutex = guards'[e][j].mutex => i = j
      <4> SUFFICES ASSUME NEW e \in Context, NEW i \in 1 .. Len(guards'[e]),
                          NEW j \in 1 .. Len(guards'[e]),
                          guards'[e][i].mutex = guards'[e][j].mutex
                   PROVE  i = j
        OBVIOUS
      <4>1. CASE e # depth
        BY <2>2, <4>1 DEF IInv, OneGuardPerMutex
      <4>2. CASE e = depth
        <5>1. i \in 1 .. n - 1 /\ j \in 1 .. n - 1
          BY <2>3, <4>2
        <5>2. guards[depth][i].mutex = guards[depth][j].mutex
          BY <2>3, <4>2, <5>1
        <5> QED
          BY <2>1, <5>1, <5>2 DEF IInv, TypeOK, OneGuardPerMutex, n
      <4> QED
        BY <4>1, <4>2
    <3>7. NoRelock'
      BY <2>5 DEF NoRelock, Running
    <3> QED
      BY <2>5, <3>5, <3>6, <3>7 DEF OneGuardPerMutex
  <2> QED
    BY <1>0, <2>6, <2>7, <2>8, <2>9, <2>10 DEF IInv
<1>6. CASE Restore
  <2>1. (AboveFresh /\ FloorZero /\ CallNamesMutex)'
    BY <1>6
    DEF Restore, IInv, TypeOK, Context, Running, Call, Idle, AboveFresh, FloorZero, CallNamesMutex
  <2>2. BelowInterruptible'
    BY <1>6, Zenon
    DEF Restore, IInv, TypeOK, Context, Running, Call, Idle, BelowInterruptible, AboveFresh, EnabledOutside, SavedByOutermost, Entering
  <2>3. (EnabledOutside /\ SavedByOutermost /\ FlagRestored)'
    BY <1>6, Zenon
    DEF Restore, IInv, TypeOK, Context, Running, Call, Idle, EnabledOutside, SavedByOutermost, Entering, FlagRestored, BelowInterruptible, AboveFresh
  <2>4. PanicSavesFalse'
    BY <1>6
    DEF Restore, IInv, TypeOK, Context, Running, Call, Idle, PanicSavesFalse, AboveFresh, FloorZero
  <2>5. (NoRelock /\ OneGuardPerMutex)'
    BY <1>6
    DEF Restore, IInv, TypeOK, Context, Running, Call, Idle, NoRelock, OneGuardPerMutex, Holds, AboveFresh, BelowInterruptible
  <2> QED
    BY <1>0, <2>1, <2>2, <2>3, <2>4, <2>5 DEF IInv
<1>7. CASE DisableInterrupts
  <2>1. Len(guards[1]) = 0 /\ depth = 1
    BY <1>7 DEF DisableInterrupts, Cli, MayToggle
  <2>2. (AboveFresh /\ FloorZero /\ CallNamesMutex)'
    BY <1>7, <2>1
    DEF DisableInterrupts, Cli, MayToggle, IInv, TypeOK, Context, Running, Call, Idle, AboveFresh, FloorZero, CallNamesMutex
  <2>3. BelowInterruptible'
    BY <1>7, <2>1
    DEF DisableInterrupts, Cli, MayToggle, IInv, TypeOK, Context, Running, Call, Idle, BelowInterruptible, AboveFresh, EnabledOutside, SavedByOutermost, Entering
  <2>4. (EnabledOutside /\ SavedByOutermost /\ FlagRestored)'
    BY <1>7, <2>1
    DEF DisableInterrupts, Cli, MayToggle, IInv, TypeOK, Context, Running, Call, Idle, EnabledOutside, SavedByOutermost, Entering, FlagRestored, BelowInterruptible, AboveFresh
  <2>5. PanicSavesFalse'
    BY <1>7, <2>1
    DEF DisableInterrupts, Cli, MayToggle, IInv, TypeOK, Context, Running, Call, Idle, PanicSavesFalse, AboveFresh, FloorZero
  <2>6. (NoRelock /\ OneGuardPerMutex)'
    BY <1>7, <2>1
    DEF DisableInterrupts, Cli, MayToggle, IInv, TypeOK, Context, Running, Call, Idle, NoRelock, OneGuardPerMutex, Holds, AboveFresh, BelowInterruptible
  <2> QED
    BY <1>0, <2>2, <2>3, <2>4, <2>5, <2>6 DEF IInv
<1>8. CASE EnableInterrupts
  <2>1. Len(guards[1]) = 0 /\ depth = 1
    BY <1>8 DEF EnableInterrupts, Sti, MayToggle
  <2>2. (AboveFresh /\ FloorZero /\ CallNamesMutex)'
    BY <1>8, <2>1
    DEF EnableInterrupts, Sti, MayToggle, IInv, TypeOK, Context, Running, Call, Idle, AboveFresh, FloorZero, CallNamesMutex
  <2>3. BelowInterruptible'
    BY <1>8, <2>1
    DEF EnableInterrupts, Sti, MayToggle, IInv, TypeOK, Context, Running, Call, Idle, BelowInterruptible, AboveFresh, EnabledOutside, SavedByOutermost, Entering
  <2>4. (EnabledOutside /\ SavedByOutermost /\ FlagRestored)'
    <3>1. Running'.phase = "idle" /\ guards' = guards /\ depth' = 1 /\ intf' /\ asked'
      BY <1>8, <2>1 DEF EnableInterrupts, Sti, MayToggle, Running
    <3>2. guards[1] = <<>>
      BY <1>8 DEF EnableInterrupts, Sti, MayToggle
    <3>3. \A i \in 1 .. Len(guards[1]) : FALSE
      BY <2>1
    <3> QED
      BY <3>1, <3>2, <3>3, Zenon DEF EnabledOutside, SavedByOutermost, FlagRestored, Entering
  <2>5. PanicSavesFalse'
    BY <1>8, <2>1
    DEF EnableInterrupts, Sti, MayToggle, IInv, TypeOK, Context, Running, Call, Idle, PanicSavesFalse, AboveFresh, FloorZero
  <2>6. (NoRelock /\ OneGuardPerMutex)'
    BY <1>8, <2>1
    DEF EnableInterrupts, Sti, MayToggle, IInv, TypeOK, Context, Running, Call, Idle, NoRelock, OneGuardPerMutex, Holds, AboveFresh, BelowInterruptible
  <2> QED
    BY <1>0, <2>2, <2>3, <2>4, <2>5, <2>6 DEF IInv
<1>9. CASE Interrupt
  <2>1. ~ dead
    BY <1>9 DEF Interrupt, IInv, PanicSavesFalse
  <2>2. depth = 1 /\ depth' = 2 /\ asked /\ guards[1] = <<>>
    BY <2>1, <1>9 DEF Interrupt, IInv, EnabledOutside
  <2>3. (AboveFresh /\ FloorZero /\ CallNamesMutex)'
    BY <1>9, <2>1, <2>2
    DEF Interrupt, IInv, TypeOK, Context, Running, Call, Idle, AboveFresh, FloorZero, CallNamesMutex
  <2>4. BelowInterruptible'
    BY <1>9, <2>1, <2>2
    DEF Interrupt, IInv, TypeOK, Context, Running, Call, Idle, BelowInterruptible, AboveFresh, EnabledOutside, SavedByOutermost, Entering
  <2>5. (EnabledOutside /\ SavedByOutermost /\ FlagRestored)'
    BY <1>9, <2>1, <2>2
    DEF Interrupt, IInv, TypeOK, Context, Running, Call, Idle, EnabledOutside, SavedByOutermost, Entering, FlagRestored, BelowInterruptible, AboveFresh
  <2>6. PanicSavesFalse'
    BY <1>9, <2>1, <2>2
    DEF Interrupt, IInv, TypeOK, Context, Running, Call, Idle, PanicSavesFalse, AboveFresh, FloorZero
  <2>7. (NoRelock /\ OneGuardPerMutex)'
    BY <1>9, <2>1, <2>2
    DEF Interrupt, IInv, TypeOK, Context, Running, Call, Idle, NoRelock, OneGuardPerMutex, Holds, AboveFresh, BelowInterruptible
  <2> QED
    BY <1>0, <2>3, <2>4, <2>5, <2>6, <2>7 DEF IInv
<1>10. CASE Return
  <2>1. depth = 2 /\ depth' = 1
    <3>1. depth - 1 \in Context /\ depth - 1 < depth
      BY <1>10 DEF IInv, TypeOK, Context, Return, Iretq
    <3> QED
      <4>1. depth - 1 = 1
        BY <1>10, <3>1, Zenon DEF IInv, Return, Iretq, BelowInterruptible
      <4> QED
        BY <1>10, <4>1 DEF IInv, TypeOK, Context, Return, Iretq
  <2>2. /\ guards[1] = <<>> /\ asked
        /\ call[1].phase = "idle" \/ (Entering(call[1]) /\ call[1].saved)
    BY <1>10, <2>1 DEF IInv, TypeOK, Context, Return, Iretq, BelowInterruptible
  <2>3. Len(guards[1]) = 0
    BY <2>2
  <2>4. (AboveFresh /\ FloorZero /\ CallNamesMutex)'
    BY <1>10, <2>1, <2>2, <2>3
    DEF Return, Iretq, IInv, TypeOK, Context, Running, Call, Idle, AboveFresh, FloorZero, CallNamesMutex
  <2>5. BelowInterruptible'
    BY <1>10, <2>1, <2>2, <2>3
    DEF Return, Iretq, IInv, TypeOK, Context, Running, Call, Idle, BelowInterruptible, AboveFresh, EnabledOutside, SavedByOutermost, Entering
  <2>6. (EnabledOutside /\ SavedByOutermost /\ FlagRestored)'
    <3>1. /\ intf' /\ depth' = 1 /\ asked'
          /\ UNCHANGED <<guards, call, dead>>
      BY <1>10, <2>1, <2>2 DEF Return, Iretq
    <3>2. \A i \in 1 .. Len(guards[1]) : FALSE
      BY <2>3
    <3>3. EnabledOutside' /\ FlagRestored'
      BY <2>2, <3>1, Zenon DEF EnabledOutside, FlagRestored, Running, Entering
    <3>4. SavedByOutermost'
      BY <2>2, <3>1, <3>2, Zenon DEF SavedByOutermost, Running, Entering
    <3> QED
      BY <3>3, <3>4
  <2>7. PanicSavesFalse'
    BY <1>10, <2>1, <2>2, <2>3
    DEF Return, Iretq, IInv, TypeOK, Context, Running, Call, Idle, PanicSavesFalse, AboveFresh, FloorZero
  <2>8. (NoRelock /\ OneGuardPerMutex)'
    BY <1>10, <2>1, <2>2, <2>3
    DEF Return, Iretq, IInv, TypeOK, Context, Running, Call, Idle, NoRelock, OneGuardPerMutex, Holds, AboveFresh, BelowInterruptible
  <2> QED
    BY <1>0, <2>4, <2>5, <2>6, <2>7, <2>8 DEF IInv
<1>11. CASE Panic
  <2>1. (AboveFresh /\ FloorZero /\ CallNamesMutex)'
    BY <1>11
    DEF Panic, IInv, TypeOK, Context, Running, Call, Idle, AboveFresh, FloorZero, CallNamesMutex
  <2>2. BelowInterruptible'
    BY <1>11
    DEF Panic, IInv, TypeOK, Context, Running, Call, Idle, BelowInterruptible, AboveFresh, EnabledOutside, SavedByOutermost, Entering
  <2>3. (EnabledOutside /\ SavedByOutermost /\ FlagRestored)'
    BY <1>11
    DEF Panic, IInv, TypeOK, Context, Running, Call, Idle, EnabledOutside, SavedByOutermost, Entering, FlagRestored, BelowInterruptible, AboveFresh
  <2>4. PanicSavesFalse'
    BY <1>11
    DEF Panic, IInv, TypeOK, Context, Running, Call, Idle, PanicSavesFalse, AboveFresh, FloorZero
  <2>5. (NoRelock /\ OneGuardPerMutex)'
    BY <1>11
    DEF Panic, IInv, TypeOK, Context, Running, Call, Idle, NoRelock, OneGuardPerMutex, Holds, AboveFresh, BelowInterruptible
  <2> QED
    BY <1>0, <2>1, <2>2, <2>3, <2>4, <2>5 DEF IInv
<1>12. CASE Fault
  <2>1. (AboveFresh /\ FloorZero /\ CallNamesMutex)'
    BY <1>12
    DEF Fault, IInv, TypeOK, Context, Running, Call, Idle, AboveFresh, FloorZero, CallNamesMutex
  <2>2. BelowInterruptible'
    BY <1>12
    DEF Fault, IInv, TypeOK, Context, Running, Call, Idle, BelowInterruptible, AboveFresh, EnabledOutside, SavedByOutermost, Entering
  <2>3. (EnabledOutside /\ SavedByOutermost /\ FlagRestored)'
    BY <1>12
    DEF Fault, IInv, TypeOK, Context, Running, Call, Idle, EnabledOutside, SavedByOutermost, Entering, FlagRestored, BelowInterruptible, AboveFresh
  <2>4. PanicSavesFalse'
    BY <1>12
    DEF Fault, IInv, TypeOK, Context, Running, Call, Idle, PanicSavesFalse, AboveFresh, FloorZero
  <2>5. (NoRelock /\ OneGuardPerMutex)'
    BY <1>12
    DEF Fault, IInv, TypeOK, Context, Running, Call, Idle, NoRelock, OneGuardPerMutex, Holds, AboveFresh, BelowInterruptible
  <2> QED
    BY <1>0, <2>1, <2>2, <2>3, <2>4, <2>5 DEF IInv
<1>13. CASE UNCHANGED vars
  <2>1. (AboveFresh /\ FloorZero /\ CallNamesMutex)'
    BY <1>13
    DEF vars, IInv, TypeOK, Context, Running, Call, Idle, AboveFresh, FloorZero, CallNamesMutex
  <2>2. BelowInterruptible'
    BY <1>13, Zenon
    DEF vars, IInv, TypeOK, Context, Running, Call, Idle, BelowInterruptible, AboveFresh, EnabledOutside, SavedByOutermost, Entering
  <2>3. (EnabledOutside /\ SavedByOutermost /\ FlagRestored)'
    BY <1>13
    DEF vars, IInv, TypeOK, Context, Running, Call, Idle, EnabledOutside, SavedByOutermost, Entering, FlagRestored, BelowInterruptible, AboveFresh
  <2>4. PanicSavesFalse'
    BY <1>13
    DEF vars, IInv, TypeOK, Context, Running, Call, Idle, PanicSavesFalse, AboveFresh, FloorZero
  <2>5. (NoRelock /\ OneGuardPerMutex)'
    BY <1>13
    DEF vars, IInv, TypeOK, Context, Running, Call, Idle, NoRelock, OneGuardPerMutex, Holds, AboveFresh, BelowInterruptible
  <2> QED
    BY <1>0, <2>1, <2>2, <2>3, <2>4, <2>5 DEF IInv
<1>14. QED
  BY <1>1, <1>2, <1>3, <1>4, <1>5, <1>6, <1>7, <1>8, <1>9, <1>10, <1>11, <1>12, <1>13
  DEF Next

-----------------------------------------------------------------------------

\* The calls start from idle contexts, free locks and interrupts off.
LEMMA InitInvariant == Init => IInv
<1> SUFFICES ASSUME Init PROVE IInv
  OBVIOUS
<1> USE DepthAssumption DEF Init
<1>1. TypeOK
  <2>1. Idle \in Call
    BY DEF Idle, Call, Phase
  <2>2. <<>> \in Seq(Guard)
    OBVIOUS
  <2>3. 1 \in Context
    BY DEF Context
  <2>4. owner \in [Mutex -> 0 .. MaxDepth]
    OBVIOUS
  <2>5. guards \in [Context -> Seq(Guard)] /\ call \in [Context -> Call]
    BY <2>1, <2>2
  <2> QED
    BY <2>3, <2>4, <2>5, Zenon DEF TypeOK
<1>2. \A d \in Context : guards[d] = <<>> /\ Len(guards[d]) = 0 /\ call[d].phase = "idle"
  BY DEF Idle
<1>3. 1 \in Context
  BY DEF Context
<1>4. AboveFresh /\ FloorZero /\ CallNamesMutex
  BY <1>2 DEF AboveFresh, FloorZero, CallNamesMutex
<1>5. BelowInterruptible
  BY DEF BelowInterruptible, Context
<1>6. EnabledOutside /\ SavedByOutermost /\ FlagRestored
  <2>1. Running.phase = "idle" /\ \A i \in 1 .. Len(guards[depth]) : FALSE
    BY <1>2, <1>3 DEF Running
  <2> QED
    BY <2>1, Zenon DEF EnabledOutside, SavedByOutermost, FlagRestored, Entering
<1>7. PanicSavesFalse /\ NoRelock
  BY <1>2, <1>3 DEF PanicSavesFalse, NoRelock, Running
<1>8. OneGuardPerMutex
  <2>1. \A d \in Context : d # 0
    BY DEF Context
  <2> QED
    BY <1>2, <2>1 DEF OneGuardPerMutex, Holds
<1> QED
  BY <1>1, <1>4, <1>5, <1>6, <1>7, <1>8 DEF IInv

\* The inductive invariant holds in every reachable state.
THEOREM Invariance == Spec => []IInv
<1>1. Init => IInv
  BY InitInvariant
<1>2. IInv /\ [Next]_vars => IInv'
  BY Step
<1> QED
  BY <1>1, <1>2, PTL DEF Spec

\* Every variable has its type in every reachable state.
THEOREM TypeCorrect == Spec => []TypeOK
<1>1. IInv => TypeOK
  BY DEF IInv
<1> QED
  BY <1>1, Invariance, PTL

\* Whoever is about to take an inner lock finds it free: nobody else can hold
\* it, since a context that does not run was interrupted outside of its
\* critical sections.
LEMMA FreeWhenWanted == IInv => LockNeverSpins
<1> SUFFICES ASSUME IInv, Running.phase = "inner", owner[Running.mutex] # 0
             PROVE  FALSE
  BY DEF LockNeverSpins
<1> DEFINE e == owner[Running.mutex]
<1>1. Running.mutex \in Mutex /\ depth \in Context
  BY DEF IInv, TypeOK, CallNamesMutex, Running
<1>2. e \in Context
  BY <1>1, DepthAssumption DEF IInv, TypeOK, Context
<1>3. Holds(e, Running.mutex)
  BY <1>1, <1>2 DEF IInv, OneGuardPerMutex
<1>4. ~ dead
  BY DEF IInv, PanicSavesFalse
<1>5. e # depth
  BY <1>3 DEF IInv, NoRelock
<1>6. e < depth \/ e > depth
  BY <1>1, <1>2, <1>5, DepthAssumption DEF Context
<1>7. guards[e] = <<>>
  BY <1>2, <1>4, <1>6 DEF IInv, AboveFresh, BelowInterruptible
<1> QED
  BY <1>3, <1>7 DEF Holds

\* lock() never has to wait, for any number of mutexes and handlers.
THEOREM NoSpin == Spec => []LockNeverSpins
BY FreeWhenWanted, Invariance, PTL

\* Until a panic, the context that holds an IrqMutex is the one that runs, with
\* interrupts off.
THEOREM HolderRuns == Spec => []HolderRunsMasked
<1>1. IInv => HolderRunsMasked
  <2> SUFFICES ASSUME IInv, ~ dead, NEW m \in Mutex, owner[m] # 0
               PROVE  owner[m] = depth /\ ~ intf
    BY DEF HolderRunsMasked
  <2>1. owner[m] \in Context /\ depth \in Context
    BY DepthAssumption DEF IInv, TypeOK, Context
  <2>2. Holds(owner[m], m)
    BY <2>1 DEF IInv, OneGuardPerMutex
  <2>3. guards[owner[m]] # <<>>
    BY <2>2 DEF Holds
  <2>4. ~ (owner[m] < depth) /\ ~ (owner[m] > depth)
    BY <2>1, <2>3 DEF IInv, AboveFresh, BelowInterruptible
  <2>5. owner[m] = depth
    BY <2>1, <2>4, DepthAssumption DEF Context
  <2> QED
    BY <2>3, <2>5 DEF IInv, EnabledOutside
<1> QED
  BY <1>1, Invariance, PTL

\* The inner locks and the live guards agree, one guard for each taken lock.
THEOREM GuardsExclusive == Spec => []OneGuardPerMutex
<1>1. IInv => OneGuardPerMutex
  BY DEF IInv
<1> QED
  BY <1>1, Invariance, PTL

\* From the first panic on, interrupts are off for good.
THEOREM PanicMasked == Spec => []PanicStaysMasked
<1>1. IInv => PanicStaysMasked
  BY DEF IInv, PanicSavesFalse, PanicStaysMasked
<1> QED
  BY <1>1, Invariance, PTL

\* Nested and failed critical sections restore the interrupt flag.
THEOREM FlagTransparent == Spec => []FlagRestored
<1>1. IInv => FlagRestored
  BY DEF IInv
<1> QED
  BY <1>1, Invariance, PTL

=============================================================================
