----------------------------- MODULE HeapProofs -----------------------------
(***************************************************************************)
(* The buddy allocator as its callers see it: free memory is merged as far *)
(* as it can be, BuddyBlock implements the abstract allocator, and the     *)
(* commands of the shell keep and find their memory.                       *)
(***************************************************************************)
EXTENDS BuddyProofs, Shell

\* No unit of block i of level k is held by an allocation.
Unheld(k, i) == \A u \in 0 .. info.units - 1 : At(u, k) = i => Holders(live, u) = {}

\* That block, or one it is part of, is set in the bitmaps.
Listed(k, i) == \E l \in Levels : l >= k /\ At(i * Pow2[k], l) \in bits[l]

\* The first unit of a block lies in it, and in the chunk if the block does.
LEMMA FirstIn ==
  ASSUME NEW k \in Nat, NEW i \in Nat
  PROVE  /\ i * Pow2[k] \in Nat /\ At(i * Pow2[k], k) = i
         /\ k \in Levels /\ i < Blocks(k) => i * Pow2[k] \in 0 .. info.units - 1
<1> DEFINE v == i * Pow2[k]
<1>1. v \in Nat /\ At(v, k) = i
  <2>1. v \in Nat /\ At(v, k) = i * Pow2[k - k]
    BY FirstUnit
  <2>2. Pow2[k - k] = 1
    BY Pow2Def
  <2> QED
    BY <2>1, <2>2
<1> HIDE DEF v
<1>2. ASSUME k \in Levels, i < Blocks(k) PROVE v \in 0 .. info.units - 1
  <2>1. info.units \in Nat /\ At(v, k) < At(info.units, k)
    BY <1>1, <1>2, LevelFacts, Geometry
  <2>2. At(v, 0) < At(info.units, 0)
    BY <1>1, <2>1, AtBelow
  <2> QED
    BY <1>1, <2>1, <2>2, AtZero
<1> QED
  BY <1>1, <1>2 DEF v

\* The two halves of a block, as alloc splits it, hold its units.
LEMMA Halves ==
  ASSUME NEW k \in Nat, k + 1 \in Levels, NEW i \in Nat, i < Blocks(k + 1), Unheld(k + 1, i)
  PROVE  /\ k \in Levels
         /\ 2 * i < Blocks(k) /\ 2 * i + 1 < Blocks(k) /\ Buddy(2 * i) = 2 * i + 1
         /\ Unheld(k, 2 * i) /\ Unheld(k, 2 * i + 1)
<1>1. k \in Levels /\ info.units \in Nat
  BY LevelFacts, Geometry
<1>2. /\ Blocks(k) \in Nat /\ Blocks(k) = At(info.units, k) /\ Blocks(k + 1) = At(info.units, k + 1)
  BY <1>1, LevelFacts
<1>3. i < Blocks(k) \div 2
  <2>1. At(info.units, k + 1) = At(info.units, k) \div 2
    BY <1>1, AtNext, Zenon
  <2> QED
    BY <1>2, <2>1
<1>4. 2 * i < Blocks(k) /\ 2 * i + 1 < Blocks(k)
  BY <1>2, <1>3
<1>5. Buddy(2 * i) = 2 * i + 1
  BY DEF Buddy
<1>6. ASSUME NEW u \in 0 .. info.units - 1, At(u, k) = 2 * i \/ At(u, k) = 2 * i + 1
      PROVE  Holders(live, u) = {}
  <2>0. u \in Nat
    BY <1>1
  <2>1. At(u, k) \in Nat /\ At(u, k + 1) = At(u, k) \div 2
    BY <2>0, AtNext, Zenon
  <2>2. At(u, k + 1) = i
    BY <1>6, <2>1
  <2> QED
    BY <1>6, <2>2 DEF Unheld
<1> QED
  BY <1>1, <1>4, <1>5, <1>6 DEF Unheld

\* dealloc leaves no two buddies set, so a block none of whose units is held is set
\* in the bitmaps or is part of one that is.
LEMMA Contained ==
  ASSUME BInv, NEW k \in Levels, NEW i \in Nat, i < Blocks(k), Unheld(k, i)
  PROVE  Listed(k, i)
<1> DEFINE N == info.levels - 1
           S == {n \in Nat : \A j \in Nat : n \in Levels /\ j < Blocks(n) /\ Unheld(n, j) => Listed(n, j)}
<1>0. info.levels \in Nat \ {0} /\ GoodBits(bits)
  BY Geometry DEF BInv
<1>1. 0 \in S
  <2>1. ASSUME NEW j \in Nat, 0 \in Levels, j < Blocks(0), Unheld(0, j) PROVE Listed(0, j)
    <3>1. j * Pow2[0] \in 0 .. info.units - 1 /\ At(j * Pow2[0], 0) = j
      BY <2>1, FirstIn
    <3>2. Holders(live, j * Pow2[0]) = {}
      BY <2>1, <3>1 DEF Unheld
    <3>3. Covered(bits, Holders(live, j * Pow2[0]), j * Pow2[0])
      BY <3>1 DEF BInv
    <3>4. PICK l \in Levels : FreeAt(bits, j * Pow2[0]) = {l}
      BY <3>2, <3>3 DEF Covered
    <3>5. l >= 0 /\ At(j * Pow2[0], l) \in bits[l]
      BY <3>4, LevelFacts DEF FreeAt
    <3> QED
      BY <3>5 DEF Listed
  <2> QED
    BY <2>1
<1>2. ASSUME NEW n \in S PROVE n + 1 \in S
  <2>1. ASSUME NEW j \in Nat, n + 1 \in Levels, j < Blocks(n + 1), Unheld(n + 1, j)
        PROVE  Listed(n + 1, j)
    <3>0. n \in Nat /\ n + 1 \in Nat
      BY <1>2
    <3>1. /\ n \in Levels /\ 2 * j < Blocks(n) /\ 2 * j + 1 < Blocks(n) /\ Buddy(2 * j) = 2 * j + 1
          /\ Unheld(n, 2 * j) /\ Unheld(n, 2 * j + 1)
      BY <2>1, <3>0, Halves
    <3>2. Listed(n, 2 * j) /\ Listed(n, 2 * j + 1)
      BY <1>2, <3>1
    <3> DEFINE v == (2 * j) * Pow2[n]
               w == (2 * j + 1) * Pow2[n]
               z == j * Pow2[n + 1]
    <3>3. v \in Nat /\ w \in Nat /\ At(v, n) = 2 * j /\ At(w, n) = 2 * j + 1
      <4>1. 2 * j \in Nat /\ 2 * j + 1 \in Nat
        OBVIOUS
      <4> QED
        BY <3>0, <4>1, FirstIn
    <3>4. z \in Nat /\ At(z, n + 1) = j
      BY <3>0, FirstIn
    <3>5. PICK x \in Levels : x >= n /\ At(v, x) \in bits[x]
      BY <3>2 DEF Listed
    <3>6. PICK y \in Levels : y >= n /\ At(w, y) \in bits[y]
      BY <3>2 DEF Listed
    <3> HIDE DEF v, w, z
    <3>7. At(v, n + 1) = At(z, n + 1) /\ At(w, n + 1) = At(z, n + 1)
      <4>1. At(v, n + 1) = At(v, n) \div 2 /\ At(w, n + 1) = At(w, n) \div 2
        BY <3>0, <3>3, AtNext
      <4>2. (2 * j) \div 2 = j /\ (2 * j + 1) \div 2 = j
        OBVIOUS
      <4> QED
        BY <3>3, <3>4, <4>1, <4>2
    <3>8. x \in Nat /\ y \in Nat
      BY LevelFacts
    <3>9. x # n \/ y # n
      <4>1. n + 1 < info.levels
        BY <2>1, LevelFacts
      <4> QED
        BY <1>0, <3>1, <3>3, <3>5, <3>6, <4>1 DEF GoodBits
    <3>10. CASE x # n
      <4>1. x >= n + 1
        BY <3>0, <3>5, <3>8, <3>10
      <4>2. At(z, x) = At(v, x)
        BY <3>0, <3>3, <3>4, <3>7, <3>8, <4>1, AtShared
      <4> QED
        BY <3>5, <4>1, <4>2 DEF Listed, z
    <3>11. CASE y # n
      <4>1. y >= n + 1
        BY <3>0, <3>6, <3>8, <3>11
      <4>2. At(z, y) = At(w, y)
        BY <3>0, <3>3, <3>4, <3>7, <3>8, <4>1, AtShared
      <4> QED
        BY <3>6, <4>1, <4>2 DEF Listed, z
    <3> QED
      BY <3>9, <3>10, <3>11
  <2> QED
    BY <1>2, <2>1
<1>3. S = Nat
  <2>1. S \subseteq Nat
    OBVIOUS
  <2> HIDE DEF S
  <2> QED
    BY <1>1, <1>2, <2>1, SetInduction, Zenon
<1>4. k \in S
  BY <1>3, LevelFacts
<1> QED
  BY <1>4

\* A block that is set lies in no larger block that is set.
LEMMA ListedAlone ==
  ASSUME BInv, NEW l \in Levels, NEW i \in bits[l], NEW m \in Levels, m # l
  PROVE  i \in Nat /\ i < Blocks(l) /\ At(i * Pow2[l], m) \notin bits[m]
<1> DEFINE v == i * Pow2[l]
<1>1. l \in Nat /\ i \in Nat /\ i < Blocks(l)
  BY LevelFacts, BitsFinite, Zenon DEF BInv, GoodBits
<1>2. v \in 0 .. info.units - 1 /\ At(v, l) = i
  BY <1>1, FirstIn
<1> HIDE DEF v
<1>3. Covered(bits, Holders(live, v), v)
  BY <1>2 DEF BInv
<1>4. l \in FreeAt(bits, v)
  BY <1>2 DEF FreeAt
<1>5. m \notin FreeAt(bits, v)
  BY <1>3, <1>4 DEF Covered
<1> QED
  BY <1>1, <1>5 DEF FreeAt, v

\* With nothing handed out the bitmaps are those that BuddyBlock::new set.
LEMMA Restored ==
  ASSUME BInv, live = {}, NEW l \in Levels
  PROVE  bits[l] = InitialBits(l)
<1> DEFINE n == Blocks(l)
<1>0. l \in Nat /\ l + 1 \in Nat /\ info.units \in Nat /\ Levels \subseteq Nat
  BY LevelFacts, Geometry
<1>1. n \in Nat /\ n = At(info.units, l)
  BY <1>0, LevelFacts
<1>2. Blocks(l + 1) = n \div 2 /\ Blocks(l + 1) = At(info.units, l + 1)
  BY <1>0, <1>1, LevelFacts, AtNext, Zenon
<1>3. \A k, j : Unheld(k, j)
  BY DEF Unheld, Holders
<1>4. ASSUME NEW i \in bits[l] PROVE i \in Nat /\ i < n /\ ~ (i \div 2 < n \div 2)
  <2>1. i \in Nat /\ i < n
    BY <1>4, BitsFinite DEF BInv, GoodBits
  <2>2. ASSUME i \div 2 < n \div 2 PROVE FALSE
    <3> DEFINE p == i \div 2
               z == p * Pow2[l + 1]
               v == i * Pow2[l]
    <3>1. p \in Nat /\ p < Blocks(l + 1)
      BY <1>2, <2>1, <2>2
    <3>2. l + 1 \in Levels
      BY <1>0, <1>2, <3>1, LevelFacts
    <3> HIDE DEF p
    <3>3. PICK m \in Levels : m >= l + 1 /\ At(z, m) \in bits[m]
      BY <1>3, <3>1, <3>2, Contained DEF Listed
    <3>4. z \in Nat /\ At(z, l + 1) = p
      BY <1>0, <3>1, FirstIn
    <3>5. v \in Nat /\ At(v, l) = i
      BY <1>0, <2>1, FirstIn
    <3>6. m \in Nat /\ m # l
      BY <1>0, <3>3
    <3>7. At(v, m) \notin bits[m]
      BY <1>4, <3>6, ListedAlone
    <3> HIDE DEF z, v
    <3>8. At(v, l + 1) = At(z, l + 1)
      BY <1>0, <3>4, <3>5, AtNext DEF p
    <3>9. At(v, m) = At(z, m)
      BY <1>0, <3>3, <3>4, <3>5, <3>6, <3>8, AtShared
    <3> QED
      BY <3>3, <3>7, <3>9
  <2> QED
    BY <2>1, <2>2
<1>5. ASSUME n % 2 # 0 PROVE n - 1 \in bits[l]
  <2> DEFINE i == n - 1
             v == i * Pow2[l]
  <2>1. i \in Nat /\ i < n /\ ~ (i \div 2 < n \div 2)
    BY <1>1, <1>5
  <2>2. PICK m \in Levels : m >= l /\ At(v, m) \in bits[m]
    BY <1>3, <2>1, Contained DEF Listed
  <2>3. v \in Nat /\ At(v, l) = i
    BY <1>0, <2>1, FirstIn
  <2> HIDE DEF v
  <2>4. m \in Nat /\ At(v, m) < At(info.units, m)
    <3>1. At(v, m) < Blocks(m)
      BY <2>2 DEF BInv, GoodBits
    <3> QED
      BY <1>0, <3>1, LevelFacts
  <2>5. ASSUME m # l PROVE FALSE
    <3>1. m >= l + 1
      BY <1>0, <2>2, <2>4, <2>5
    <3>2. At(v, l + 1) < At(info.units, l + 1)
      BY <1>0, <2>3, <2>4, <3>1, AtBelow
    <3>3. At(v, l + 1) = i \div 2
      BY <1>0, <2>3, AtNext
    <3> QED
      BY <1>2, <2>1, <3>2, <3>3
  <2> QED
    BY <2>2, <2>3, <2>5
<1> HIDE DEF n
<1>6. \A i \in Nat : i < n /\ ~ (i \div 2 < n \div 2) => i = n - 1 /\ n % 2 # 0
  BY <1>1
<1>7. InitialBits(l) = IF n % 2 # 0 THEN {n - 1} ELSE {}
  BY DEF InitialBits, n
<1>8. CASE n % 2 # 0
  <2>1. n - 1 \in bits[l] /\ \A i \in bits[l] : i = n - 1
    BY <1>4, <1>5, <1>6, <1>8
  <2> QED
    BY <1>7, <1>8, <2>1
<1>9. CASE n % 2 = 0
  BY <1>4, <1>6, <1>7, <1>9, Zenon
<1> QED
  BY <1>8, <1>9

\* Free memory is merged as far as it can be, for every chunk: after every sequence
\* of alloc and dealloc no two buddies are both free, and once everything has been
\* returned the bitmaps are those of a new allocator.
THEOREM Merged == Spec => []Coalesced
<1>1. BInv => Coalesced
  BY Restored DEF BInv, GoodBits, Coalesced
<1> QED
  BY BlockInvariance, <1>1, PTL

-----------------------------------------------------------------------------
\* BuddyBlock implements BlockAllocator.

\* The abstract allocator and the bitmaps mean the same units by a block.
LEMMA SameUnits == \A b : Allocator!Units(b) = UnitsOf(b.level, b.index)
<1>1. Allocator!Pow2 = Pow2
  BY Zenon DEF Pow2, Allocator!Pow2
<1> QED
  BY <1>1, Zenon DEF Allocator!Units, UnitsOf

\* The units of the block behind an allocation, as the abstract allocator sees them.
LEMMA UnitsOn ==
  ASSUME NEW a, Good(a), NEW u
  PROVE  u \in Allocator!Units(BlockOf(a)) <=> u \in Nat /\ On(u, a)
<1>1. Fit(a) \in Nat /\ Index(a) \in Nat /\ BlockOf(a) = [level |-> Fit(a), index |-> Index(a)]
  BY GoodUnits
<1>2. Allocator!Units(BlockOf(a)) = UnitsOf(Fit(a), Index(a))
  BY <1>1, SameUnits
<1>3. UnitsOf(Fit(a), Index(a)) \subseteq Nat
  <2>1. \A x, y \in Nat : x * y \in Nat
    OBVIOUS
  <2>2. Index(a) * Pow2[Fit(a)] \in Nat
    BY <1>1, <2>1, Pow2Def
  <2> QED
    BY <2>2 DEF UnitsOf
<1>4. u \in Nat => (u \in UnitsOf(Fit(a), Index(a)) <=> On(u, a))
  BY <1>1, InBlock DEF On
<1> QED
  BY <1>2, <1>3, <1>4

\* The None of alloc, as the abstract allocator sees it.
LEMMA NoneIs ==
  ASSUME NEW len \in Nat
  PROVE  /\ BlockOf(None(len)).index = info.units
         /\ BlockOf(None(len)) = Allocator!None(Min({bitmap_index_for_size(AlignedLen(len)), info.levels}))
BY Zenon DEF BlockOf, None, Allocator!None

\* A new BuddyBlock is an abstract allocator with nothing handed out.
LEMMA InitMaps == Init => Allocator!Init
<1> SUFFICES ASSUME Init PROVE Allocator!Init
  OBVIOUS
<1>1. live = {} /\ ret = None(0)
  BY DEF Init
<1>2. AlignedLen(0) = 0
  <2>1. UNIT_SIZE \in Nat \ {0}
    BY Geometry
  <2>2. (0 + UNIT_SIZE - 1) \div UNIT_SIZE = 0
    <3>1. 0 + UNIT_SIZE - 1 \in Nat /\ 0 * UNIT_SIZE <= 0 + UNIT_SIZE - 1
          /\ 0 + UNIT_SIZE - 1 < 0 * UNIT_SIZE + UNIT_SIZE
      BY <2>1
    <3> QED
      BY <2>1, <3>1, DivUnique
  <2>3. 0 * UNIT_SIZE = 0
    BY <2>1
  <2> QED
    BY <2>2, <2>3, Zenon DEF AlignedLen, div_ceil
<1>3. bitmap_index_for_size(0) = 0
  <2>1. UNIT_SIZE * Pow2[0] >= 0
    BY Geometry, Pow2Def
  <2>2. 0 .. 0 = {0}
    OBVIOUS
  <2> QED
    BY <2>1, <2>2 DEF bitmap_index_for_size
<1>4. Min({0, info.levels}) = 0
  <2>1. {0, info.levels} \subseteq Nat /\ {0, info.levels} # {}
    BY Geometry
  <2>2. Min({0, info.levels}) \in {0, info.levels} /\ \A y \in {0, info.levels} : Min({0, info.levels}) <= y
    BY <2>1, MinIsLeast, Zenon
  <2> QED
    BY <2>1, <2>2
<1>5. BlockOf(ret) = Allocator!None(0)
  <2>1. BlockOf(None(0)) = Allocator!None(Min({bitmap_index_for_size(AlignedLen(0)), info.levels}))
    BY NoneIs
  <2> QED
    BY <1>1, <1>2, <1>3, <1>4, <2>1, Zenon
<1> QED
  BY <1>1, <1>5 DEF Allocator!Init

\* alloc that finds a block hands out a free block of the level that fits.
LEMMA TakenMaps ==
  ASSUME BInv, NEW f \in Nat, NEW a, Taken(a, f)
  PROVE  Allocator!Next
<1> DEFINE b == BlockOf(a)
<1>0. Good(a) /\ Fit(a) = f /\ \A c \in live : Good(c)
  BY DEF Taken, BInv
<1>1. b = [level |-> f, index |-> Index(a)] /\ Index(a) \in Nat
  BY <1>0, GoodUnits
<1>2. f \in 0 .. info.levels - 1 /\ Index(a) \in 0 .. info.units - 1
  <2>1. f \in Levels /\ Index(a) < Blocks(f)
    BY <1>0 DEF Good
  <2>2. Blocks(f) <= info.units /\ Blocks(f) \in Nat /\ info.units \in Nat
    BY FewerBlocks, LevelFacts, Geometry
  <2> QED
    BY <1>1, <2>1, <2>2 DEF Levels
<1>3. b \in Allocator!Block
  BY <1>1, <1>2 DEF Allocator!Block
<1>4. Allocator!Units(b) \subseteq 0 .. info.units - 1
  BY <1>0, UnitsOn, GoodUnits, Zenon
<1>5. ASSUME NEW c \in live, NEW u, u \in Allocator!Units(b), u \in Allocator!Units(BlockOf(c))
      PROVE  FALSE
  <2>1. u \in 0 .. info.units - 1 /\ On(u, a) /\ On(u, c)
    BY <1>0, <1>4, <1>5, UnitsOn
  <2>2. Holders(live, u) = {}
    BY <2>1 DEF Taken
  <2> QED
    BY <1>5, <2>1, <2>2 DEF Holders
<1>6. Allocator!Free(b)
  BY <1>4, <1>5 DEF Allocator!Free, Allocator!Disjoint
<1>7. {BlockOf(c) : c \in live'} = {BlockOf(c) : c \in live} \cup {b}
  BY DEF Taken
<1>8. BlockOf(ret') = b /\ b.level = f
  BY <1>1 DEF Taken
<1> HIDE DEF b
<1>9. {BlockOf(c) : c \in live}' = {BlockOf(c) : c \in live} \cup {b} /\ BlockOf(ret)' = b
  BY <1>7, <1>8, Zenon DEF BlockOf
<1>10. Allocator!Alloc(f)
  BY <1>3, <1>6, <1>8, <1>9 DEF Allocator!Alloc
<1>11. f \in 0 .. info.levels
  BY <1>2, Geometry
<1> QED
  BY <1>10, <1>11 DEF Allocator!Next

\* alloc answers None only if no block of the level that fits is free.
LEMMA RefusedMaps ==
  ASSUME BInv, NEW len \in Nat \ {0}, Fitting(bitmap_index_for_size(AlignedLen(len))) = {},
         ret' = None(len), live' = live
  PROVE  Allocator!Next
<1> DEFINE f == bitmap_index_for_size(AlignedLen(len))
           m == Min({f, info.levels})
<1>0. f \in Nat /\ info.levels \in Nat \ {0} /\ info.units \in Nat
  <2>1. div_ceil(len, UNIT_SIZE) \in Nat \ {0} /\ AlignedLen(len) = div_ceil(len, UNIT_SIZE) * UNIT_SIZE
    BY Rounded
  <2> QED
    BY <2>1, FitLevel, Geometry
<1>1. Fitting(f) = {} /\ BlockOf(ret') = Allocator!None(m)
  BY NoneIs, Zenon
<1> HIDE DEF f
<1>2. m \in 0 .. info.levels /\ (m < info.levels => m = f)
  <2>1. {f, info.levels} \subseteq Nat /\ {f, info.levels} # {}
    BY <1>0
  <2>2. m \in {f, info.levels} /\ \A y \in {f, info.levels} : m <= y
    BY <2>1, MinIsLeast, Zenon
  <2> HIDE DEF m
  <2> QED
    BY <1>0, <2>2
<1> HIDE DEF m
<1>3. \A l \in Levels : l >= f => bits[l] = {}
  <2>1. ASSUME NEW l \in Levels, l >= f PROVE bits[l] = {}
    <3>1. count[l] = 0
      BY <1>1, <2>1 DEF Fitting
    <3>2. count[l] = Cardinality(bits[l]) /\ IsFiniteSet(bits[l])
      BY <2>1, BitsFinite, Zenon DEF BInv
    <3> QED
      BY <3>1, <3>2, FS_EmptySet
  <2> QED
    BY <2>1
<1>4. ASSUME NEW b \in Allocator!Block, b.level = m, Allocator!Free(b) PROVE FALSE
  <2> DEFINE i == b.index
             p == Pow2[f]
  <2>1. i \in Nat /\ m < info.levels /\ m = f /\ f \in Levels
    BY <1>0, <1>2, <1>4 DEF Allocator!Block, Levels
  <2>2. p \in Nat \ {0}
    BY <1>0, Pow2Def
  <2>3. Allocator!Units(b) = UnitsOf(f, i)
    BY <1>4, <2>1, SameUnits
  <2>4. UnitsOf(f, i) = i * p .. (i + 1) * p - 1
    BY DEF UnitsOf
  <2> HIDE DEF i, p
  <2>5. (i + 1) * p \in Nat /\ i * p \in Nat /\ (i + 1) * p = i * p + p
    BY <2>1, <2>2
  <2>6. (i + 1) * p <= info.units
    <3>1. (i + 1) * p - 1 \in UnitsOf(f, i)
      BY <2>2, <2>4, <2>5
    <3>2. (i + 1) * p - 1 \in 0 .. info.units - 1
      BY <1>4, <2>3, <3>1 DEF Allocator!Free
    <3> QED
      BY <1>0, <2>5, <3>2
  <2>7. i < Blocks(f)
    <3> DEFINE q == info.units \div p
    <3>1. q \in Nat /\ info.units < q * p + p
      BY <1>0, <2>2, DivBounds, Zenon
    <3>2. Blocks(f) = q
      BY <1>0, LevelFacts DEF At, p
    <3> HIDE DEF q
    <3>3. i * p < q * p + p - p
      BY <1>0, <2>2, <2>5, <2>6, <3>1
    <3>4. ASSUME ~ (i < q) PROVE FALSE
      <4>1. q * p <= i * p /\ q * p \in Nat
        BY <2>1, <2>2, <3>1, <3>4
      <4> QED
        BY <2>2, <2>5, <3>3, <4>1
    <3> QED
      BY <3>2, <3>4
  <2>8. ASSUME NEW u \in 0 .. info.units - 1, At(u, f) = i PROVE Holders(live, u) = {}
    <3>1. u \in Nat /\ u \in Allocator!Units(b)
      BY <1>0, <2>1, <2>3, <2>8, InBlock
    <3>2. ASSUME NEW c \in Holders(live, u) PROVE FALSE
      <4>1. c \in live /\ On(u, c) /\ Good(c)
        BY <3>2 DEF Holders, BInv
      <4>2. u \in Allocator!Units(BlockOf(c))
        BY <3>1, <4>1, UnitsOn
      <4>3. BlockOf(c) \in {BlockOf(x) : x \in live}
        BY <4>1
      <4>4. Allocator!Disjoint(b, BlockOf(c))
        BY <1>4, <4>3 DEF Allocator!Free
      <4> QED
        BY <3>1, <4>2, <4>4 DEF Allocator!Disjoint
    <3> QED
      BY <3>2
  <2>9. Listed(f, i)
    BY <2>1, <2>7, <2>8, Contained DEF Unheld
  <2> QED
    BY <1>3, <2>9 DEF Listed
<1>5. {BlockOf(c) : c \in live}' = {BlockOf(c) : c \in live} /\ BlockOf(ret)' = Allocator!None(m)
  BY <1>1, Zenon DEF BlockOf
<1>6. Allocator!Alloc(m)
  BY <1>4, <1>5 DEF Allocator!Alloc
<1> QED
  BY <1>2, <1>6 DEF Allocator!Next

\* dealloc gives back the block of the allocation, and no other.
LEMMA FreedMaps ==
  ASSUME BInv, NEW a \in live, Freed(a)
  PROVE  Allocator!Next
<1>0. \A c \in live : Good(c)
  BY DEF BInv
<1>1. ASSUME NEW c \in live, BlockOf(c) = BlockOf(a) PROVE c = a
  <2>1. Fit(c) = Fit(a) /\ Index(c) = Index(a)
    <3>1. /\ BlockOf(a) = [level |-> Fit(a), index |-> Index(a)]
          /\ BlockOf(c) = [level |-> Fit(c), index |-> Index(c)]
      BY <1>0, <1>1, GoodUnits
    <3>2. BlockOf(a).level = Fit(a) /\ BlockOf(a).index = Index(a)
      BY <3>1
    <3>3. BlockOf(c).level = Fit(c) /\ BlockOf(c).index = Index(c)
      BY <3>1
    <3> QED
      BY <1>1, <3>2, <3>3
  <2>2. First(a) \in 0 .. info.units - 1 /\ On(First(a), a)
    BY <1>0, GoodUnits
  <2>3. On(First(a), c)
    BY <2>1, <2>2 DEF On
  <2>4. Holders(live, First(a)) = {a}
    BY <2>2, Held
  <2> QED
    BY <1>1, <2>3, <2>4 DEF Holders
<1>2. {BlockOf(c) : c \in live \ {a}} = {BlockOf(c) : c \in live} \ {BlockOf(a)}
  BY <1>1
<1>3. {BlockOf(c) : c \in live}' = {BlockOf(c) : c \in live} \ {BlockOf(a)} /\ BlockOf(ret)' = BlockOf(ret)
  BY <1>2, Zenon DEF Freed, BlockOf
<1>4. BlockOf(a) \in {BlockOf(c) : c \in live}
  OBVIOUS
<1> QED
  BY <1>3, <1>4 DEF Allocator!Next, Allocator!Dealloc

\* BuddyBlock, its bitmaps, counters and loops, implements the abstract allocator for
\* every chunk and unit size: alloc hands out a block of the smallest level that fits
\* and overlaps no other, says None only if there is no such block, and dealloc gives
\* back exactly the block it is called with.
THEOREM AllocatorImplemented == Spec => ImplementsAllocator
<1>1. ASSUME BInv, [Next]_vars PROVE [Allocator!Next]_(Allocator!vars)
  <2>1. ASSUME NEW len \in Lens, alloc(len) PROVE Allocator!Next
    <3> DEFINE f == bitmap_index_for_size(AlignedLen(len))
    <3>1. len \in Nat \ {0} /\ div_ceil(len, UNIT_SIZE) \in Nat \ {0}
          /\ AlignedLen(len) = div_ceil(len, UNIT_SIZE) * UNIT_SIZE
      BY <2>1, ChunkAssumption, Rounded
    <3>2. CASE Fitting(f) = {}
      BY <1>1, <2>1, <3>1, <3>2, AllocRefuses, RefusedMaps
    <3>3. CASE Fitting(f) # {}
      <4>1. f \in Nat
        BY <3>1, FitLevel
      <4>2. \E a : Taken(a, f)
        BY <1>1, <2>1, <3>1, <3>3, AllocTakes
      <4> QED
        BY <1>1, <4>1, <4>2, TakenMaps
    <3> QED
      BY <3>2, <3>3
  <2>2. ASSUME NEW a \in live, Return(a) PROVE [Allocator!Next]_(Allocator!vars)
    <3>1. Freed(a) \/ (live' = live /\ ret' = ret)
      BY <1>1, <2>2, ReturnGives, Zenon
    <3>2. ASSUME live' = live, ret' = ret PROVE UNCHANGED Allocator!vars
      BY <3>2 DEF Allocator!vars, BlockOf
    <3> QED
      BY <1>1, <2>2, <3>1, <3>2, FreedMaps
  <2>3. ASSUME UNCHANGED vars PROVE UNCHANGED Allocator!vars
    BY <2>3 DEF vars, Allocator!vars, BlockOf
  <2> QED
    BY <1>1, <2>1, <2>2, <2>3 DEF Next
<1> QED
  BY BlockInvariance, InitMaps, <1>1, PTL DEF Spec, ImplementsAllocator, Allocator!Spec

-----------------------------------------------------------------------------
\* The commands of the shell.

\* The blocks of a level that cmd_test_dyn_seq counts through.
SeqBlocks(l) == {SeqBlock(l, i) : i \in 0 .. Blocks(l) - 1}

\* The size of a block of level l is a length that alloc takes as it is and that
\* bitmap_index_for_size finds level l for.
LEMMA SizeFits ==
  ASSUME NEW l \in Nat
  PROVE  /\ Size(l) \in Nat \ {0} /\ Size(l) = Pow2[l] * UNIT_SIZE
         /\ AlignedLen(Size(l)) = Size(l) /\ bitmap_index_for_size(Size(l)) = l
<1> DEFINE p == Pow2[l]
           U == UNIT_SIZE
<1>1. p \in Nat \ {0} /\ U \in Nat \ {0}
  BY Pow2Def, Geometry
<1>2. Size(l) = U * p
  BY DEF Size
<1> HIDE DEF p
<1>3. U * p = p * U /\ p * U \in Nat \ {0}
  BY <1>1
<1>4. div_ceil(p * U, U) = p
  <2>1. p * U <= (p * U + U) - 1 /\ (p * U + U) - 1 < p * U + U /\ (p * U + U) - 1 \in Nat
    BY <1>1, <1>3
  <2>2. ((p * U + U) - 1) \div U = p
    BY <1>1, <2>1, DivUnique
  <2>3. (p * U + U) - 1 = p * U + U - 1
    BY <1>1, <1>3
  <2> QED
    BY <2>2, <2>3 DEF div_ceil
<1>5. AlignedLen(p * U) = p * U
  BY <1>4 DEF AlignedLen
<1>6. bitmap_index_for_size(p * U) = l
  <2> DEFINE f == bitmap_index_for_size(p * U)
  <2>1. f \in Nat /\ p <= Pow2[f] /\ (f > 0 => Pow2[f - 1] < p)
    BY <1>1, FitLevel
  <2> HIDE DEF f
  <2>2. ASSUME f < l PROVE FALSE
    <3>1. 2 * Pow2[f] <= p
      BY <2>1, <2>2, Pow2Grows DEF p
    <3> QED
      BY <1>1, <2>1, <3>1, Pow2Def
  <2>3. ASSUME l < f PROVE FALSE
    <3>1. f - 1 \in Nat /\ l <= f - 1
      BY <2>1, <2>3
    <3>2. p <= Pow2[f - 1] /\ Pow2[f - 1] \in Nat
      BY <3>1, Pow2Grows, Pow2Def DEF p
    <3> QED
      BY <1>1, <2>1, <2>3, <3>2
  <2> QED
    BY <2>1, <2>2, <2>3 DEF f
<1> QED
  BY <1>2, <1>3, <1>5, <1>6 DEF p

\* The block that cmd_test_dyn_seq finds at its place in the data area is an
\* allocation of that block.
LEMMA SeqGood ==
  ASSUME NEW l \in Levels, NEW i \in Nat, i < Blocks(l)
  PROVE  /\ Good(SeqBlock(l, i)) /\ Fit(SeqBlock(l, i)) = l /\ Index(SeqBlock(l, i)) = i
         /\ Units(SeqBlock(l, i)) = UnitsOf(l, i)
<1> DEFINE a == SeqBlock(l, i)
           p == Pow2[l]
           U == UNIT_SIZE
           v == i * p
<1>1. l \in Nat /\ p \in Nat \ {0} /\ U \in Nat \ {0} /\ DATA \in Nat
  BY LevelFacts, Pow2Def, Geometry
<1>2. v \in Nat /\ At(v, l) = i
  BY <1>1, FirstIn
<1>3. Size(l) = p * U /\ bitmap_index_for_size(p * U) = l
  BY <1>1, SizeFits
<1>4. a = [addr |-> DATA + v * U, len |-> p * U]
  <2>1. (p * U) * i = (i * p) * U
    BY <1>1
  <2>2. Size(l) * i = v * U
    BY <1>3, <2>1, Zenon
  <2> QED
    BY <1>3, <2>2, Zenon DEF SeqBlock
<1> HIDE DEF a
<1>5. Good(a) /\ First(a) = v /\ Fit(a) = l
  <2>1. v = At(v, l) * Pow2[l] /\ At(v, l) < Blocks(l)
    BY <1>2
  <2>2. /\ v \in Nat /\ l = bitmap_index_for_size(p * UNIT_SIZE)
        /\ a = [addr |-> DATA + v * UNIT_SIZE, len |-> p * UNIT_SIZE]
    BY <1>2, <1>3, <1>4
  <2>3. p \in Nat \ {0}
    BY <1>1
  <2> HIDE DEF v, p
  <2> QED
    BY <2>1, <2>2, <2>3, Made
<1>6. Index(a) = i
  BY <1>2, <1>5 DEF Index
<1>7. Units(a) = UnitsOf(l, i)
  <2>1. (a.addr - DATA) \div U = v
    BY <1>5 DEF First
  <2>2. (a.addr + a.len - DATA) \div U = (i + 1) * p
    <3>1. a.addr + a.len - DATA = v * U + p * U
      <4>1. v * U \in Nat /\ p * U \in Nat
        BY <1>1, <1>2
      <4>2. ASSUME NEW x \in Nat, NEW y \in Nat PROVE DATA + x + y - DATA = x + y
        BY <1>1
      <4>3. a.addr = DATA + v * U /\ a.len = p * U
        BY <1>4
      <4> HIDE DEF v, p
      <4> QED
        BY <4>1, <4>2, <4>3
    <3>2. v * U + p * U = ((i + 1) * p) * U /\ (i + 1) * p \in Nat
      BY <1>1
    <3> QED
      BY <1>1, <3>1, <3>2, Cancel
  <2> QED
    BY <2>1, <2>2 DEF Units, UnitsOf
<1> QED
  BY <1>5, <1>6, <1>7 DEF a

\* What alloc hands out for the size of a block is one of those blocks.
LEMMA SeqOnly ==
  ASSUME NEW a, Good(a), NEW l \in Levels, Fit(a) = l, a.len = Size(l)
  PROVE  Index(a) \in 0 .. Blocks(l) - 1 /\ a = SeqBlock(l, Index(a))
<1> DEFINE p == Pow2[l]
           U == UNIT_SIZE
           i == Index(a)
<1>1. l \in Nat /\ p \in Nat \ {0} /\ U \in Nat \ {0} /\ DATA \in Nat /\ Blocks(l) \in Nat
  BY LevelFacts, Pow2Def, Geometry
<1>2. i \in Nat /\ i < Blocks(l) /\ First(a) = i * p
  BY GoodUnits DEF Good
<1>3. PICK k : a = [addr |-> DATA + First(a) * U, len |-> k * U]
  BY DEF Good
<1>4. a.len = Size(l) /\ a = [addr |-> DATA + First(a) * U, len |-> a.len]
  BY <1>3
<1>5. First(a) * U = Size(l) * i
  <2>1. Size(l) = p * U
    BY <1>1, SizeFits
  <2> HIDE DEF i
  <2>2. (i * p) * U = (p * U) * i
    BY <1>1, <1>2, SMTT(30)
  <2> QED
    BY <1>2, <2>1, <2>2
<1> QED
  BY <1>1, <1>2, <1>4, <1>5 DEF SeqBlock

\* `used`, which cmd_test_dyn_seq asserts to be 0, is 0 exactly if nothing is
\* handed out.
LEMMA UsedNone ==
  ASSUME BInv
  PROVE  used = 0 <=> live = {}
<1> DEFINE n == UNION {Units(a) : a \in live}
<1>1. used = UNIT_SIZE * Cardinality(n) /\ \A a \in live : Good(a)
  BY DEF BInv
<1>2. IsFiniteSet(n) /\ Cardinality(n) \in Nat
  BY <1>1, UsedUnits, Zenon
<1>3. n = {} <=> live = {}
  <2>1. \A a \in live : First(a) \in Units(a)
    BY <1>1, GoodUnits
  <2> QED
    BY <2>1
<1> HIDE DEF n
<1>4. Cardinality(n) = 0 <=> n = {}
  BY <1>2, FS_EmptySet
<1>5. UNIT_SIZE \in Nat \ {0}
  BY Geometry
<1>6. ASSUME NEW x \in Nat PROVE UNIT_SIZE * x = 0 <=> x = 0
  BY <1>5
<1> QED
  BY <1>1, <1>2, <1>3, <1>4, <1>6

\* The units and bytes of all blocks of a level.
LEMMA SeqUnits ==
  ASSUME NEW l \in Levels
  PROVE  /\ UNION {Units(a) : a \in SeqBlocks(l)} = 0 .. Blocks(l) * Pow2[l] - 1
         /\ UNIT_SIZE * Cardinality(0 .. Blocks(l) * Pow2[l] - 1) = Blocks(l) * Size(l)
         /\ IsFiniteSet(0 .. Blocks(l) * Pow2[l] - 1)
<1> DEFINE n == Blocks(l)
           p == Pow2[l]
<1>1. l \in Nat /\ p \in Nat \ {0} /\ n \in Nat \ {0} /\ UNIT_SIZE \in Nat \ {0}
  BY LevelFacts, Pow2Def, Geometry
<1>2. ASSUME NEW i \in 0 .. n - 1 PROVE Units(SeqBlock(l, i)) = i * p .. (i + 1) * p - 1
  <2>1. i \in Nat /\ i < n
    BY <1>1
  <2> QED
    BY <2>1, SeqGood DEF UnitsOf
<1>3. n * p \in Nat
  BY <1>1
<1>4. ASSUME NEW i \in 0 .. n - 1, NEW u \in i * p .. (i + 1) * p - 1
      PROVE  u \in 0 .. n * p - 1
  <2> HIDE DEF n, p
  <2>1. i \in Nat /\ i + 1 <= n
    BY <1>1
  <2>2. (i + 1) * p <= n * p /\ i * p \in Nat /\ (i + 1) * p \in Nat
    BY <1>1, <2>1
  <2> QED
    BY <1>3, <2>2
<1>5. ASSUME NEW u \in 0 .. n * p - 1
      PROVE  \E i \in 0 .. n - 1 : u \in i * p .. (i + 1) * p - 1
  <2> DEFINE i == u \div p
  <2>0. u \in Nat /\ u < n * p
    BY <1>3
  <2> HIDE DEF n, p
  <2>1. i \in Nat /\ i * p <= u /\ u < i * p + p
    BY <1>1, <2>0, DivBounds
  <2> HIDE DEF i
  <2>2. (i + 1) * p = i * p + p /\ i * p \in Nat
    BY <1>1, <2>1
  <2>3. ASSUME ~ (i < n) PROVE FALSE
    <3>1. n * p <= i * p
      BY <1>1, <2>1, <2>3
    <3> QED
      BY <1>3, <2>0, <2>1, <2>2, <3>1
  <2>4. i \in 0 .. n - 1 /\ u \in i * p .. (i + 1) * p - 1
    BY <1>1, <2>0, <2>1, <2>2, <2>3
  <2> QED
    BY <2>4
<1>6. UNION {Units(a) : a \in SeqBlocks(l)} = 0 .. n * p - 1
  <2>1. {Units(a) : a \in SeqBlocks(l)} = {i * p .. (i + 1) * p - 1 : i \in 0 .. n - 1}
    BY <1>2, Zenon DEF SeqBlocks
  <2>2. UNION {i * p .. (i + 1) * p - 1 : i \in 0 .. n - 1} = 0 .. n * p - 1
    BY <1>4, <1>5, Zenon
  <2> QED
    BY <2>1, <2>2, Zenon
<1>7. IsFiniteSet(0 .. n * p - 1) /\ Cardinality(0 .. n * p - 1) = n * p
  <2> HIDE DEF n, p
  <2>1. 0 \in Int /\ n * p - 1 \in Int
    BY <1>3
  <2>2. /\ IsFiniteSet(0 .. n * p - 1)
        /\ Cardinality(0 .. n * p - 1) = IF 0 > n * p - 1 THEN 0 ELSE n * p - 1 - 0 + 1
    BY <2>1, FS_Interval
  <2>3. n * p # 0
    BY <1>1
  <2> QED
    BY <1>3, <2>2, <2>3
<1>8. UNIT_SIZE * (n * p) = n * Size(l)
  <2>1. Size(l) = p * UNIT_SIZE
    BY <1>1, SizeFits
  <2> HIDE DEF n, p
  <2>2. UNIT_SIZE * (n * p) = n * (p * UNIT_SIZE)
    BY <1>1
  <2> QED
    BY <2>1, <2>2
<1> QED
  BY <1>6, <1>7, <1>8

\* Blocks of one level overlap only in themselves.
LEMMA SeqApart ==
  ASSUME NEW l \in Levels, NEW a \in SeqBlocks(l), NEW b \in SeqBlocks(l),
         NEW u \in Units(a), u \in Units(b)
  PROVE  a = b
<1>1. PICK i \in 0 .. Blocks(l) - 1 : a = SeqBlock(l, i)
  BY DEF SeqBlocks
<1>2. PICK j \in 0 .. Blocks(l) - 1 : b = SeqBlock(l, j)
  BY DEF SeqBlocks
<1>3. l \in Nat /\ Blocks(l) \in Nat /\ i \in Nat /\ j \in Nat /\ i < Blocks(l) /\ j < Blocks(l)
  BY LevelFacts
<1>4. /\ Units(a) = UnitsOf(l, i) /\ Units(b) = UnitsOf(l, j) /\ Good(a)
  BY <1>1, <1>2, <1>3, SeqGood
<1>5. u \in Nat
  BY <1>4, GoodUnits
<1>6. At(u, l) = i /\ At(u, l) = j
  BY <1>3, <1>4, <1>5, InBlock
<1> QED
  BY <1>1, <1>2, <1>6

\* As long as cmd_test_dyn_seq has allocated fewer blocks of a level than there are,
\* alloc finds one more.
LEMMA SeqRoom ==
  ASSUME BInv, NEW l \in Levels, live \subseteq SeqBlocks(l),
         NEW k \in Nat, used = k * Size(l), k < Blocks(l)
  PROVE  Fitting(l) # {}
<1> DEFINE n == UNION {Units(a) : a \in live}
           m == 0 .. Blocks(l) * Pow2[l] - 1
<1>1. l \in Nat /\ Blocks(l) \in Nat /\ Size(l) \in Nat \ {0} /\ UNIT_SIZE \in Nat \ {0}
  BY LevelFacts, SizeFits, Geometry
<1>2. used = UNIT_SIZE * Cardinality(n)
  BY DEF BInv
<1>3. SeqBlocks(l) # live
  <2>1. ASSUME SeqBlocks(l) = live PROVE FALSE
    <3>1. n = m /\ UNIT_SIZE * Cardinality(m) = Blocks(l) * Size(l)
      BY <2>1, SeqUnits
    <3>2. k * Size(l) = Blocks(l) * Size(l)
      BY <1>2, <3>1, Zenon
    <3>3. ASSUME NEW x \in Nat, NEW y \in Nat, NEW z \in Nat \ {0}, x < y PROVE x * z # y * z
      BY <3>3
    <3> QED
      BY <1>1, <3>2, <3>3
  <2> QED
    BY <2>1
<1>4. PICK i \in 0 .. Blocks(l) - 1 : SeqBlock(l, i) \notin live
  BY <1>3 DEF SeqBlocks
<1>5. i \in Nat /\ i < Blocks(l)
  BY <1>1
<1>6. Unheld(l, i)
  <2>1. ASSUME NEW u \in 0 .. info.units - 1, At(u, l) = i, NEW a \in Holders(live, u) PROVE FALSE
    <3>1. a \in live /\ On(u, a)
      BY <2>1 DEF Holders
    <3>2. PICK j \in 0 .. Blocks(l) - 1 : a = SeqBlock(l, j)
      BY <3>1 DEF SeqBlocks
    <3>3. j \in Nat /\ j < Blocks(l)
      BY <1>1
    <3>4. Fit(a) = l /\ Index(a) = j
      BY <3>2, <3>3, SeqGood
    <3>5. i = j
      BY <2>1, <3>1, <3>4 DEF On
    <3> QED
      BY <1>4, <3>1, <3>2, <3>5
  <2> QED
    BY <2>1 DEF Unheld
<1>7. PICK t \in Levels : t >= l /\ At(i * Pow2[l], t) \in bits[t]
  BY <1>5, <1>6, Contained DEF Listed
<1>8. count[t] # 0
  <2>1. count[t] = Cardinality(bits[t]) /\ IsFiniteSet(bits[t])
    BY BitsFinite DEF BInv
  <2> QED
    BY <1>7, <2>1, FS_EmptySet
<1> QED
  BY <1>7, <1>8 DEF Fitting

\* When it has allocated as many as there are, it has all of them.
LEMMA SeqAll ==
  ASSUME BInv, NEW l \in Levels, live \subseteq SeqBlocks(l), used = Blocks(l) * Size(l)
  PROVE  live = SeqBlocks(l)
<1> DEFINE n == UNION {Units(a) : a \in live}
           m == 0 .. Blocks(l) * Pow2[l] - 1
<1>1. used = UNIT_SIZE * Cardinality(n) /\ \A a \in live : Good(a)
  BY DEF BInv
<1>2. /\ UNION {Units(a) : a \in SeqBlocks(l)} = m /\ IsFiniteSet(m)
      /\ UNIT_SIZE * Cardinality(m) = Blocks(l) * Size(l)
  BY SeqUnits
<1>3. n \subseteq m
  BY <1>2
<1>4. Cardinality(n) = Cardinality(m)
  <2>1. Cardinality(n) \in Nat /\ Cardinality(m) \in Nat /\ UNIT_SIZE \in Nat \ {0}
    BY <1>1, <1>2, UsedUnits, FS_CardinalityType, Geometry, Zenon
  <2>2. UNIT_SIZE * Cardinality(n) = UNIT_SIZE * Cardinality(m)
    BY <1>1, <1>2
  <2>3. ASSUME NEW x \in Nat, NEW y \in Nat, NEW z \in Nat \ {0}, z * x = z * y PROVE x = y
    BY <2>3
  <2> QED
    BY <2>1, <2>2, <2>3
<1>5. n = m
  BY <1>2, <1>3, <1>4, FS_Subset, Zenon
<1>6. ASSUME NEW b \in SeqBlocks(l) PROVE b \in live
  <2>1. Good(b)
    <3>1. PICK i \in 0 .. Blocks(l) - 1 : b = SeqBlock(l, i)
      BY <1>6 DEF SeqBlocks
    <3>2. i \in Nat /\ i < Blocks(l)
      BY LevelFacts
    <3> QED
      BY <3>1, <3>2, SeqGood
  <2>2. First(b) \in Units(b)
    BY <2>1, GoodUnits
  <2>3. First(b) \in n
    BY <1>2, <1>5, <1>6, <2>2
  <2>4. PICK a \in live : First(b) \in Units(a)
    BY <2>3
  <2> QED
    BY <1>6, <2>2, <2>4, SeqApart
<1> QED
  BY <1>6

\* The chunk is a whole number of units.
Whole == TOTAL_LEN % UNIT_SIZE = 0

\* It has a block that is large enough for a context.
CtxFits == bitmap_index_for_size(AlignedLen(CTX_LEN)) < info.levels

\* What is handed out when cmd_test_dyn_seq does not run: the task's context.
CtxBlocks == {CtxBlock(p) : p \in {ctx_ptr} \ {0}}

\* Where rsp is, at every place of a command.
StackAt ==
  /\ pc \in {"switch", "restore_task", "task", "restore_main"} => ctx_ptr # 0
  /\ pc \in {"restore_task", "restore_main"} => current = "none" /\ ~ IF_flag
  /\ pc = "task" => current = "task"
  /\ pc \notin {"restore_task", "task", "restore_main"} => current = "main"

\* What is handed out, at every place of a command.
HeapAt ==
  /\ pc = "level" => level \in 0 .. info.levels
  /\ pc = "alloc" =>
       /\ level \in Levels /\ index \in 0 .. Blocks(level) /\ ctx_ptr = 0
       /\ live \subseteq SeqBlocks(level) /\ used = index * Size(level)
  /\ pc = "free" =>
       /\ level \in Levels /\ index \in 0 .. Blocks(level) /\ ctx_ptr = 0
       /\ live = {SeqBlock(level, i) : i \in index .. Blocks(level) - 1}
  /\ pc \notin Panics \cup {"alloc", "free"} => live = CtxBlocks

\* Which panics are left, at every place of a command.
PanicAt ==
  /\ pc # "panic_142"
  /\ pc = "panic_108" => ctx_ptr # 0
  /\ pc # "panic_dealloc" => ~ failed
  /\ Whole => pc \notin {"panic_132", "panic_dealloc"}
  /\ CtxFits => pc # "panic_unwrap"

\* The inductive invariant of the shell.
ShellInv ==
  /\ BInv
  /\ DOMAIN words = 0 .. info.units - 1
  /\ ctx_ptr \in Nat
  /\ TaskIntact
  /\ StackAt
  /\ HeapAt
  /\ PanicAt

\* A step of a command that does not call the allocator keeps its invariant.
LEMMA HeapFrame ==
  ASSUME BInv, UNCHANGED heap
  PROVE  BInv'
BY DEF heap, vars, BInv, GoodBits, Good, Covered, FreeAt, Holders

\* alloc that finds a block, with the length and the bytes it counts.
LEMMA AllocGives ==
  ASSUME BInv, NEW len \in Nat \ {0}, alloc(len), Fitting(bitmap_index_for_size(AlignedLen(len))) # {}
  PROVE  /\ BInv' /\ Taken(ret', bitmap_index_for_size(AlignedLen(len)))
         /\ ret'.len = AlignedLen(len) /\ used' = used + AlignedLen(len)
<1>1. BInv' /\ \E a : Taken(a, bitmap_index_for_size(AlignedLen(len)))
  BY AllocTakes, SMTT(30)
<1>2. ret'.len = AlignedLen(len) /\ used' = used + AlignedLen(len)
  BY DEF alloc
<1> QED
  BY <1>1, <1>2 DEF Taken

\* cmd_test_dyn_seq never gives up: alloc finds every block it asks for.
LEMMA SeqAllocStep == ShellInv /\ SeqAlloc => ShellInv'
<1> SUFFICES ASSUME ShellInv, SeqAlloc PROVE ShellInv'
  OBVIOUS
<1> DEFINE l == level
           b == ret'
<1>1. /\ pc = "alloc" /\ l \in Levels /\ index \in 0 .. Blocks(l) /\ index < Blocks(l) /\ ctx_ptr = 0
      /\ live \subseteq SeqBlocks(l) /\ used = index * Size(l) /\ BInv
      /\ alloc(Size(l)) /\ current = "main" /\ ~ failed
  BY DEF ShellInv, SeqAlloc, HeapAt, StackAt, PanicAt
<1>2. l \in Nat /\ Blocks(l) \in Nat /\ index \in Nat
  BY <1>1, LevelFacts
<1>3. Size(l) \in Nat \ {0} /\ AlignedLen(Size(l)) = Size(l) /\ bitmap_index_for_size(Size(l)) = l
  BY <1>2, SizeFits
<1>4. Fitting(l) # {}
  BY <1>1, <1>2, SeqRoom
<1>5. BInv' /\ Taken(b, l) /\ b.len = Size(l) /\ used' = used + Size(l)
  BY <1>1, <1>3, <1>4, AllocGives
<1>6. Good(b) /\ Fit(b) = l /\ live' = live \cup {b} /\ failed' = failed
  BY <1>5 DEF Taken
<1>7. b.addr # 0
  BY <1>6, GoodUnits
<1>8. b \in SeqBlocks(l)
  BY <1>1, <1>5, <1>6, SeqOnly DEF SeqBlocks
<1>9. /\ words' = Filled(b, "pattern") /\ index' = index + 1 /\ pc' = pc
      /\ UNCHANGED <<level, ctx_ptr, current, IF_flag>>
  BY <1>7 DEF SeqAlloc, task
<1>10. used' = index' * Size(level)'
  <2>1. Size(level)' = Size(l)
    BY <1>9 DEF Size
  <2>2. (index + 1) * Size(l) = index * Size(l) + Size(l)
    BY <1>2, <1>3
  <2> QED
    BY <1>1, <1>5, <1>9, <2>1, <2>2
<1>11. DOMAIN words' = 0 .. info.units - 1
  BY <1>9 DEF Filled, ShellInv
<1>12. TaskIntact'
  BY <1>1, <1>9 DEF TaskIntact
<1>13. StackAt'
  BY <1>1, <1>9 DEF StackAt
<1>14. HeapAt'
  <2>1. live' \subseteq SeqBlocks(level)'
    BY <1>1, <1>6, <1>8, <1>9 DEF SeqBlocks, SeqBlock, Size
  <2>2. index' \in 0 .. Blocks(level') /\ level' \in Levels /\ ctx_ptr' = 0 /\ pc' = "alloc"
    BY <1>1, <1>2, <1>9
  <2> QED
    BY <1>10, <2>1, <2>2, SMTT(30) DEF HeapAt
<1>15. PanicAt'
  BY <1>1, <1>6, <1>9 DEF PanicAt
<1> QED
  BY <1>1, <1>5, <1>9, <1>11, <1>12, <1>13, <1>14, <1>15 DEF ShellInv

\* Rounding a length up to units adds less than a unit.
LEMMA RoundedUp ==
  ASSUME NEW len \in Nat
  PROVE  AlignedLen(len) \in Nat /\ len <= AlignedLen(len) /\ AlignedLen(len) < len + UNIT_SIZE
<1> DEFINE U == UNIT_SIZE
           x == len + U - 1
           q == x \div U
<1>1. U \in Nat \ {0}
  BY Geometry
<1>2. x \in Nat
  BY <1>1
<1>3. q \in Nat /\ q * U <= x /\ x < q * U + U
  <2> HIDE DEF x, U
  <2> QED
    BY <1>1, <1>2, DivBounds
<1>4. AlignedLen(len) = q * U
  BY DEF AlignedLen, div_ceil
<1> HIDE DEF q
<1>5. q * U \in Nat
  BY <1>1, <1>3
<1> QED
  BY <1>1, <1>3, <1>4, <1>5

\* dealloc with the length that was asked for, as `--quit` calls it.
LEMMA GiveBack ==
  ASSUME BInv, NEW a \in live, NEW len \in Nat \ {0}, a.len = AlignedLen(len), dealloc(a, a.addr, len)
  PROVE  /\ BInv'
         /\ Freed(a) \/ (failed' = TRUE /\ live' = live /\ ret' = ret)
         /\ Whole => Freed(a)
<1> DEFINE back == a.len - len
<1>1. a.addr \in Nat /\ a.len \in Nat /\ UNIT_SIZE \in Nat \ {0}
  BY GoodUnits, Geometry, Zenon DEF BInv
<1>2. back \in 0 .. UNIT_SIZE - 1 /\ 0 \in 0 .. UNIT_SIZE - 1 /\ a.len > 0 + back
  BY <1>1, RoundedUp
<1>3. a.addr + 0 = a.addr /\ a.len - 0 - back = len
  BY <1>1
<1>4. dealloc(a, a.addr + 0, a.len - 0 - back)
  BY <1>3, Zenon
<1> HIDE DEF back
<1> QED
  BY <1>2, <1>4, ReturnStep, Zenon DEF Whole

\* cmd_test_dyn_seq returns blocks that are handed out.
LEMMA SeqFreeStep == ShellInv /\ SeqFree => ShellInv'
<1> SUFFICES ASSUME ShellInv, SeqFree PROVE ShellInv'
  OBVIOUS
<1> DEFINE l == level
           a == SeqBlock(l, index)
           B(k) == {SeqBlock(l, i) : i \in k .. Blocks(l) - 1}
<1>1. /\ pc = "free" /\ l \in Levels /\ index \in 0 .. Blocks(l) /\ index < Blocks(l) /\ ctx_ptr = 0
      /\ live = B(index) /\ BInv /\ current = "main" /\ ~ failed
      /\ dealloc(a, a.addr, a.len) /\ DOMAIN words = 0 .. info.units - 1
  BY DEF ShellInv, SeqFree, HeapAt, StackAt, PanicAt
<1>2. l \in Nat /\ Blocks(l) \in Nat /\ index \in Nat
  BY <1>1, LevelFacts
<1>3. Size(l) \in Nat \ {0} /\ AlignedLen(Size(l)) = Size(l) /\ a.len = Size(l)
  BY <1>2, SizeFits DEF SeqBlock
<1>4. a \in live
  BY <1>1, <1>2
<1>5. BInv' /\ (Freed(a) \/ (failed' = TRUE /\ live' = live)) /\ (Whole => Freed(a))
  <2>1. a.len \in Nat \ {0} /\ a.len = AlignedLen(a.len) /\ a \in live
    BY <1>3, <1>4
  <2>2. BInv /\ dealloc(a, a.addr, a.len)
    BY <1>1
  <2> HIDE DEF a
  <2> QED
    BY <2>1, <2>2, GiveBack, Zenon
<1>6. /\ index' = index + 1 /\ pc' = (IF failed' THEN "panic_dealloc" ELSE pc)
      /\ UNCHANGED <<words, level, ctx_ptr, current, IF_flag>>
  BY DEF SeqFree, task
<1>7. B(index) \ {a} = B(index + 1)
  <2>1. ASSUME NEW i \in index + 1 .. Blocks(l) - 1 PROVE SeqBlock(l, i) # a
    <3>1. i \in Nat /\ i < Blocks(l) /\ i # index
      BY <1>2
    <3>2. Index(SeqBlock(l, i)) = i /\ Index(SeqBlock(l, index)) = index
      BY <1>1, <1>2, <3>1, SeqGood
    <3> QED
      BY <3>1, <3>2
  <2>2. \A i : i \in index .. Blocks(l) - 1 <=> i = index \/ i \in index + 1 .. Blocks(l) - 1
    BY <1>1, <1>2
  <2> HIDE DEF a
  <2>3. a = SeqBlock(l, index)
    BY DEF a
  <2> QED
    BY <2>1, <2>2, <2>3, Zenon
<1>8. CASE Freed(a)
  <2>1. live' = B(index + 1) /\ failed' = failed
    BY <1>1, <1>7, <1>8 DEF Freed
  <2>2. pc' = "free"
    BY <1>1, <1>6, <2>1
  <2>3. HeapAt'
    <3>1. live' = {SeqBlock(level, i) : i \in index .. Blocks(level) - 1}'
      BY <1>6, <2>1 DEF SeqBlock, Size
    <3>2. index' \in 0 .. Blocks(level') /\ level' \in Levels /\ ctx_ptr' = 0
      BY <1>1, <1>2, <1>6, SMTT(30)
    <3> QED
      BY <2>2, <3>1, <3>2 DEF HeapAt
  <2> QED
    BY <1>1, <1>5, <1>6, <2>1, <2>2, <2>3 DEF ShellInv, TaskIntact, StackAt, PanicAt
<1>9. CASE ~ Freed(a)
  <2>1. failed' = TRUE /\ pc' = "panic_dealloc" /\ ~ Whole
    BY <1>5, <1>6, <1>9
  <2> QED
    BY <1>1, <1>5, <1>6, <2>1 DEF ShellInv, TaskIntact, StackAt, PanicAt, HeapAt, Panics
<1> QED
  BY <1>8, <1>9

\* testtask --quit returns the task's memory and forgets where it was.
LEMMA QuitStep == ShellInv /\ Quit => ShellInv'
<1> SUFFICES ASSUME ShellInv, Quit PROVE ShellInv'
  OBVIOUS
<1> DEFINE a == CtxBlock(ctx_ptr)
<1>1. /\ pc = "quit" /\ BInv /\ current = "main" /\ ~ failed /\ live = CtxBlocks /\ ctx_ptr \in Nat
      /\ DOMAIN words = 0 .. info.units - 1
  BY DEF ShellInv, Quit, HeapAt, StackAt, PanicAt, Panics
<1>2. /\ pc' = (IF failed' THEN "panic_dealloc" ELSE "unlock")
      /\ UNCHANGED <<words, current, IF_flag>>
  BY DEF Quit
<1>3. CASE ctx_ptr = 0
  <2>1. UNCHANGED heap /\ ctx_ptr' = 0
    BY <1>3 DEF Quit
  <2>2. BInv'
    BY <1>1, <2>1, HeapFrame
  <2>3. live' = live /\ failed' = failed
    BY <2>1 DEF heap, vars
  <2>4. pc' = "unlock" /\ live' = CtxBlocks'
    BY <1>1, <1>2, <1>3, <2>1, <2>3 DEF CtxBlocks
  <2> QED
    BY <1>1, <1>2, <2>1, <2>2, <2>3, <2>4 DEF ShellInv, TaskIntact, StackAt, PanicAt, HeapAt
<1>4. CASE ctx_ptr # 0
  <2>1. dealloc(a, a.addr, CTX_LEN) /\ ctx_ptr' = 0
    BY <1>4 DEF Quit, QuitPtr, CtxBlock
  <2>2. live = {a} /\ a.len = AlignedLen(CTX_LEN)
    BY <1>1, <1>4 DEF CtxBlocks, CtxBlock
  <2>3. BInv' /\ (Freed(a) \/ (failed' = TRUE /\ live' = live)) /\ (Whole => Freed(a))
    <3> HIDE DEF a
    <3> QED
      BY <1>1, <2>1, <2>2, GiveBack, CtxAssumption, Zenon
  <2>4. CASE Freed(a)
    <3>1. live' = {} /\ failed' = failed
      BY <2>2, <2>4 DEF Freed
    <3>2. pc' = "unlock" /\ live' = CtxBlocks'
      BY <1>1, <1>2, <2>1, <3>1, SMTT(30) DEF CtxBlocks
    <3> QED
      BY <1>1, <1>2, <2>1, <2>3, <3>1, <3>2 DEF ShellInv, TaskIntact, StackAt, PanicAt, HeapAt
  <2>5. CASE ~ Freed(a)
    <3>1. failed' = TRUE /\ pc' = "panic_dealloc" /\ ~ Whole
      BY <1>2, <2>3, <2>5
    <3> QED
      BY <1>1, <1>2, <2>1, <2>3, <3>1 DEF ShellInv, TaskIntact, StackAt, PanicAt, HeapAt, Panics
  <2> QED
    BY <2>4, <2>5
<1> QED
  BY <1>3, <1>4

\* The first testtask fills in memory that is the task's alone.
LEMMA CreateStep == ShellInv /\ Create => ShellInv'
<1> SUFFICES ASSUME ShellInv, Create PROVE ShellInv'
  OBVIOUS
<1> DEFINE b == ret'
           f == bitmap_index_for_size(AlignedLen(CTX_LEN))
<1>1. /\ pc = "enter" /\ BInv /\ current = "main" /\ ~ failed /\ live = CtxBlocks /\ ctx_ptr = 0
      /\ DOMAIN words = 0 .. info.units - 1 /\ alloc(CTX_LEN)
  BY DEF ShellInv, Create, HeapAt, StackAt, PanicAt, Panics
<1>2. live = {}
  BY <1>1 DEF CtxBlocks
<1>3. UNCHANGED <<level, index, current, IF_flag>>
  BY DEF Create
<1>4. CASE Fitting(f) = {}
  <2>1. BInv' /\ ret' = None(CTX_LEN) /\ live' = live /\ failed' = failed
    BY <1>1, <1>4, AllocRefuses, CtxAssumption
  <2>2. pc' = "panic_unwrap" /\ UNCHANGED <<words, ctx_ptr>>
    BY <2>1 DEF Create, None
  <2>3. ~ CtxFits
    <3>1. f \in Nat
      <4>1. /\ div_ceil(CTX_LEN, UNIT_SIZE) \in Nat \ {0}
            /\ AlignedLen(CTX_LEN) = div_ceil(CTX_LEN, UNIT_SIZE) * UNIT_SIZE
        BY Rounded, CtxAssumption
      <4> QED
        BY <4>1, FitLevel
    <3>2. ASSUME f < info.levels PROVE FALSE
      <4> HIDE DEF f
      <4>1. f \in Levels /\ Size(f) \in Nat
        BY <3>1, <3>2, LevelFacts, SizeFits
      <4>2. 0 < Blocks(f) /\ Blocks(f) \in Nat
        BY <3>1, <3>2, LevelFacts
      <4>3. used = 0 * Size(f)
        BY <1>1, <1>2, <4>1, UsedNone, SMTT(30)
      <4> QED
        BY <1>1, <1>2, <1>4, <4>1, <4>2, <4>3, SeqRoom
    <3> QED
      BY <3>2 DEF CtxFits
  <2> QED
    BY <1>1, <1>3, <2>1, <2>2, <2>3 DEF ShellInv, TaskIntact, StackAt, PanicAt, HeapAt, Panics
<1>5. CASE Fitting(f) # {}
  <2>1. BInv' /\ Taken(b, f) /\ b.len = AlignedLen(CTX_LEN)
    BY <1>1, <1>5, AllocGives, CtxAssumption
  <2>2. Good(b) /\ live' = {b} /\ failed' = failed
    BY <1>2, <2>1 DEF Taken
  <2>3. b \in [addr : Nat, len : Nat] /\ b.addr # 0 /\ b.addr \in Nat
    BY <2>2, GoodUnits
  <2>4. words' = Filled(b, "context") /\ ctx_ptr' = b.addr /\ pc' = "switch"
    BY <2>3 DEF Create
  <2>5. CtxBlock(ctx_ptr') = b
    BY <2>1, <2>3, <2>4 DEF CtxBlock
  <2>6. DOMAIN words' = 0 .. info.units - 1 /\ \A u \in Units(b) : words'[u] = "context"
    <3>1. Units(b) \subseteq 0 .. info.units - 1
      BY <2>2, GoodUnits
    <3> QED
      BY <1>1, <2>4, <3>1 DEF Filled
  <2>7. TaskIntact'
    BY <2>2, <2>5, <2>6 DEF TaskIntact, CtxBlock
  <2>8. live' = CtxBlocks'
    BY <2>2, <2>3, <2>4, <2>5 DEF CtxBlocks, CtxBlock
  <2> QED
    BY <1>1, <1>3, <2>1, <2>2, <2>3, <2>4, <2>6, <2>7, <2>8 DEF ShellInv, StackAt, PanicAt, HeapAt
<1> QED
  BY <1>4, <1>5

\* The shell at its first prompt satisfies the invariant.
LEMMA ShellInitInv == ShellInit => ShellInv
<1> SUFFICES ASSUME ShellInit PROVE ShellInv
  OBVIOUS
<1>1. BInv /\ live = {} /\ ~ failed
  BY InitBInv DEF ShellInit, Init
<1>2. pc = "prompt" /\ ctx_ptr = 0 /\ current = "main" /\ words = [u \in 0 .. info.units - 1 |-> "old"]
  BY DEF ShellInit
<1>3. live = CtxBlocks
  BY <1>1, <1>2, SMTT(30) DEF CtxBlocks
<1> QED
  BY <1>1, <1>2, <1>3 DEF ShellInv, TaskIntact, StackAt, HeapAt, PanicAt, Panics

\* A step that changes neither memory nor CTX_PTR.
Quiet == UNCHANGED <<heap, words, ctx_ptr>>

\* Such a step keeps what the invariant says of them.
LEMMA QuietStep ==
  ASSUME ShellInv, Quiet
  PROVE  /\ BInv' /\ DOMAIN words' = 0 .. info.units - 1 /\ ctx_ptr' \in Nat /\ TaskIntact'
         /\ live' = live /\ used' = used /\ failed' = failed /\ ctx_ptr' = ctx_ptr
         /\ CtxBlocks' = CtxBlocks
<1>1. UNCHANGED heap /\ words' = words /\ ctx_ptr' = ctx_ptr
  BY DEF Quiet
<1>2. live' = live /\ used' = used /\ failed' = failed
  BY <1>1 DEF heap, vars
<1>3. BInv'
  BY <1>1, HeapFrame, SMTT(30) DEF ShellInv
<1> QED
  BY <1>1, <1>2, <1>3 DEF ShellInv, TaskIntact, CtxBlocks, CtxBlock

\* input_line starts a command at the prompt.
LEMMA LineStep == ASSUME ShellInv, NEW line, input_line(line) PROVE ShellInv'
<1>1. Quiet /\ pc = "prompt" /\ UNCHANGED <<current, IF_flag>>
  BY DEF input_line, Quiet, task
<1>2. pc' \in {"lock", "level", "todo", "report"} /\ level' = 0
  BY DEF input_line
<1>3. 0 \in 0 .. info.levels
  BY Geometry
<1> QED
  BY <1>1, <1>2, <1>3, QuietStep DEF ShellInv, StackAt, HeapAt, PanicAt, Panics

\* Steps that only move on: the end of a command that prints, the panic of
\* cmd_test_dyn_ran, and in test_task the lock, the test of CTX_PTR and the unlock.
LEMMA MoveStep ==
  ASSUME ShellInv, Report \/ cmd_test_dyn_ran \/ Lock \/ Enter \/ Unlock
  PROVE  ShellInv'
<1>1. /\ Quiet /\ pc \in {"report", "todo", "lock", "enter", "unlock"} /\ UNCHANGED <<current, IF_flag>>
      /\ pc' \in {"prompt", "panic_todo", "quit", "enter", "switch"}
      /\ pc' = "switch" => ctx_ptr # 0
  BY SMTT(30) DEF Report, cmd_test_dyn_ran, Lock, Enter, Unlock, Goto, Quiet, task
<1> QED
  BY <1>1, QuietStep DEF ShellInv, StackAt, HeapAt, PanicAt, Panics

\* The legs of the two calls of switch_context.
LEMMA SwitchStep ==
  ASSUME ShellInv, SaveMain \/ RestoreTask \/ SaveTask \/ RestoreMain
  PROVE  ShellInv'
<1>1. Quiet
  BY DEF SaveMain, RestoreTask, SaveTask, RestoreMain, Leg, Quiet
<1>2. \/ pc = "switch" /\ pc' = "restore_task" /\ current' = "none" /\ ~ IF_flag'
      \/ pc = "restore_task" /\ pc' = "task" /\ current' = "task"
      \/ pc = "task" /\ pc' = "restore_main" /\ current' = "none" /\ ~ IF_flag'
      \/ pc = "restore_main" /\ pc' = "unlock" /\ current' = "main"
  BY DEF SaveMain, RestoreTask, SaveTask, RestoreMain, Leg, Save, Restore, Cli
<1> QED
  BY <1>1, <1>2, QuietStep DEF ShellInv, StackAt, HeapAt, PanicAt, Panics

\* The head of the loop of cmd_test_dyn_seq over the levels.
LEMMA SeqLevelStep == ShellInv /\ SeqLevel => ShellInv'
<1> SUFFICES ASSUME ShellInv, SeqLevel PROVE ShellInv'
  OBVIOUS
<1>1. /\ Quiet /\ pc = "level" /\ index' = 0 /\ UNCHANGED <<level, current, IF_flag>>
      /\ pc' = IF level = info.levels THEN "prompt" ELSE IF used # 0 THEN "panic_108" ELSE "alloc"
  BY DEF SeqLevel, Quiet, task
<1>2. level \in 0 .. info.levels /\ live = CtxBlocks /\ BInv
  BY <1>1 DEF ShellInv, HeapAt, Panics
<1>3. used = 0 <=> ctx_ptr = 0
  BY <1>2, UsedNone, SMTT(30) DEF CtxBlocks
<1>4. CASE pc' = "alloc"
  <2>1. used = 0 /\ live = {} /\ ctx_ptr = 0 /\ level # info.levels
    BY <1>1, <1>2, <1>3, <1>4, UsedNone
  <2>2. level \in Levels /\ level \in Nat /\ Blocks(level) \in Nat
    BY <1>2, <2>1, LevelFacts, Geometry
  <2>3. Size(level) \in Nat /\ Size(level)' = Size(level)
    BY <1>1, <2>2, SizeFits DEF Size
  <2>4. index' \in 0 .. Blocks(level') /\ used' = index' * Size(level)' /\ live' = {}
    BY <1>1, <2>1, <2>2, <2>3, QuietStep, SMTT(30)
  <2> QED
    BY <1>1, <1>4, <2>1, <2>2, <2>4, QuietStep DEF ShellInv, StackAt, HeapAt, PanicAt
<1>5. CASE pc' # "alloc"
  <2>1. pc' = "prompt" \/ (pc' = "panic_108" /\ ctx_ptr # 0)
    BY <1>1, <1>3, <1>5
  <2> QED
    BY <1>1, <1>2, <2>1, QuietStep DEF ShellInv, StackAt, HeapAt, PanicAt, Panics
<1> QED
  BY <1>4, <1>5

\* The assert of cmd_test_dyn_seq between its two inner loops.
LEMMA SeqAllocatedStep == ShellInv /\ SeqAllocated => ShellInv'
<1> SUFFICES ASSUME ShellInv, SeqAllocated PROVE ShellInv'
  OBVIOUS
<1> DEFINE l == level
<1>1. /\ Quiet /\ pc = "alloc" /\ index = Blocks(l) /\ index' = 0 /\ UNCHANGED <<level, current, IF_flag>>
      /\ pc' = IF used = (data_len(info) \div Size(l)) * Size(l) THEN "free" ELSE "panic_132"
  BY DEF SeqAllocated, Quiet, task
<1>2. /\ l \in Levels /\ ctx_ptr = 0 /\ live \subseteq SeqBlocks(l) /\ used = Blocks(l) * Size(l) /\ BInv
  BY <1>1 DEF ShellInv, HeapAt
<1>3. l \in Nat /\ Blocks(l) \in Nat
  BY <1>2, LevelFacts
<1>4. live = SeqBlocks(l)
  BY <1>2, SeqAll
<1>5. Whole => data_len(info) \div Size(l) = Blocks(l)
  <2> DEFINE p == Pow2[l]
             U == UNIT_SIZE
             w == info.units
             q == w \div p
  <2>1. p \in Nat \ {0} /\ U \in Nat \ {0} /\ w \in Nat
    BY <1>3, Pow2Def, Geometry
  <2>2. Size(l) = p * U /\ Blocks(l) = q
    BY <1>3, SizeFits, LevelFacts DEF At
  <2>3. Whole => data_len(info) = w * U
    BY Geometry DEF Whole
  <2>4. (w * U) \div (p * U) = q
    <3> HIDE DEF p, U, w
    <3>1. q \in Nat /\ q * p <= w /\ w < q * p + p
      BY <2>1, DivBounds
    <3> HIDE DEF q
    <3>2. q * p \in Nat /\ w + 1 <= q * p + p
      BY <2>1, <3>1
    <3>3. (q * p) * U <= w * U /\ (w + 1) * U <= (q * p + p) * U
      <4>1. ASSUME NEW x \in Nat, NEW y \in Nat, x <= y PROVE x * U <= y * U
        BY <2>1, <4>1
      <4> QED
        BY <2>1, <3>1, <3>2, <4>1
    <3>4. (q * p) * U = q * (p * U) /\ (q * p + p) * U = q * (p * U) + p * U /\ (w + 1) * U = w * U + U
      BY <2>1, <3>1
    <3>5. w * U \in Nat /\ p * U \in Nat \ {0} /\ q * (p * U) \in Nat
      BY <2>1, <3>1
    <3>6. q * (p * U) <= w * U /\ w * U < q * (p * U) + p * U
      BY <2>1, <3>3, <3>4, <3>5, SMTT(30)
    <3> QED
      BY <3>1, <3>5, <3>6, DivUnique
  <2> QED
    BY <2>2, <2>3, <2>4
<1>6. CASE pc' = "free"
  <2>1. live' = {SeqBlock(level, i) : i \in index .. Blocks(level) - 1}'
    BY <1>1, <1>4, QuietStep, Zenon DEF SeqBlocks, SeqBlock, Size
  <2>2. index' \in 0 .. Blocks(level') /\ level' \in Levels /\ ctx_ptr' = 0
    BY <1>1, <1>2, <1>3, QuietStep, SMTT(30)
  <2> QED
    BY <1>1, <1>6, <2>1, <2>2, QuietStep, SMTT(30) DEF ShellInv, StackAt, HeapAt, PanicAt
<1>7. CASE pc' # "free"
  <2>1. pc' = "panic_132" /\ ~ Whole
    BY <1>1, <1>2, <1>5, <1>7, SMTT(30)
  <2> QED
    BY <1>1, <2>1, QuietStep DEF ShellInv, StackAt, HeapAt, PanicAt, Panics
<1> QED
  BY <1>6, <1>7

\* The assert of cmd_test_dyn_seq after them.
LEMMA SeqFreedStep == ShellInv /\ SeqFreed => ShellInv'
<1> SUFFICES ASSUME ShellInv, SeqFreed PROVE ShellInv'
  OBVIOUS
<1>1. /\ Quiet /\ pc = "free" /\ index = Blocks(level) /\ level' = level + 1
      /\ UNCHANGED <<current, IF_flag>> /\ pc' = IF used = 0 THEN "level" ELSE "panic_142"
  BY DEF SeqFreed, Quiet, task
<1>2. /\ level \in Levels /\ ctx_ptr = 0 /\ BInv
      /\ live = {SeqBlock(level, i) : i \in index .. Blocks(level) - 1}
  BY <1>1 DEF ShellInv, HeapAt
<1>3. live = {}
  BY <1>1, <1>2, LevelFacts
<1>4. pc' = "level" /\ live = CtxBlocks
  BY <1>1, <1>2, <1>3, UsedNone DEF CtxBlocks
<1>5. level' \in 0 .. info.levels
  BY <1>1, <1>2, LevelFacts, Geometry
<1> QED
  BY <1>1, <1>4, <1>5, QuietStep DEF ShellInv, StackAt, HeapAt, PanicAt

\* Every step of every command keeps the invariant.
LEMMA ShellStep == ShellInv /\ [ShellNext]_shell_vars => ShellInv'
<1> SUFFICES ASSUME ShellInv, [ShellNext]_shell_vars PROVE ShellInv'
  OBVIOUS
<1>1. ASSUME Run PROVE ShellInv'
  <2>1. CASE Report \/ cmd_test_dyn_ran \/ Lock \/ Enter \/ Unlock
    BY <2>1, MoveStep
  <2>2. CASE SaveMain \/ RestoreTask \/ SaveTask \/ RestoreMain
    BY <2>2, SwitchStep
  <2>3. CASE Quit \/ Create
    BY <2>3, QuitStep, CreateStep
  <2>4. CASE cmd_test_dyn_seq
    BY <2>4, SeqLevelStep, SeqAllocStep, SeqAllocatedStep, SeqFreeStep, SeqFreedStep DEF cmd_test_dyn_seq
  <2> QED
    BY <1>1, <2>1, <2>2, <2>3, <2>4 DEF Run, test_task
<1>2. ASSUME NEW line \in Lines, input_line(line) PROVE ShellInv'
  BY <1>2, LineStep
<1>3. ASSUME UNCHANGED shell_vars PROVE ShellInv'
  <2>1. Quiet /\ UNCHANGED <<pc, level, index, current, IF_flag>>
    BY <1>3 DEF shell_vars, task, Quiet
  <2>2. StackAt' /\ PanicAt'
    BY <2>1, QuietStep DEF ShellInv, StackAt, PanicAt
  <2>3. HeapAt'
    <3>1. /\ pc' = pc /\ level' = level /\ index' = index /\ ctx_ptr' = ctx_ptr /\ live' = live
          /\ used' = used /\ CtxBlocks' = CtxBlocks
      BY <2>1, QuietStep
    <3>2. Size(level)' = Size(level) /\ SeqBlocks(level)' = SeqBlocks(level)
      BY <3>1 DEF SeqBlocks, SeqBlock, Size
    <3>3. {SeqBlock(level, i) : i \in index .. Blocks(level) - 1}'
            = {SeqBlock(level, i) : i \in index .. Blocks(level) - 1}
      BY <3>1 DEF SeqBlock, Size
    <3> QED
      BY <3>1, <3>2, <3>3 DEF ShellInv, HeapAt
  <2> QED
    BY <2>1, <2>2, <2>3, QuietStep DEF ShellInv
<1> QED
  BY <1>1, <1>2, <1>3 DEF ShellNext

\* The inductive invariant holds in every reachable state of the shell.
LEMMA ShellInvariance == ShellSpec => []ShellInv
BY ShellInitInv, ShellStep, PTL DEF ShellSpec

\* For every chunk, unit size and context size: whenever interrupts are on, rsp is on
\* the kernel's stack or on the task's, in memory that is still allocated.
THEOREM StackFound == ShellSpec => []InterruptsFindStack
<1>1. ShellInv => InterruptsFindStack
  BY DEF ShellInv, StackAt, TaskIntact, InterruptsFindStack
<1> QED
  BY ShellInvariance, <1>1, PTL

\* For every chunk, unit size and context size: as long as CTX_PTR is set it points to
\* a live allocation that holds the context the last testtask left.
THEOREM ContextKept == ShellSpec => []TaskIntact
<1>1. ShellInv => TaskIntact
  BY DEF ShellInv
<1> QED
  BY ShellInvariance, <1>1, PTL

\* testdynseq succeeds on every chunk of whole units: it finds every block of every
\* level and returns all of them, and none of its later asserts fails.  That testtask
\* gets its memory takes a chunk with a block as large as a context.
THEOREM SequenceSucceeds ==
  ASSUME TOTAL_LEN % UNIT_SIZE = 0, bitmap_index_for_size(AlignedLen(CTX_LEN)) < info.levels
  PROVE  ShellSpec => []SeqConsistent
<1>1. ShellInv => SeqConsistent
  BY DEF ShellInv, HeapAt, PanicAt, CtxBlocks, SeqConsistent, Whole, CtxFits, Panics
<1> QED
  BY ShellInvariance, <1>1, PTL

=============================================================================
