---------------------------- MODULE BuddyProofs ----------------------------
(***************************************************************************)
(* The buddy allocator for every chunk and unit size: the layout that      *)
(* BuddyBlockInfo::new measures (BuddyChunk), the inductive invariant of    *)
(* BuddyBlock, and what it says: nothing is lost or handed out twice, and   *)
(* dealloc accepts what alloc handed out.                                   *)
(***************************************************************************)
EXTENDS BuddyBlock, BuddyChunk, FiniteSetTheorems, Arithmetic

-----------------------------------------------------------------------------
\* Loops over numbers, and the shift.

\* What a while loop of the crate computes at step k: b before the first turn,
\* and from the value g[p[k]] of an earlier step after it.
Rule(b, F, p, g, k) == IF k = 0 THEN b ELSE F[<<k, g[p[k]]>>]

\* Every step of the loop is computed from an earlier one, and stays a number.
IsRule(b, F, p) ==
  /\ b \in Nat /\ F \in [Nat \X Nat -> Nat]
  /\ p \in [Nat -> Nat] /\ \A n \in Nat \ {0} : p[n] < n

\* g is what the loop computes up to step n.
Follows(b, F, p, n, g) == g \in [0 .. n -> Nat] /\ \A k \in 0 .. n : g[k] = Rule(b, F, p, g, k)

\* A loop computes one value at each step: two functions that follow the same
\* rule agree as far as both go. The shifts `UNIT_SIZE << idx` and the loops of
\* from_chunk are the rules it is used for.
LEMMA RuleUnique ==
  ASSUME NEW b, NEW F, NEW p, IsRule(b, F, p),
         NEW N \in Nat, NEW M \in Nat, NEW g, NEW h, Follows(b, F, p, N, g), Follows(b, F, p, M, h),
         M <= N
  PROVE  h[M] = g[M]
<1> DEFINE T == {k \in Nat : k <= M /\ g[k] # h[k]}
<1>1. SUFFICES ASSUME T # {} PROVE FALSE
  OBVIOUS
<1>2. PICK x \in T : \A y \in T : x <= y
  <2>1. T \subseteq Nat
    OBVIOUS
  <2> HIDE DEF T
  <2> QED
    BY <1>1, <2>1, Least, Zenon
<1>3. g[x] = Rule(b, F, p, g, x) /\ h[x] = Rule(b, F, p, h, x)
  <2>1. x \in 0 .. N /\ x \in 0 .. M
    BY <1>2
  <2> QED
    BY <2>1 DEF Follows
<1>4. x # 0
  BY <1>2, <1>3 DEF Rule
<1>5. p[x] \in Nat /\ p[x] < x /\ p[x] \notin T
  BY <1>2, <1>4 DEF IsRule
<1>6. g[p[x]] = h[p[x]]
  BY <1>2, <1>5
<1> QED
  BY <1>2, <1>3, <1>6 DEF Rule

\* For every number of turns there is a function that follows the rule of a loop.
LEMMA RuleExists ==
  ASSUME NEW b, NEW F, NEW p, IsRule(b, F, p),
         NEW N \in Nat
  PROVE  \E g : Follows(b, F, p, N, g)
<1> DEFINE S == {n \in Nat : \E g : Follows(b, F, p, n, g)}
<1>1. 0 \in S
  <2>1. Follows(b, F, p, 0, [k \in 0 .. 0 |-> b])
    BY DEF Follows, Rule, IsRule
  <2> QED
    BY <2>1
<1>2. ASSUME NEW n \in S PROVE n + 1 \in S
  <2>1. n \in Nat
    OBVIOUS
  <2>2. PICK g : Follows(b, F, p, n, g)
    BY <1>2
  <2> DEFINE h == [k \in 0 .. n + 1 |-> IF k <= n THEN g[k] ELSE F[<<n + 1, g[p[n + 1]]>>]]
  <2>3. p[n + 1] \in 0 .. n
    <3>1. n + 1 \in Nat \ {0}
      BY <2>1
    <3> QED
      BY <2>1, <3>1 DEF IsRule
  <2>4. h \in [0 .. n + 1 -> Nat]
    <3>1. \A k \in 0 .. n : g[k] \in Nat
      BY <2>2 DEF Follows
    <3>2. F[<<n + 1, g[p[n + 1]]>>] \in Nat
      BY <2>1, <2>3, <3>1 DEF IsRule
    <3> QED
      BY <2>1, <3>1, <3>2
  <2>5. ASSUME NEW k \in 0 .. n + 1 PROVE h[k] = Rule(b, F, p, h, k)
    <3>1. CASE k = 0
      <4>1. h[0] = g[0] /\ g[0] = Rule(b, F, p, g, 0)
        BY <2>1, <2>2 DEF Follows
      <4> QED
        BY <3>1, <4>1 DEF Rule
    <3>2. CASE k # 0
      <4>1. k \in Nat \ {0} /\ p[k] \in Nat /\ p[k] < k
        BY <2>1, <3>2 DEF IsRule
      <4>2. p[k] \in 0 .. n /\ p[k] \in 0 .. n + 1
        BY <2>1, <4>1
      <4>3. h[p[k]] = g[p[k]]
        BY <2>1, <4>2
      <4>4. CASE k <= n
        <5>1. h[k] = g[k] /\ g[k] = Rule(b, F, p, g, k)
          BY <2>1, <2>2, <4>4 DEF Follows
        <5> QED
          BY <3>2, <4>3, <5>1 DEF Rule
      <4>5. CASE k = n + 1
        <5>1. h[k] = F[<<n + 1, g[p[n + 1]]>>]
          BY <2>1, <4>5
        <5> QED
          BY <3>2, <4>3, <4>5, <5>1 DEF Rule
      <4> QED
        BY <2>1, <4>4, <4>5
    <3> QED
      BY <3>1, <3>2
  <2>6. Follows(b, F, p, n + 1, h)
    BY <2>4, <2>5, Zenon DEF Follows
  <2> HIDE DEF h
  <2> QED
    BY <2>1, <2>6
<1>3. S \subseteq Nat
  OBVIOUS
<1> HIDE DEF S
<1>4. S = Nat
  BY <1>1, <1>2, <1>3, SetInduction, Zenon
<1> QED
  BY <1>4, Zenon DEF S

\* A recursive function is what its loop computes: it satisfies its equation at
\* every number. It stands in for an induction theorem for Pow2, LevelsOf and
\* BitmapBytes.
LEMMA Recursion ==
  ASSUME NEW b, NEW F, NEW p, IsRule(b, F, p)
  PROVE  \E f \in [Nat -> Nat] : \A n \in Nat : f[n] = Rule(b, F, p, f, n)
<1> DEFINE G == [n \in Nat |-> CHOOSE g : Follows(b, F, p, n, g)]
           f == [n \in Nat |-> G[n][n]]
<1>1. ASSUME NEW n \in Nat PROVE Follows(b, F, p, n, G[n])
  <2>1. Follows(b, F, p, n, CHOOSE g : Follows(b, F, p, n, g))
    BY RuleExists, Zenon
  <2> QED
    BY <2>1
<1> HIDE DEF G
<1>2. ASSUME NEW n \in Nat PROVE G[n][n] \in Nat /\ G[n][n] = Rule(b, F, p, G[n], n)
  BY <1>1, <1>2 DEF Follows
<1>3. f \in [Nat -> Nat] /\ \A n \in Nat : f[n] = G[n][n]
  BY <1>2
<1> HIDE DEF f
<1>4. ASSUME NEW n \in Nat PROVE f[n] = Rule(b, F, p, f, n)
  <2>1. f[n] = Rule(b, F, p, G[n], n)
    BY <1>2, <1>3
  <2>2. CASE n = 0
    BY <2>1, <2>2 DEF Rule
  <2>3. CASE n # 0
    <3>1. p[n] \in Nat /\ p[n] <= n
      BY <2>3 DEF IsRule
    <3>2. G[n][p[n]] = G[p[n]][p[n]]
      <4>1. Follows(b, F, p, n, G[n]) /\ Follows(b, F, p, p[n], G[p[n]])
        BY <1>1, <3>1, Zenon
      <4> QED
        BY <3>1, <4>1, RuleUnique
    <3>3. f[p[n]] = G[n][p[n]]
      BY <1>3, <3>1, <3>2, Zenon
    <3> QED
      BY <2>1, <2>3, <3>3 DEF Rule
  <2> QED
    BY <2>2, <2>3
<1> QED
  BY <1>3, <1>4

\* 1 << n, the shift behind `UNIT_SIZE << idx`: it doubles at every step.
LEMMA Pow2Def ==
  /\ Pow2[0] = 1
  /\ \A n \in Nat : Pow2[n] \in Nat \ {0} /\ Pow2[n + 1] = 2 * Pow2[n]
<1> DEFINE F == [q \in Nat \X Nat |-> 2 * q[2]]
           p == [n \in Nat |-> IF n = 0 THEN 0 ELSE n - 1]
<1>1. IsRule(1, F, p)
  BY DEF IsRule
<1>2. PICK f \in [Nat -> Nat] : \A n \in Nat : f[n] = Rule(1, F, p, f, n)
  <2> HIDE DEF F, p
  <2> QED
    BY <1>1, Recursion, Zenon
<1>3. ASSUME NEW n \in Nat PROVE f[n] = IF n = 0 THEN 1 ELSE 2 * f[n - 1]
  <2>1. CASE n = 0
    BY <1>2, <2>1, Zenon DEF Rule
  <2>2. CASE n # 0
    <3>1. p[n] = n - 1 /\ n - 1 \in Nat /\ f[n - 1] \in Nat
      BY <2>2
    <3>2. f[n] = F[<<n, f[n - 1]>>]
      BY <1>2, <2>2, <3>1 DEF Rule
    <3>3. F[<<n, f[n - 1]>>] = 2 * f[n - 1]
      BY <3>1
    <3> QED
      BY <2>2, <3>2, <3>3
  <2> QED
    BY <2>1, <2>2
<1>4. f = [n \in Nat |-> IF n = 0 THEN 1 ELSE 2 * f[n - 1]]
  BY <1>3
<1>5. Pow2 = [n \in Nat |-> IF n = 0 THEN 1 ELSE 2 * Pow2[n - 1]]
  BY <1>4 DEF Pow2
<1>6. Pow2[0] = 1 /\ \A n \in Nat : Pow2[n + 1] = 2 * Pow2[n]
  <2>1. \A n \in Nat : Pow2[n] = IF n = 0 THEN 1 ELSE 2 * Pow2[n - 1]
    BY <1>5
  <2> QED
    BY <2>1
<1> DEFINE S == {n \in Nat : Pow2[n] \in Nat \ {0}}
<1>7. S \subseteq Nat /\ 0 \in S /\ \A n \in S : n + 1 \in S
  BY <1>6
<1>8. S = Nat
  <2> HIDE DEF S
  <2> QED
    BY <1>7, SetInduction, Zenon
<1>9. \A n \in Nat : Pow2[n] \in Nat \ {0}
  BY <1>8
<1> QED
  BY <1>6, <1>9

-----------------------------------------------------------------------------
\* Units and the blocks that hold them.

\* Shifts add up, as the block sizes of two levels of the bitmaps do.
LEMMA Pow2Sum ==
  ASSUME NEW m \in Nat, NEW n \in Nat
  PROVE  Pow2[m + n] = Pow2[m] * Pow2[n]
<1> DEFINE S == {k \in Nat : Pow2[m + k] = Pow2[m] * Pow2[k]}
<1>1. 0 \in S
  BY Pow2Def
<1>2. ASSUME NEW k \in S PROVE k + 1 \in S
  <2>1. m + k \in Nat /\ k \in Nat /\ (m + k) + 1 = m + (k + 1)
    OBVIOUS
  <2>2. Pow2[m + (k + 1)] = 2 * (Pow2[m] * Pow2[k]) /\ Pow2[k + 1] = 2 * Pow2[k]
    BY <2>1, Pow2Def
  <2>3. Pow2[m] \in Nat /\ Pow2[k] \in Nat
    BY <2>1, Pow2Def
  <2>4. 2 * (Pow2[m] * Pow2[k]) = Pow2[m] * (2 * Pow2[k])
    BY <2>3
  <2> QED
    BY <2>1, <2>2, <2>4
<1>3. S \subseteq Nat
  OBVIOUS
<1>4. S = Nat
  <2> HIDE DEF S
  <2> QED
    BY <1>1, <1>2, <1>3, SetInduction, Zenon
<1> QED
  BY <1>4

\* A shift grows with its count, and faster: the loop of bitmap_index_for_size
\* reaches every size.
LEMMA Pow2Grows ==
  /\ \A n \in Nat : n < Pow2[n]
  /\ \A m, n \in Nat : m <= n => Pow2[m] <= Pow2[n]
  /\ \A m, n \in Nat : m < n => 2 * Pow2[m] <= Pow2[n]
<1> DEFINE S == {n \in Nat : n < Pow2[n]}
<1>1. S \subseteq Nat /\ 0 \in S /\ \A n \in S : n + 1 \in S
  BY Pow2Def
<1>2. S = Nat
  <2> HIDE DEF S
  <2> QED
    BY <1>1, SetInduction, Zenon
<1>3. ASSUME NEW m \in Nat, NEW n \in Nat, m <= n PROVE Pow2[m] <= Pow2[n]
  <2>1. n - m \in Nat /\ m + (n - m) = n
    BY <1>3
  <2>2. Pow2[n] = Pow2[m] * Pow2[n - m] /\ Pow2[m] \in Nat /\ Pow2[n - m] \in Nat \ {0}
    <3>1. Pow2[m + (n - m)] = Pow2[m] * Pow2[n - m]
      BY <2>1, Pow2Sum
    <3> QED
      BY <2>1, <3>1, Pow2Def
  <2> QED
    BY <2>2
<1>4. ASSUME NEW m \in Nat, NEW n \in Nat, m < n PROVE 2 * Pow2[m] <= Pow2[n]
  <2>1. m + 1 \in Nat /\ m + 1 <= n
    BY <1>4
  <2> QED
    BY <1>3, <2>1, Pow2Def
<1>5. \A n \in Nat : n < Pow2[n]
  BY <1>2
<1> QED
  BY <1>3, <1>4, <1>5

\* The block of level l that unit u lies in: `offset / block_size` in dealloc.
At(u, l) == u \div Pow2[l]

\* `block_idx /= 2`, a turn of the loop of dealloc, is the block one level up.
LEMMA AtNext ==
  ASSUME NEW u \in Nat, NEW l \in Nat
  PROVE  At(u, l) \in Nat /\ At(u, l + 1) = At(u, l) \div 2
<1> DEFINE a == Pow2[l]
           q == u \div a
           r == q \div 2
<1>1. a \in Nat \ {0} /\ Pow2[l + 1] = 2 * a
  BY Pow2Def
<1> HIDE DEF a
<1>2. q \in Nat /\ q * a <= u /\ u < q * a + a
  BY <1>1, DivBounds
<1> HIDE DEF q
<1>3. r \in Nat /\ r * 2 <= q /\ q < r * 2 + 2
  BY <1>2
<1> HIDE DEF r
<1>4. r * (2 * a) <= u /\ u < r * (2 * a) + 2 * a
  <2>1. (r * 2) * a <= q * a /\ (q + 1) * a <= (r * 2 + 2) * a
    BY <1>1, <1>2, <1>3
  <2>2. (r * 2) * a = r * (2 * a) /\ (r * 2 + 2) * a = r * (2 * a) + 2 * a /\ (q + 1) * a = q * a + a
    BY <1>1, <1>2, <1>3
  <2> QED
    BY <1>1, <1>2, <1>3, <2>1, <2>2
<1>5. u \div (2 * a) = r
  <2>1. 2 * a \in Nat \ {0}
    BY <1>1
  <2> QED
    BY <1>3, <1>4, <2>1, DivUnique, Zenon
<1> QED
  BY <1>1, <1>2, <1>5 DEF At, a, q, r

\* The blocks of level 0 of the bitmaps are the units.
LEMMA AtZero ==
  ASSUME NEW u \in Nat
  PROVE  At(u, 0) = u
  BY Pow2Def DEF At

\* The numbers of the blocks that hold two units keep their order at every level.
LEMMA AtMono ==
  ASSUME NEW u \in Nat, NEW v \in Nat, NEW l \in Nat, NEW m \in Nat, l <= m, At(u, l) <= At(v, l)
  PROVE  At(u, m) <= At(v, m)
<1> DEFINE S == {k \in Nat : At(u, l + k) <= At(v, l + k)}
<1>1. 0 \in S
  OBVIOUS
<1>2. ASSUME NEW k \in S PROVE k + 1 \in S
  <2>1. l + k \in Nat /\ (l + k) + 1 = l + (k + 1)
    OBVIOUS
  <2>2. At(u, l + k) \in Nat /\ At(v, l + k) \in Nat
    BY <2>1, AtNext
  <2>3. At(u, l + (k + 1)) = At(u, l + k) \div 2 /\ At(v, l + (k + 1)) = At(v, l + k) \div 2
    BY <2>1, AtNext
  <2>4. At(u, l + k) <= At(v, l + k)
    BY <1>2
  <2>5. At(u, l + (k + 1)) <= At(v, l + (k + 1))
    BY <2>2, <2>3, <2>4
  <2> QED
    BY <2>5
<1>3. S \subseteq Nat
  OBVIOUS
<1>4. S = Nat
  <2> HIDE DEF S
  <2> QED
    BY <1>1, <1>2, <1>3, SetInduction, Zenon
<1>5. m - l \in Nat /\ l + (m - l) = m
  OBVIOUS
<1>6. At(u, l + (m - l)) <= At(v, l + (m - l))
  BY <1>4, <1>5, Zenon
<1> QED
  BY <1>5, <1>6

\* Two units that share a block share all the blocks it is merged into.
LEMMA AtShared ==
  ASSUME NEW u \in Nat, NEW v \in Nat, NEW l \in Nat, NEW m \in Nat, l <= m, At(u, l) = At(v, l)
  PROVE  At(u, m) = At(v, m)
<1>1. At(u, l) \in Nat /\ At(u, m) \in Nat /\ At(v, m) \in Nat
  BY AtNext, Zenon
<1>2. At(u, l) <= At(v, l) /\ At(v, l) <= At(u, l)
  BY <1>1
<1>3. At(u, m) <= At(v, m) /\ At(v, m) <= At(u, m)
  BY <1>2, AtMono
<1> QED
  BY <1>1, <1>3

\* A unit in an earlier block at one level is in an earlier one at every level below.
LEMMA AtBelow ==
  ASSUME NEW u \in Nat, NEW v \in Nat, NEW l \in Nat, NEW m \in Nat, l <= m, At(u, m) < At(v, m)
  PROVE  At(u, l) < At(v, l)
<1>1. At(u, l) \in Nat /\ At(v, l) \in Nat /\ At(u, m) \in Nat /\ At(v, m) \in Nat
  BY AtNext, Zenon
<1>2. At(v, l) <= At(u, l) => At(v, m) <= At(u, m)
  BY AtMono
<1> QED
  BY <1>1, <1>2

\* `block_idx ^ 1` in dealloc names the other half of the block above.
LEMMA BuddyPair ==
  ASSUME NEW i \in Nat
  PROVE  /\ Buddy(i) \in Nat /\ Buddy(i) # i /\ Buddy(Buddy(i)) = i /\ Buddy(i) \div 2 = i \div 2
         /\ \A j \in Nat : i \div 2 = j \div 2 => i = j \/ i = Buddy(j)
         /\ \A n \in Nat : i \div 2 < n \div 2 => i < n /\ Buddy(i) < n
         /\ \A n \in Nat : i < n /\ Buddy(i) < n => i \div 2 < n \div 2
<1> DEFINE k == i \div 2
<1>1. k \in Nat /\ (i = 2 * k \/ i = 2 * k + 1)
  OBVIOUS
<1>2. i \div 2 = k /\ (i = 2 * k => i % 2 = 0) /\ (i = 2 * k + 1 => i % 2 = 1)
  BY <1>1
<1> HIDE DEF k
<1>3. Buddy(i) = IF i = 2 * k THEN 2 * k + 1 ELSE 2 * k
  BY <1>1, <1>2 DEF Buddy
<1>4. Buddy(i) \div 2 = k /\ Buddy(Buddy(i)) = i
  <2>1. CASE i = 2 * k
    <3>1. Buddy(i) = 2 * k + 1 /\ (2 * k + 1) % 2 = 1 /\ (2 * k + 1) \div 2 = k
      BY <1>1, <1>3, <2>1
    <3>2. Buddy(2 * k + 1) = 2 * k
      BY <1>1, <3>1 DEF Buddy
    <3> QED
      BY <2>1, <3>1, <3>2
  <2>2. CASE i = 2 * k + 1
    <3>1. Buddy(i) = 2 * k /\ (2 * k) % 2 = 0 /\ (2 * k) \div 2 = k
      BY <1>1, <1>3, <2>2
    <3>2. Buddy(2 * k) = 2 * k + 1
      BY <1>1, <3>1 DEF Buddy
    <3> QED
      BY <2>2, <3>1, <3>2
  <2> QED
    BY <1>1, <2>1, <2>2
<1>5. ASSUME NEW j \in Nat, i \div 2 = j \div 2 PROVE i = j \/ i = Buddy(j)
  <2>1. j = 2 * k \/ j = 2 * k + 1
    BY <1>1, <1>2, <1>5
  <2>2. j = 2 * k => Buddy(j) = 2 * k + 1
    BY <1>1, <2>1 DEF Buddy
  <2>3. j = 2 * k + 1 => Buddy(j) = 2 * k
    BY <1>1, <2>1 DEF Buddy
  <2> QED
    BY <1>1, <2>1, <2>2, <2>3
<1>6. ASSUME NEW n \in Nat PROVE k < n \div 2 <=> 2 * k < n /\ 2 * k + 1 < n
  BY <1>1
<1> QED
  BY <1>1, <1>2, <1>3, <1>4, <1>5, <1>6

\* Two units in one block at level m part at some level below it, where one is in
\* the buddy of the other's block, or they are still together at level l: this is
\* how the halves that alloc splits off share out the units of a block.
LEMMA AtPart ==
  ASSUME NEW u \in Nat, NEW v \in Nat, NEW l \in Nat, NEW m \in Nat, l <= m, At(u, m) = At(v, m)
  PROVE  At(u, l) = At(v, l) \/ \E k \in l .. m - 1 : At(u, k) = Buddy(At(v, k))
<1> DEFINE T == {k \in l .. m : At(u, k) = At(v, k)}
<1>1. PICK k \in T : \A y \in T : k <= y
  <2>1. T \subseteq Nat /\ m \in T
    OBVIOUS
  <2> HIDE DEF T
  <2> QED
    BY <2>1, Least, Zenon
<1>2. CASE k = l
  BY <1>1, <1>2
<1>3. CASE k # l
  <2>1. k - 1 \in Nat /\ k - 1 \in l .. m - 1 /\ k - 1 \notin T /\ (k - 1) + 1 = k
    BY <1>1, <1>3
  <2>2. At(u, k) = At(u, k - 1) \div 2 /\ At(v, k) = At(v, k - 1) \div 2
    BY <2>1, AtNext
  <2>3. At(u, k - 1) \in Nat /\ At(v, k - 1) \in Nat
    BY <2>1, AtNext
  <2>4. At(u, k) = At(v, k) /\ At(u, k - 1) # At(v, k - 1)
    BY <1>1, <2>1
  <2>5. At(u, k - 1) = Buddy(At(v, k - 1))
    BY <2>2, <2>3, <2>4, BuddyPair
  <2> QED
    BY <2>1, <2>5
<1> QED
  BY <1>2, <1>3

\* Where two units part they are together in every block above, and in none below.
LEMMA AtParted ==
  ASSUME NEW u \in Nat, NEW v \in Nat, NEW k \in Nat, At(u, k) = Buddy(At(v, k))
  PROVE  /\ \A m \in Nat : m > k => At(u, m) = At(v, m)
         /\ \A m \in Nat : m <= k => At(u, m) # At(v, m)
<1>1. At(v, k) \in Nat /\ At(u, k + 1) = At(u, k) \div 2 /\ At(v, k + 1) = At(v, k) \div 2
  BY AtNext
<1>2. At(u, k) # At(v, k) /\ At(u, k + 1) = At(v, k + 1)
  BY <1>1, BuddyPair
<1>3. ASSUME NEW m \in Nat, m > k PROVE At(u, m) = At(v, m)
  <2>1. k + 1 \in Nat /\ k + 1 <= m
    BY <1>3
  <2> QED
    BY <1>2, <2>1, AtShared
<1>4. ASSUME NEW m \in Nat, m <= k, At(u, m) = At(v, m) PROVE FALSE
  BY <1>2, <1>4, AtShared
<1> QED
  BY <1>3, <1>4

-----------------------------------------------------------------------------
\* BuddyBlockInfo: the two measurements of a chunk.

\* The count of levels of from_chunk, one turn of its loop at a time.
LEMMA LevelsDef ==
  \A n \in Nat \ {0} : /\ LevelsOf[n] \in Nat \ {0}
                       /\ LevelsOf[n] = IF n = 1 THEN 1 ELSE 1 + LevelsOf[n \div 2]
<1> DEFINE D == Nat \ {0}
           F == [q \in Nat \X Nat |-> IF q[1] = 1 THEN 1 ELSE 1 + q[2]]
           p == [n \in Nat |-> n \div 2]
<1>1. IsRule(1, F, p)
  BY DEF IsRule
<1>2. PICK f \in [Nat -> Nat] : \A n \in Nat : f[n] = Rule(1, F, p, f, n)
  <2> HIDE DEF F, p
  <2> QED
    BY <1>1, Recursion, Zenon
<1> DEFINE g == [n \in D |-> f[n]]
<1>3. ASSUME NEW n \in D PROVE g[n] \in D /\ g[n] = IF n = 1 THEN 1 ELSE 1 + g[n \div 2]
  <2>1. p[n] = n \div 2 /\ n \div 2 \in Nat /\ f[n \div 2] \in Nat /\ n \in Nat /\ n # 0
    OBVIOUS
  <2>2. f[n] = F[<<n, f[n \div 2]>>]
    BY <1>2, <2>1 DEF Rule
  <2>3. F[<<n, f[n \div 2]>>] = IF n = 1 THEN 1 ELSE 1 + f[n \div 2]
    BY <2>1
  <2>4. n # 1 => g[n \div 2] = f[n \div 2]
    BY <2>1
  <2> QED
    BY <2>1, <2>2, <2>3, <2>4
<1>4. g = [n \in D |-> IF n = 1 THEN 1 ELSE 1 + g[n \div 2]]
  BY <1>3
<1> HIDE DEF g
<1>5. LevelsOf = [n \in D |-> IF n = 1 THEN 1 ELSE 1 + LevelsOf[n \div 2]]
  BY <1>4 DEF LevelsOf
<1>6. \A n \in D : LevelsOf[n] = IF n = 1 THEN 1 ELSE 1 + LevelsOf[n \div 2]
  BY <1>5
<1> DEFINE T == {n \in D : LevelsOf[n] \notin D}
<1>7. ASSUME T # {} PROVE FALSE
  <2>1. PICK x \in T : \A y \in T : x <= y
    <3>1. T \subseteq Nat
      OBVIOUS
    <3> HIDE DEF T
    <3> QED
      BY <1>7, <3>1, Least, Zenon
  <2>2. x # 1
    BY <1>6, <2>1
  <2>3. x \div 2 \in D /\ x \div 2 < x /\ x \div 2 \notin T
    BY <2>1, <2>2
  <2> QED
    BY <1>6, <2>1, <2>2, <2>3
<1> QED
  BY <1>6, <1>7

\* The bytes of bitmap that from_chunk adds up, one turn of its loop at a time.
LEMMA BytesDef ==
  \A n \in Nat \ {0} : /\ BitmapBytes[n] \in Nat \ {0}
                       /\ BitmapBytes[n] = IF n = 1 THEN Measured(1)
                                           ELSE Measured(n) + BitmapBytes[n \div 2]
<1> DEFINE D == Nat \ {0}
           F == [q \in Nat \X Nat |-> IF q[1] = 0 THEN 1 ELSE IF q[1] = 1 THEN Measured(1) ELSE Measured(q[1]) + q[2]]
           p == [n \in Nat |-> n \div 2]
<1>0. \A n \in D : Measured(n) \in D
  BY DEF Measured
<1>1. IsRule(1, F, p)
  BY <1>0 DEF IsRule
<1>2. PICK f \in [Nat -> Nat] : \A n \in Nat : f[n] = Rule(1, F, p, f, n)
  <2> HIDE DEF F, p
  <2> QED
    BY <1>1, Recursion, Zenon
<1> DEFINE g == [n \in D |-> f[n]]
<1>3. ASSUME NEW n \in D PROVE g[n] \in D /\ g[n] = IF n = 1 THEN Measured(1) ELSE Measured(n) + g[n \div 2]
  <2>1. p[n] = n \div 2 /\ n \div 2 \in Nat /\ f[n \div 2] \in Nat /\ n \in Nat /\ n # 0
    OBVIOUS
  <2>2. f[n] = F[<<n, f[n \div 2]>>]
    BY <1>2, <2>1, Zenon DEF Rule
  <2>3. F[<<n, f[n \div 2]>>] = IF n = 1 THEN Measured(1) ELSE Measured(n) + f[n \div 2]
    BY <2>1
  <2>4. n # 1 => g[n \div 2] = f[n \div 2]
    BY <2>1
  <2> QED
    BY <1>0, <2>1, <2>2, <2>3, <2>4
<1>4. g = [n \in D |-> IF n = 1 THEN Measured(1) ELSE Measured(n) + g[n \div 2]]
  BY <1>3
<1> HIDE DEF g
<1>5. BitmapBytes = [n \in D |-> IF n = 1 THEN Measured(1) ELSE Measured(n) + BitmapBytes[n \div 2]]
  BY <1>4 DEF BitmapBytes
<1>6. \A n \in D : BitmapBytes[n] = IF n = 1 THEN Measured(1) ELSE Measured(n) + BitmapBytes[n \div 2]
  BY <1>5
<1> DEFINE T == {n \in D : BitmapBytes[n] \notin D}
<1>7. ASSUME T # {} PROVE FALSE
  <2>1. PICK x \in T : \A y \in T : x <= y
    <3>1. T \subseteq Nat
      OBVIOUS
    <3> HIDE DEF T
    <3> QED
      BY <1>7, <3>1, Least, Zenon
  <2>2. x # 1
    BY <1>0, <1>6, <2>1
  <2>3. x \div 2 \in D /\ x \div 2 < x /\ x \div 2 \notin T
    BY <2>1, <2>2
  <2> QED
    BY <1>0, <1>6, <2>1, <2>2, <2>3
<1> QED
  BY <1>6, <1>7

\* The levels that from_chunk counts end with the first that has one block.
LEMMA LevelsBound ==
  ASSUME NEW n \in Nat \ {0}
  PROVE  Pow2[LevelsOf[n] - 1] <= n /\ n < Pow2[LevelsOf[n]]
<1> DEFINE D == Nat \ {0}
           T == {k \in D : ~ (Pow2[LevelsOf[k] - 1] <= k /\ k < Pow2[LevelsOf[k]])}
<1>1. ASSUME T # {} PROVE FALSE
  <2>1. PICK x \in T : \A y \in T : x <= y
    <3>1. T \subseteq Nat
      OBVIOUS
    <3> HIDE DEF T
    <3> QED
      BY <1>1, <3>1, Least, Zenon
  <2>2. Pow2[1] = 2 /\ Pow2[0] = 1
    <3>1. Pow2[0 + 1] = 2 * Pow2[0]
      BY Pow2Def
    <3> QED
      BY <3>1, Pow2Def
  <2>3. x # 1
    <3>1. LevelsOf[1] = 1
      BY LevelsDef
    <3> QED
      BY <2>1, <2>2, <3>1
  <2> DEFINE h == x \div 2
             L == LevelsOf[h]
  <2>4. h \in D /\ h < x /\ h \notin T /\ 2 * h <= x /\ x <= 2 * h + 1
    BY <2>1, <2>3
  <2>5. L \in D /\ LevelsOf[x] = 1 + L
    BY <2>1, <2>3, <2>4, LevelsDef
  <2>6. Pow2[L - 1] <= h /\ h < Pow2[L]
    BY <2>4
  <2>7. Pow2[L] = 2 * Pow2[L - 1] /\ Pow2[L + 1] = 2 * Pow2[L] /\ Pow2[L] \in Nat /\ Pow2[L - 1] \in Nat
    <3>1. L - 1 \in Nat /\ (L - 1) + 1 = L /\ L \in Nat
      BY <2>5
    <3> QED
      BY <3>1, Pow2Def
  <2>8. Pow2[LevelsOf[x] - 1] = Pow2[L] /\ Pow2[LevelsOf[x]] = Pow2[L + 1]
    <3>1. LevelsOf[x] - 1 = L /\ LevelsOf[x] = L + 1
      BY <2>5
    <3> QED
      BY <3>1
  <2> HIDE DEF L, h
  <2> QED
    BY <2>1, <2>4, <2>6, <2>7, <2>8
<1> QED
  BY <1>1

\* More blocks have no fewer levels and need no fewer bytes of bitmap: measuring
\* the chunk a second time with fewer units asks for no more than the first time.
LEMMA MeasureMono ==
  ASSUME NEW m \in Nat \ {0}, NEW n \in Nat \ {0}, m <= n
  PROVE  LevelsOf[m] <= LevelsOf[n] /\ BitmapBytes[m] <= BitmapBytes[n]
<1> DEFINE D == Nat \ {0}
           T == {k \in D : \E j \in D : j <= k /\ ~ (LevelsOf[j] <= LevelsOf[k] /\ BitmapBytes[j] <= BitmapBytes[k])}
<1>1. ASSUME T # {} PROVE FALSE
  <2>1. PICK x \in T : \A y \in T : x <= y
    <3>1. T \subseteq Nat
      OBVIOUS
    <3> HIDE DEF T
    <3> QED
      BY <1>1, <3>1, Least, Zenon
  <2>2. PICK j \in D : j <= x /\ ~ (LevelsOf[j] <= LevelsOf[x] /\ BitmapBytes[j] <= BitmapBytes[x])
    BY <2>1
  <2>3. x \in D /\ LevelsOf[x] \in D /\ LevelsOf[j] \in D /\ BitmapBytes[x] \in D /\ BitmapBytes[j] \in D
    BY <2>1, <2>2, LevelsDef, BytesDef
  <2>4. LevelsOf[1] = 1 /\ BitmapBytes[1] = 1
    BY LevelsDef, BytesDef DEF Measured
  <2>5. j # 1
    BY <2>2, <2>3, <2>4
  <2>6. x \div 2 \in D /\ x \div 2 < x /\ j \div 2 \in D /\ j \div 2 <= x \div 2 /\ x # 1
    BY <2>2, <2>3, <2>5
  <2>7. LevelsOf[j \div 2] <= LevelsOf[x \div 2] /\ BitmapBytes[j \div 2] <= BitmapBytes[x \div 2]
    <3>1. x \div 2 \notin T
      BY <2>1, <2>6
    <3> QED
      BY <2>6, <3>1
  <2>8. /\ LevelsOf[j \div 2] \in Nat /\ LevelsOf[x \div 2] \in Nat
        /\ BitmapBytes[j \div 2] \in Nat /\ BitmapBytes[x \div 2] \in Nat
    BY <2>6, LevelsDef, BytesDef
  <2>9. LevelsOf[j] = 1 + LevelsOf[j \div 2] /\ LevelsOf[x] = 1 + LevelsOf[x \div 2]
    BY <2>2, <2>3, <2>5, <2>6, LevelsDef
  <2>10. /\ BitmapBytes[j] = Measured(j) + BitmapBytes[j \div 2]
         /\ BitmapBytes[x] = Measured(x) + BitmapBytes[x \div 2]
    BY <2>2, <2>3, <2>5, <2>6, BytesDef
  <2>11. Measured(j) \in Nat /\ Measured(x) \in Nat /\ Measured(j) <= Measured(x)
    BY <2>2, <2>3 DEF Measured
  <2> QED
    BY <2>2, <2>7, <2>8, <2>9, <2>10, <2>11
<1> QED
  BY <1>1

\* The units of a chunk of n bytes, rounded up as from_chunk does.
UnitCount(n) == (n - 1) \div UNIT_SIZE + 1

\* What from_chunk measures: at least one unit and one level, no more units than the
\* chunk has bytes for.
LEMMA Chunk ==
  ASSUME NEW a, NEW n \in Nat, n > UNIT_SIZE
  PROVE  /\ UnitCount(n) \in Nat \ {0}
         /\ n % UNIT_SIZE = 0 => UnitCount(n) * UNIT_SIZE = n
         /\ from_chunk(a, n).units = UnitCount(n)
         /\ from_chunk(a, n).levels = LevelsOf[UnitCount(n)]
         /\ from_chunk(a, n).metadata_len
              = LevelsOf[UnitCount(n)] * SizeOfBlockBitmap + BitmapBytes[UnitCount(n)]
         /\ from_chunk(a, n).metadata_len \in Nat \ {0}
<1>1. UNIT_SIZE \in Nat \ {0}
  BY UnitAssumption
<1> DEFINE U == UNIT_SIZE
           q == (n - 1) \div U
<1>2. q \in Nat /\ q * U <= n - 1 /\ n - 1 < q * U + U
  <2>1. n - 1 \in Nat
    BY <1>1
  <2> QED
    BY <1>1, <2>1, DivBounds
<1>3. UnitCount(n) = q + 1 /\ UnitCount(n) \in Nat \ {0}
  BY <1>2 DEF UnitCount
<1>4. ASSUME n % U = 0 PROVE (q + 1) * U = n
  <2>1. PICK r \in Nat : n = r * U
    BY <1>1, <1>4, ModWitness
  <2>2. q < r /\ r < q + 2
    <3>1. r <= q => r * U <= q * U
      BY <1>1, <1>2
    <3>2. r >= q + 2 => r * U >= (q + 2) * U
      BY <1>1, <1>2
    <3>3. (q + 2) * U = q * U + U + U /\ r * U \in Nat /\ q * U \in Nat
      BY <1>1, <1>2
    <3> HIDE DEF q
    <3> QED
      BY <1>1, <1>2, <2>1, <3>1, <3>2, <3>3
  <2> HIDE DEF q
  <2>3. r = q + 1
    BY <1>2, <2>2
  <2> QED
    BY <2>1, <2>3
<1>5. /\ from_chunk(a, n).units = UnitCount(n)
      /\ from_chunk(a, n).levels = LevelsOf[UnitCount(n)]
      /\ from_chunk(a, n).metadata_len
           = LevelsOf[UnitCount(n)] * SizeOfBlockBitmap + BitmapBytes[UnitCount(n)]
  BY DEF from_chunk, UnitCount
<1>6. LevelsOf[UnitCount(n)] \in Nat \ {0} /\ BitmapBytes[UnitCount(n)] \in Nat \ {0}
  BY <1>3, LevelsDef, BytesDef
<1>7. from_chunk(a, n).metadata_len \in Nat \ {0}
  BY <1>5, <1>6 DEF SizeOfBlockBitmap
<1> QED
  BY <1>3, <1>4, <1>5, <1>7

\* What BuddyBlockInfo::new makes of a chunk it accepts: the units of the second
\* measurement lie behind the bitmaps of the first.
LEMMA NewChunk ==
  ASSUME NEW r, NEW n \in Nat, ChunkAccepted(n), n - DataOffset(n) > UNIT_SIZE
  PROVE  /\ DataOffset(n) \in Nat \ {0} /\ DataOffset(n) % UNIT_SIZE = 0
         /\ n - DataOffset(n) \in Nat
         /\ new(r, n).raw_addr = r /\ new(r, n).total_len = n /\ new(r, n).data_offset = DataOffset(n)
         /\ new(r, n).units = UnitCount(n - DataOffset(n))
         /\ new(r, n).levels = LevelsOf[new(r, n).units]
         /\ new(r, n).metadata_len = new(r, n).levels * SizeOfBlockBitmap + BitmapBytes[new(r, n).units]
         /\ new(r, n).metadata_len <= DataOffset(n)
         /\ new(r, n).units \in Nat \ {0}
         /\ n % UNIT_SIZE = 0 => new(r, n).units * UNIT_SIZE = n - DataOffset(n)
<1>1. UNIT_SIZE \in Nat \ {0} /\ n > UNIT_SIZE
  BY UnitAssumption DEF ChunkAccepted
<1> DEFINE U == UNIT_SIZE
           m == from_chunk(0, n).metadata_len
           q == (m + U - 1) \div U
           o == DataOffset(n)
           c == from_chunk(r + o, n - o)
<1>2. m \in Nat \ {0} /\ m = LevelsOf[UnitCount(n)] * SizeOfBlockBitmap + BitmapBytes[UnitCount(n)]
      /\ UnitCount(n) \in Nat \ {0}
  BY <1>1, Chunk
<1>3. o = q * U
  BY DEF DataOffset, div_ceil
<1>4. q \in Nat \ {0} /\ m <= q * U
  <2> HIDE DEF m
  <2>1. m + U - 1 \in Nat
    BY <1>1, <1>2
  <2>2. q \in Nat /\ q * U <= m + U - 1 /\ m + U - 1 < q * U + U
    BY <1>1, <2>1, DivBounds
  <2> HIDE DEF q
  <2>3. q # 0
    BY <1>1, <1>2, <2>2
  <2> QED
    BY <1>1, <1>2, <2>2, <2>3
<1> HIDE DEF q
<1>5. o \in Nat \ {0} /\ o % U = 0
  BY <1>1, <1>3, <1>4, ModMultiple
<1> HIDE DEF o, m
<1>6. n - o \in Nat /\ n - o > U
  BY <1>1, <1>5 DEF o
<1>7. /\ UnitCount(n - o) \in Nat \ {0}
      /\ (n - o) % UNIT_SIZE = 0 => UnitCount(n - o) * UNIT_SIZE = n - o
      /\ c.units = UnitCount(n - o)
      /\ c.levels = LevelsOf[UnitCount(n - o)]
      /\ c.metadata_len = LevelsOf[UnitCount(n - o)] * SizeOfBlockBitmap + BitmapBytes[UnitCount(n - o)]
  BY <1>6, Chunk
<1>8. /\ new(r, n).raw_addr = r /\ new(r, n).total_len = n /\ new(r, n).data_offset = o
      /\ new(r, n).units = c.units /\ new(r, n).levels = c.levels
      /\ new(r, n).metadata_len = c.metadata_len
  BY DEF new, from_chunk, o
<1>9. UnitCount(n - o) <= UnitCount(n)
  BY <1>1, <1>5, <1>6 DEF UnitCount
<1>10. c.metadata_len <= m
  <2>1. /\ LevelsOf[UnitCount(n - o)] <= LevelsOf[UnitCount(n)]
        /\ BitmapBytes[UnitCount(n - o)] <= BitmapBytes[UnitCount(n)]
    BY <1>2, <1>7, <1>9, MeasureMono
  <2>2. /\ LevelsOf[UnitCount(n - o)] \in Nat /\ LevelsOf[UnitCount(n)] \in Nat
        /\ BitmapBytes[UnitCount(n - o)] \in Nat /\ BitmapBytes[UnitCount(n)] \in Nat
    BY <1>2, <1>7, LevelsDef, BytesDef
  <2> QED
    BY <1>2, <1>7, <2>1, <2>2 DEF SizeOfBlockBitmap
<1>11. c.metadata_len <= o
  <2>1. c.metadata_len \in Nat /\ m \in Nat /\ o \in Nat
    <3>1. LevelsOf[UnitCount(n - o)] \in Nat /\ BitmapBytes[UnitCount(n - o)] \in Nat
      BY <1>7, LevelsDef, BytesDef
    <3> QED
      BY <1>2, <1>5, <1>7, <3>1 DEF SizeOfBlockBitmap
  <2> HIDE DEF c
  <2> QED
    BY <1>3, <1>4, <1>10, <2>1
<1>12. n % U = 0 => (n - o) % U = 0
  <2> SUFFICES ASSUME n % U = 0 PROVE (n - o) % U = 0
    OBVIOUS
  <2>1. PICK k \in Nat : n = k * U
    BY <1>1, ModWitness, Zenon
  <2>2. n - o = (k - q) * U /\ k - q \in Int
    BY <1>1, <1>3, <1>4, <2>1
  <2>3. k - q \in Nat
    <3>1. k < q => k * U <= q * U
      BY <1>1, <1>4
    <3> QED
      BY <1>1, <1>3, <1>4, <1>6, <2>1, <2>2, <3>1
  <2> QED
    BY <1>1, <2>2, <2>3, ModMultiple
<1> HIDE DEF c
<1> QED
  BY <1>5, <1>6, <1>7, <1>8, <1>11, <1>12 DEF o

\* The levels whose bitmaps the loop of BuddyBlock::new has carved, and what they
\* leave of the space that was measured.
LaidOut ==
  /\ At(measured.units, idx) # 0
  /\ idx + LevelsOf[At(measured.units, idx)] = measured.levels
  /\ bits_idx + BitmapBytes[At(measured.units, idx)] = BitmapBytes[measured.units]

\* The inductive invariant of BuddyBlockInfo::new and of the loop of BuddyBlock::new.
ChunkInv ==
  /\ chunk_len \in Nat /\ idx \in Nat /\ bits_idx \in Nat
  /\ stage \in {"whole", "rest", "compare"} => idx = 0 /\ bits_idx = 0
  /\ stage \in {"rest", "compare", "layout", "done", "assert_114"} => ChunkAccepted(chunk_len)
  /\ stage \in {"compare", "layout", "done", "assert_114"} =>
       chunk_len - DataOffset(chunk_len) > UNIT_SIZE
  /\ stage \in {"layout", "done", "assert_114"} => measured = new(0, chunk_len)
  /\ stage = "layout" => LaidOut
  /\ stage = "done" => idx = measured.levels /\ bits_idx = BitmapBytes[measured.units]

\* The measurements of BuddyBlockInfo::new and every turn of the loop of
\* BuddyBlock::new keep the invariant.
LEMMA ChunkStep == ChunkInv /\ [ChunkNext]_chunk_vars => ChunkInv'
<1> SUFFICES ASSUME ChunkInv, [ChunkNext]_chunk_vars PROVE ChunkInv'
  OBVIOUS
<1>1. CASE MeasureWhole
  BY <1>1 DEF ChunkInv, MeasureWhole, FromChunk, LaidOut
<1>2. CASE MeasureRest
  <2>1. /\ stage' \in {"assert_77", "assert_97", "compare"}
        /\ stage' = "compare" => ChunkAccepted(chunk_len - DataOffset(chunk_len))
    BY <1>2 DEF MeasureRest, FromChunk
  <2>2. stage' = "compare" => chunk_len - DataOffset(chunk_len) > UNIT_SIZE
    BY <2>1 DEF ChunkAccepted
  <2> QED
    BY <1>2, <2>1, <2>2 DEF ChunkInv, MeasureRest, LaidOut
<1>3. CASE Compare
  <2>1. /\ measured' = new(0, chunk_len) /\ idx = 0 /\ bits_idx = 0
        /\ UNCHANGED <<chunk_len, bits_idx, idx>>
        /\ ChunkAccepted(chunk_len) /\ chunk_len - DataOffset(chunk_len) > UNIT_SIZE
        /\ stage' \in {"layout", "assert_114"}
        /\ chunk_len \in Nat
    BY <1>3 DEF ChunkInv, Compare
  <2>2. /\ measured'.levels = LevelsOf[measured'.units] /\ measured'.units \in Nat \ {0}
    <3>1. /\ new(0, chunk_len).levels = LevelsOf[new(0, chunk_len).units]
          /\ new(0, chunk_len).units \in Nat \ {0}
      BY <2>1, NewChunk
    <3> QED
      BY <2>1, <3>1
  <2>3. At(measured'.units, 0) = measured'.units
    BY <2>2, AtZero
  <2>4. LevelsOf[measured'.units] \in Nat /\ BitmapBytes[measured'.units] \in Nat
    BY <2>2, LevelsDef, BytesDef
  <2>5. LaidOut'
    <3>1. idx' = 0 /\ bits_idx' = 0 /\ At(measured'.units, idx') = measured'.units
      BY <2>1, <2>3
    <3>2. /\ idx' + LevelsOf[measured'.units] = measured'.levels
          /\ bits_idx' + BitmapBytes[measured'.units] = BitmapBytes[measured'.units]
      BY <2>2, <2>4, <3>1
    <3> QED
      BY <2>2, <3>1, <3>2 DEF LaidOut
  <2> QED
    BY <2>1, <2>5 DEF ChunkInv
<1>4. CASE Layout
  <2> DEFINE units == measured.units
             b == At(units, idx)
             c == At(units, idx + 1)
  <2>1. /\ measured = new(0, chunk_len) /\ LaidOut /\ stage = "layout"
        /\ UNCHANGED <<chunk_len, measured>> /\ idx' = idx + 1
        /\ ChunkAccepted(chunk_len) /\ chunk_len - DataOffset(chunk_len) > UNIT_SIZE
        /\ chunk_len \in Nat /\ idx \in Nat /\ bits_idx \in Nat
        /\ bits_idx' = bits_idx + BitsLen(units, idx)
        /\ stage' = IF BlockCount(units, idx') = 0 THEN "done" ELSE "layout"
    BY <1>4 DEF ChunkInv, Layout
  <2>2. units \in Nat \ {0}
    <3>1. new(0, chunk_len).units \in Nat \ {0}
      BY <2>1, NewChunk
    <3> QED
      BY <2>1, <3>1
  <2>3. b \in Nat \ {0} /\ c = b \div 2 /\ c \in Nat
    <3>1. b \in Nat /\ c = b \div 2
      BY <2>1, <2>2, AtNext, Zenon
    <3>2. b # 0
      BY <2>1 DEF LaidOut
    <3> HIDE DEF b, c
    <3> QED
      BY <3>1, <3>2
  <2>4. BitsLen(units, idx) = Measured(b) /\ BlockCount(units, idx') = c
    BY <2>1 DEF BitsLen, BlockCount, Measured, At
  <2>5. idx + LevelsOf[b] = measured.levels /\ bits_idx + BitmapBytes[b] = BitmapBytes[units]
    BY <2>1 DEF LaidOut
  <2>6. measured' = measured /\ idx' = idx + 1 /\ bits_idx' = bits_idx + Measured(b) /\ Measured(b) \in Nat
    BY <2>1, <2>3, <2>4 DEF Measured
  <2>7. CASE c = 0
    <3>1. b = 1
      BY <2>3, <2>7
    <3>2. LevelsOf[b] = 1 /\ BitmapBytes[b] = Measured(b)
      BY <3>1, LevelsDef, BytesDef
    <3>3. stage' = "done"
      BY <2>1, <2>4, <2>7
    <3>4. (idx = measured.levels /\ bits_idx = BitmapBytes[measured.units])'
      BY <2>5, <2>6, <3>2
    <3> QED
      BY <2>1, <2>6, <3>3, <3>4 DEF ChunkInv
  <2>8. CASE c # 0
    <3>1. b # 1 /\ c \in Nat \ {0}
      BY <2>3, <2>8
    <3>2. LevelsOf[b] = 1 + LevelsOf[c] /\ BitmapBytes[b] = Measured(b) + BitmapBytes[c]
      BY <2>3, <3>1, LevelsDef, BytesDef
    <3>3. LevelsOf[c] \in Nat /\ BitmapBytes[c] \in Nat
      BY <3>1, LevelsDef, BytesDef
    <3>4. stage' = "layout"
      BY <2>1, <2>4, <2>8
    <3> HIDE DEF b
    <3>5. (idx + 1) + LevelsOf[c] = measured.levels /\ (bits_idx + Measured(b)) + BitmapBytes[c] = BitmapBytes[units]
      BY <2>1, <2>5, <2>6, <3>2, <3>3
    <3>6. LaidOut'
      BY <2>6, <3>1, <3>5 DEF LaidOut
    <3> QED
      BY <2>1, <2>6, <3>4, <3>6 DEF ChunkInv
  <2> QED
    BY <2>7, <2>8
<1>5. CASE UNCHANGED chunk_vars
  BY <1>5 DEF chunk_vars, ChunkInv, LaidOut
<1> QED
  BY <1>1, <1>2, <1>3, <1>4, <1>5 DEF ChunkNext

\* BuddyBlockInfo::new and BuddyBlock::new agree, for every chunk and unit size:
\* what the first measurement leaves fits before the data, the bitmaps that
\* BuddyBlock::new carves fill exactly what was measured, and a chunk of whole
\* units is cut into its units.
THEOREM LayoutFits == ChunkSpec => []LayoutMatches
<1>1. ChunkInit => ChunkInv
  BY ChunksAssumption DEF ChunkInit, ChunkInv, LaidOut
<1>2. ChunkInv => LayoutMatches
  <2> SUFFICES ASSUME ChunkInv, stage \in {"layout", "done", "assert_114"} PROVE LayoutMatches
    BY DEF LayoutMatches
  <2>1. /\ measured = new(0, chunk_len) /\ chunk_len \in Nat
        /\ ChunkAccepted(chunk_len) /\ chunk_len - DataOffset(chunk_len) > UNIT_SIZE
        /\ stage = "done" => idx = measured.levels /\ bits_idx = BitmapBytes[measured.units]
    BY DEF ChunkInv
  <2>2. /\ measured.data_offset = DataOffset(chunk_len) /\ measured.total_len = chunk_len
        /\ measured.metadata_len <= DataOffset(chunk_len)
        /\ measured.metadata_len = measured.levels * SizeOfBlockBitmap + BitmapBytes[measured.units]
        /\ measured.levels = LevelsOf[measured.units] /\ measured.units \in Nat \ {0}
        /\ chunk_len % UNIT_SIZE = 0 => measured.units * UNIT_SIZE = chunk_len - DataOffset(chunk_len)
    <3> DEFINE m == new(0, chunk_len)
    <3>1. /\ m.data_offset = DataOffset(chunk_len) /\ m.total_len = chunk_len
          /\ m.metadata_len <= DataOffset(chunk_len)
          /\ m.metadata_len = m.levels * SizeOfBlockBitmap + BitmapBytes[m.units]
          /\ m.levels = LevelsOf[m.units] /\ m.units \in Nat \ {0}
          /\ chunk_len % UNIT_SIZE = 0 => m.units * UNIT_SIZE = chunk_len - DataOffset(chunk_len)
      BY <2>1, NewChunk
    <3> HIDE DEF m
    <3>2. measured = m
      BY <2>1 DEF m
    <3> QED
      BY <3>1, <3>2
  <2>3. LevelsOf[measured.units] \in Nat /\ BitmapBytes[measured.units] \in Nat
    BY <2>2, LevelsDef, BytesDef
  <2>4. measured.metadata_len - measured.levels * SizeOfBlockBitmap = BitmapBytes[measured.units]
    <3> DEFINE k == measured.levels * SizeOfBlockBitmap
    <3>1. k \in Nat
      BY <2>2, <2>3 DEF SizeOfBlockBitmap
    <3>2. measured.metadata_len = k + BitmapBytes[measured.units]
      BY <2>2
    <3> HIDE DEF k
    <3>3. measured.metadata_len - k = BitmapBytes[measured.units]
      BY <2>3, <3>1, <3>2
    <3> QED
      BY <3>3 DEF k
  <2> QED
    BY <2>1, <2>2, <2>4 DEF LayoutMatches, data_len
<1> QED
  BY <1>1, <1>2, ChunkStep, PTL DEF ChunkSpec

-----------------------------------------------------------------------------
\* The chunk and its levels.

\* The chunk a BuddyBlock manages: its units, the levels they take and where they
\* begin, as BuddyBlockInfo::new has measured them.
LEMMA Geometry ==
  /\ UNIT_SIZE \in Nat \ {0}
  /\ info.units \in Nat \ {0} /\ info.levels \in Nat \ {0}
  /\ Pow2[info.levels - 1] <= info.units /\ info.units < Pow2[info.levels]
  /\ DATA \in Nat \ {0} /\ DATA % UNIT_SIZE = 0
  /\ TOTAL_LEN % UNIT_SIZE = 0 => data_len(info) = info.units * UNIT_SIZE
<1> DEFINE o == DataOffset(TOTAL_LEN)
<1>1. /\ TOTAL_LEN \in Nat /\ ChunkAccepted(TOTAL_LEN) /\ TOTAL_LEN - o > UNIT_SIZE
      /\ RAW_ADDR \in Nat /\ RAW_ADDR % UNIT_SIZE = 0 /\ UNIT_SIZE \in Nat \ {0}
  BY ChunkAssumption, UnitAssumption DEF ChunkAccepted
<1>2. /\ o \in Nat \ {0} /\ o % UNIT_SIZE = 0
      /\ info.raw_addr = RAW_ADDR /\ info.total_len = TOTAL_LEN /\ info.data_offset = o
      /\ info.levels = LevelsOf[info.units]
      /\ info.units \in Nat \ {0}
      /\ TOTAL_LEN % UNIT_SIZE = 0 => info.units * UNIT_SIZE = TOTAL_LEN - o
  BY <1>1, NewChunk DEF info
<1>3. DATA = RAW_ADDR + o /\ data_len(info) = TOTAL_LEN - o
  BY <1>2 DEF DATA, data_addr, data_len
<1> HIDE DEF o
<1>4. DATA \in Nat \ {0} /\ DATA % UNIT_SIZE = 0
  <2>1. (RAW_ADDR + o) % UNIT_SIZE = 0
    BY <1>1, <1>2, ModSum
  <2> QED
    BY <1>1, <1>2, <1>3, <2>1
<1>5. info.levels \in Nat \ {0}
  BY <1>2, LevelsDef
<1>6. Pow2[info.levels - 1] <= info.units /\ info.units < Pow2[info.levels]
  BY <1>2, LevelsBound
<1> QED
  BY <1>1, <1>2, <1>3, <1>4, <1>5, <1>6

\* Every level of the bitmaps has a block, the last one has one, and no level after
\* it has any.
LEMMA LevelFacts ==
  /\ \A l : l \in Levels <=> l \in Nat /\ l < info.levels
  /\ \A l \in Nat : Blocks(l) = At(info.units, l) /\ Blocks(l) \in Nat
  /\ \A l \in Nat : Blocks(l) # 0 <=> l < info.levels
  /\ Blocks(info.levels - 1) = 1
<1>1. /\ info.units \in Nat \ {0} /\ info.levels \in Nat \ {0}
      /\ Pow2[info.levels - 1] <= info.units /\ info.units < Pow2[info.levels]
  BY Geometry
<1>2. \A l : l \in Levels <=> l \in Nat /\ l < info.levels
  BY <1>1 DEF Levels
<1>3. \A l \in Nat : Blocks(l) = At(info.units, l) /\ Blocks(l) \in Nat
  BY <1>1, AtNext, Zenon DEF Blocks, BlockCount, At
<1>4. ASSUME NEW l \in Nat, l < info.levels PROVE Blocks(l) # 0
  <2>1. Pow2[l] <= Pow2[info.levels - 1] /\ Pow2[l] \in Nat \ {0} /\ Pow2[info.levels - 1] \in Nat
    <3>1. l <= info.levels - 1 /\ info.levels - 1 \in Nat
      BY <1>1, <1>4
    <3> QED
      BY <3>1, Pow2Grows, Pow2Def
  <2>2. Pow2[l] <= info.units
    BY <1>1, <2>1
  <2> HIDE DEF info
  <2> DEFINE p == Pow2[l]
             q == info.units \div p
  <2>3. q \in Nat /\ q * p <= info.units /\ info.units < q * p + p
    BY <1>1, <2>1, DivBounds, Zenon
  <2>4. q # 0
    <3> HIDE DEF q
    <3> QED
      BY <1>1, <2>1, <2>2, <2>3
  <2> QED
    BY <2>4 DEF Blocks, BlockCount
<1>5. ASSUME NEW l \in Nat, l >= info.levels PROVE Blocks(l) = 0
  <2>1. Pow2[info.levels] <= Pow2[l] /\ Pow2[l] \in Nat \ {0} /\ Pow2[info.levels] \in Nat
    BY <1>1, <1>5, Pow2Grows, Pow2Def
  <2>2. info.units < Pow2[l]
    BY <1>1, <2>1
  <2> HIDE DEF info
  <2>3. info.units \div Pow2[l] = 0
    BY <1>1, <2>1, <2>2, DivUnique
  <2> QED
    BY <2>3 DEF Blocks, BlockCount
<1>6. Blocks(info.levels - 1) = 1
  <2> DEFINE p == Pow2[info.levels - 1]
  <2>1. p \in Nat \ {0} /\ Pow2[info.levels] = 2 * p
    <3>1. info.levels - 1 \in Nat /\ (info.levels - 1) + 1 = info.levels
      BY <1>1
    <3> QED
      BY <3>1, Pow2Def
  <2> HIDE DEF info
  <2>2. info.units \div p = 1
    <3>1. 1 * p <= info.units /\ info.units < 1 * p + p
      BY <1>1, <2>1
    <3> HIDE DEF p
    <3> QED
      BY <1>1, <2>1, <3>1, DivUnique
  <2> QED
    BY <2>2 DEF Blocks, BlockCount
<1> QED
  BY <1>1, <1>2, <1>3, <1>4, <1>5, <1>6

\* bitmap_index_for_size finds the level of k units: the smallest one whose blocks
\* have room for them.
LEMMA FitLevel ==
  ASSUME NEW k \in Nat \ {0}
  PROVE  LET f == bitmap_index_for_size(k * UNIT_SIZE) IN
         f \in Nat /\ k <= Pow2[f] /\ (f > 0 => Pow2[f - 1] < k)
<1> DEFINE U == UNIT_SIZE
           size == k * U
           P(i) == U * Pow2[i] >= size /\ (i > 0 => U * Pow2[i - 1] < size)
           T == {i \in Nat : Pow2[i] >= k}
<1>1. U \in Nat \ {0} /\ size \in Nat /\ k <= size
  BY UnitAssumption
<1>2. PICK x \in T : \A y \in T : x <= y
  <2>1. T \subseteq Nat /\ k \in T
    BY Pow2Grows, Pow2Def
  <2> HIDE DEF T
  <2> QED
    BY <2>1, Least, Zenon
<1>3. x \in Nat /\ Pow2[x] >= k /\ x <= k /\ Pow2[x] \in Nat /\ (x > 0 => Pow2[x - 1] < k /\ Pow2[x - 1] \in Nat)
  <2>1. k \in T
    BY Pow2Grows, Pow2Def
  <2>2. x > 0 => x - 1 \in Nat /\ x - 1 \notin T /\ Pow2[x - 1] \in Nat
    BY <1>2, Pow2Def
  <2> QED
    BY <1>2, <2>1, <2>2, Pow2Def
<1>4. \A n \in Nat : U * n >= size <=> n >= k
  <2> SUFFICES ASSUME NEW n \in Nat PROVE U * n >= size <=> n >= k
    OBVIOUS
  <2>1. n >= k => U * n >= k * U
    BY <1>1
  <2>2. n < k => U * n < k * U
    BY <1>1
  <2> QED
    BY <1>1, <2>1, <2>2
<1>5. x \in 0 .. size /\ P(x)
  <2>1. U * Pow2[x] >= size
    BY <1>3, <1>4
  <2>2. x > 0 => U * Pow2[x - 1] < size
    <3> SUFFICES ASSUME x > 0 PROVE U * Pow2[x - 1] < size
      OBVIOUS
    <3>1. ~ (U * Pow2[x - 1] >= size) /\ U * Pow2[x - 1] \in Nat
      BY <1>1, <1>3, <1>4
    <3> QED
      BY <1>1, <3>1
  <2> QED
    BY <1>1, <1>3, <2>1, <2>2
<1> DEFINE f == CHOOSE i \in 0 .. size : P(i)
<1>6. f \in 0 .. size /\ P(f)
  <2> HIDE DEF P, size
  <2> QED
    BY <1>5, Zenon
<1>7. bitmap_index_for_size(k * UNIT_SIZE) = f
  BY DEF bitmap_index_for_size
<1> HIDE DEF f
<1>8. f \in Nat /\ Pow2[f] \in Nat /\ (f > 0 => Pow2[f - 1] \in Nat)
  BY <1>1, <1>6, Pow2Def
<1>9. k <= Pow2[f]
  BY <1>4, <1>6, <1>8
<1>10. f > 0 => Pow2[f - 1] < k
  <2> SUFFICES ASSUME f > 0 PROVE Pow2[f - 1] < k
    OBVIOUS
  <2>1. U * Pow2[f - 1] < size /\ Pow2[f - 1] \in Nat
    BY <1>6, <1>8
  <2>2. U * Pow2[f - 1] \in Nat
    BY <1>1, <2>1
  <2>3. ~ (Pow2[f - 1] >= k)
    BY <1>1, <1>4, <2>1, <2>2
  <2> QED
    BY <2>1, <2>3
<1> QED
  BY <1>7, <1>8, <1>9, <1>10

\* A unit lies in block i of level f exactly if dividing by the block size gives i.
LEMMA InBlock ==
  ASSUME NEW u \in Nat, NEW l \in Nat, NEW i \in Nat
  PROVE  u \in UnitsOf(l, i) <=> At(u, l) = i
<1> DEFINE p == Pow2[l]
           q == u \div p
<1>1. p \in Nat \ {0}
  BY Pow2Def
<1> HIDE DEF p
<1>2. q \in Nat /\ q * p <= u /\ u < q * p + p
  BY <1>1, DivBounds
<1>3. i * p \in Nat /\ (i + 1) * p = i * p + p
  BY <1>1
<1>4. i * p <= u /\ u < i * p + p => q = i
  BY <1>1, DivUnique
<1> HIDE DEF q
<1>5. i * p <= u /\ u < i * p + p <=> q = i
  BY <1>2, <1>4
<1>6. u \in i * p .. (i + 1) * p - 1 <=> i * p <= u /\ u < i * p + p
  BY <1>1, <1>3
<1> QED
  BY <1>5, <1>6 DEF UnitsOf, At, q, p

\* The first unit of block i of level f, seen from the levels above and below it.
LEMMA FirstUnit ==
  ASSUME NEW i \in Nat, NEW f \in Nat, NEW l \in Nat
  PROVE  /\ i * Pow2[f] \in Nat
         /\ l >= f => At(i * Pow2[f], l) = i \div Pow2[l - f]
         /\ l <= f => At(i * Pow2[f], l) = i * Pow2[f - l]
<1>1. Pow2[f] \in Nat \ {0} /\ Pow2[l] \in Nat \ {0} /\ i * Pow2[f] \in Nat
  BY Pow2Def
<1>2. ASSUME l >= f PROVE At(i * Pow2[f], l) = i \div Pow2[l - f]
  <2> DEFINE p == Pow2[f]
             c == Pow2[l - f]
             q == i \div c
  <2>1. l - f \in Nat /\ f + (l - f) = l
    BY <1>2
  <2>2. c \in Nat \ {0} /\ Pow2[l] = p * c
    <3>1. Pow2[f + (l - f)] = Pow2[f] * Pow2[l - f]
      BY <2>1, Pow2Sum
    <3> QED
      BY <2>1, <3>1, Pow2Def
  <2> HIDE DEF p, c
  <2>3. q \in Nat /\ q * c <= i /\ i < q * c + c
    BY <2>2, DivBounds
  <2> HIDE DEF q
  <2>4. p \in Nat \ {0}
    BY <1>1 DEF p
  <2>5. (q * c) * p <= i * p /\ i * p < (q * c + c) * p
    <3>1. q * c \in Nat /\ q * c + c \in Nat
      BY <2>2, <2>3
    <3>2. \A x, y \in Nat : x <= y => x * p <= y * p
      BY <2>4
    <3>3. \A x, y \in Nat : x < y => x * p < y * p
      BY <2>4
    <3> QED
      BY <2>3, <3>1, <3>2, <3>3
  <2>6. (q * c) * p = q * (p * c) /\ (q * c + c) * p = q * (p * c) + p * c /\ p * c \in Nat \ {0}
    BY <2>2, <2>3, <2>4
  <2>7. (i * p) \div (p * c) = q
    <3>1. i * p \in Nat
      BY <2>4
    <3> QED
      BY <2>3, <2>5, <2>6, <3>1, DivUnique
  <2> QED
    BY <2>2, <2>7 DEF At, p, q, c
<1>3. ASSUME l <= f PROVE At(i * Pow2[f], l) = i * Pow2[f - l]
  <2> DEFINE p == Pow2[l]
             c == Pow2[f - l]
  <2>1. f - l \in Nat /\ l + (f - l) = f
    BY <1>3
  <2>2. c \in Nat \ {0} /\ Pow2[f] = p * c
    <3>1. Pow2[l + (f - l)] = Pow2[l] * Pow2[f - l]
      BY <2>1, Pow2Sum
    <3> QED
      BY <2>1, <3>1, Pow2Def
  <2> HIDE DEF p, c
  <2>3. p \in Nat \ {0}
    BY <1>1 DEF p
  <2>4. i * (p * c) = (i * c) * p /\ i * c \in Nat
    BY <2>2, <2>3
  <2>5. ((i * c) * p) \div p = i * c
    <3> DEFINE q == i * c
    <3>1. q \in Nat
      BY <2>4
    <3> HIDE DEF q
    <3>2. (q * p) \div p = q
      <4>1. q * p \in Nat /\ q * p < q * p + p
        BY <2>3, <3>1
      <4> QED
        BY <2>3, <3>1, <4>1, DivUnique
    <3> QED
      BY <3>2 DEF q
  <2> QED
    BY <2>2, <2>4, <2>5 DEF At, p, c
<1> QED
  BY <1>1, <1>2, <1>3

-----------------------------------------------------------------------------
\* Splitting and merging, unit by unit.

\* The levels at which unit u lies in a block that is free in the bitmaps b.
FreeAt(b, u) == {l \in Levels : At(u, l) \in b[l]}

\* c is b after alloc has split block At(v, t) of level t down to level f: the block
\* is taken, and the halves not needed are free.
Opened(b, c, v, f, t) ==
  c = [l \in Levels |-> IF l = t THEN b[l] \ {At(v, l)}
                        ELSE IF l >= f /\ l < t THEN b[l] \cup {Buddy(At(v, l))}
                        ELSE b[l]]

\* c is b after dealloc has merged block At(v, f) of level f with its buddies up to
\* level t.
Closed(b, c, v, f, t) ==
  c = [l \in Levels |-> IF l >= f /\ l < t THEN b[l] \ {Buddy(At(v, l))}
                        ELSE IF l = t THEN b[l] \cup {At(v, l)}
                        ELSE b[l]]

\* At every level from f to below t the buddy of the block of v is free, the
\* condition under which dealloc goes on merging.
Merging(b, v, f, t) == \A l \in Levels : l >= f /\ l < t => Buddy(At(v, l)) \in b[l]

\* Unit u is free in one block at most.
FreeOnce(b, u) == FreeAt(b, u) = {} \/ \E k \in Levels : FreeAt(b, u) = {k}

\* Splitting in alloc takes the units of the block that is handed out, and leaves
\* every other unit free at one level if it was free at one before.
LEMMA OpenFree ==
  ASSUME NEW b, NEW c, NEW u \in Nat, NEW v \in Nat, NEW f \in Levels, NEW t \in Levels, f <= t,
         Opened(b, c, v, f, t),
         At(u, t) = At(v, t) => FreeAt(b, u) = {t}
  PROVE  /\ At(u, f) = At(v, f) => FreeAt(c, u) = {}
         /\ At(u, t) # At(v, t) => FreeAt(c, u) = FreeAt(b, u)
         /\ At(u, f) # At(v, f) /\ At(u, t) = At(v, t) => \E k \in Levels : FreeAt(c, u) = {k}
<1>0. /\ f \in Nat /\ t \in Nat /\ Levels \subseteq Nat
      /\ \A k \in f .. t - 1 : k \in Levels /\ k \in Nat /\ k >= f /\ k < t
  BY Geometry, LevelFacts
<1>1. /\ c[t] = b[t] \ {At(v, t)}
      /\ \A l \in Levels : l >= f /\ l < t => c[l] = b[l] \cup {Buddy(At(v, l))}
      /\ \A l \in Levels : l # t /\ ~ (l >= f /\ l < t) => c[l] = b[l]
  BY <1>0 DEF Opened
<1>2. \A l \in Nat : At(v, l) \in Nat /\ Buddy(At(v, l)) # At(v, l)
  BY AtNext, BuddyPair, Zenon
<1>3. ASSUME At(u, f) = At(v, f) PROVE FreeAt(c, u) = {}
  <2>1. \A l \in Levels : l >= f => At(u, l) = At(v, l)
    BY <1>0, <1>3, AtShared
  <2>2. FreeAt(b, u) = {t}
    BY <1>0, <2>1
  <2>3. ASSUME NEW l \in Levels PROVE At(u, l) \notin c[l]
    <3>1. l # t => At(u, l) \notin b[l]
      BY <2>2 DEF FreeAt
    <3>2. l >= f => At(u, l) = At(v, l) /\ At(u, l) # Buddy(At(v, l))
      BY <1>0, <1>2, <2>1
    <3> QED
      BY <1>0, <1>1, <3>1, <3>2
  <2> QED
    BY <2>3 DEF FreeAt
<1>4. ASSUME At(u, t) # At(v, t) PROVE FreeAt(c, u) = FreeAt(b, u)
  <2>1. ASSUME NEW l \in Levels PROVE At(u, l) \in c[l] <=> At(u, l) \in b[l]
    <3>1. l < t => At(u, l) # Buddy(At(v, l))
      BY <1>0, <1>4, AtParted
    <3> QED
      BY <1>0, <1>1, <1>4, <3>1
  <2> QED
    BY <2>1 DEF FreeAt
<1>5. ASSUME At(u, f) # At(v, f), At(u, t) = At(v, t) PROVE \E k \in Levels : FreeAt(c, u) = {k}
  <2>1. PICK k \in f .. t - 1 : At(u, k) = Buddy(At(v, k))
    BY <1>0, <1>5, AtPart
  <2>2. k \in Levels /\ k \in Nat /\ k >= f /\ k < t
    BY <1>0, <2>1
  <2>3. FreeAt(b, u) = {t}
    BY <1>5
  <2>4. ASSUME NEW l \in Levels PROVE At(u, l) \in c[l] <=> l = k
    <3>1. l # t => At(u, l) \notin b[l]
      BY <2>3 DEF FreeAt
    <3>2. At(u, l) = Buddy(At(v, l)) => l = k
      <4> SUFFICES ASSUME At(u, l) = Buddy(At(v, l)), l # k PROVE FALSE
        OBVIOUS
      <4>1. l \in Nat /\ (l < k \/ k < l)
        BY <1>0, <2>2
      <4>2. CASE l < k
        <5>1. At(u, k) = At(v, k)
          BY <2>2, <4>1, <4>2, AtParted
        <5> QED
          BY <1>2, <2>1, <2>2, <5>1, Zenon
      <4>3. CASE k < l
        <5>1. At(u, l) = At(v, l)
          BY <2>1, <2>2, <4>1, <4>3, AtParted
        <5> QED
          BY <1>2, <4>1, <5>1, Zenon
      <4> QED
        BY <4>1, <4>2, <4>3
    <3>3. CASE l = t
      BY <1>1, <1>5, <2>2, <3>3
    <3>4. CASE l >= f /\ l < t
      BY <1>0, <1>1, <2>1, <3>1, <3>2, <3>4
    <3>5. CASE l # t /\ ~ (l >= f /\ l < t)
      BY <1>1, <2>2, <3>1, <3>5
    <3> QED
      BY <3>3, <3>4, <3>5
  <2>5. FreeAt(c, u) = {k}
    BY <2>2, <2>4, Zenon DEF FreeAt
  <2> QED
    BY <2>2, <2>5
<1> QED
  BY <1>3, <1>4, <1>5

\* Merging in dealloc returns the units of the block that is given back, and leaves
\* every other unit as free as it was.
LEMMA CloseFree ==
  ASSUME NEW b, NEW c, NEW u \in Nat, NEW v \in Nat, NEW f \in Levels, NEW t \in Levels, f <= t,
         Closed(b, c, v, f, t),
         Merging(b, v, f, t), FreeOnce(b, u),
         At(u, f) = At(v, f) => FreeAt(b, u) = {}
  PROVE  /\ At(u, t) = At(v, t) => FreeAt(c, u) = {t}
         /\ At(u, t) # At(v, t) => FreeAt(c, u) = FreeAt(b, u)
         /\ At(u, t) = At(v, t) /\ At(u, f) # At(v, f) => FreeAt(b, u) # {}
<1> USE DEF Merging, FreeOnce
<1>0. /\ f \in Nat /\ t \in Nat /\ Levels \subseteq Nat
      /\ \A k \in f .. t - 1 : k \in Levels /\ k \in Nat /\ k >= f /\ k < t
  BY Geometry, LevelFacts
<1>1. /\ c[t] = b[t] \cup {At(v, t)}
      /\ \A l \in Levels : l >= f /\ l < t => c[l] = b[l] \ {Buddy(At(v, l))}
      /\ \A l \in Levels : l # t /\ ~ (l >= f /\ l < t) => c[l] = b[l]
  BY <1>0 DEF Closed
<1>2. ASSUME At(u, t) # At(v, t) PROVE FreeAt(c, u) = FreeAt(b, u)
  <2>1. ASSUME NEW l \in Levels PROVE At(u, l) \in c[l] <=> At(u, l) \in b[l]
    <3>1. l < t => At(u, l) # Buddy(At(v, l))
      BY <1>0, <1>2, AtParted
    <3>2. CASE l = t
      BY <1>1, <1>2, <3>2
    <3>3. CASE l # t
      BY <1>1, <3>1, <3>3
    <3> QED
      BY <3>2, <3>3
  <2> QED
    BY <2>1 DEF FreeAt
<1>3. ASSUME At(u, t) = At(v, t), At(u, f) = At(v, f) PROVE FreeAt(c, u) = {t}
  <2>1. FreeAt(b, u) = {}
    BY <1>3
  <2>2. ASSUME NEW l \in Levels PROVE At(u, l) \in c[l] <=> l = t
    <3>1. At(u, l) \notin b[l]
      BY <2>1 DEF FreeAt
    <3>2. CASE l = t
      BY <1>1, <1>3, <3>2
    <3>3. CASE l # t
      BY <1>1, <3>1, <3>3
    <3> QED
      BY <3>2, <3>3
  <2> QED
    BY <2>2 DEF FreeAt
<1>4. ASSUME At(u, t) = At(v, t), At(u, f) # At(v, f) PROVE FreeAt(c, u) = {t} /\ FreeAt(b, u) # {}
  <2>1. PICK k \in f .. t - 1 : At(u, k) = Buddy(At(v, k))
    BY <1>0, <1>4, AtPart
  <2>2. k \in Levels /\ k \in Nat /\ k >= f /\ k < t
    BY <1>0, <2>1
  <2>3. FreeAt(b, u) = {k}
    <3>1. k \in FreeAt(b, u)
      BY <2>1, <2>2 DEF FreeAt
    <3> QED
      BY <3>1
  <2>4. ASSUME NEW l \in Levels PROVE At(u, l) \in c[l] <=> l = t
    <3>1. At(u, l) \in b[l] <=> l = k
      BY <2>3 DEF FreeAt
    <3>2. CASE l = t
      BY <1>1, <1>4, <3>2
    <3>3. CASE l >= f /\ l < t
      BY <1>0, <1>1, <2>1, <3>1, <3>3
    <3>4. CASE l # t /\ ~ (l >= f /\ l < t)
      BY <1>1, <2>2, <3>1, <3>4
    <3> QED
      BY <3>2, <3>3, <3>4
  <2>5. FreeAt(c, u) = {t}
    BY <2>4 DEF FreeAt
  <2> QED
    BY <2>3, <2>5
<1> QED
  BY <1>2, <1>3, <1>4

-----------------------------------------------------------------------------
\* The inductive invariant.

\* The level of the block behind an allocation.
Fit(a) == bitmap_index_for_size(a.len)
\* Its first unit.
First(a) == (a.addr - DATA) \div UNIT_SIZE
\* Its number on its level, `offset / block_size` in dealloc.
Index(a) == At(First(a), Fit(a))

\* Unit u lies in that block.
On(u, a) == At(u, Fit(a)) = Index(a)

\* An allocation is the start of a block of the chunk and has its smallest fitting
\* level.
Good(a) ==
  /\ First(a) \in Nat /\ Fit(a) \in Levels
  /\ \E k \in Nat \ {0} :
       k <= Pow2[Fit(a)] /\ a = [addr |-> DATA + First(a) * UNIT_SIZE, len |-> k * UNIT_SIZE]
  /\ First(a) = Index(a) * Pow2[Fit(a)]
  /\ Index(a) < Blocks(Fit(a))

\* The allocations of s that hold unit u.
Holders(s, u) == {a \in s : On(u, a)}

\* A unit is free at one level and in no allocation, or in one allocation and free
\* at no level.
Covered(b, h, u) ==
  \/ h = {} /\ \E l \in Levels : FreeAt(b, u) = {l}
  \/ FreeAt(b, u) = {} /\ \E a \in h : h = {a}

\* Bitmaps name blocks of the chunk, and never both halves of a larger block.
GoodBits(b) ==
  /\ b \in [Levels -> SUBSET Nat]
  /\ \A l \in Levels : \A i \in b[l] : i < Blocks(l)
  /\ \A l \in Levels : l + 1 < info.levels => \A i \in b[l] : Buddy(i) \notin b[l]

\* The inductive invariant of BuddyBlock: the counters count the bitmaps, the
\* bitmaps are in order, allocations are blocks, their bytes are counted in `used`,
\* and every unit of the chunk is covered exactly once.
BInv ==
  /\ GoodBits(bits)
  /\ count = [l \in Levels |-> Cardinality(bits[l])]
  /\ \A a \in live : Good(a)
  /\ used = UNIT_SIZE * Cardinality(UNION {Units(a) : a \in live})
  /\ ret \in [addr : Nat, len : Nat] /\ failed \in BOOLEAN
  /\ \A u \in 0 .. info.units - 1 : Covered(bits, Holders(live, u), u)

\* Division cancels a common factor, as the divisions of dealloc by UNIT_SIZE and by
\* the block size do.
LEMMA Cancel ==
  ASSUME NEW x \in Nat, NEW a \in Nat \ {0}, NEW p \in Nat \ {0}
  PROVE  /\ (x * a) \div a = x
         /\ ((x * p) * a) \div (a * p) = x
<1>1. ASSUME NEW c \in Nat \ {0} PROVE (x * c) \div c = x
  <2>1. x * c \in Nat /\ x * c < x * c + c
    OBVIOUS
  <2> QED
    BY <2>1, DivUnique
<1>2. (x * p) * a = x * (a * p) /\ a * p \in Nat \ {0}
  OBVIOUS
<1> QED
  BY <1>1, <1>2

\* The block behind an allocation as BlockOf names it, and its units.
LEMMA GoodUnits ==
  ASSUME NEW a, Good(a)
  PROVE  /\ Fit(a) \in Nat /\ Index(a) \in Nat /\ a \in [addr : Nat, len : Nat] /\ a.addr # 0
         /\ BlockOf(a) = [level |-> Fit(a), index |-> Index(a)]
         /\ First(a) \in Units(a) /\ IsFiniteSet(Units(a))
         /\ Cardinality(Units(a)) \in Nat /\ UNIT_SIZE * Cardinality(Units(a)) = a.len
         /\ \A u \in Units(a) : On(u, a) /\ u \in Nat
         /\ \A u \in Nat : On(u, a) => u \in 0 .. info.units - 1
         /\ First(a) + Cardinality(Units(a)) <= info.units
<1> DEFINE U == UNIT_SIZE
           v == First(a)
           f == Fit(a)
           i == Index(a)
           p == Pow2[f]
<1>1. PICK k \in Nat \ {0} : k <= p /\ a = [addr |-> DATA + v * U, len |-> k * U]
  BY DEF Good
<1>2. /\ v \in Nat /\ f \in Levels /\ f \in Nat /\ v = i * p /\ i < Blocks(f) /\ i \in Nat
      /\ f < info.levels
  BY LevelFacts, AtNext DEF Good, Index
<1>3. U \in Nat \ {0} /\ DATA \in Nat \ {0} /\ p \in Nat \ {0} /\ info.levels \in Nat /\ info.units \in Nat
  BY <1>2, Geometry, Pow2Def
<1> HIDE DEF U, v, f, i, p
<1>4. a.addr = DATA + v * U /\ a.len = k * U /\ v * U \in Nat /\ k * U \in Nat
  BY <1>1, <1>2, <1>3
<1>5. a \in [addr : Nat, len : Nat] /\ a.addr # 0
  BY <1>1, <1>3, <1>4
<1>6. BlockOf(a) = [level |-> f, index |-> i]
  <2>1. Min({f, info.levels}) = f
    <3>1. Min({f, info.levels}) \in {f, info.levels} /\ \A y \in {f, info.levels} : Min({f, info.levels}) <= y
      <4>1. {f, info.levels} \subseteq Nat /\ {f, info.levels} # {}
        BY <1>2, <1>3
      <4> HIDE DEF info
      <4> QED
        BY <4>1, MinIsLeast
    <3> HIDE DEF info
    <3> QED
      BY <1>2, <1>3, <3>1
  <2>2. (a.addr - DATA) \div (UNIT_SIZE * Pow2[bitmap_index_for_size(a.len)]) = i
    <3>1. a.addr - DATA = (i * p) * U
      BY <1>2, <1>3, <1>4
    <3>2. UNIT_SIZE * Pow2[bitmap_index_for_size(a.len)] = U * p
      BY DEF U, p, f, Fit
    <3> QED
      BY <1>2, <1>3, <3>1, <3>2, Cancel
  <2> QED
    BY <1>5, <2>1, <2>2 DEF BlockOf, f, Fit
<1>7. Units(a) = v .. v + k - 1
  <2>1. a.addr - DATA = v * U /\ a.addr + a.len - DATA = (v + k) * U /\ v + k \in Nat
    BY <1>1, <1>2, <1>3, <1>4
  <2>2. (v * U) \div U = v /\ ((v + k) * U) \div U = v + k
    BY <1>1, <1>2, <1>3, <2>1, Cancel
  <2>3. (a.addr - DATA) \div U = v /\ (a.addr + a.len - DATA) \div U = v + k
    BY <2>1, <2>2, Zenon
  <2>4. Units(a) = (a.addr - DATA) \div U .. (a.addr + a.len - DATA) \div U - 1
    BY Zenon DEF Units, U
  <2>5. (v + k) - 1 = v + k - 1
    BY <1>1, <1>2
  <2> QED
    BY <2>3, <2>4, <2>5, Zenon
<1>8. Cardinality(Units(a)) = k /\ IsFiniteSet(Units(a))
  <2>1. v \in Int /\ v + k - 1 \in Int /\ ~ (v > v + k - 1) /\ (v + k - 1) - v + 1 = k
    BY <1>1, <1>2
  <2> QED
    BY <1>7, <2>1, FS_Interval
<1>9. ASSUME NEW u \in Units(a) PROVE u \in Nat /\ At(u, f) = i
  <2>1. u \in Nat /\ i * p <= u /\ u < i * p + p
    BY <1>1, <1>2, <1>3, <1>7, <1>9
  <2>2. u \div p = i
    BY <1>2, <1>3, <2>1, DivUnique, SMTT(30)
  <2> QED
    BY <2>1, <2>2 DEF At, p
<1>10. ASSUME NEW u \in Nat, At(u, f) = i PROVE u \in 0 .. info.units - 1
  <2>1. At(u, f) < At(info.units, f)
    BY <1>2, <1>10, LevelFacts
  <2>2. At(u, 0) < At(info.units, 0)
    BY <1>2, <1>3, <2>1, AtBelow
  <2> QED
    BY <1>3, <2>2, AtZero
<1>11. v + k <= info.units
  <2>1. v + k - 1 \in Units(a)
    BY <1>1, <1>2, <1>7
  <2>2. v + k - 1 \in 0 .. info.units - 1
    BY <1>9, <1>10, <2>1
  <2> QED
    BY <1>1, <1>2, <1>3, <2>2
<1>12. v \in Units(a) /\ U * k = a.len
  BY <1>1, <1>2, <1>3, <1>4, <1>7
<1> QED
  BY <1>1, <1>2, <1>5, <1>6, <1>8, <1>9, <1>10, <1>11, <1>12 DEF U, v, f, i, p, On

\* What alloc hands out for a block it has found is an allocation of that block.
LEMMA Made ==
  ASSUME NEW k \in Nat \ {0}, NEW v \in Nat, NEW f \in Levels, f = bitmap_index_for_size(k * UNIT_SIZE),
         v = At(v, f) * Pow2[f], At(v, f) < Blocks(f),
         NEW a, a = [addr |-> DATA + v * UNIT_SIZE, len |-> k * UNIT_SIZE]
  PROVE  Good(a) /\ First(a) = v /\ Fit(a) = f
<1>1. UNIT_SIZE \in Nat \ {0} /\ DATA \in Nat
  BY Geometry
<1>2. Fit(a) = f
  BY DEF Fit
<1>3. First(a) = v
  <2>1. a.addr - DATA = v * UNIT_SIZE
    BY <1>1
  <2> QED
    BY <1>1, <2>1, Cancel DEF First
<1>4. k <= Pow2[f]
  BY FitLevel
<1> QED
  BY <1>2, <1>3, <1>4 DEF Good, Index

-----------------------------------------------------------------------------
\* alloc.

\* Bitmaps that name blocks of the chunk are finite.
LEMMA BitsFinite ==
  ASSUME NEW b, GoodBits(b), NEW l \in Levels
  PROVE  IsFiniteSet(b[l]) /\ Cardinality(b[l]) \in Nat /\ b[l] \subseteq Nat
<1>1. l \in Nat /\ Blocks(l) \in Nat
  BY LevelFacts
<1>2. b[l] \subseteq 0 .. Blocks(l) - 1 /\ b[l] \subseteq Nat
  BY <1>1 DEF GoodBits
<1>3. IsFiniteSet(0 .. Blocks(l) - 1)
  <2>1. 0 \in Int /\ Blocks(l) - 1 \in Int
    BY <1>1
  <2> QED
    BY <2>1, FS_Interval
<1>4. IsFiniteSet(b[l])
  BY <1>2, <1>3, FS_Subset, Zenon
<1> QED
  BY <1>2, <1>4, FS_CardinalityType

\* set_1 and set_0 change the counter of a level by one, as they change its bitmap.
LEMMA CountStep ==
  ASSUME GoodBits(bits), count = [l \in Levels |-> Cardinality(bits[l])],
         NEW c, GoodBits(c), SetBits(c)
  PROVE  bits' = c /\ count' = [l \in Levels |-> Cardinality(c[l])]
<1>1. ASSUME NEW l \in Levels PROVE Update(l, c[l]) = Cardinality(c[l])
  <2> DEFINE N == c[l]
             O == bits[l]
  <2>1. IsFiniteSet(N) /\ IsFiniteSet(O) /\ Cardinality(N) \in Nat /\ Cardinality(O) \in Nat
    BY <1>1, BitsFinite
  <2>2. Update(l, c[l]) = Cardinality(O) + Cardinality(N \ O) - Cardinality(O \ N)
    BY <1>1 DEF Update
  <2> HIDE DEF N, O
  <2>3. Cardinality(N \ O) = Cardinality(N) - Cardinality(N \cap O)
    BY <2>1, FS_Difference, Zenon
  <2>4. Cardinality(O \ N) = Cardinality(O) - Cardinality(O \cap N)
    BY <2>1, FS_Difference, Zenon
  <2>5. Cardinality(N \cap O) = Cardinality(O \cap N)
    <3>1. N \cap O = O \cap N
      OBVIOUS
    <3> QED
      BY <3>1, Zenon
  <2>6. Cardinality(N \cap O) \in Nat
    BY <2>1, FS_Intersection, FS_CardinalityType, Zenon
  <2>7. Cardinality(O) + Cardinality(N \ O) - Cardinality(O \ N) = Cardinality(N)
    BY <2>1, <2>3, <2>4, <2>5, <2>6
  <2> QED
    BY <2>2, <2>7 DEF N
<1> QED
  BY <1>1 DEF SetBits

\* The lengths alloc works with are whole units and at least one.
LEMMA Rounded ==
  ASSUME NEW len \in Nat
  PROVE  /\ div_ceil(len, UNIT_SIZE) \in Nat /\ AlignedLen(len) = div_ceil(len, UNIT_SIZE) * UNIT_SIZE
         /\ AlignedLen(len) \in Nat
         /\ len # 0 => div_ceil(len, UNIT_SIZE) # 0
<1> DEFINE U == UNIT_SIZE
           x == len + U - 1
           q == x \div U
<1>1. U \in Nat \ {0}
  BY Geometry
<1>2. x \in Nat /\ (len # 0 => x >= U)
  BY <1>1
<1> HIDE DEF U, x
<1>3. q \in Nat /\ q * U <= x /\ x < q * U + U
  BY <1>1, <1>2, DivBounds
<1>4. q * U \in Nat /\ (x >= U => q # 0)
  <2> HIDE DEF q
  <2>1. q * U \in Nat
    BY <1>1, <1>3
  <2>2. q = 0 => q * U = 0
    BY <1>1
  <2> QED
    BY <1>1, <1>2, <1>3, <2>1, <2>2
<1> QED
  <2>1. div_ceil(len, UNIT_SIZE) = q
    BY DEF div_ceil, U, x
  <2>2. AlignedLen(len) = q * U
    BY <2>1 DEF AlignedLen, U
  <2> HIDE DEF q
  <2> QED
    BY <1>2, <1>3, <1>4, <2>1, <2>2 DEF U

\* The loop of alloc opens the block it takes: it clears its bit and sets the bit of
\* the right half on every level below.
LEMMA SplitOpens ==
  ASSUME GoodBits(bits), NEW f \in Levels, NEW t \in Levels, f <= t, bits[t] # {},
         NEW v, v = Min(bits[t]) * Pow2[t]
  PROVE  /\ Opened(bits, Split(f, t), v, f, t)
         /\ v \in Nat /\ At(v, t) = Min(bits[t]) /\ At(v, t) \in bits[t]
         /\ v = At(v, f) * Pow2[f] /\ At(v, f) < Blocks(f) /\ v \in 0 .. info.units - 1
<1> DEFINE j == Min(bits[t])
<1>1. f \in Nat /\ t \in Nat /\ t - f \in Nat /\ Levels \subseteq Nat
  BY LevelFacts
<1>2. bits[t] \subseteq Nat
  BY BitsFinite
<1>3. j \in bits[t] /\ j \in Nat
  BY <1>2, MinIsLeast, Zenon
<1> HIDE DEF j
<1>4. v \in Nat /\ \A l \in Nat : l <= t => At(v, l) = j * Pow2[t - l]
  <2>1. v = j * Pow2[t]
    BY DEF j
  <2>2. ASSUME NEW l \in Nat
        PROVE  j * Pow2[t] \in Nat /\ (l <= t => At(j * Pow2[t], l) = j * Pow2[t - l])
    BY <1>1, <1>3, FirstUnit
  <2> QED
    BY <1>1, <2>1, <2>2
<1>5. At(v, t) = j
  <2>1. Pow2[t - t] = 1
    BY <1>1, Pow2Def
  <2> QED
    BY <1>1, <1>3, <1>4, <2>1
<1>6. v = At(v, f) * Pow2[f]
  <2>1. At(v, f) = j * Pow2[t - f] /\ v = j * Pow2[t]
    BY <1>1, <1>4 DEF j
  <2>2. Pow2[(t - f) + f] = Pow2[t - f] * Pow2[f] /\ (t - f) + f = t
    BY <1>1, Pow2Sum
  <2>3. Pow2[t - f] \in Nat /\ Pow2[f] \in Nat
    BY <1>1, Pow2Def
  <2>4. ASSUME NEW x \in Nat, NEW y \in Nat PROVE j * (x * y) = (j * x) * y
    BY <1>3
  <2> QED
    BY <2>1, <2>2, <2>3, <2>4
<1>7. At(v, t) < At(info.units, t) /\ info.units \in Nat
  <2>1. j < Blocks(t)
    BY <1>3 DEF GoodBits
  <2> QED
    BY <1>1, <1>5, <2>1, LevelFacts, Geometry
<1>8. At(v, f) < At(info.units, f) /\ At(v, 0) < At(info.units, 0)
  BY <1>1, <1>4, <1>7, AtBelow
<1>9. At(v, f) < Blocks(f) /\ v \in 0 .. info.units - 1
  BY <1>1, <1>4, <1>7, <1>8, LevelFacts, AtZero
<1>10. ASSUME NEW l \in Levels, l >= f, l < t PROVE LeftOver(j * Pow2[t - l]) = Buddy(At(v, l))
  <2>1. t - l - 1 \in Nat /\ l \in Nat
    BY <1>1, <1>10
  <2>2. Pow2[t - l - 1] \in Nat /\ Pow2[(t - l - 1) + 1] = 2 * Pow2[t - l - 1] /\ (t - l - 1) + 1 = t - l
    BY <2>1, <1>1, Pow2Def
  <2>3. ASSUME NEW x \in Nat PROVE (j * (2 * x)) % 2 = 0
    BY <1>3
  <2>4. (j * Pow2[t - l]) % 2 = 0
    BY <2>2, <2>3
  <2>5. At(v, l) = j * Pow2[t - l]
    BY <1>4, <1>10, <2>1
  <2> QED
    BY <2>4, <2>5 DEF LeftOver, Buddy
<1>11. Opened(bits, Split(f, t), v, f, t)
  <2>1. Split(f, t) = [l \in Levels |->
           IF l = t THEN bits[l] \ {j}
           ELSE IF l >= f /\ l < t THEN bits[l] \cup {LeftOver(j * Pow2[t - l])} ELSE bits[l]]
    BY DEF Split, j
  <2> QED
    BY <1>5, <1>10, <2>1 DEF Opened
<1> QED
  BY <1>3, <1>4, <1>5, <1>6, <1>9, <1>11 DEF j

\* Bitmaps stay in order when alloc splits a block.
LEMMA OpenGood ==
  ASSUME NEW b, GoodBits(b), NEW c, NEW v \in Nat, NEW f \in Levels, NEW t \in Levels, f <= t,
         Opened(b, c, v, f, t), At(v, t) \in b[t], FreeAt(b, v) = {t}
  PROVE  GoodBits(c)
<1>0. /\ f \in Nat /\ t \in Nat /\ Levels \subseteq Nat /\ info.units \in Nat
      /\ \A l \in Levels : Blocks(l) = At(info.units, l) /\ b[l] \subseteq Nat
  BY LevelFacts, Geometry, BitsFinite
<1>1. \A l \in Levels : At(v, l) \in Nat
  BY <1>0, AtNext
<1>2. /\ c[t] = b[t] \ {At(v, t)}
      /\ \A l \in Levels : l >= f /\ l < t => c[l] = b[l] \cup {Buddy(At(v, l))}
      /\ \A l \in Levels : l # t /\ ~ (l >= f /\ l < t) => c[l] = b[l]
  BY <1>0 DEF Opened
<1>3. \A l \in Levels : l # t => At(v, l) \notin b[l]
  BY DEF FreeAt
<1>4. ASSUME NEW l \in Levels, l < t PROVE Buddy(At(v, l)) \in Nat /\ Buddy(At(v, l)) < Blocks(l)
  <2>1. At(v, t) < At(info.units, t)
    <3>1. At(v, t) < Blocks(t)
      BY DEF GoodBits
    <3> QED
      BY <1>0, <3>1
  <2>2. l + 1 \in Nat /\ l + 1 <= t /\ l \in Nat
    BY <1>4, LevelFacts
  <2>3. At(v, l + 1) < At(info.units, l + 1)
    BY <1>0, <2>1, <2>2, AtBelow
  <2>4. At(v, l) \div 2 < At(info.units, l) \div 2 /\ At(v, l) \in Nat /\ At(info.units, l) \in Nat
    BY <1>0, <2>2, <2>3, AtNext, Zenon
  <2> QED
    BY <1>0, <2>4, BuddyPair
<1>5. ASSUME NEW l \in Levels, NEW i \in Nat
      PROVE  Buddy(Buddy(At(v, l))) = At(v, l) /\ Buddy(Buddy(i)) = i /\ Buddy(At(v, l)) # At(v, l)
             /\ Buddy(i) # i
  BY <1>1, BuddyPair
<1>6. ASSUME NEW l \in Levels
      PROVE  /\ c[l] \subseteq Nat
             /\ \A i \in c[l] : i < Blocks(l)
             /\ l + 1 < info.levels => \A i \in c[l] : Buddy(i) \notin c[l]
  <2>0. /\ b[l] \subseteq Nat /\ \A i \in b[l] : i < Blocks(l)
        /\ l + 1 < info.levels => \A i \in b[l] : Buddy(i) \notin b[l]
    BY <1>0, <1>6 DEF GoodBits
  <2>1. CASE l = t
    BY <1>2, <2>0, <2>1
  <2>2. CASE l >= f /\ l < t
    <3>1. c[l] = b[l] \cup {Buddy(At(v, l))} /\ At(v, l) \notin b[l]
      BY <1>0, <1>2, <1>3, <1>6, <2>2
    <3>2. Buddy(At(v, l)) \in Nat /\ Buddy(At(v, l)) < Blocks(l)
      BY <1>4, <1>6, <2>2
    <3>3. c[l] \subseteq Nat /\ \A i \in c[l] : i < Blocks(l)
      BY <2>0, <3>1, <3>2
    <3>4. ASSUME l + 1 < info.levels, NEW i \in c[l], Buddy(i) \in c[l] PROVE FALSE
      <4> DEFINE w == At(v, l)
      <4>1. /\ w \in Nat /\ i \in Nat /\ Buddy(Buddy(w)) = w /\ Buddy(Buddy(i)) = i /\ Buddy(w) # w
            /\ Buddy(i) # i
        BY <1>1, <1>5, <1>6, <3>3, <3>4
      <4>2. i \in b[l] \/ i = Buddy(w)
        BY <3>1, <3>4, SMTT(30)
      <4>3. Buddy(i) \in b[l] \/ Buddy(i) = Buddy(w)
        BY <3>1, <3>4
      <4>4. w \notin b[l]
        BY <3>1
      <4>5. i \in b[l] => Buddy(i) \notin b[l]
        BY <2>0, <3>4
      <4> HIDE DEF w
      <4> QED
        BY <4>1, <4>2, <4>3, <4>4, <4>5, Zenon
    <3> QED
      BY <3>3, <3>4
  <2>3. CASE l # t /\ ~ (l >= f /\ l < t)
    BY <1>2, <1>6, <2>0, <2>3
  <2> QED
    BY <2>1, <2>2, <2>3
<1>7. c \in [Levels -> SUBSET Nat]
  <2>1. DOMAIN c = Levels /\ c = [l \in Levels |-> c[l]]
    BY DEF Opened
  <2> QED
    BY <1>6, <2>1
<1> QED
  BY <1>6, <1>7 DEF GoodBits

\* The units that allocations hold are units of the chunk, finitely many.
LEMMA UsedUnits ==
  ASSUME NEW s, \A a \in s : Good(a)
  PROVE  LET n == UNION {Units(a) : a \in s} IN
         n \subseteq 0 .. info.units - 1 /\ IsFiniteSet(n) /\ Cardinality(n) \in Nat
<1> DEFINE n == UNION {Units(a) : a \in s}
<1>1. info.units \in Nat
  BY Geometry
<1>2. \A a \in s : Units(a) \subseteq 0 .. info.units - 1
  BY <1>1, GoodUnits
<1>3. n \subseteq 0 .. info.units - 1
  BY <1>2
<1>4. IsFiniteSet(0 .. info.units - 1)
  <2>1. 0 \in Int /\ info.units - 1 \in Int
    BY <1>1
  <2> QED
    BY <2>1, FS_Interval
<1> HIDE DEF n
<1>5. IsFiniteSet(n)
  BY <1>3, <1>4, FS_Subset, Zenon
<1> QED
  BY <1>3, <1>5, FS_CardinalityType DEF n

\* One allocation more adds its length to `used`.
LEMMA UsedMore ==
  ASSUME NEW s, \A b \in s : Good(b), NEW a, Good(a),
         \A b \in s : Units(a) \cap Units(b) = {}
  PROVE  UNIT_SIZE * Cardinality(UNION {Units(b) : b \in s \cup {a}})
           = UNIT_SIZE * Cardinality(UNION {Units(b) : b \in s}) + a.len
<1> DEFINE n == UNION {Units(b) : b \in s}
           k == Cardinality(n)
           m == Cardinality(Units(a))
<1>1. UNION {Units(b) : b \in s \cup {a}} = n \cup Units(a)
  OBVIOUS
<1>2. n \cap Units(a) = {}
  OBVIOUS
<1>3. IsFiniteSet(n) /\ k \in Nat
  BY UsedUnits, Zenon
<1>4. IsFiniteSet(Units(a)) /\ m \in Nat /\ UNIT_SIZE * m = a.len
  BY GoodUnits
<1> HIDE DEF n
<1>5. Cardinality(n \cup Units(a)) = k + m
  <2>1. Cardinality(n \cup Units(a)) = k + m - Cardinality(n \cap Units(a))
    BY <1>3, <1>4, FS_Union
  <2>2. Cardinality(n \cap Units(a)) = 0
    BY <1>2, FS_EmptySet
  <2> QED
    BY <1>3, <1>4, <2>1, <2>2
<1> HIDE DEF k, m
<1>6. UNIT_SIZE * (k + m) = UNIT_SIZE * k + UNIT_SIZE * m
  BY <1>3, <1>4, Geometry
<1> QED
  BY <1>1, <1>4, <1>5, <1>6, Zenon DEF n, k

\* alloc has handed out allocation a, in a block of level f none of whose units was
\* held.
Taken(a, f) ==
  /\ Good(a) /\ Fit(a) = f /\ a \notin live
  /\ live' = live \cup {a} /\ ret' = a /\ failed' = failed
  /\ \A u \in 0 .. info.units - 1 : On(u, a) => Holders(live, u) = {}

\* The level that alloc takes a block from is the least one at or above the fitting
\* level with a free block.
LEMMA FoundLevel ==
  ASSUME BInv, NEW f \in Nat, Fitting(f) # {}
  PROVE  /\ Min(Fitting(f)) \in Levels /\ Min(Fitting(f)) >= f
         /\ bits[Min(Fitting(f))] # {} /\ f \in Levels
<1> DEFINE t == Min(Fitting(f))
<1>1. Fitting(f) \subseteq Nat
  BY LevelFacts DEF Fitting
<1>2. t \in Fitting(f)
  BY <1>1, MinIsLeast, Zenon
<1> HIDE DEF t
<1>3. t \in Levels /\ t >= f /\ count[t] # 0
  BY <1>2 DEF Fitting
<1>4. count[t] = Cardinality(bits[t])
  BY <1>3 DEF BInv
<1>5. bits[t] # {}
  BY <1>3, <1>4, FS_EmptySet
<1>6. f \in Levels
  BY <1>3, LevelFacts, Geometry
<1> QED
  BY <1>3, <1>5, <1>6 DEF t

\* alloc that finds a block hands one out, and keeps the invariant.
LEMMA AllocTakes ==
  ASSUME BInv, NEW len \in Nat \ {0}, alloc(len), NEW f, f = bitmap_index_for_size(AlignedLen(len)),
         Fitting(f) # {}
  PROVE  BInv' /\ \E a : Taken(a, f)
<1> DEFINE U == UNIT_SIZE
           k == div_ceil(len, U)
           t == Min(Fitting(f))
           v == Min(bits[t]) * Pow2[t]
           a == [addr |-> DATA + v * U, len |-> k * U]
<1>1. k \in Nat \ {0} /\ AlignedLen(len) = k * U /\ k * U \in Nat
  BY Rounded
<1>2. f \in Nat /\ k <= Pow2[f]
  BY <1>1, FitLevel
<1>3. t \in Levels /\ t >= f /\ bits[t] # {} /\ f \in Levels
  BY <1>2, FoundLevel
<1>4. t \in Nat /\ Levels \subseteq Nat /\ info.units \in Nat /\ U \in Nat \ {0} /\ DATA \in Nat
  BY <1>3, LevelFacts, Geometry, SMTT(30)
<1>5. /\ Opened(bits, Split(f, t), v, f, t)
      /\ v \in Nat /\ At(v, t) = Min(bits[t]) /\ At(v, t) \in bits[t]
      /\ v = At(v, f) * Pow2[f] /\ At(v, f) < Blocks(f) /\ v \in 0 .. info.units - 1
  <2>1. GoodBits(bits) /\ f <= t
    BY <1>2, <1>3, <1>4, Zenon DEF BInv
  <2> HIDE DEF t
  <2> QED
    BY <1>3, <2>1, SplitOpens
<1>6. /\ SetBits(Split(f, t)) /\ used' = used + a.len /\ ret' = a /\ live' = live \cup {a}
      /\ failed' = failed
  <2>1. LET e == [addr |-> DATA + Min(bits[t]) * UNIT_SIZE * Pow2[t], len |-> AlignedLen(len)]
        IN  /\ SetBits(Split(f, t)) /\ used' = used + AlignedLen(len) /\ ret' = e
            /\ live' = live \cup {e} /\ failed' = failed
    BY DEF alloc
  <2>2. Min(bits[t]) * UNIT_SIZE * Pow2[t] = v * U
    <3>1. Min(bits[t]) \in Nat /\ Pow2[t] \in Nat
      BY <1>4, <1>5, Pow2Def, AtNext, Zenon
    <3>2. \A x, y, z \in Nat : x * y * z = (x * z) * y
      OBVIOUS
    <3> QED
      BY <1>4, <3>1, <3>2
  <2> QED
    BY <1>1, <2>1, <2>2, SMTT(30)
<1> HIDE DEF v, t, U, k
<1>7. Good(a) /\ First(a) = v /\ Fit(a) = f
  BY <1>1, <1>3, <1>5, Made DEF U
<1> HIDE DEF a
<1>8. \A u : On(u, a) <=> At(u, f) = At(v, f)
  BY <1>7 DEF On, Index
<1>9. ASSUME NEW u \in 0 .. info.units - 1, At(u, t) = At(v, t)
      PROVE  FreeAt(bits, u) = {t} /\ Holders(live, u) = {}
  <2>1. t \in FreeAt(bits, u)
    BY <1>3, <1>5, <1>9 DEF FreeAt
  <2>2. Covered(bits, Holders(live, u), u)
    BY <1>9 DEF BInv
  <2> QED
    BY <2>1, <2>2 DEF Covered
<1>10. ASSUME NEW u \in 0 .. info.units - 1, On(u, a) PROVE At(u, t) = At(v, t)
  <2>1. u \in Nat /\ v \in Nat /\ f <= t /\ t \in Nat
    BY <1>2, <1>3, <1>4, <1>5
  <2>2. At(u, f) = At(v, f)
    BY <1>8, <1>10
  <2> QED
    BY <1>2, <2>1, <2>2, AtShared
<1>11. \A u \in 0 .. info.units - 1 : On(u, a) => Holders(live, u) = {}
  BY <1>9, <1>10
<1>12. On(v, a) /\ a \notin live
  <2>1. On(v, a)
    BY <1>8
  <2> QED
    BY <1>5, <1>11, <2>1, Zenon DEF Holders
<1>13. GoodBits(Split(f, t))
  <2>1. GoodBits(bits) /\ FreeAt(bits, v) = {t} /\ f <= t
    BY <1>2, <1>3, <1>4, <1>5, <1>9, Zenon DEF BInv
  <2> QED
    BY <1>3, <1>5, <2>1, OpenGood, Zenon
<1>14. GoodBits(bits') /\ count' = [l \in Levels |-> Cardinality(bits'[l])] /\ bits' = Split(f, t)
  BY <1>6, <1>13, CountStep DEF BInv
<1>15. used' = UNIT_SIZE * Cardinality(UNION {Units(b) : b \in live'})
  <2>1. \A b \in live : Good(b)
    BY DEF BInv
  <2>2. ASSUME NEW b \in live, NEW w \in Units(a), w \in Units(b) PROVE FALSE
    <3>1. On(w, a) /\ On(w, b) /\ w \in 0 .. info.units - 1
      BY <1>7, <2>1, <2>2, GoodUnits
    <3> QED
      BY <1>11, <2>2, <3>1 DEF Holders
  <2>3. \A b \in live : Units(a) \cap Units(b) = {}
    BY <2>2
  <2>4. UNIT_SIZE * Cardinality(UNION {Units(b) : b \in live \cup {a}})
           = UNIT_SIZE * Cardinality(UNION {Units(b) : b \in live}) + a.len
    BY <1>7, <2>1, <2>3, UsedMore
  <2> QED
    BY <1>6, <2>4, Zenon DEF BInv
<1>16. ASSUME NEW u \in 0 .. info.units - 1 PROVE Covered(bits', Holders(live', u), u)
  <2>1. u \in Nat /\ f <= t
    BY <1>2, <1>3, <1>4
  <2>2. /\ At(u, f) = At(v, f) => FreeAt(bits', u) = {}
        /\ At(u, t) # At(v, t) => FreeAt(bits', u) = FreeAt(bits, u)
        /\ At(u, f) # At(v, f) /\ At(u, t) = At(v, t) => \E l \in Levels : FreeAt(bits', u) = {l}
    <3>1. Opened(bits, bits', v, f, t) /\ v \in Nat
      BY <1>5, <1>14
    <3>2. At(u, t) = At(v, t) => FreeAt(bits, u) = {t}
      BY <1>9, <1>16
    <3> QED
      BY <1>3, <2>1, <3>1, <3>2, OpenFree, SMTT(30)
  <2>3. Holders(live', u) = IF On(u, a) THEN Holders(live, u) \cup {a} ELSE Holders(live, u)
    BY <1>6 DEF Holders
  <2>4. Covered(bits, Holders(live, u), u)
    BY <1>16 DEF BInv
  <2>5. CASE At(u, f) = At(v, f)
    <3>1. Holders(live', u) = {a} /\ FreeAt(bits', u) = {}
      BY <1>8, <1>11, <1>16, <2>2, <2>3, <2>5
    <3> QED
      BY <3>1, Zenon DEF Covered
  <2>6. CASE At(u, f) # At(v, f) /\ At(u, t) = At(v, t)
    <3>1. Holders(live', u) = {} /\ \E l \in Levels : FreeAt(bits', u) = {l}
      BY <1>8, <1>9, <1>16, <2>2, <2>3, <2>6
    <3> QED
      BY <3>1, Zenon DEF Covered
  <2>7. CASE At(u, t) # At(v, t)
    <3>1. Holders(live', u) = Holders(live, u) /\ FreeAt(bits', u) = FreeAt(bits, u)
      BY <1>10, <1>16, <2>2, <2>3, <2>7
    <3> QED
      BY <2>4, <3>1, Zenon DEF Covered
  <2> QED
    BY <2>5, <2>6, <2>7
<1>17. /\ \A b \in live' : Good(b)
       /\ ret' \in [addr : Nat, len : Nat] /\ failed' \in BOOLEAN
  BY <1>6, <1>7, GoodUnits, Zenon DEF BInv
<1>18. BInv'
  BY <1>14, <1>15, <1>16, <1>17 DEF BInv, GoodBits, Good, Covered
<1>19. Taken(a, f)
  BY <1>6, <1>7, <1>11, <1>12 DEF Taken
<1> QED
  BY <1>18, <1>19

-----------------------------------------------------------------------------
\* dealloc.

\* dealloc rounds the address and the length that a client returns to the allocation
\* that it was given.
LEMMA ReturnRounds ==
  ASSUME NEW a, Good(a), NEW front \in 0 .. UNIT_SIZE - 1, NEW back \in 0 .. UNIT_SIZE - 1,
         a.len > front + back
  PROVE  /\ ((a.addr + front) \div UNIT_SIZE) * UNIT_SIZE = a.addr
         /\ AlignedLen((a.addr + front) + (a.len - front - back)) = a.addr + a.len
<1> DEFINE U == UNIT_SIZE
           v == First(a)
<1>1. PICK k \in Nat \ {0} : a = [addr |-> DATA + v * U, len |-> k * U]
  BY DEF Good
<1>2. U \in Nat \ {0} /\ v \in Nat /\ DATA \in Nat /\ DATA % U = 0
  BY Geometry DEF Good
<1>3. PICK d \in Nat : DATA = d * U
  BY <1>2, ModWitness, Zenon
<1> DEFINE n == d + v
           m == n + k
<1>4. front \in Nat /\ front < U /\ back \in Nat /\ back < U
  BY <1>2
<1> HIDE DEF U, v
<1>5. n \in Nat /\ m \in Nat
  BY <1>1, <1>2, <1>3
<1>6. a.addr = n * U /\ a.len = k * U /\ a.addr + a.len = m * U
  <2>1. a.addr = d * U + v * U /\ a.len = k * U
    BY <1>1, <1>3
  <2>2. (d + v) * U = d * U + v * U /\ ((d + v) + k) * U = (d * U + v * U) + k * U
    BY <1>1, <1>2, <1>3
  <2> QED
    BY <2>1, <2>2
<1> HIDE DEF n, m
<1>7. n * U \in Nat /\ m * U \in Nat /\ m # 0 /\ m * U >= U
  <2>1. m # 0
    BY <1>1, <1>2, <1>3 DEF m, n
  <2> QED
    BY <1>2, <1>5, <2>1
<1>8. (a.addr + front) \div U = n
  <2>1. a.addr + front \in Nat /\ n * U <= a.addr + front /\ a.addr + front < n * U + U
    BY <1>2, <1>4, <1>6, <1>7
  <2> QED
    BY <1>2, <1>5, <2>1, DivUnique, Zenon
<1>9. (a.addr + front) + (a.len - front - back) = m * U - back
  <2>1. a.addr \in Nat /\ a.len \in Nat
    BY <1>1, <1>2, <1>6, <1>7
  <2> QED
    BY <1>4, <1>6, <1>7, <2>1
<1>10. (m * U - back + U - 1) \div U = m
  <2>1. m * U - back + U - 1 \in Nat /\ m * U <= m * U - back + U - 1 /\ m * U - back + U - 1 < m * U + U
    BY <1>2, <1>4, <1>7
  <2> QED
    BY <1>2, <1>5, <2>1, DivUnique
<1>11. AlignedLen(m * U - back) = m * U
  BY <1>10, Zenon DEF AlignedLen, div_ceil, U
<1>12. ((a.addr + front) \div UNIT_SIZE) * UNIT_SIZE = a.addr
  BY <1>6, <1>8, Zenon DEF U
<1> QED
  BY <1>6, <1>9, <1>11, <1>12, Zenon

\* Where the loop of dealloc stops, and what it has merged by then.
LEMMA MergeCloses ==
  ASSUME GoodBits(bits), NEW a, Good(a),
         NEW s, s = Stop(Index(a), Fit(a))
  PROVE  /\ s \in Levels /\ s >= Fit(a)
         /\ \A l \in Levels : l >= Fit(a) => Up(Index(a), Fit(a), l) = At(First(a), l)
         /\ \A l \in Levels : l >= Fit(a) /\ l < s => Buddy(At(First(a), l)) \in bits[l]
         /\ Buddy(At(First(a), s)) \notin bits[s] \/ s + 1 >= info.levels
         /\ Closed(bits, Merge(Index(a), Fit(a)), First(a), Fit(a), s)
<1> DEFINE v == First(a)
           f == Fit(a)
           i == Index(a)
           S == {l \in Levels : /\ l >= f
                                /\ \/ Buddy(Up(i, f, l)) \notin bits[l]
                                   \/ l + 1 >= info.levels}
<1>1. f \in Levels /\ f \in Nat /\ i \in Nat /\ v = i * Pow2[f] /\ Levels \subseteq Nat /\ v \in Nat
  BY LevelFacts, AtNext DEF Good, Index
<1>2. info.levels \in Nat \ {0}
  BY Geometry
<1> HIDE DEF v, f, i
<1>3. ASSUME NEW l \in Levels, l >= f PROVE Up(i, f, l) = At(v, l)
  <2>1. l \in Nat
    BY <1>1, <1>3
  <2>2. At(i * Pow2[f], l) = i \div Pow2[l - f]
    BY <1>1, <1>3, <2>1, FirstUnit
  <2> QED
    BY <1>1, <2>2, Zenon DEF Up
<1>4. S \subseteq Nat /\ S # {}
  <2>1. info.levels - 1 \in Levels /\ info.levels - 1 >= f /\ info.levels - 1 + 1 >= info.levels
    BY <1>1, <1>2, LevelFacts
  <2> QED
    BY <1>1, <2>1, Zenon
<1>5. s = Min(S)
  BY Zenon DEF Stop, f, i
<1>6. s \in S /\ \A y \in S : s <= y
  <2> HIDE DEF S
  <2> QED
    BY <1>4, <1>5, MinIsLeast, Zenon
<1>7. s \in Levels /\ s >= f /\ (Buddy(At(v, s)) \notin bits[s] \/ s + 1 >= info.levels)
  BY <1>3, <1>6
<1>8. ASSUME NEW l \in Levels, l >= f, l < s PROVE Buddy(At(v, l)) \in bits[l]
  <2>1. l \notin S
    <3>1. l \in Nat /\ s \in Nat
      BY <1>1, <1>7, <1>8, Zenon
    <3> HIDE DEF S
    <3> QED
      BY <1>6, <1>8, <3>1
  <2> QED
    BY <1>3, <1>8, <2>1
<1>9. Closed(bits, Merge(i, f), v, f, s)
  <2>1. Merge(i, f) = [l \in Levels |->
           IF l >= f /\ l < s THEN bits[l] \ {Buddy(Up(i, f, l))}
           ELSE IF l = s THEN bits[l] \cup {Up(i, f, l)} ELSE bits[l]]
    BY DEF Merge, f, i
  <2> QED
    BY <1>3, <1>7, <2>1, Zenon DEF Closed
<1> QED
  BY <1>3, <1>7, <1>8, <1>9, Zenon DEF v, f, i

\* The blocks that dealloc merges lie in the chunk.
LEMMA MergedInChunk ==
  ASSUME NEW b, GoodBits(b), NEW v \in Nat, NEW f \in Levels, NEW t \in Levels, f <= t,
         At(v, f) < Blocks(f),
         \A l \in Levels : l >= f /\ l < t => Buddy(At(v, l)) \in b[l]
  PROVE  At(v, t) < Blocks(t)
<1> DEFINE T == {l \in Levels : f <= l /\ l <= t /\ ~ (At(v, l) < Blocks(l))}
<1>1. ASSUME T # {} PROVE FALSE
  <2>1. T \subseteq Nat
    BY LevelFacts
  <2>2. PICK x \in T : \A y \in T : x <= y
    <3> HIDE DEF T
    <3> QED
      BY <1>1, <2>1, Least, Zenon
  <2>3. x \in Levels /\ x \in Nat /\ f \in Nat /\ t \in Nat /\ f <= x /\ x <= t /\ ~ (At(v, x) < Blocks(x))
    BY <2>2, LevelFacts
  <2>4. x # f
    BY <2>3
  <2>5. /\ x - 1 \in Levels /\ x - 1 \in Nat /\ x - 1 \notin T /\ f <= x - 1 /\ x - 1 < t /\ x - 1 < x
        /\ (x - 1) + 1 = x
    <3>1. /\ x - 1 \in Nat /\ f <= x - 1 /\ x - 1 < t /\ x - 1 < x /\ (x - 1) + 1 = x
          /\ ~ (x <= x - 1)
      BY <2>3, <2>4
    <3>2. x - 1 \in Levels
      BY <2>3, <3>1, Geometry DEF Levels
    <3>3. x - 1 \notin T
      BY <2>2, <3>1, Zenon
    <3> QED
      BY <3>1, <3>2, <3>3
  <2> DEFINE w == x - 1
  <2>6. At(v, w) < Blocks(w) /\ Buddy(At(v, w)) \in b[w]
    BY <2>5, <2>3
  <2>7. Buddy(At(v, w)) < Blocks(w)
    BY <2>5, <2>6 DEF GoodBits
  <2>8. /\ Blocks(w) = At(info.units, w) /\ Blocks(w) \in Nat /\ Blocks(x) = At(info.units, x)
        /\ info.units \in Nat /\ w \in Nat
    BY <2>3, <2>5, LevelFacts, Geometry
  <2>9. /\ At(v, w) \in Nat /\ At(v, w + 1) = At(v, w) \div 2
        /\ At(info.units, w + 1) = At(info.units, w) \div 2
    BY <2>8, AtNext
  <2>10. At(v, w) \div 2 < Blocks(w) \div 2
    BY <2>6, <2>7, <2>8, <2>9, BuddyPair
  <2> QED
    BY <2>3, <2>5, <2>8, <2>9, <2>10
<1> QED
  BY <1>1, LevelFacts

\* Bitmaps stay in order when dealloc merges a block with its buddies.
LEMMA CloseGood ==
  ASSUME NEW b, GoodBits(b), NEW c, NEW v \in Nat, NEW f \in Levels, NEW t \in Levels, f <= t,
         At(v, f) < Blocks(f), Closed(b, c, v, f, t),
         \A l \in Levels : l >= f /\ l < t => Buddy(At(v, l)) \in b[l],
         Buddy(At(v, t)) \notin b[t] \/ t + 1 >= info.levels
  PROVE  GoodBits(c)
<1>0. f \in Nat /\ t \in Nat /\ Levels \subseteq Nat /\ \A l \in Levels : b[l] \subseteq Nat
  BY LevelFacts, BitsFinite
<1>1. At(v, t) \in Nat /\ At(v, t) < Blocks(t)
  BY <1>0, AtNext, MergedInChunk
<1>2. /\ c[t] = b[t] \cup {At(v, t)}
      /\ \A l \in Levels : l # t => c[l] \subseteq b[l]
  BY <1>0 DEF Closed
<1>3. ASSUME NEW l \in Levels
      PROVE  /\ c[l] \subseteq Nat
             /\ \A i \in c[l] : i < Blocks(l)
             /\ l + 1 < info.levels => \A i \in c[l] : Buddy(i) \notin c[l]
  <2>0. /\ b[l] \subseteq Nat /\ \A i \in b[l] : i < Blocks(l)
        /\ l + 1 < info.levels => \A i \in b[l] : Buddy(i) \notin b[l]
    BY <1>0, <1>3 DEF GoodBits
  <2>1. CASE l # t
    BY <1>2, <1>3, <2>0, <2>1
  <2>2. CASE l = t
    <3> DEFINE w == At(v, t)
    <3>1. c[l] = b[l] \cup {w}
      BY <1>2, <2>2
    <3>2. c[l] \subseteq Nat /\ \A i \in c[l] : i < Blocks(l)
      BY <1>1, <2>0, <2>2, <3>1
    <3>3. ASSUME l + 1 < info.levels, NEW i \in c[l], Buddy(i) \in c[l] PROVE FALSE
      <4>1. w \in Nat /\ i \in Nat /\ Buddy(Buddy(w)) = w /\ Buddy(Buddy(i)) = i /\ Buddy(i) # i
        BY <1>1, <3>2, <3>3, BuddyPair
      <4>2. i \in b[l] \/ i = w
        BY <3>1, <3>3
      <4>3. Buddy(i) \in b[l] \/ Buddy(i) = w
        BY <3>1, <3>3
      <4>4. Buddy(w) \notin b[l]
        <5>1. ~ (t + 1 >= info.levels)
          BY <1>0, <2>2, <3>3, Geometry
        <5> QED
          BY <2>2, <5>1
      <4>5. i \in b[l] => Buddy(i) \notin b[l]
        BY <2>0, <3>3
      <4> HIDE DEF w
      <4> QED
        BY <4>1, <4>2, <4>3, <4>4, <4>5, Zenon
    <3> QED
      BY <3>2, <3>3
  <2> QED
    BY <2>1, <2>2
<1>4. c \in [Levels -> SUBSET Nat]
  <2>1. c = [l \in Levels |-> c[l]]
    BY DEF Closed
  <2> QED
    BY <1>3, <2>1
<1> QED
  BY <1>3, <1>4 DEF GoodBits

\* dealloc has taken back allocation a.
Freed(a) == a \in live /\ live' = live \ {a} /\ ret' = ret /\ failed' = failed

\* The units of an allocation are free at no level and in no other allocation.
LEMMA Held ==
  ASSUME BInv, NEW a \in live, NEW u \in 0 .. info.units - 1, On(u, a)
  PROVE  FreeAt(bits, u) = {} /\ Holders(live, u) = {a}
<1>1. Covered(bits, Holders(live, u), u) /\ a \in Holders(live, u)
  BY DEF BInv, Holders
<1> QED
  BY <1>1 DEF Covered

\* dealloc that gets past its asserts takes the allocation back and keeps the
\* invariant.
LEMMA FreeStep ==
  ASSUME BInv, NEW a \in live, SetBits(Merge(Index(a), Fit(a))), used' = used - a.len,
         live' = live \ {a}, ret' = ret, failed' = failed
  PROVE  BInv'
<1> DEFINE v == First(a)
           f == Fit(a)
           t == Stop(Index(a), Fit(a))
           c == Merge(Index(a), Fit(a))
<1>0. GoodBits(bits) /\ Good(a) /\ \A b \in live : Good(b)
  BY DEF BInv
<1>1. /\ t \in Levels /\ t >= f
      /\ \A l \in Levels : l >= f /\ l < t => Buddy(At(v, l)) \in bits[l]
      /\ Buddy(At(v, t)) \notin bits[t] \/ t + 1 >= info.levels
      /\ Closed(bits, c, v, f, t)
  BY <1>0, MergeCloses, Zenon
<1>2. /\ f \in Levels /\ v \in Nat /\ At(v, f) < Blocks(f) /\ f \in Nat /\ t \in Nat /\ f <= t
      /\ \A u : On(u, a) <=> At(u, f) = At(v, f)
  BY <1>0, <1>1, LevelFacts, Zenon DEF Good, Index, On
<1> HIDE DEF v, f, t, c
<1>3. GoodBits(c)
  BY <1>0, <1>1, <1>2, CloseGood, Zenon
<1>4. bits' = c /\ GoodBits(bits') /\ count' = [l \in Levels |-> Cardinality(bits'[l])]
  BY <1>0, <1>3, CountStep DEF BInv, c
<1>5. used' = UNIT_SIZE * Cardinality(UNION {Units(b) : b \in live'})
  <2> DEFINE s == live \ {a}
             n == UNIT_SIZE * Cardinality(UNION {Units(b) : b \in s})
  <2>1. ASSUME NEW b \in s, NEW w \in Units(a), w \in Units(b) PROVE FALSE
    <3>1. On(w, a) /\ On(w, b) /\ w \in 0 .. info.units - 1
      BY <1>0, <2>1, GoodUnits
    <3>2. Holders(live, w) = {a} /\ b \in Holders(live, w)
      BY <2>1, <3>1, Held DEF Holders
    <3> QED
      BY <2>1, <3>2
  <2>2. UNIT_SIZE * Cardinality(UNION {Units(b) : b \in s \cup {a}}) = n + a.len
    <3>1. (\A b \in s : Good(b)) /\ \A b \in s : Units(a) \cap Units(b) = {}
      BY <1>0, <2>1
    <3> HIDE DEF s
    <3> QED
      BY <1>0, <3>1, UsedMore
  <2>3. s \cup {a} = live
    OBVIOUS
  <2>4. used = n + a.len
    BY <2>2, <2>3, Zenon DEF BInv
  <2>5. n \in Nat /\ a.len \in Nat
    <3>1. Cardinality(UNION {Units(b) : b \in s}) \in Nat
      BY <1>0, UsedUnits, Zenon
    <3> HIDE DEF s
    <3>2. a.len \in Nat
      BY <1>0, GoodUnits
    <3> QED
      BY <3>1, <3>2, Geometry
  <2>6. used' = n
    <3> HIDE DEF n
    <3> QED
      BY <2>4, <2>5
  <2> QED
    BY <2>6
<1>6. ASSUME NEW u \in 0 .. info.units - 1 PROVE Covered(bits', Holders(live', u), u)
  <2>0. u \in Nat
    BY Geometry
  <2>1. Covered(bits, Holders(live, u), u)
    BY <1>6 DEF BInv
  <2>2. Holders(live', u) = Holders(live, u) \ {a}
    BY DEF Holders
  <2>3. At(u, f) = At(v, f) => FreeAt(bits, u) = {} /\ Holders(live, u) = {a}
    BY <1>2, <1>6, Held
  <2>4. FreeAt(bits, u) = {} \/ \E l \in Levels : FreeAt(bits, u) = {l}
    BY <2>1 DEF Covered
  <2>5. /\ At(u, t) = At(v, t) => FreeAt(bits', u) = {t}
        /\ At(u, t) # At(v, t) => FreeAt(bits', u) = FreeAt(bits, u)
        /\ At(u, t) = At(v, t) /\ At(u, f) # At(v, f) => FreeAt(bits, u) # {}
    <3>1. At(u, f) = At(v, f) => FreeAt(bits, u) = {}
      BY <2>3
    <3>2. Closed(bits, c, v, f, t)
      BY <1>1
    <3>3. Merging(bits, v, f, t) /\ FreeOnce(bits, u)
      BY <1>1, <2>4 DEF Merging, FreeOnce
    <3>4. t \in Levels /\ f \in Levels /\ v \in Nat /\ f <= t
      BY <1>1, <1>2
    <3>5. /\ At(u, t) = At(v, t) => FreeAt(c, u) = {t}
          /\ At(u, t) # At(v, t) => FreeAt(c, u) = FreeAt(bits, u)
          /\ At(u, t) = At(v, t) /\ At(u, f) # At(v, f) => FreeAt(bits, u) # {}
      BY <2>0, <3>1, <3>2, <3>3, <3>4, CloseFree
    <3> QED
      BY <1>4, <3>5, Zenon
  <2>6. CASE At(u, f) = At(v, f)
    <3>1. At(u, t) = At(v, t)
      BY <1>2, <2>0, <2>6, AtShared
    <3>2. Holders(live', u) = {} /\ FreeAt(bits', u) = {t}
      BY <2>2, <2>3, <2>5, <2>6, <3>1, Zenon
    <3> QED
      BY <1>1, <3>2, Zenon DEF Covered
  <2>7. CASE At(u, f) # At(v, f) /\ At(u, t) = At(v, t)
    <3>1. Holders(live, u) = {} /\ FreeAt(bits', u) = {t}
      BY <2>1, <2>5, <2>7 DEF Covered
    <3>2. Holders(live', u) = {}
      BY <2>2, <3>1, Zenon
    <3> QED
      BY <1>1, <3>1, <3>2, Zenon DEF Covered
  <2>8. CASE At(u, f) # At(v, f) /\ At(u, t) # At(v, t)
    <3>1. Holders(live', u) = Holders(live, u)
      BY <1>2, <2>2, <2>8 DEF Holders
    <3>2. FreeAt(bits', u) = FreeAt(bits, u)
      BY <2>5, <2>8
    <3> QED
      BY <2>1, <3>1, <3>2, Zenon DEF Covered
  <2> QED
    BY <2>6, <2>7, <2>8
<1>7. /\ \A b \in live' : Good(b)
      /\ ret' \in [addr : Nat, len : Nat] /\ failed' \in BOOLEAN
  BY <1>0 DEF BInv
<1> QED
  BY <1>4, <1>5, <1>6, <1>7, Zenon DEF BInv, GoodBits, Good, Covered

\* The asserts of dealloc, for a block from x to y at level f with number i.
Asserts(x, y, f, i) ==
  /\ DATA <= x /\ x < DATA + data_len(info)
  /\ DATA < y /\ y <= DATA + data_len(info)
  /\ f < info.levels
  /\ \A l \in f .. Stop(i, f) : Up(i, f, l) \notin bits[l]

\* dealloc, with its local variables given.
LEMMA DeallocAs ==
  ASSUME NEW a, NEW addr, NEW len, dealloc(a, addr, len), NEW x, NEW y, NEW f, NEW i,
         x = (addr \div UNIT_SIZE) * UNIT_SIZE, y = AlignedLen(addr + len),
         f = bitmap_index_for_size(y - x), i = (x - DATA) \div (UNIT_SIZE * Pow2[f])
  PROVE  IF Asserts(x, y, f, i)
         THEN /\ SetBits(Merge(i, f)) /\ used' = used - (y - x) /\ live' = live \ {a}
              /\ ret' = ret /\ failed' = failed
         ELSE failed' = TRUE /\ UNCHANGED <<bits, count, used, live, ret>>
<1>1. CASE Asserts(x, y, f, i)
  BY <1>1, Zenon DEF dealloc, Asserts
<1>2. CASE ~ Asserts(x, y, f, i)
  BY <1>2, Zenon DEF dealloc, Asserts
<1> QED
  BY <1>1, <1>2, Zenon

\* dealloc of an address and a length that round to an allocation.
LEMMA ReturnAs ==
  ASSUME BInv, NEW a \in live, NEW front \in 0 .. UNIT_SIZE - 1, NEW back \in 0 .. UNIT_SIZE - 1,
         a.len > front + back, dealloc(a, a.addr + front, a.len - front - back)
  PROVE  IF Asserts(a.addr, a.addr + a.len, Fit(a), Index(a))
         THEN /\ SetBits(Merge(Index(a), Fit(a))) /\ used' = used - a.len /\ live' = live \ {a}
              /\ ret' = ret /\ failed' = failed
         ELSE failed' = TRUE /\ UNCHANGED <<bits, count, used, live, ret>>
<1>0. Good(a)
  BY DEF BInv
<1>3. /\ ((a.addr + front) \div UNIT_SIZE) * UNIT_SIZE = a.addr
      /\ AlignedLen((a.addr + front) + (a.len - front - back)) = a.addr + a.len
  BY <1>0, ReturnRounds, SMTT(30)
<1>4. a.addr \in Nat /\ a.len \in Nat /\ a.addr # 0 /\ BlockOf(a).index = Index(a)
  BY <1>0, GoodUnits
<1>5. (a.addr + a.len) - a.addr = a.len
  BY <1>4
<1>6. Fit(a) = bitmap_index_for_size((a.addr + a.len) - a.addr)
  BY <1>5, Zenon DEF Fit
<1>7. Index(a) = (a.addr - DATA) \div (UNIT_SIZE * Pow2[Fit(a)])
  BY <1>4, Zenon DEF BlockOf, Fit
<1>8. IF Asserts(a.addr, a.addr + a.len, Fit(a), Index(a))
      THEN /\ SetBits(Merge(Index(a), Fit(a))) /\ used' = used - ((a.addr + a.len) - a.addr)
           /\ live' = live \ {a} /\ ret' = ret /\ failed' = failed
      ELSE failed' = TRUE /\ UNCHANGED <<bits, count, used, live, ret>>
  BY <1>3, <1>6, <1>7, DeallocAs, Zenon
<1> QED
  BY <1>5, <1>8, Zenon

\* The asserts of dealloc hold of every allocation if the chunk is a whole number
\* of units.
LEMMA AssertsHold ==
  ASSUME BInv, NEW a \in live, TOTAL_LEN % UNIT_SIZE = 0
  PROVE  Asserts(a.addr, a.addr + a.len, Fit(a), Index(a))
<1> DEFINE U == UNIT_SIZE
           v == First(a)
           f == Fit(a)
<1>0. Good(a) /\ GoodBits(bits)
  BY DEF BInv
<1>1. PICK k \in Nat \ {0} : a = [addr |-> DATA + v * U, len |-> k * U]
  BY <1>0 DEF Good
<1>2. /\ U \in Nat \ {0} /\ DATA \in Nat /\ info.units \in Nat /\ info.levels \in Nat
      /\ data_len(info) = info.units * U
  BY Geometry
<1>3. v \in Nat /\ f \in Levels /\ f \in Nat /\ f < info.levels /\ Levels \subseteq Nat
  BY <1>0, LevelFacts, SMTT(30) DEF Good
<1>4. v \in 0 .. info.units - 1 /\ On(v, a)
  BY <1>0, GoodUnits
<1>5. v + k <= info.units
  <2>1. U * Cardinality(Units(a)) = U * k /\ Cardinality(Units(a)) \in Nat
    <3>1. a.len = k * U /\ k * U = U * k
      BY <1>1, <1>2
    <3> QED
      BY <1>0, <3>1, GoodUnits
  <2>2. Cardinality(Units(a)) = k
    <3>1. ASSUME NEW x \in Nat, NEW y \in Nat, U * x = U * y PROVE x = y
      BY <1>2, <3>1
    <3> QED
      BY <2>1, <3>1
  <2> QED
    BY <1>0, <2>2, GoodUnits
<1> HIDE DEF U, v, f
<1>6. /\ DATA <= a.addr /\ a.addr < DATA + data_len(info)
      /\ DATA < a.addr + a.len /\ a.addr + a.len <= DATA + data_len(info)
  <2>1. a.addr = DATA + v * U /\ a.addr + a.len = DATA + (v + k) * U
    <3>1. a.addr = DATA + v * U /\ a.len = k * U
      BY <1>1
    <3>2. v * U \in Nat /\ k * U \in Nat /\ (v + k) * U = v * U + k * U
      BY <1>2, <1>3
    <3> QED
      BY <1>2, <3>1, <3>2
  <2>2. \A x, y \in Nat : (x < y => x * U < y * U) /\ (x <= y => x * U <= y * U) /\ x * U \in Nat
    <3>1. ASSUME NEW x \in Nat, NEW y \in Nat
          PROVE  (x < y => x * U < y * U) /\ (x <= y => x * U <= y * U) /\ x * U \in Nat
      BY <1>2
    <3> QED
      BY <3>1
  <2>3. v \in Nat /\ v + k \in Nat /\ v < info.units /\ v + k <= info.units /\ 0 < v + k /\ 0 * U = 0
    BY <1>2, <1>3, <1>4, <1>5
  <2>4. v * U < info.units * U /\ (v + k) * U <= info.units * U /\ 0 < (v + k) * U
    BY <1>2, <2>2, <2>3
  <2>5. v * U \in Nat /\ (v + k) * U \in Nat /\ info.units * U \in Nat
    BY <1>2, <2>2, <2>3
  <2> QED
    BY <1>2, <2>1, <2>4, <2>5
<1>7. ASSUME NEW l \in f .. Stop(Index(a), Fit(a)) PROVE Up(Index(a), Fit(a), l) \notin bits[l]
  <2>1. Stop(Index(a), Fit(a)) \in Levels
    BY <1>0, MergeCloses, Zenon
  <2>2. l \in Levels /\ l >= f
    BY <1>3, <1>7, <2>1, LevelFacts, Geometry, SMTT(30)
  <2>3. Up(Index(a), Fit(a), l) = At(v, l)
    BY <1>0, <2>2, MergeCloses, Zenon DEF v, f
  <2>4. FreeAt(bits, v) = {}
    BY <1>4, Held
  <2> QED
    BY <2>2, <2>3, <2>4, SMTT(30) DEF FreeAt
<1> QED
  BY <1>3, <1>6, <1>7 DEF Asserts, f

\* dealloc by an address and a length that round to an allocation frees it, or an
\* assert fails and nothing else changes; none fails if the chunk is a whole number
\* of units.
LEMMA ReturnStep ==
  ASSUME BInv, NEW a \in live, NEW front \in 0 .. UNIT_SIZE - 1, NEW back \in 0 .. UNIT_SIZE - 1,
         a.len > front + back, dealloc(a, a.addr + front, a.len - front - back)
  PROVE  /\ BInv'
         /\ Freed(a) \/ (failed' = TRUE /\ live' = live /\ ret' = ret)
         /\ TOTAL_LEN % UNIT_SIZE = 0 => Freed(a)
<1> DEFINE A == Asserts(a.addr, a.addr + a.len, Fit(a), Index(a))
<1>0. IF A
      THEN /\ SetBits(Merge(Index(a), Fit(a))) /\ used' = used - a.len /\ live' = live \ {a}
           /\ ret' = ret /\ failed' = failed
      ELSE failed' = TRUE /\ UNCHANGED <<bits, count, used, live, ret>>
  BY ReturnAs, Zenon
<1>1. CASE A
  <2>1. /\ SetBits(Merge(Index(a), Fit(a))) /\ used' = used - a.len /\ live' = live \ {a}
        /\ ret' = ret /\ failed' = failed
    BY <1>0, <1>1, Zenon
  <2> QED
    BY <2>1, FreeStep DEF Freed
<1>2. CASE ~ A
  <2>1. failed' = TRUE /\ UNCHANGED <<bits, count, used, live, ret>>
    BY <1>0, <1>2, Zenon
  <2>2. BInv'
    BY <2>1 DEF BInv, GoodBits, Good, Covered, FreeAt, Holders
  <2> QED
    BY <1>2, <2>1, <2>2, AssertsHold
<1> QED
  BY <1>1, <1>2, Zenon

\* The same for every address and length that a client may give back.
LEMMA ReturnGives ==
  ASSUME BInv, NEW a \in live, Return(a)
  PROVE  /\ BInv'
         /\ Freed(a) \/ (failed' = TRUE /\ live' = live /\ ret' = ret)
         /\ TOTAL_LEN % UNIT_SIZE = 0 => Freed(a)
<1>1. PICK front \in Slack, back \in Slack :
        a.len > front + back /\ dealloc(a, a.addr + front, a.len - front - back)
  BY DEF Return
<1>2. front \in 0 .. UNIT_SIZE - 1 /\ back \in 0 .. UNIT_SIZE - 1
  BY <1>1, ChunkAssumption
<1> QED
  BY <1>1, <1>2, ReturnStep, Zenon

-----------------------------------------------------------------------------
\* Every step.

\* In the bitmaps that BuddyBlock::new sets every unit is free at one level: at every
\* level the block that has no buddy in the chunk is set.
LEMMA InitFree ==
  ASSUME NEW b, b = [l \in Levels |-> InitialBits(l)], NEW u \in 0 .. info.units - 1
  PROVE  \E k \in Levels : FreeAt(b, u) = {k}
<1> DEFINE w == info.units
<1>0. u \in Nat /\ w \in Nat /\ u < w /\ info.levels \in Nat /\ Levels \subseteq Nat
  BY Geometry, LevelFacts
<1>1. \A l \in Levels : Blocks(l) = At(w, l)
  BY LevelFacts
<1>2. At(u, info.levels) = At(w, info.levels)
  <2>1. Blocks(info.levels) = 0 /\ Blocks(info.levels) = At(w, info.levels)
    BY <1>0, LevelFacts
  <2>2. At(u, info.levels) <= At(w, info.levels) /\ At(u, info.levels) \in Nat
    <3>1. At(u, 0) <= At(w, 0) /\ 0 \in Nat /\ 0 <= info.levels
      BY <1>0, AtZero
    <3>2. At(u, info.levels) <= At(w, info.levels)
      BY <1>0, <3>1, AtMono
    <3> QED
      BY <1>0, <3>2, AtNext, Zenon
  <2> QED
    BY <2>1, <2>2
<1> HIDE DEF w
<1>3. PICK k \in 0 .. info.levels - 1 : At(u, k) = Buddy(At(w, k))
  <2>1. At(u, 0) = At(w, 0) \/ \E k \in 0 .. info.levels - 1 : At(u, k) = Buddy(At(w, k))
    BY <1>0, <1>2, AtPart
  <2>2. At(u, 0) # At(w, 0)
    BY <1>0, AtZero
  <2> QED
    BY <2>1, <2>2
<1>4. k \in Levels /\ k \in Nat
  BY <1>0, <1>3 DEF Levels
<1>5. ASSUME NEW l \in Levels
      PROVE  At(u, l) \in b[l] <=> At(u, l) = Buddy(At(w, l))
  <2>1. l \in Nat /\ At(u, l) \in Nat /\ At(w, l) \in Nat /\ At(u, l) <= At(w, l)
    <3>1. l \in Nat /\ At(u, 0) <= At(w, 0)
      BY <1>0, <1>5, AtZero
    <3> QED
      BY <1>0, <3>1, AtMono, AtNext
  <2>2. b[l] = IF At(w, l) % 2 # 0 THEN {At(w, l) - 1} ELSE {}
    BY <1>1, <1>5, Zenon DEF InitialBits
  <2> QED
    BY <2>1, <2>2 DEF Buddy
<1>6. ASSUME NEW l \in Levels, l # k, At(u, l) = Buddy(At(w, l)) PROVE FALSE
  <2>1. l \in Nat /\ At(w, l) \in Nat /\ At(w, k) \in Nat
    BY <1>0, <1>4, <1>6, AtNext
  <2>2. At(u, l) # At(w, l) /\ At(u, k) # At(w, k)
    BY <1>3, <1>6, <2>1, BuddyPair
  <2>3. CASE l > k
    BY <1>0, <1>3, <1>4, <2>1, <2>2, <2>3, AtParted
  <2>4. CASE k > l
    BY <1>0, <1>4, <1>6, <2>1, <2>2, <2>4, AtParted
  <2> QED
    BY <1>4, <1>6, <2>1, <2>3, <2>4
<1>7. FreeAt(b, u) = {k}
  BY <1>3, <1>4, <1>5, <1>6, Zenon DEF FreeAt
<1> QED
  BY <1>4, <1>7

\* The bitmaps that BuddyBlock::new sets are in order.
LEMMA InitGood == GoodBits([l \in Levels |-> InitialBits(l)])
<1> DEFINE b == [l \in Levels |-> InitialBits(l)]
<1>1. ASSUME NEW l \in Levels
      PROVE  /\ b[l] \subseteq Nat
             /\ \A i \in b[l] : i < Blocks(l)
             /\ \A i \in b[l] : Buddy(i) \notin b[l]
  <2>1. Blocks(l) \in Nat /\ b[l] = IF Blocks(l) % 2 # 0 THEN {Blocks(l) - 1} ELSE {}
    BY <1>1, LevelFacts DEF InitialBits
  <2>2. CASE Blocks(l) % 2 # 0
    <3>1. b[l] = {Blocks(l) - 1} /\ Blocks(l) - 1 \in Nat
      BY <2>1, <2>2
    <3>2. Buddy(Blocks(l) - 1) # Blocks(l) - 1
      BY <3>1, BuddyPair
    <3> HIDE DEF b
    <3> QED
      BY <2>1, <3>1, <3>2
  <2>3. CASE Blocks(l) % 2 = 0
    <3>1. b[l] = {}
      BY <2>1, <2>3
    <3> HIDE DEF b
    <3> QED
      BY <3>1
  <2> QED
    BY <2>2, <2>3
<1>2. b \in [Levels -> SUBSET Nat]
  <2>1. \A l \in Levels : InitialBits(l) \in SUBSET Nat
    BY <1>1
  <2> QED
    BY <2>1
<1> QED
  BY <1>1, <1>2 DEF GoodBits

\* A new allocator satisfies the invariant.
LEMMA InitBInv == Init => BInv
<1> SUFFICES ASSUME Init PROVE BInv
  OBVIOUS
<1>1. /\ bits = [l \in Levels |-> InitialBits(l)] /\ used = 0 /\ live = {} /\ ret = None(0)
      /\ failed = FALSE /\ count = [l \in Levels |-> IF Blocks(l) % 2 # 0 THEN 1 ELSE 0]
  BY DEF Init
<1>2. GoodBits(bits)
  BY <1>1, InitGood
<1>3. ASSUME NEW l \in Levels PROVE (IF Blocks(l) % 2 # 0 THEN 1 ELSE 0) = Cardinality(bits[l])
  <2>1. Cardinality({}) = 0 /\ Cardinality({Blocks(l) - 1}) = 1
    BY FS_EmptySet, FS_Singleton, Zenon
  <2> QED
    BY <1>1, <1>3, <2>1 DEF InitialBits
<1>4. count = [l \in Levels |-> Cardinality(bits[l])]
  BY <1>1, <1>3
<1>5. used = UNIT_SIZE * Cardinality(UNION {Units(a) : a \in live})
  <2>1. UNION {Units(a) : a \in live} = {}
    BY <1>1
  <2>2. Cardinality(UNION {Units(a) : a \in live}) = 0
    BY <2>1, FS_EmptySet, Zenon
  <2>3. UNIT_SIZE * 0 = 0
    BY Geometry
  <2> QED
    BY <1>1, <2>2, <2>3, Zenon
<1>6. ret \in [addr : Nat, len : Nat] /\ failed \in BOOLEAN
  BY <1>1, Rounded, Zenon DEF None
<1>7. ASSUME NEW u \in 0 .. info.units - 1 PROVE Covered(bits, Holders(live, u), u)
  <2>1. Holders(live, u) = {}
    BY <1>1 DEF Holders
  <2>2. \E k \in Levels : FreeAt(bits, u) = {k}
    BY <1>1, <1>7, InitFree
  <2> QED
    BY <2>1, <2>2, Zenon DEF Covered
<1> QED
  BY <1>1, <1>2, <1>4, <1>5, <1>6, <1>7 DEF BInv

\* alloc that finds no block changes nothing but its answer.
LEMMA AllocRefuses ==
  ASSUME BInv, NEW len \in Nat \ {0}, alloc(len), Fitting(bitmap_index_for_size(AlignedLen(len))) = {}
  PROVE  BInv' /\ ret' = None(len) /\ live' = live /\ failed' = failed
<1>1. ret' = None(len) /\ UNCHANGED <<bits, count, used, live, failed>>
  BY Zenon DEF alloc
<1>2. ret' \in [addr : Nat, len : Nat]
  BY <1>1, Rounded, SMTT(30) DEF None
<1>3. BInv'
  BY <1>1, <1>2 DEF BInv, GoodBits, Good, Covered, FreeAt, Holders
<1> QED
  BY <1>1, <1>3

\* Every call keeps the invariant, and no assert fails if the chunk is a whole
\* number of units.
LEMMA BlockStep ==
  ASSUME BInv, [Next]_vars
  PROVE  BInv' /\ (TOTAL_LEN % UNIT_SIZE = 0 => failed' = failed)
<1>1. ASSUME NEW len \in Lens, alloc(len) PROVE BInv' /\ failed' = failed
  <2>1. len \in Nat \ {0}
    BY <1>1, ChunkAssumption
  <2>2. CASE Fitting(bitmap_index_for_size(AlignedLen(len))) = {}
    BY <1>1, <2>1, <2>2, AllocRefuses
  <2>3. CASE Fitting(bitmap_index_for_size(AlignedLen(len))) # {}
    <3>1. BInv' /\ \E a : Taken(a, bitmap_index_for_size(AlignedLen(len)))
      BY <1>1, <2>1, <2>3, AllocTakes
    <3> QED
      BY <3>1 DEF Taken
  <2> QED
    BY <2>2, <2>3
<1>2. ASSUME NEW a \in live, Return(a) PROVE BInv' /\ (TOTAL_LEN % UNIT_SIZE = 0 => failed' = failed)
  BY <1>2, ReturnGives, Zenon DEF Freed
<1>3. ASSUME UNCHANGED vars PROVE BInv' /\ failed' = failed
  BY <1>3 DEF vars, BInv, GoodBits, Good, Covered, FreeAt, Holders
<1> QED
  BY <1>1, <1>2, <1>3 DEF Next

-----------------------------------------------------------------------------
\* What the invariant says.

\* The inductive invariant holds in every reachable state of the allocator.
LEMMA BlockInvariance == Spec => []BInv
<1>1. BInv /\ [Next]_vars => BInv'
  BY BlockStep
<1> QED
  BY InitBInv, <1>1, PTL DEF Spec

\* dealloc accepts every block that alloc handed out, with any length and address
\* that round to it: none of its asserts fails, for every chunk whose length is a
\* whole number of units, which dealloc's bound check on the last unit needs.
THEOREM DeallocSucceeds ==
  ASSUME TOTAL_LEN % UNIT_SIZE = 0
  PROVE  Spec => []DeallocAccepts
<1>1. Init => ~ failed
  BY DEF Init
<1>2. BInv /\ ~ failed /\ [Next]_vars => ~ failed'
  BY BlockStep
<1> QED
  BY BlockInvariance, <1>1, <1>2, PTL DEF Spec, DeallocAccepts

\* A level of the bitmaps has no more blocks than the chunk has units.
LEMMA FewerBlocks ==
  ASSUME NEW l \in Nat
  PROVE  Blocks(l) <= info.units
<1> DEFINE p == Pow2[l]
           q == info.units \div p
<1>1. p \in Nat \ {0} /\ info.units \in Nat
  BY Pow2Def, Geometry
<1> HIDE DEF p
<1>2. q \in Nat /\ q * p <= info.units
  BY <1>1, DivBounds
<1>3. Blocks(l) = q
  BY LevelFacts DEF At, p
<1> HIDE DEF q
<1>4. q <= q * p /\ q * p \in Nat
  BY <1>1, <1>2
<1> QED
  BY <1>1, <1>2, <1>3, <1>4

\* Nothing is lost and nothing handed out twice, for every chunk: each unit is free
\* in one block or held by one allocation, the counters count the bitmaps, and
\* `used` is the number of bytes handed out.
THEOREM NothingLost == Spec => []Conservation
<1>1. ASSUME BInv PROVE Conservation
  <2>1. TypeOK
    <3>1. bits \in [Levels -> SUBSET (0 .. info.units - 1)]
      <4>1. ASSUME NEW l \in Levels PROVE bits[l] \subseteq 0 .. info.units - 1
        <5>1. l \in Nat /\ Blocks(l) \in Nat /\ info.units \in Nat /\ Blocks(l) <= info.units
          BY <4>1, LevelFacts, Geometry, FewerBlocks
        <5>2. bits[l] \subseteq Nat /\ \A i \in bits[l] : i < Blocks(l)
          BY <1>1, <4>1, BitsFinite DEF BInv, GoodBits
        <5> QED
          BY <5>1, <5>2
      <4> QED
        BY <1>1, <4>1 DEF BInv, GoodBits
    <3>2. count \in [Levels -> Nat]
      BY <1>1, BitsFinite, Zenon DEF BInv
    <3>3. used \in Nat
      <4>1. Cardinality(UNION {Units(a) : a \in live}) \in Nat
        BY <1>1, UsedUnits, Zenon DEF BInv
      <4>2. \A n \in Nat : UNIT_SIZE * n \in Nat
        BY Geometry
      <4> QED
        BY <1>1, <4>1, <4>2, Zenon DEF BInv
    <3>4. live \subseteq [addr : Nat, len : Nat]
      BY <1>1, GoodUnits, Zenon DEF BInv
    <3> QED
      BY <1>1, <3>1, <3>2, <3>3, <3>4 DEF BInv, TypeOK
  <2>2. CountersAgree
    BY <1>1 DEF BInv, CountersAgree
  <2>3. ASSUME NEW u \in 0 .. info.units - 1
        PROVE  Cardinality({l \in Levels : \E i \in bits[l] : u \in UnitsOf(l, i)})
               + Cardinality({a \in live : u \in UnitsOf(BlockOf(a).level, BlockOf(a).index)}) = 1
    <3>0. u \in Nat
      BY <2>3, Geometry
    <3>1. {l \in Levels : \E i \in bits[l] : u \in UnitsOf(l, i)} = FreeAt(bits, u)
      <4>1. ASSUME NEW l \in Levels
            PROVE  (\E i \in bits[l] : u \in UnitsOf(l, i)) <=> At(u, l) \in bits[l]
        <5>1. l \in Nat /\ bits[l] \subseteq Nat
          BY <1>1, <4>1, LevelFacts, BitsFinite DEF BInv
        <5>2. \A i \in bits[l] : u \in UnitsOf(l, i) <=> At(u, l) = i
          BY <3>0, <5>1, InBlock
        <5> QED
          BY <5>2
      <4> QED
        BY <4>1 DEF FreeAt
    <3>2. {a \in live : u \in UnitsOf(BlockOf(a).level, BlockOf(a).index)} = Holders(live, u)
      <4>1. ASSUME NEW a \in live
            PROVE  u \in UnitsOf(BlockOf(a).level, BlockOf(a).index) <=> On(u, a)
        <5>1. Fit(a) \in Nat /\ Index(a) \in Nat /\ BlockOf(a) = [level |-> Fit(a), index |-> Index(a)]
          BY <1>1, <4>1, GoodUnits, Zenon DEF BInv
        <5>2. u \in UnitsOf(Fit(a), Index(a)) <=> On(u, a)
          BY <3>0, <5>1, InBlock DEF On
        <5> QED
          BY <5>1, <5>2
      <4> QED
        BY <4>1 DEF Holders
    <3>3. Covered(bits, Holders(live, u), u)
      BY <1>1, <2>3 DEF BInv
    <3>4. Cardinality({}) = 0 /\ \A x : Cardinality({x}) = 1
      BY FS_EmptySet, FS_Singleton, Zenon
    <3>5. Cardinality(FreeAt(bits, u)) + Cardinality(Holders(live, u)) = 1
      <4>1. CASE Holders(live, u) = {} /\ \E l \in Levels : FreeAt(bits, u) = {l}
        <5>1. Cardinality(FreeAt(bits, u)) = 1 /\ Cardinality(Holders(live, u)) = 0
          BY <3>4, <4>1, Zenon
        <5> QED
          BY <5>1
      <4>2. CASE FreeAt(bits, u) = {} /\ \E a \in Holders(live, u) : Holders(live, u) = {a}
        <5>1. Cardinality(FreeAt(bits, u)) = 0 /\ Cardinality(Holders(live, u)) = 1
          BY <3>4, <4>2, Zenon
        <5> QED
          BY <5>1
      <4> QED
        BY <3>3, <4>1, <4>2, Zenon DEF Covered
    <3> QED
      BY <3>1, <3>2, <3>5, Zenon
  <2> QED
    BY <2>1, <2>2, <2>3 DEF Conservation
<1> QED
  BY BlockInvariance, <1>1, PTL

=============================================================================
