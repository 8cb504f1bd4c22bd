----------------------------- MODULE Arithmetic -----------------------------
(***************************************************************************)
(* Facts about numbers that the proofs about the allocators and the memory *)
(* map share.  Induction is a fact about sets of numbers: a proof about    *)
(* all n names the set of the n for which its claim holds.                 *)
(***************************************************************************)
EXTENDS Integers, FiniteSetsExt, WellFoundedInduction, TLAPS

-----------------------------------------------------------------------------
(* Induction.                                                              *)

\* A set of numbers that is not empty has a least element: what the search
\* loops of the kernel find first.
LEMMA Least ==
  ASSUME NEW T, T \subseteq Nat, T # {}
  PROVE  \E x \in T : \A y \in T : x <= y
<1> DEFINE R == OpToRel(<, Nat)
<1>1. \E x \in T : \A y \in T : ~ (<<y, x>> \in R)
  <2> HIDE DEF R
  <2>1. IsWellFoundedOn(R, Nat)
    BY NatLessThanWellFounded, Zenon DEF R
  <2> QED
    BY <2>1, WFMin, Zenon
<1>2. \A x, y \in Nat : <<y, x>> \in R <=> y < x
  BY DEF OpToRel
<1>3. \E x \in T : \A y \in T : ~ (y < x)
  <2> HIDE DEF R
  <2> QED
    BY <1>1, <1>2, Zenon
<1> QED
  BY <1>3

\* A set of numbers that has 0 and, with every number, the next one.
LEMMA SetInduction ==
  ASSUME NEW S, S \subseteq Nat, 0 \in S, \A n \in S : n + 1 \in S
  PROVE  S = Nat
<1>1. ASSUME Nat \ S # {} PROVE FALSE
  <2>1. PICK x \in Nat \ S : \A y \in Nat \ S : x <= y
    BY <1>1, Least, Zenon
  <2>2. x - 1 \in Nat /\ x - 1 \notin Nat \ S
    BY <2>1
  <2> QED
    BY <2>1, <2>2
<1> QED
  BY <1>1, Zenon

\* The same for the numbers up to a bound.
LEMMA IntervalInduction ==
  ASSUME NEW N \in Nat, NEW S, 0 \in S, \A n \in 0 .. N - 1 : n \in S => n + 1 \in S
  PROVE  0 .. N \subseteq S
<1> DEFINE T == {n \in Nat : n <= N => n \in S}
<1>1. T = Nat
  <2>1. T \subseteq Nat /\ 0 \in T
    OBVIOUS
  <2>2. \A n \in T : n + 1 \in T
    OBVIOUS
  <2> HIDE DEF T
  <2> QED
    BY <2>1, <2>2, SetInduction, Zenon
<1> QED
  BY <1>1

\* Min of a set of numbers.
LEMMA MinIsLeast ==
  ASSUME NEW T, T \subseteq Nat, T # {}
  PROVE  Min(T) \in T /\ \A y \in T : Min(T) <= y
  BY Least, Zenon DEF Min

\* Max of two numbers.
LEMMA MaxOfTwo ==
  ASSUME NEW a \in Int, NEW b \in Int
  PROVE  Max({a, b}) = IF a >= b THEN a ELSE b
<1> DEFINE m == IF a >= b THEN a ELSE b
<1>1. m \in {a, b} /\ \A y \in {a, b} : m >= y
  OBVIOUS
<1>2. \A x \in {a, b} : (\A y \in {a, b} : x >= y) => x = m
  OBVIOUS
<1> QED
  BY <1>1, <1>2 DEF Max

-----------------------------------------------------------------------------
(* Division.                                                               *)

\* The quotient and what lies between two multiples.
LEMMA DivBounds ==
  ASSUME NEW x \in Nat, NEW a \in Nat \ {0}
  PROVE  x \div a \in Nat /\ (x \div a) * a <= x /\ x < (x \div a) * a + a
  OBVIOUS

\* Which quotient it is.
LEMMA DivUnique ==
  ASSUME NEW x \in Nat, NEW a \in Nat \ {0}, NEW q \in Nat, q * a <= x, x < q * a + a
  PROVE  x \div a = q
  OBVIOUS

\* A multiple has no remainder.
LEMMA ModMultiple ==
  ASSUME NEW q \in Nat, NEW a \in Nat \ {0}
  PROVE  (q * a) % a = 0
  OBVIOUS

\* What has no remainder is a multiple.
LEMMA ModWitness ==
  ASSUME NEW x \in Nat, NEW a \in Nat \ {0}, x % a = 0
  PROVE  \E q \in Nat : x = q * a
  OBVIOUS

\* The sum of two multiples.
LEMMA ModSum ==
  ASSUME NEW x \in Nat, NEW y \in Nat, NEW a \in Nat \ {0}, x % a = 0, y % a = 0
  PROVE  (x + y) % a = 0
<1>1. PICK q \in Nat : x = q * a
  BY ModWitness
<1>2. PICK r \in Nat : y = r * a
  BY ModWitness
<1>3. x + y = (q + r) * a /\ q + r \in Nat
  BY <1>1, <1>2
<1> QED
  BY <1>3, ModMultiple, Zenon

\* A multiple of a multiple.
LEMMA ModProduct ==
  ASSUME NEW x \in Nat, NEW k \in Nat, NEW a \in Nat \ {0}, x % a = 0
  PROVE  (k * x) % a = 0
<1>1. PICK q \in Nat : x = q * a
  BY ModWitness
<1>2. k * x = (k * q) * a /\ k * q \in Nat
  BY <1>1
<1> QED
  BY <1>2, ModMultiple, Zenon

\* A multiple of an aligned size is aligned.
LEMMA ModTrans ==
  ASSUME NEW x \in Nat, NEW b \in Nat \ {0}, NEW a \in Nat \ {0}, x % b = 0, b % a = 0
  PROVE  x % a = 0
<1>1. PICK q \in Nat : x = q * b
  BY ModWitness
<1> QED
  BY <1>1, ModProduct, Zenon

=============================================================================
