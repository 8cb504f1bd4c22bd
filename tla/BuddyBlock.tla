----------------------------- MODULE BuddyBlock -----------------------------
(***************************************************************************)
(* BuddyBlock of buddyblock/src/lib.rs: the bitmaps of free blocks, and    *)
(* alloc and dealloc on them, called by clients that return what they were *)
(* given.  bits[l] is the set of block indices whose bit is 1 in level l.  *)
(***************************************************************************)
EXTENDS BuddyInfo, FiniteSets

CONSTANTS RAW_ADDR,   \* where the chunk begins
          TOTAL_LEN,  \* its length in bytes
          Lens,       \* the lengths clients ask for
          Slack       \* the bytes they leave out of the first and the last unit

\* The chunk is big enough for BuddyBlockInfo::new and aligned as pages are.
ASSUME ChunkAssumption ==
  /\ RAW_ADDR \in Nat /\ RAW_ADDR % UNIT_SIZE = 0
  /\ TOTAL_LEN \in Nat /\ ChunkAccepted(TOTAL_LEN)
  /\ ChunkAccepted(TOTAL_LEN - DataOffset(TOTAL_LEN))
  /\ Lens \subseteq Nat \ {0}
  /\ Slack \subseteq 0 .. UNIT_SIZE - 1

VARIABLES bits,    \* bits[l]: the bits that are 1
          count,   \* count[l]: how many of them there are
          used,    \* bytes handed out
          live,    \* history: the allocations not yet returned
          ret,     \* history: the answer to the last alloc
          failed   \* an assert failed

vars == <<bits, count, used, live, ret, failed>>

info == new(RAW_ADDR, TOTAL_LEN)
DATA == data_addr(info)
Levels == 0 .. info.levels - 1
Blocks(level) == BlockCount(info.units, level)

\* The smallest level whose blocks have `size` bytes.
bitmap_index_for_size(size) ==
  CHOOSE idx \in 0 .. size :
    UNIT_SIZE * Pow2[idx] >= size /\ (idx > 0 => UNIT_SIZE * Pow2[idx - 1] < size)

AlignedLen(len) == div_ceil(len, UNIT_SIZE) * UNIT_SIZE

\* A level with an odd number of blocks starts with the last one, which has
\* no buddy, free; the others are free as parts of larger blocks.
InitialBits(level) == IF Blocks(level) % 2 # 0 THEN {Blocks(level) - 1} ELSE {}

\* The answer None, with the request it answers.
None(len) == [addr |-> 0, len |-> AlignedLen(len)]

Init ==
  /\ bits = [l \in Levels |-> InitialBits(l)]
  /\ count = [l \in Levels |-> IF Blocks(l) % 2 # 0 THEN 1 ELSE 0]
  /\ used = 0
  /\ live = {}
  /\ ret = None(0)
  /\ failed = FALSE

-----------------------------------------------------------------------------

\* The bits of level l change to b: set_1 and set_0 count what they change.
Update(l, b) == count[l] + Cardinality(b \ bits[l]) - Cardinality(bits[l] \ b)

\* Every level's bits become new[l], and its count follows.
SetBits(new_bits) ==
  /\ bits' = new_bits
  /\ count' = [l \in Levels |-> Update(l, new_bits[l])]

\* Fault seed: the half that is handed out stays listed, not the other one.
LeftOverLower(i) == i

\* The upper half of a block whose lower half is block i.
LeftOver(i) == i + 1

\* first_1 of the lowest level that has a block, and the upper halves that
\* are left over on the way down to the level that fits.
Split(fit, from) ==
  LET block_idx == Min(bits[from]) IN
  [l \in Levels |->
     IF l = from THEN bits[l] \ {block_idx}
     ELSE IF l >= fit /\ l < from THEN bits[l] \cup {LeftOver(block_idx * Pow2[from - l])}
     ELSE bits[l]]

\* Fault seed: larger blocks are never split.
FittingExact(fit) == {l \in Levels : l = fit /\ count[l] # 0}

\* The levels that have a block of the length or longer.
Fitting(fit) == {l \in Levels : l >= fit /\ count[l] # 0}

alloc(len) ==
  LET fit == bitmap_index_for_size(AlignedLen(len))
      from == Fitting(fit)
  IN  IF from = {}
      THEN ret' = None(len) /\ UNCHANGED <<bits, count, used, live, failed>>
      ELSE LET a == [addr |-> DATA + Min(bits[Min(from)]) * UNIT_SIZE * Pow2[Min(from)],
                     len |-> AlignedLen(len)]
           IN  /\ SetBits(Split(fit, Min(from)))
               /\ used' = used + AlignedLen(len)
               /\ ret' = a
               /\ live' = live \cup {a}
               /\ UNCHANGED failed

\* Fault seed: the buddy is always the right neighbour.
BuddyRight(i) == i + 1

\* block_idx ^ 1.
Buddy(i) == IF i % 2 = 0 THEN i + 1 ELSE i - 1

\* The block at level l that contains block_idx of level fit.
Up(block_idx, fit, l) == block_idx \div Pow2[l - fit]

\* Fault seed: nothing is merged.
StopAtOnce(block_idx, fit) == fit

\* The level at which the loop of dealloc stops merging.
Stop(block_idx, fit) ==
  Min({l \in Levels : /\ l >= fit
                      /\ \/ Buddy(Up(block_idx, fit, l)) \notin bits[l]
                         \/ l + 1 >= info.levels})

\* Fault seed: the buddy that was merged stays listed.
MergeKeepsBuddy(block_idx, fit) ==
  LET stop == Stop(block_idx, fit) IN
  [bits EXCEPT ![stop] = @ \cup {Up(block_idx, fit, stop)}]

\* Below that level the buddies are taken out, there the block goes in.
Merge(block_idx, fit) ==
  LET stop == Stop(block_idx, fit) IN
  [l \in Levels |->
     IF l >= fit /\ l < stop THEN bits[l] \ {Buddy(Up(block_idx, fit, l))}
     ELSE IF l = stop THEN bits[l] \cup {Up(block_idx, fit, l)}
     ELSE bits[l]]

\* dealloc with the asserts it runs into; the client gives back allocation a.
dealloc(a, addr, len) ==
  LET aligned_addr == (addr \div UNIT_SIZE) * UNIT_SIZE
      aligned_end == AlignedLen(addr + len)
      aligned_len == aligned_end - aligned_addr
      end == DATA + data_len(info)
      fit == bitmap_index_for_size(aligned_len)
      block_idx == (aligned_addr - DATA) \div (UNIT_SIZE * Pow2[fit])
  IN  IF /\ DATA <= aligned_addr /\ aligned_addr < end
         /\ DATA < aligned_end /\ aligned_end <= end
         /\ fit < info.levels
         /\ \A l \in fit .. Stop(block_idx, fit) : Up(block_idx, fit, l) \notin bits[l]
      THEN /\ SetBits(Merge(block_idx, fit))
           /\ used' = used - aligned_len
           /\ live' = live \ {a}
           /\ UNCHANGED <<ret, failed>>
      ELSE failed' = TRUE /\ UNCHANGED <<bits, count, used, live, ret>>

\* A client may return its block by any address and length that round to it.
Return(a) ==
  \E front, back \in Slack :
    /\ a.len > front + back
    /\ dealloc(a, a.addr + front, a.len - front - back)

Next ==
  /\ ~ failed
  /\ \/ \E len \in Lens : alloc(len)
     \/ \E a \in live : Return(a)

Spec == Init /\ [][Next]_vars

-----------------------------------------------------------------------------

\* The units of a block of 2^level units.
UnitsOf(level, i) == i * Pow2[level] .. (i + 1) * Pow2[level] - 1

\* The units of an allocation.
Units(a) == (a.addr - DATA) \div UNIT_SIZE .. (a.addr + a.len - DATA) \div UNIT_SIZE - 1

\* The block behind an allocation, or behind the answer None.
BlockOf(a) ==
  LET level == bitmap_index_for_size(a.len) IN
  [level |-> Min({level, info.levels}),
   index |-> IF a.addr = 0 THEN info.units ELSE (a.addr - DATA) \div (UNIT_SIZE * Pow2[level])]

\* The bits of a level are blocks of the chunk and `used` never wraps below 0.
TypeOK ==
  /\ bits \in [Levels -> SUBSET (0 .. info.units - 1)]
  /\ count \in [Levels -> Nat]
  /\ used \in Nat
  /\ live \subseteq [addr : Nat, len : Nat]
  /\ ret \in [addr : Nat, len : Nat]
  /\ failed \in BOOLEAN

Allocator == INSTANCE BlockAllocator WITH
  UNITS <- info.units, LEVELS <- info.levels,
  live <- {BlockOf(a) : a \in live}, ret <- BlockOf(ret)

\* alloc and dealloc refine the abstract allocator: blocks handed out never
\* overlap and lie in the chunk, aligned to their length, and alloc answers
\* None only when no aligned run of free units is long enough.
ImplementsAllocator == Allocator!Spec

\* The counters that alloc trusts to skip a level, and used(), agree with the
\* bitmaps and with what is handed out.
CountersAgree ==
  /\ \A l \in Levels : count[l] = Cardinality(bits[l])
  /\ used = UNIT_SIZE * Cardinality(UNION {Units(a) : a \in live})

\* Every unit belongs to exactly one free block or live allocation, and the
\* counters say so: splitting and merging neither lose memory nor list a
\* block twice nor leave the bitmaps of the chunk.
Conservation ==
  /\ TypeOK
  /\ CountersAgree
  /\ \A u \in 0 .. info.units - 1 :
       Cardinality({l \in Levels : \E i \in bits[l] : u \in UnitsOf(l, i)})
       + Cardinality({a \in live : u \in UnitsOf(BlockOf(a).level, BlockOf(a).index)}) = 1

\* Free memory is merged as far as it can be: two buddies are never both free
\* below the top level, so returning everything restores the initial bitmaps.
Coalesced ==
  /\ \A l \in Levels : l + 1 < info.levels =>
       \A i \in bits[l] : Buddy(i) \notin bits[l]
  /\ live = {} => \A l \in Levels : bits[l] = InitialBits(l)

\* No assert of dealloc fails on memory that alloc handed out, whatever part
\* of its first and last unit the caller names.  It takes a chunk that is a
\* whole number of units: from_chunk rounds up.
DeallocAccepts == ~ failed

=============================================================================
