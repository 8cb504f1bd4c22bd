----------------------------- MODULE BuddyInfo -----------------------------
(***************************************************************************)
(* BuddyBlockInfo of buddyblock/src/lib.rs: how a chunk of memory is cut   *)
(* into the bitmaps and the units they describe.  Level l has one bit for  *)
(* every block of 2^l units.                                               *)
(***************************************************************************)
EXTENDS Shift, FiniteSetsExt

CONSTANT UNIT_SIZE

ASSUME UnitAssumption == UNIT_SIZE \in Nat \ {0}

\* size_of::<BlockBitmap>(): a pointer and a usize.
SizeOfBlockBitmap == 16

div_ceil(x, y) == (x + y - 1) \div y

BlockCount(units, level) == units \div Pow2[level]

\* Bytes of the bitmap of one level.
BitsLen(units, level) == (BlockCount(units, level) - 1) \div 8 + 1

\* Fault seed: a level whose bits end on a byte is given one byte more.
MeasuredLoose(block_count) == block_count \div 8 + 1

\* The same bytes as from_chunk adds them up.
Measured(block_count) == (block_count - 1) \div 8 + 1

\* The loop of from_chunk from the level that has block_count blocks on: the
\* levels it counts and the bytes it adds up.
LevelsOf[block_count \in Nat \ {0}] ==
  IF block_count = 1 THEN 1 ELSE 1 + LevelsOf[block_count \div 2]

BitmapBytes[block_count \in Nat \ {0}] ==
  IF block_count = 1 THEN Measured(1)
  ELSE Measured(block_count) + BitmapBytes[block_count \div 2]

\* The asserts of from_chunk are its preconditions here; see ChunkAccepted.
from_chunk(addr, len) ==
  LET units == (len - 1) \div UNIT_SIZE + 1
      levels == LevelsOf[units]
  IN  [raw_addr |-> addr,
       total_len |-> len,
       metadata_len |-> levels * SizeOfBlockBitmap + BitmapBytes[units],
       data_offset |-> 0,
       units |-> units,
       levels |-> levels]

\* from_chunk gets past its two asserts.
ChunkAccepted(len) == len > UNIT_SIZE /\ from_chunk(0, len).metadata_len < len

\* The bitmaps are sized for the whole chunk, then for what they leave of it.
DataOffset(len) == div_ceil(from_chunk(0, len).metadata_len, UNIT_SIZE) * UNIT_SIZE

new(raw_addr, total_len) ==
  LET data_offset == DataOffset(total_len)
      info == from_chunk(raw_addr + data_offset, total_len - data_offset)
  IN  [info EXCEPT !.raw_addr = raw_addr,
                   !.total_len = total_len,
                   !.data_offset = data_offset]

\* new gets past its asserts.
NewAccepted(total_len) ==
  /\ ChunkAccepted(total_len)
  /\ ChunkAccepted(total_len - DataOffset(total_len))
  /\ new(0, total_len).metadata_len < DataOffset(total_len)

data_addr(info) == info.raw_addr + info.data_offset
data_len(info) == info.total_len - info.data_offset

=============================================================================
