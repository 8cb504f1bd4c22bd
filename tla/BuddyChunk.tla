----------------------------- MODULE BuddyChunk -----------------------------
(***************************************************************************)
(* BuddyBlockInfo::new of buddyblock/src/lib.rs on chunks of many lengths: *)
(* the two measurements, their asserts, and the layout BuddyBlock::new     *)
(* builds from the result.                                                 *)
(***************************************************************************)
EXTENDS BuddyInfo

CONSTANTS Chunks   \* the lengths tried

ASSUME ChunksAssumption == Chunks \subseteq Nat \ {0}

VARIABLES chunk_len,  \* the length given
          measured,   \* the measurement so far
          bits_idx,   \* bytes of bitmaps laid out by BuddyBlock::new
          idx,        \* levels laid out
          stage       \* how far it is; a line number after a failed assert

chunk_vars == <<chunk_len, measured, bits_idx, idx, stage>>

ChunkInit ==
  /\ chunk_len \in Chunks
  /\ measured = [raw_addr |-> 0, total_len |-> 0, metadata_len |-> 0, data_offset |-> 0,
                 units |-> 0, levels |-> 0]
  /\ bits_idx = 0
  /\ idx = 0
  /\ stage = "whole"

\* The asserts of from_chunk on len bytes.
FromChunk(len, next) ==
  stage' = IF len <= UNIT_SIZE THEN "assert_77"
           ELSE IF ~ ChunkAccepted(len) THEN "assert_97" ELSE next

MeasureWhole ==
  /\ stage = "whole"
  /\ FromChunk(chunk_len, "rest")
  /\ UNCHANGED <<chunk_len, measured, bits_idx, idx>>

MeasureRest ==
  /\ stage = "rest"
  /\ FromChunk(chunk_len - DataOffset(chunk_len), "compare")
  /\ UNCHANGED <<chunk_len, measured, bits_idx, idx>>

Compare ==
  /\ stage = "compare"
  /\ measured' = new(0, chunk_len)
  /\ stage' = IF measured'.metadata_len < measured'.data_offset THEN "layout" ELSE "assert_114"
  /\ UNCHANGED <<chunk_len, bits_idx, idx>>

\* One turn of the loop of BuddyBlock::new.
Layout ==
  /\ stage = "layout"
  /\ bits_idx' = bits_idx + BitsLen(measured.units, idx)
  /\ idx' = idx + 1
  /\ stage' = IF BlockCount(measured.units, idx') = 0 THEN "done" ELSE "layout"
  /\ UNCHANGED <<chunk_len, measured>>

ChunkNext == MeasureWhole \/ MeasureRest \/ Compare \/ Layout

ChunkSpec == ChunkInit /\ [][ChunkNext]_chunk_vars

-----------------------------------------------------------------------------

\* Measuring twice is enough: the metadata of what is left fits before the
\* data, also where the assert that compares the two stops the kernel.  The
\* bitmaps as BuddyBlock::new lays them out, level by level, fill exactly what
\* was measured (the two asserts at the end of its loop), and their units are
\* exactly the data area of a chunk that is a whole number of units.
LayoutMatches ==
  /\ stage \in {"layout", "done", "assert_114"} => measured.metadata_len <= measured.data_offset
  /\ stage = "done" =>
       /\ idx = measured.levels
       /\ bits_idx = measured.metadata_len - measured.levels * SizeOfBlockBitmap
       /\ chunk_len % UNIT_SIZE = 0 => measured.units * UNIT_SIZE = data_len(measured)

\* The assert of BuddyBlockInfo::new, `measured.metadata_len < data_offset`, holds
\* for every chunk that got there.
MetadataLeavesRoom == stage # "assert_114"

=============================================================================
