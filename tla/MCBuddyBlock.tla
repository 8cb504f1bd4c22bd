---------------------------- MODULE MCBuddyBlock ----------------------------
(***************************************************************************)
(* BuddyBlock::new on chunks of many lengths, then alloc and dealloc on    *)
(* the one of TOTAL_LEN bytes; and the closed form of the merging loop of  *)
(* dealloc against the loop itself.                                        *)
(***************************************************************************)
EXTENDS BuddyBlock, BuddyChunk

SmallChunks == 1 .. 100 * UNIT_SIZE

\* Whole pages, around the sizes at which the bitmaps fill a page.
PageChunks == {n * UNIT_SIZE : n \in 2 .. 40 \cup 15440 .. 15500}

MCInit == ChunkInit /\ Init

Construct == ChunkNext /\ UNCHANGED vars

\* The allocator is there once its chunk was laid out.
Operate ==
  /\ stage = "done" /\ chunk_len = TOTAL_LEN
  /\ Next
  /\ UNCHANGED chunk_vars

MCSpec == MCInit /\ [][Construct \/ Operate]_<<vars, chunk_vars>>

\* The loop of dealloc, one turn per call, on the bitmaps b.
RECURSIVE MergeLoop(_, _, _)
MergeLoop(b, block_idx, current) ==
  LET set == [b EXCEPT ![current] = @ \cup {block_idx}] IN
  IF Buddy(block_idx) \in b[current] /\ current + 1 < info.levels
  THEN MergeLoop([set EXCEPT ![current] = @ \ {Buddy(block_idx), block_idx}],
                 block_idx \div 2, current + 1)
  ELSE set

\* Merging level by level as dealloc does gives the bitmaps of Merge, for
\* every allocation that could be returned next.
MergeLoopAgrees ==
  \A a \in live :
    LET b == BlockOf(a) IN MergeLoop(bits, b.index, b.level) = Merge(b.index, b.level)

=============================================================================
