--------------------------- MODULE BlockAllocator ---------------------------
(***************************************************************************)
(* What BuddyBlock promises: it hands out disjoint blocks of its units,    *)
(* each 2^k units long and aligned to its length, and refuses a request    *)
(* only when no such block is free.                                        *)
(***************************************************************************)
EXTENDS Shift

CONSTANTS UNITS,  \* number of units, counted from 0
          LEVELS  \* blocks have 2^0 .. 2^(LEVELS - 1) units

VARIABLES live,   \* the blocks handed out and not returned
          ret     \* the answer to the last request

vars == <<live, ret>>

Block == [level : 0 .. LEVELS - 1, index : 0 .. UNITS - 1]

\* The answer None to a request for 2^level units; LEVELS stands for more
\* than any block has.
None(level) == [level |-> level, index |-> UNITS]

Units(b) == b.index * Pow2[b.level] .. (b.index + 1) * Pow2[b.level] - 1

Disjoint(b, c) == Units(b) \cap Units(c) = {}

Free(b) == Units(b) \subseteq 0 .. UNITS - 1 /\ \A c \in live : Disjoint(b, c)

Init == live = {} /\ ret = None(0)

\* A request whose length needs blocks of 2^level units.
Alloc(level) ==
  \/ \E b \in Block :
       /\ b.level = level
       /\ Free(b)
       /\ live' = live \cup {b}
       /\ ret' = b
  \/ /\ \A b \in Block : b.level = level => ~ Free(b)
     /\ ret' = None(level)
     /\ UNCHANGED live

Dealloc(b) ==
  /\ b \in live
  /\ live' = live \ {b}
  /\ UNCHANGED ret

Next ==
  \/ \E level \in 0 .. LEVELS : Alloc(level)
  \/ \E b \in live : Dealloc(b)

Spec == Init /\ [][Next]_vars

=============================================================================
