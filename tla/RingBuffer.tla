----------------------------- MODULE RingBuffer -----------------------------
(***************************************************************************)
(* RingBuffer<T, CAP> of kernel/src/ring_buffer.rs as operators on a value *)
(* of the struct: the kernel keeps one in the interrupt queue and one as   *)
(* the scroll-back of the terminal.  A field is a record field, a method   *)
(* that takes &mut self is an operator that returns the new record.        *)
(***************************************************************************)
EXTENDS Integers, Sequences

CONSTANTS CAP,   \* the const generic: number of cells of the array
          T      \* the element type

\* An array with no cell has no valid index for `first` and `last`.
ASSUME CapAssumption == CAP \in Nat \ {0}

Index == 0 .. CAP - 1

Ring == [buffer : [Index -> T], first : Index, last : Index, empty : BOOLEAN]

\* A cell index moved one to the right; the array is a circle.
Succ(i) == IF i + 1 >= CAP THEN 0 ELSE i + 1

new_with(initial) ==
  [buffer |-> [k \in Index |-> initial], first |-> 0, last |-> 0, empty |-> TRUE]

len(r) ==
  IF r.empty THEN 0
  ELSE IF r.first < r.last THEN r.last - r.first
  ELSE r.last + CAP - r.first

\* wrap_index for an index below len: the cell of the i-th element.
Cell(r, i) == IF r.first + i < CAP THEN r.first + i ELSE r.first + i - CAP

\* The inverse of Cell: the position a cell has counted from `first`.
Position(r, k) == IF k >= r.first THEN k - r.first ELSE k + CAP - r.first

InBounds(r, i) == i \in 0 .. len(r) - 1

full(r) == ~ r.empty /\ r.first = r.last

get(r, i) == r.buffer[Cell(r, i)]

set(r, i, data) == [r EXCEPT !.buffer[Cell(r, i)] = data]

\* The element try_peek and try_pop return; the queue is not empty.
peek(r) == r.buffer[r.first]

\* try_push when there is room.
push(r, data) ==
  [r EXCEPT !.buffer[r.last] = data, !.last = Succ(r.last), !.empty = FALSE]

\* Fault seed: a full buffer keeps its head where it was.
push_force_stuck(r, data) ==
  [r EXCEPT !.buffer[r.last] = data, !.last = Succ(r.last), !.empty = FALSE]

push_force(r, data) ==
  [r EXCEPT !.buffer[r.last] = data,
            !.first = IF full(r) THEN Succ(r.first) ELSE r.first,
            !.last = Succ(r.last),
            !.empty = FALSE]

\* try_pop when there is an element.
pop(r) ==
  [r EXCEPT !.first = Succ(r.first), !.empty = (Succ(r.first) = r.last)]

\* What the loop over (pos..len).rev() leaves once data is pushed: the
\* elements from pos on are one further right and data is at pos.
ShiftRight(r, pos, data) ==
  LET p == push(r, data) IN
  [p EXCEPT !.buffer =
     [k \in Index |->
        LET i == Position(r, k) IN
        IF i > pos /\ i <= len(r) THEN get(r, i - 1)
        ELSE IF i = pos THEN data ELSE r.buffer[k]]]

\* What the loop over 0..pos leaves in a full buffer: the head is gone, the
\* elements up to pos are one further left and data is at pos.
ShiftLeft(r, pos, data) ==
  [r EXCEPT !.buffer =
     [k \in Index |->
        LET i == Position(r, k) IN
        IF i < pos THEN get(r, i + 1)
        ELSE IF i = pos THEN data ELSE r.buffer[k]]]

\* insert_force for pos <= len; a larger pos panics.
insert_force(r, pos, data) ==
  IF r.empty \/ pos = len(r) THEN push_force(r, data)
  ELSE IF r.first # r.last THEN ShiftRight(r, pos, data)
  ELSE ShiftLeft(r, pos, data)

\* The elements in order, what Index, IndexMut and iteration by index see.
Contents(r) == [i \in 1 .. len(r) |-> get(r, i - 1)]

=============================================================================
