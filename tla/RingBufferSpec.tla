--------------------------- MODULE RingBufferSpec ---------------------------
(***************************************************************************)
(* A RingBuffer under arbitrary calls by its owner (kernel/src/            *)
(* ring_buffer.rs), and the bounded list it implements.                    *)
(***************************************************************************)
EXTENDS RingBuffer

VARIABLES ring,  \* the struct
          ret    \* what the last call returned

ring_vars == <<ring, ret>>

\* The list the struct stands for.
List == INSTANCE BoundedList WITH list <- Contents(ring)

RingInit ==
  /\ \E initial \in T : ring = new_with(initial)
  /\ ret = List!None

TryPush(data) ==
  IF ring.empty \/ ring.first # ring.last
  THEN ring' = push(ring, data) /\ ret' = List!Some(data)
  ELSE ret' = List!None /\ UNCHANGED ring

PushForce(data) ==
  /\ ring' = push_force(ring, data)
  /\ ret' = List!Forced(full(ring))

InsertForce(pos, data) ==
  IF pos > len(ring) THEN ret' = List!Panic /\ UNCHANGED ring
  ELSE /\ ring' = insert_force(ring, pos, data)
       /\ ret' = List!Forced(full(ring))

TryPop ==
  IF ~ ring.empty
  THEN ring' = pop(ring) /\ ret' = List!Some(peek(ring))
  ELSE ret' = List!None /\ UNCHANGED ring

Get(i) ==
  /\ ret' = IF InBounds(ring, i) THEN List!Some(get(ring, i)) ELSE List!None
  /\ UNCHANGED ring

\* IndexMut: `self[i] = data`.
Assign(i, data) ==
  IF InBounds(ring, i)
  THEN ring' = set(ring, i, data) /\ ret' = List!Some(data)
  ELSE ret' = List!Panic /\ UNCHANGED ring

RingNext ==
  \/ TryPop
  \/ \E i \in List!Positions : Get(i)
  \/ \E data \in T :
       \/ TryPush(data)
       \/ PushForce(data)
       \/ \E i \in List!Positions : InsertForce(i, data) \/ Assign(i, data)

RingSpec == RingInit /\ [][RingNext]_ring_vars

-----------------------------------------------------------------------------

\* The fields keep their types: in particular `first` and `last` always index
\* the array, so no access of try_push, push_force or try_pop is out of range.
RingTypeOK == ring \in Ring

\* `first = last` is read as "full" unless `empty` is set, so an empty buffer
\* must have its two indices together: a buffer that pops its last element at
\* different indices would be taken for one with elements left (len, try_push).
EmptyIsTight == ring.empty => ring.first = ring.last

\* Every call has the effect and the result it has on a list of at most CAP
\* elements: push, push_force, insert_force, pop and indexing lose, reorder
\* or overwrite no element that the list keeps, wherever the two indices are.
ImplementsList == List!Spec

=============================================================================
