----------------------------- MODULE BoundedList -----------------------------
(***************************************************************************)
(* What a RingBuffer promises: a list of at most CAP elements.  `push` and *)
(* `try_push` refuse when it is full, the `_force` operations make room by *)
(* dropping the oldest element, a wrong index panics and changes nothing.  *)
(***************************************************************************)
EXTENDS Integers, Sequences

CONSTANTS CAP, T

VARIABLES list,  \* the elements, oldest first
          ret    \* what the last call returned

vars == <<list, ret>>

None == [tag |-> "None"]
Some(v) == [tag |-> "Some", value |-> v]
Forced(b) == [tag |-> "Forced", value |-> b]
Panic == [tag |-> "Panic"]

\* list with data placed so that `pos` elements come before it.
Insert(l, pos, data) ==
  [i \in 1 .. Len(l) + 1 |->
     IF i <= pos THEN l[i] ELSE IF i = pos + 1 THEN data ELSE l[i - 1]]

Init == list = <<>> /\ ret = None

TryPush(data) ==
  IF Len(list) < CAP
  THEN list' = Append(list, data) /\ ret' = Some(data)
  ELSE ret' = None /\ UNCHANGED list

PushForce(data) ==
  IF Len(list) < CAP
  THEN list' = Append(list, data) /\ ret' = Forced(FALSE)
  ELSE list' = Append(Tail(list), data) /\ ret' = Forced(TRUE)

\* In a full list the oldest element leaves first, and data is inserted at
\* the same index of what remains.
InsertForce(pos, data) ==
  IF pos > Len(list) THEN ret' = Panic /\ UNCHANGED list
  ELSE IF Len(list) < CAP
  THEN list' = Insert(list, pos, data) /\ ret' = Forced(FALSE)
  ELSE IF pos = Len(list)
  THEN list' = Append(Tail(list), data) /\ ret' = Forced(TRUE)
  ELSE list' = Insert(Tail(list), pos, data) /\ ret' = Forced(TRUE)

TryPop ==
  IF list # <<>>
  THEN list' = Tail(list) /\ ret' = Some(Head(list))
  ELSE ret' = None /\ UNCHANGED list

Get(i) ==
  /\ ret' = IF i < Len(list) THEN Some(list[i + 1]) ELSE None
  /\ UNCHANGED list

Assign(i, data) ==
  IF i < Len(list)
  THEN list' = [list EXCEPT ![i + 1] = data] /\ ret' = Some(data)
  ELSE ret' = Panic /\ UNCHANGED list

\* One position past the end stands for every position that is out of bounds.
Positions == 0 .. CAP + 1

Next ==
  \/ TryPop
  \/ \E i \in Positions : Get(i)
  \/ \E data \in T :
       \/ TryPush(data)
       \/ PushForce(data)
       \/ \E i \in Positions : InsertForce(i, data) \/ Assign(i, data)

Spec == Init /\ [][Next]_vars

=============================================================================
