---------------------------- MODULE MCRingBuffer ----------------------------
(***************************************************************************)
(* Model checking of RingBufferSpec, and of the closed forms of the two    *)
(* shifts of insert_force against the loops the code runs.                 *)
(***************************************************************************)
EXTENDS RingBufferSpec, SequencesExt

\* 0..n as the sequence of values `for i in 0..n` takes.
UpTo(n) == [j \in 1 .. n |-> j - 1]

\* Fault seed: the elements are moved right from the front.
ShiftRightForward(r, pos, data) ==
  LET body(q, j) == set(q, pos + j + 1, get(q, pos + j))
  IN  set(FoldLeft(body, push(r, data), UpTo(len(r) - pos)), pos, data)

\* for i in (pos..n).rev() { self[i + 1] = self[i]; } self[pos] = data
ShiftRightLoop(r, pos, data) ==
  LET n == len(r)
      body(q, j) == set(q, n - 1 - j + 1, get(q, n - 1 - j))
  IN  set(FoldLeft(body, push(r, data), UpTo(n - pos)), pos, data)

\* for i in 0..pos { self[i] = self[i + 1]; } self[pos] = data
ShiftLeftLoop(r, pos, data) ==
  LET body(q, i) == set(q, i, get(q, i + 1))
  IN  set(FoldLeft(body, r, UpTo(pos)), pos, data)

\* The loops of insert_force read each element before they overwrite it: run
\* step by step in the order of the code, they leave what the closed forms
\* say, for every reachable buffer, position and element.
ShiftLoopsKeepElements ==
  ~ ring.empty =>
    \A pos \in 0 .. len(ring) - 1, data \in T :
      insert_force(ring, pos, data) =
        IF ring.first # ring.last
        THEN ShiftRightLoop(ring, pos, data)
        ELSE ShiftLeftLoop(ring, pos, data)

=============================================================================
