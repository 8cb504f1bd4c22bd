----------------------------- MODULE LineEditor -----------------------------
(***************************************************************************)
(* What the terminal promises the shell and the person who types: a line   *)
(* that is edited at a position, handed over as it stands when Enter is    *)
(* pressed, and can be recalled afterwards.                                *)
(***************************************************************************)
EXTENDS Integers, Sequences, SequencesExt

CONSTANTS Char

VARIABLES text,    \* the line being edited
          pos,     \* how many of its characters are before the cursor
          editing, \* FALSE from Enter until the next prompt
          line     \* the line the shell got last

vars == <<text, pos, editing, line>>

Init ==
  /\ text = <<>>
  /\ pos = 0
  /\ editing = FALSE
  /\ line = <<>>

Edit(t, p) ==
  /\ editing
  /\ text' = t
  /\ pos' = p
  /\ UNCHANGED <<editing, line>>

Insert == \E c \in Char : Edit(InsertAt(text, pos + 1, c), pos + 1)

Delete == pos < Len(text) /\ Edit(RemoveAt(text, pos + 1), pos)

Backspace == pos > 0 /\ Edit(RemoveAt(text, pos), pos - 1)

Left == pos > 0 /\ Edit(text, pos - 1)

Right == pos < Len(text) /\ Edit(text, pos + 1)

Recall == Edit(line, Len(line))

Enter ==
  /\ editing
  /\ editing' = FALSE
  /\ pos' = Len(text)
  /\ UNCHANGED <<text, line>>

Take ==
  /\ ~ editing
  /\ line' = text
  /\ text' = <<>>
  /\ pos' = 0
  /\ UNCHANGED editing

Prompt ==
  /\ ~ editing
  /\ text = <<>>
  /\ editing' = TRUE
  /\ UNCHANGED <<text, pos, line>>

Next ==
  \/ Insert \/ Delete \/ Backspace \/ Left \/ Right \/ Recall
  \/ Enter \/ Take \/ Prompt

Spec == Init /\ [][Next]_vars

=============================================================================
