------------------------------ MODULE Terminal ------------------------------
(***************************************************************************)
(* The Terminal of kernel/src/terminal.rs as the main loop drives it: the  *)
(* line editor, the rows of the scroll-back, the cursor in them, and what  *)
(* of them the video memory shows.  The struct is one record and a method  *)
(* is an operator that returns the new one.  The scroll-back is the list   *)
(* RingBuffer is proved to implement.  kmain keeps one status line, below  *)
(* the screen; colours are left out.                                       *)
(***************************************************************************)
EXTENDS Integers, Sequences, SequencesExt

CONSTANTS VIDEO_WIDTH,
          SCREEN_HEIGHT,  \* VIDEO_HEIGHT without the status lines
          BUFFER_HEIGHT,
          INPUT_MAXSIZE,
          Char            \* the printable characters that are typed

Newline == "\n"
Blank == " "
Empty == "empty"   \* the character of EMPTY_CHAR
PromptChar == ">"

ASSUME SizeAssumption ==
  /\ VIDEO_WIDTH \in Nat \ {0}
  /\ SCREEN_HEIGHT \in Nat \ {0, 1}
  /\ BUFFER_HEIGHT \in Nat /\ BUFFER_HEIGHT >= SCREEN_HEIGHT
  /\ INPUT_MAXSIZE \in Nat \ {0, 1}
  /\ Char \cap {Newline, Blank, Empty, PromptChar} = {}

VARIABLES term,   \* the Terminal, with `failed` and the history field `origin`
          shell,  \* what the main loop does next: command, key or getline
          line    \* what getline returned last

vars == <<term, shell, line>>

EMPTY_ROW == [c \in 1 .. VIDEO_WIDTH |-> Empty]

Fail(t, why) == [t EXCEPT !.failed = why]

\* op applied to t, n times.
Repeat(op(_), n, t) ==
  LET after[i \in 0 .. n] == IF i = 0 THEN t ELSE op(after[i - 1]) IN after[n]

-----------------------------------------------------------------------------

row_visible(t, row) == row \in t.scr_row .. t.scr_row + SCREEN_HEIGHT - 1

\* The position behind the screen hides the cursor.
Hidden == (SCREEN_HEIGHT + 1) * VIDEO_WIDTH

update_cursor(t) ==
  [t EXCEPT !.hw = IF row_visible(t, t.cur_row)
                   THEN (t.cur_row - t.scr_row) * VIDEO_WIDTH + t.cur_col ELSE Hidden]

redraw_screen(t) ==
  [t EXCEPT !.video = [r \in 1 .. SCREEN_HEIGHT |->
                         IF t.scr_row + r <= Len(t.buffer) THEN t.buffer[t.scr_row + r] ELSE EMPTY_ROW]]

\* Fault seed: the hardware cursor keeps its place on the screen.
scroll_to_still(t, row) == redraw_screen([t EXCEPT !.scr_row = row])

scroll_to(t, row) == update_cursor(redraw_screen([t EXCEPT !.scr_row = row]))

scroll_to_cursor(t) ==
  IF t.cur_row < t.scr_row THEN scroll_to(t, t.cur_row)
  ELSE IF t.cur_row >= t.scr_row + SCREEN_HEIGHT THEN scroll_to(t, t.cur_row - SCREEN_HEIGHT + 1)
  ELSE t

\* insert_force in a list of rows: a full one loses its first row.
insert_force(rows, row) ==
  IF Len(rows) < BUFFER_HEIGHT THEN InsertAt(rows, row + 1, EMPTY_ROW)
  ELSE IF row = Len(rows) THEN Append(Tail(rows), EMPTY_ROW)
  ELSE InsertAt(Tail(rows), row + 1, EMPTY_ROW)

\* Fault seed: a row keeps its index when a full buffer loses its first.
MovedUp(r, row, forced) == IF ~ forced /\ r > row THEN r + 1 ELSE r

\* The index of row r after a row is inserted.
Moved(r, row, forced) ==
  IF forced THEN (IF r \in 1 .. row THEN r - 1 ELSE r)
  ELSE (IF r > row THEN r + 1 ELSE r)

\* new_line_at for a row of the buffer or the one behind its end.
insert_row(t, row) ==
  LET forced == Len(t.buffer) = BUFFER_HEIGHT IN
  [t EXCEPT !.buffer = insert_force(@, row),
            !.cur_row = Moved(@, row, forced), !.scr_row = Moved(@, row, forced),
            !.origin = IF ~ forced THEN @
                       ELSE IF @ >= VIDEO_WIDTH THEN @ - VIDEO_WIDTH ELSE -1]

new_line_at(t, row) ==
  IF row <= Len(t.buffer) THEN insert_row(t, row)
  ELSE Repeat(LAMBDA u : insert_row(u, Len(u.buffer)), row - Len(t.buffer), t)

new_line(t) ==
  LET n == new_line_at(t, t.cur_row + 1) IN
  [n EXCEPT !.cur_row = @ + 1, !.cur_col = 0]

write_video_ch(t, row, col, ch) == [t EXCEPT !.video[row + 1][col + 1] = ch]

\* Fault seed: only the cursor's row is written to the screen.
DrawnAtCursor(t, row) == row = t.cur_row /\ row_visible(t, row)

Drawn(t, row) == row_visible(t, row)

\* A character goes to the scroll-back and, where that is visible, the screen.
put_cell(t, row, col, ch) ==
  LET b == [t EXCEPT !.buffer[row + 1][col + 1] = ch] IN
  IF Drawn(t, row) THEN write_video_ch(b, row - t.scr_row, col, ch) ELSE b

write_char(t, ch) ==
  IF ch = Newline THEN new_line(t)
  ELSE IF t.cur_row >= Len(t.buffer) THEN Fail(t, "index")
  ELSE LET w == [put_cell(t, t.cur_row, t.cur_col, ch) EXCEPT !.cur_col = @ + 1] IN
       IF w.cur_col >= VIDEO_WIDTH THEN new_line(w) ELSE w

\* at: the terminal and the position the next character goes to.  The text
\* that is redrawn never holds a newline.
write_char_at(at, ch) ==
  LET t == IF at.row >= Len(at.term.buffer) THEN new_line_at(at.term, at.row) ELSE at.term
  IN  IF at.row >= Len(t.buffer) THEN [at EXCEPT !.term = Fail(t, "index")]
      ELSE [term |-> put_cell(t, at.row, at.col, ch),
            row |-> IF at.col + 1 >= VIDEO_WIDTH THEN at.row + 1 ELSE at.row,
            col |-> IF at.col + 1 >= VIDEO_WIDTH THEN 0 ELSE at.col + 1]

write_string_at(t, row, col, s) ==
  IF row + col \div VIDEO_WIDTH > 3 * BUFFER_HEIGHT THEN Fail(t, "position")
  ELSE FoldLeft(write_char_at, [term |-> t, row |-> row + col \div VIDEO_WIDTH, col |-> col % VIDEO_WIDTH], s).term

redraw_input_from_cursor(t) ==
  write_string_at(t, t.cur_row, t.cur_col, SubSeq(t.input, t.input_idx + 1, Len(t.input)))

write_string(t, s) == update_cursor(scroll_to_cursor(FoldLeft(write_char, t, s)))

-----------------------------------------------------------------------------

\* Fault seed: what follows the cursor is not drawn again.
TailKept(t) == t

TailDrawn(t) == IF t.input_idx < Len(t.input) THEN redraw_input_from_cursor(t) ELSE t

put_char(t, ch, keep_last) ==
  LET end == INPUT_MAXSIZE - (IF keep_last THEN 2 ELSE 1)
      inserted == [t EXCEPT !.input = InsertAt(@, t.input_idx + 1, ch)]
  IN  IF t.input_idx > end THEN t
      ELSE IF Len(t.input) = INPUT_MAXSIZE THEN Fail(t, "insert")
      ELSE TailDrawn([write_char(inserted, ch) EXCEPT !.input_idx = @ + 1])

\* Fault seed: the blank that erases the last character stays in the line.
BlankLeft(t) == t

BlankPopped(t) == [t EXCEPT !.input = Front(@)]

delete_char(t) ==
  IF t.input_idx < Len(t.input)
  THEN BlankPopped(redraw_input_from_cursor([t EXCEPT !.input = Append(RemoveAt(@, t.input_idx + 1), Blank)]))
  ELSE t

input_move_forward(t) ==
  IF t.input_idx >= Len(t.input) THEN t
  ELSE [t EXCEPT !.input_idx = @ + 1,
                 !.cur_col = IF @ + 1 >= VIDEO_WIDTH THEN 0 ELSE @ + 1,
                 !.cur_row = IF t.cur_col + 1 >= VIDEO_WIDTH THEN @ + 1 ELSE @]

input_move_backward(t) ==
  IF t.input_idx <= t.input_begin THEN t
  ELSE LET back == [t EXCEPT !.input_idx = @ - 1] IN
       IF t.cur_col > 0 THEN [back EXCEPT !.cur_col = @ - 1]
       ELSE IF t.cur_row > 0
       THEN [back EXCEPT !.cur_col = VIDEO_WIDTH - 1, !.cur_row = @ - 1]
       ELSE back

backspace(t) ==
  IF t.input_idx > t.input_begin THEN delete_char(input_move_backward(t)) ELSE t

recover_history(t) ==
  LET start == Repeat(input_move_backward, t.input_idx - t.input_begin, t)
      cleared == Repeat(delete_char, Len(t.input) - t.input_begin, start)
  IN  IF Len(t.history) < INPUT_MAXSIZE - t.input_begin
      THEN FoldLeft(LAMBDA u, ch : put_char(u, ch, TRUE), cleared, t.history)
      ELSE t

complete_input(t) ==
  LET atEnd == Repeat(input_move_forward, Len(t.input) - t.input_idx, t)
      put == put_char(atEnd, Newline, FALSE)
  IN  [put EXCEPT !.input_status = "Waiting",
                  !.input_begin = Len(put.input), !.input_idx = Len(put.input)]

scroll_page(t, page) ==
  LET to == t.scr_row + page * SCREEN_HEIGHT IN
  scroll_to(t, IF to < 0 THEN 0 ELSE IF to >= Len(t.buffer) THEN Len(t.buffer) - 1 ELSE to)

\* What is written on the status line, the rest of which is cleared.
write_status_line(t, s) == [t EXCEPT !.status = s]

NoStatus == <<"">>

clear_cur_line_status(t) == write_status_line(t, NoStatus)

print_line_status(t) ==
  LET height == SCREEN_HEIGHT
      total == Len(t.buffer)
      reminder == t.scr_row % height
      total_page == (total - reminder + height - 1) \div height + (IF reminder > 0 THEN 1 ELSE 0)
  IN  write_status_line(t, <<"page", (t.scr_row + height - 1) \div height + 1, total_page, t.scr_row + 1, total>>)

print_cursor_status(t) ==
  write_status_line(t, <<"row", t.cur_row + 1, Len(t.buffer), t.cur_col + 1>>)

\* What the arms of process_input do after the edit.
Edited(t) == update_cursor(scroll_to_cursor(print_cursor_status(t)))

process_input(t, key) ==
  IF key = "pageup" THEN print_line_status(scroll_page(t, -1))
  ELSE IF key = "pagedown" THEN print_line_status(scroll_page(t, 1))
  ELSE IF t.input_status # "Inputting" THEN t
  ELSE IF key = "enter"
  THEN update_cursor(scroll_to_cursor(clear_cur_line_status(complete_input(t))))
  ELSE Edited(CASE key = "delete" -> delete_char(t)
                [] key = "backspace" -> backspace(t)
                [] key = "left" -> input_move_backward(t)
                [] key = "right" -> input_move_forward(t)
                [] key = "up" -> recover_history(t)
                [] OTHER -> put_char(t, key, TRUE))

\* getline when a line is complete, for a buffer of INPUT_MAXSIZE bytes.
LineSize(t) ==
  IF Contains(t.input, Newline) THEN SelectInSeq(t.input, LAMBDA c : c = Newline) - 1
  ELSE t.input_begin

getline(t) ==
  LET size == LineSize(t)
      taken == IF size < t.input_begin THEN size + 1 ELSE size
  IN  [t EXCEPT !.history = SubSeq(t.input, 1, size),
                !.input = SubSeq(t.input, taken + 1, Len(t.input)),
                !.input_begin = @ - taken,
                !.input_idx = @ - taken]

-----------------------------------------------------------------------------

\* push_force of the empty row; the screen is not redrawn if it need not scroll.
clear(t) ==
  LET pushed == insert_force(t.buffer, Len(t.buffer))
      last == Len(pushed) - 1
  IN  update_cursor(scroll_to_cursor(
        [t EXCEPT !.buffer = pushed, !.cur_col = 0, !.cur_row = last, !.scr_row = last]))

init_term(t) == clear(clear_cur_line_status(t))

set_status_lines(t) == redraw_screen(clear_cur_line_status(t))

\* The static TERM, over a screen start-up filled with blanks.
TERM ==
  [cur_col |-> 0, cur_row |-> 0, scr_row |-> 0,
   input_begin |-> 0, input_idx |-> 0, input_status |-> "Waiting",
   input |-> <<>>, history |-> <<>>, buffer |-> <<>>,
   video |-> [r \in 1 .. SCREEN_HEIGHT |-> [c \in 1 .. VIDEO_WIDTH |-> Blank]],
   status |-> NoStatus, hw |-> 0, origin |-> -1, failed |-> "none"]

Init ==
  /\ term = set_status_lines(init_term(TERM))
  /\ shell = "command"
  /\ line = <<>>

\* A call ends with terminal t, or with a panic that leaves nothing running.
Becomes(t) ==
  term' = IF t.failed = "none" THEN t ELSE Fail(term, t.failed)

\* Start-up and commands print whole lines; println! writes the newline as a
\* string of its own.
PrintLine ==
  /\ shell = "command"
  /\ Becomes(write_string(write_string(term, <<PromptChar>>), <<Newline>>))
  /\ UNCHANGED <<shell, line>>

start_inputting(t) ==
  [t EXCEPT !.input_status = "Inputting", !.origin = t.cur_row * VIDEO_WIDTH + t.cur_col]

Prompt ==
  /\ shell = "command"
  /\ Becomes(start_inputting(write_string(term, <<PromptChar>>)))
  /\ shell' = "key"
  /\ UNCHANGED line

KeyPressed(key) ==
  /\ shell = "key"
  /\ Becomes(process_input(term, key))
  /\ shell' = "getline"
  /\ UNCHANGED line

Getline ==
  /\ shell = "getline"
  /\ IF term.input_begin = 0
     THEN shell' = "key" /\ UNCHANGED <<term, line>>
     ELSE /\ term' = getline(term)
          /\ line' = term'.history
          /\ shell' = "command"

Key == {"enter", "delete", "backspace", "left", "right", "up", "pageup", "pagedown"} \cup Char

Next ==
  /\ term.failed = "none"
  /\ \/ PrintLine
     \/ Prompt
     \/ \E key \in Key : KeyPressed(key)
     \/ Getline

Spec == Init /\ [][Next]_vars

-----------------------------------------------------------------------------

\* The cursor is in a column of the screen, input_begin <= input_idx <=
\* input.len(), and the input stays within its ArrayVec.  The first row on the
\* screen is one of the buffer: print_line_status and scroll_page subtract it.
TypeOK ==
  /\ term.cur_col \in 0 .. VIDEO_WIDTH - 1
  /\ term.cur_row \in 0 .. BUFFER_HEIGHT + 1
  /\ term.input_begin \in 0 .. term.input_idx
  /\ term.input_idx \in 0 .. Len(term.input)
  /\ term.input_status \in {"Inputting", "Waiting"}
  /\ Len(term.input) <= INPUT_MAXSIZE /\ Len(term.history) <= INPUT_MAXSIZE
  /\ Len(term.buffer) \in 1 .. BUFFER_HEIGHT
  /\ term.origin \in -1 .. (BUFFER_HEIGHT + 1) * VIDEO_WIDTH
  /\ term.failed \in {"none", "index", "insert", "position"}
  /\ shell \in {"command", "key", "getline"}
  /\ term.scr_row \in 0 .. Len(term.buffer) - 1

Running == term.failed = "none"

\* The line as it is edited: the newline complete_input adds is not of it.
Text == SelectSeq(term.input, LAMBDA c : c # Newline)

Editor == INSTANCE LineEditor WITH
  text <- Text,
  pos <- IF term.input_idx > Len(Text) THEN Len(Text) ELSE term.input_idx,
  editing <- term.input_status = "Inputting"

\* Whatever is typed, deleted, recalled and completed, at whatever position,
\* getline returns the line a simple editor would hold.
ImplementsEditor == Editor!Spec

\* While a line is edited and its start has not left the scroll-back, the
\* cursor is as many cells after the prompt as input_idx says, over row ends
\* and rows that scrolled away.
CursorTracksInput ==
  TypeOK /\ (Running /\ term.input_status = "Inputting" /\ term.origin >= 0
    => term.cur_row * VIDEO_WIDTH + term.cur_col = term.origin + term.input_idx)

CellAt(n) == term.buffer[(n \div VIDEO_WIDTH) + 1][(n % VIDEO_WIDTH) + 1]

\* What the scroll-back shows after the prompt is the line getline will return.
EchoMatchesInput ==
  Running /\ term.input_status = "Inputting" /\ term.origin >= 0
    => \A i \in 1 .. Len(term.input) : CellAt(term.origin + i - 1) = term.input[i]

\* What the screen shows of the line is the line, whichever part of it the
\* keys scrolled to: write_char and write_char_at draw every visible cell they
\* store, and what moves the rows under the screen redraws it.  The exception
\* is a full scroll-back whose first row is on the screen: insert_force then
\* shifts rows the screen goes on showing in their old places.
EchoShown ==
  Running /\ term.input_status = "Inputting" /\ term.origin >= 0
          /\ (term.scr_row > 0 \/ Len(term.buffer) < BUFFER_HEIGHT)
    => \A i \in 1 .. Len(term.input) :
         LET n == term.origin + i - 1
             row == n \div VIDEO_WIDTH
         IN  row_visible(term, row) => term.video[row - term.scr_row + 1][(n % VIDEO_WIDTH) + 1] = term.input[i]

\* Between two calls the hardware cursor is on the cell the next character
\* goes to, off the screen when that cell is not shown, and the numbers on the
\* status line are those of the terminal it is shown with.  A key that edits,
\* which puts the cursor's row there, leaves the cursor on the screen, wherever
\* the screen had been scrolled to.
DisplayFollows ==
  Running =>
    /\ term.hw = IF row_visible(term, term.cur_row)
                 THEN (term.cur_row - term.scr_row) * VIDEO_WIDTH + term.cur_col ELSE Hidden
    /\ term.status \in {NoStatus, print_cursor_status(term).status, print_line_status(term).status}
    /\ term.status[1] = "row" => row_visible(term, term.cur_row)

\* No row is indexed that the scroll-back does not have.
RowsInBounds == term.failed # "index"

=============================================================================
