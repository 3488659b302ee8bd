---------------------------- MODULE EntryEditor ----------------------------
(***************************************************************************)
(* The boot entry editor (config_entry_editor of menu.c): the text, the    *)
(* cursor, the window of rows, and the map from screen cells to offsets    *)
(* that the mouse uses.  Offsets count from 0; the text's end is an offset *)
(* too.  Every key is followed by the redraw, which places the window.     *)
(***************************************************************************)
EXTENDS Naturals, Sequences, FiniteSets, SequencesExt

CONSTANTS EDITOR_MAX_BUFFER_SIZE,
          line_size, window_size,   \* columns and rows of the text window
          TabStop,                  \* 8
          Letters                   \* printable characters

VARIABLES buffer, cursor_offset, window_row

editorVars == <<buffer, cursor_offset, window_row>>

ByteAt(s, i) == IF i < Len(s) THEN s[i + 1] ELSE "nul"

---------------------------------------------------------------------------
(* Lines.                                                                  *)

get_line_offset(s, index) ==
    LET ends == {i \in 0 .. Len(s) : i < index /\ ByteAt(s, i) = "nl"}
    IN IF ends = {} THEN 0 ELSE Max(ends) + 1
get_line_length(s, index) ==
    Min({i \in index .. Len(s) : ByteAt(s, i) \in {"nl", "nul"}}) - index
get_next_line(s, index) ==
    LET here == index + get_line_length(s, index)
        disp == index - get_line_offset(s, index)
    IN IF ByteAt(s, here) = "nul" THEN here
       ELSE here + 1 + Min({disp, get_line_length(s, here + 1)})
get_prev_line(s, index) ==
    LET offset == get_line_offset(s, index)
        above  == get_line_offset(s, offset - 1)
    IN IF offset = 0 THEN 0
       ELSE above + Min({index - offset, get_line_length(s, above)})

---------------------------------------------------------------------------
(* The redraw walk: the row each offset starts on, and the cells it fills.   *)

(* `n' cells of offset i from row r and line offset o.                       *)
RECURSIVE Fill(_, _)
Fill(n, at) ==
    IF n = 0 THEN at
    ELSE Fill(n - 1,
              [at EXCEPT !.cells = @ \cup {<<at.row, at.o % line_size, at.i>>}, !.o = @ + 1,
                         !.row = IF at.o % line_size = line_size - 1 THEN @ + 1 ELSE @])

RECURSIVE Drawn(_, _)
Drawn(s, at) ==
    LET c   == ByteAt(s, at.i)
        on  == [at EXCEPT !.starts = Append(@, at.row)]
        one == [on EXCEPT !.cells = @ \cup {<<at.row, at.o % line_size, at.i>>}]
    IN CASE c = "nul" -> one
         [] c = "nl"  -> Drawn(s, [one EXCEPT !.i = @ + 1, !.row = @ + 1, !.o = 0])
         [] OTHER ->
              LET full == Fill(IF c = "tab" THEN TabStop - (at.o % TabStop) ELSE 1, on)
              IN Drawn(s, [full EXCEPT !.i = @ + 1])
Walked(s) == Drawn(s, [i |-> 0, row |-> 0, o |-> 0, cells |-> {}, starts |-> <<>>])
RowOf(s, i) == Walked(s).starts[i + 1]

(* A window that lets the cursor onto the row below it.                      *)
AnchorOneBelow(s, cursor, window) ==
    LET row == RowOf(s, cursor)
    IN IF row > window + window_size THEN row - window_size + 1
       ELSE IF row < window THEN row ELSE window

(* refresh: keep the window where it is if the cursor is in it.              *)
Anchor(s, cursor, window) ==
    LET row == RowOf(s, cursor)
    IN IF row >= window + window_size THEN row - window_size + 1
       ELSE IF row < window THEN row ELSE window

Redraw(s, cursor) ==
    /\ buffer' = s /\ cursor_offset' = cursor
    /\ window_row' = Anchor(s, cursor, window_row)

NoCell == EDITOR_MAX_BUFFER_SIZE
(* Scanning left from column x of row y of the window.                       *)
editor_cell_to_offset(x, y) ==
    LET row == {c \in Walked(buffer).cells : c[1] = window_row + y /\ c[2] <= x}
    IN IF row = {} THEN NoCell ELSE (CHOOSE c \in row : \A d \in row : d[2] <= c[2])[3]

---------------------------------------------------------------------------
(* The keys.                                                               *)

Down == Redraw(buffer, get_next_line(buffer, cursor_offset))
Up == Redraw(buffer, get_prev_line(buffer, cursor_offset))
Left == Redraw(buffer, IF cursor_offset = 0 THEN 0 ELSE cursor_offset - 1)
Right == Redraw(buffer, IF cursor_offset < Len(buffer) THEN cursor_offset + 1 ELSE cursor_offset)
Home == Redraw(buffer, get_line_offset(buffer, cursor_offset))
LineEndKey == Redraw(buffer, cursor_offset + get_line_length(buffer, cursor_offset))

Without(i) == SubSeq(buffer, 1, i) \o SubSeq(buffer, i + 2, Len(buffer))
Backspace == /\ cursor_offset > 0
             /\ Redraw(Without(cursor_offset - 1), cursor_offset - 1)
Delete == /\ cursor_offset < Len(buffer)
          /\ Redraw(Without(cursor_offset), cursor_offset)

Type ==
    /\ Len(buffer) < EDITOR_MAX_BUFFER_SIZE - 1
    /\ \E c \in Letters \cup {"nl", "tab"} :
        Redraw(InsertAt(buffer, cursor_offset + 1, c), cursor_offset + 1)

ClickCell ==
    \E x \in 0 .. line_size - 1, y \in 0 .. window_size - 1 :
        /\ editor_cell_to_offset(x, y) # NoCell
        /\ Redraw(buffer, editor_cell_to_offset(x, y))

EditorInit == buffer = <<>> /\ cursor_offset = 0 /\ window_row = 0
EditorNext == \/ Down \/ Up \/ Left \/ Right \/ Home \/ LineEndKey
              \/ Backspace \/ Delete \/ Type \/ ClickCell

---------------------------------------------------------------------------
(* Properties.                                                             *)

EditorTypeOK ==
    /\ Len(buffer) < EDITOR_MAX_BUFFER_SIZE
    /\ cursor_offset \in 0 .. Len(buffer)

(* After every key the cursor's row is in the window, so that the second     *)
(* pass of the redraw is the last, as its comment says; and a click on any   *)
(* cell of a row goes to the character drawn there, one right of the text to *)
(* the end of that row's text.                                               *)
CursorShown ==
    LET row == RowOf(buffer, cursor_offset)
        walk == Walked(buffer)
    IN /\ window_row <= row /\ row < window_row + window_size
       /\ Anchor(buffer, cursor_offset, window_row) = window_row
       /\ \A c \in walk.cells : c[1] \in window_row .. window_row + window_size - 1 =>
            editor_cell_to_offset(c[2], c[1] - window_row) = c[3]
       /\ \A i \in 0 .. Len(buffer) :
            /\ ByteAt(buffer, i) \in {"nl", "nul"}
            /\ RowOf(buffer, i) \in window_row .. window_row + window_size - 1
            => editor_cell_to_offset(line_size - 1, RowOf(buffer, i) - window_row) = i

(* A cell shows one character, and the rows of a text follow one another.    *)
CellsRight ==
    LET walk == Walked(buffer)
    IN /\ \A c \in walk.cells, d \in walk.cells : c[1] = d[1] /\ c[2] = d[2] => c = d
       /\ \A i \in 1 .. Len(buffer) : walk.starts[i] <= walk.starts[i + 1]

(* Up and Down go to the neighbouring line and keep the column as far as     *)
(* that line reaches; on the first and the last line they go to its start    *)
(* and to its end.                                                           *)
LineNo(s, i) == Cardinality({j \in 1 .. i : s[j] = "nl"})
Column(s, i) == Cardinality({j \in 1 .. i : \A k \in j .. i : s[k] # "nl"})
LengthOf(s, n) == Cardinality({j \in 1 .. Len(s) : s[j] # "nl" /\ LineNo(s, j) = n})
MovesByLine ==
    \A i \in 0 .. Len(buffer) :
        LET n == LineNo(buffer, i)
            all == LineNo(buffer, Len(buffer))
            down == get_next_line(buffer, i)
            up == get_prev_line(buffer, i)
        IN /\ LineNo(buffer, down) = IF n = all THEN all ELSE n + 1
           /\ Column(buffer, down) = IF n = all THEN LengthOf(buffer, n)
                                     ELSE Min({Column(buffer, i), LengthOf(buffer, n + 1)})
           /\ LineNo(buffer, up) = IF n = 0 THEN 0 ELSE n - 1
           /\ Column(buffer, up) = IF n = 0 THEN 0
                                   ELSE Min({Column(buffer, i), LengthOf(buffer, n - 1)})
=============================================================================
