------------------------------ MODULE VgaBuffer ------------------------------
(***************************************************************************)
(* dev/vga_buffer.rs: the Writer, which prints on the last row of the      *)
(* screen and scrolls the rows above it.  A writer is a record: `chars`    *)
(* [row][column], `column` and `row` (column_position and row_position);   *)
(* rows and columns count from 0.  Colours are left out.                   *)
(*                                                                         *)
(* write_byte's branches for the bytes 0x08 and 0x7f are never taken:      *)
(* write_string, its only caller, replaces these bytes.                    *)
(***************************************************************************)
EXTENDS Integers, Sequences

CONSTANTS
  BUFFER_WIDTH, BUFFER_HEIGHT,
  Printable  \* the printable ASCII characters in use, the blank among them

Blank == " "

ASSUME BufferAssumption ==
  /\ BUFFER_WIDTH \in Nat \ {0} /\ BUFFER_HEIGHT \in Nat \ {0}
  /\ Printable \subseteq STRING /\ Blank \in Printable /\ "newline" \notin Printable

Columns == 0 .. BUFFER_WIDTH - 1
Rows == 0 .. BUFFER_HEIGHT - 1
LastRow == BUFFER_HEIGHT - 1

Square == "fe"     \* 0xfe, shown for every byte that cannot be
LeftOver == "old"  \* what the boot loader left on the screen
Chars == Printable \cup {Square, LeftOver}

\* WRITER, before anything is printed.
WRITER == [chars |-> [r \in Rows |-> [c \in Columns |-> LeftOver]], column |-> 0, row |-> LastRow]

clear_row(w, r) == [w EXCEPT !.chars[r] = [c \in Columns |-> Blank]]

\* Mutant: the last row keeps its text.
new_line_dirty(w) ==
  [w EXCEPT !.chars = [r \in Rows |-> IF r = LastRow THEN w.chars[r] ELSE w.chars[r + 1]],
            !.column = 0]

\* Every row moves up by one.
new_line(w) ==
  LET scrolled == [w EXCEPT !.chars = [r \in Rows |-> IF r = LastRow THEN w.chars[r]
                                                      ELSE w.chars[r + 1]]]
  IN  [clear_row(scrolled, LastRow) EXCEPT !.column = 0]

\* A full row is left when the next character comes, not before.
write_byte(w, byte) ==
  IF byte = "newline" THEN new_line(w)
  ELSE LET v == IF w.column >= BUFFER_WIDTH THEN new_line(w) ELSE w
       IN  [v EXCEPT !.chars[LastRow][v.column] = byte, !.column = v.column + 1]

\* The byte write_string writes for a byte of the string.
shown(byte) == IF byte \in Printable \cup {"newline"} THEN byte ELSE Square

\* The screens while string s is written.
written(w, s) ==
  LET screen[n \in 0 .. Len(s)] ==
        IF n = 0 THEN w ELSE write_byte(screen[n - 1], shown(s[n]))
  IN  screen
write_string(w, s) == written(w, s)[Len(s)]

\* Mutant: the row is compared with the number of columns.
in_bounds_square(column, row) == row < BUFFER_WIDTH /\ column < BUFFER_WIDTH

\* set_position panics outside the screen, as write_char_at does.
in_bounds(column, row) == row < BUFFER_HEIGHT /\ column < BUFFER_WIDTH
set_position(w, column, row) == [w EXCEPT !.column = column, !.row = row]
get_position(w) == <<w.column, w.row>>

read_char(w, x, y) == w.chars[y][x]
write_char_at(w, x, y, c) == [w EXCEPT !.chars[y][x] = c]

-----------------------------------------------------------------------------
\* Reference: the lines a terminal breaks a text into.
typeset(lines, byte) ==
  LET n == Len(lines)
  IN  IF byte = "newline" THEN Append(lines, <<>>)
      ELSE IF Len(lines[n]) = BUFFER_WIDTH THEN Append(lines, <<shown(byte)>>)
      ELSE [lines EXCEPT ![n] = Append(@, shown(byte))]
broken(text) ==
  LET lines[n \in 0 .. Len(text)] ==
        IF n = 0 THEN << <<>> >> ELSE typeset(lines[n - 1], text[n])
  IN  lines
Lines(text) == broken(text)[Len(text)]

\* Reference: row r of a screen with the text's last line at the bottom.  What
\* the boot loader left scrolls away like everything else.
RowOf(lines, r) ==
  LET n == Len(lines) - (LastRow - r)
  IN  [c \in Columns |->
         IF n < 1 THEN LeftOver
         ELSE IF c < Len(lines[n]) THEN lines[n][c + 1]
         ELSE IF n = 1 THEN LeftOver ELSE Blank]
=============================================================================
