------------------------------- MODULE Console -------------------------------
(***************************************************************************)
(* The framebuffer console of tty.c as a grid of character cells: a cell   *)
(* is 8 by 16 pixels, so cursor_position.x is 8 * x and cursor_position.y  *)
(* is 16 * y.  print and print_n run with interrupts off, so a string is   *)
(* printed in one step.                                                    *)
(***************************************************************************)
EXTENDS Integers, SequencesExt

CONSTANTS
    Cols,   \* width / 8
    Rows    \* height / 16

ASSUME ScreenAssumption == Cols \in Nat \ {0} /\ Rows \in Nat \ {0}

Blank == "SP"

(* Cells are numbered in reading order. *)
CellAt(x, y) == y * Cols + x

(* init_renderer and the clear() of init_display. *)
CleanConsole == [x |-> 0, y |-> 0, cell |-> [i \in 0 .. Cols * Rows - 1 |-> Blank]]

put_char(con, c) == [con EXCEPT !.cell[CellAt(con.x, con.y)] = c]

scroll_up(con) ==
    [con EXCEPT !.cell = [i \in DOMAIN con.cell |->
        IF i + Cols \in DOMAIN con.cell THEN con.cell[i + Cols] ELSE Blank]]

(* Mutant: a backspace stops at the left edge. *)
MoveCursor_in_row(con, c) ==
    CASE c = "NL" -> [con EXCEPT !.x = 0, !.y = @ + 1]
      [] c = "TAB" -> [con EXCEPT !.x = @ + 1]
      [] c = "BS" -> IF con.x > 0 THEN [con EXCEPT !.x = @ - 1] ELSE con
      [] OTHER    -> [put_char(con, c) EXCEPT !.x = @ + 1]

(* The switch of print_char_locked. *)
MoveCursor(con, c) ==
    CASE c = "NL" -> [con EXCEPT !.x = 0, !.y = @ + 1]
      [] c = "TAB" -> [con EXCEPT !.x = @ + 1]
      [] c = "BS" -> IF con.x > 0 THEN [con EXCEPT !.x = @ - 1]
                     ELSE IF con.y > 0 THEN [con EXCEPT !.y = @ - 1, !.x = Cols - 1]
                     ELSE con
      [] OTHER    -> [put_char(con, c) EXCEPT !.x = @ + 1]

WrapLine(con) == IF con.x + 1 > Cols THEN [con EXCEPT !.x = 0, !.y = @ + 1] ELSE con

WrapScreen(con) == IF con.y + 1 > Rows THEN [scroll_up(con) EXCEPT !.y = @ - 1] ELSE con

print_char_locked(con, c) == WrapScreen(WrapLine(MoveCursor(con, c)))

print(con, str) == FoldLeft(print_char_locked, con, str)
=============================================================================
