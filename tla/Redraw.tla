------------------------------- MODULE Redraw -------------------------------
(***************************************************************************)
(* A session's screen written for a terminal that shows nothing of it yet  *)
(* (terminal/redraw.rs), and what the program writes from there on: the    *)
(* parser's screen and the terminal are kept side by side.                 *)
(*                                                                         *)
(* A glyph is "narrow" or "wide" (then "half" is in the next cell), of a   *)
(* width every terminal agrees on; "odd", one cell to the parser, one or   *)
(* two to the terminal; or "joins", which a terminal adds to the glyph     *)
(* printed just before it.  Pens, links, modes and the title are left out, *)
(* and of what a program may do to its rows all but printing, moving and   *)
(* erasing a part of the cursor's.                                         *)
(***************************************************************************)
EXTENDS Naturals, Sequences, SequencesExt

CONSTANTS Glyphs,           \* the glyphs the program writes
          Rows, Cols,       \* the screen's size
          History,          \* how many rows that scrolled off are painted (ATTACH_HISTORY)
          MaxWrites         \* bound of the instance: what the program writes

VARIABLES
    screen,   \* the parser's: all lines, the screen's the last; the cursor; whether it waits to wrap
    terminal, \* the client's terminal, from its attach on
    width,    \* of an odd glyph on the client's terminal; 0, not attached yet
    writes,   \* how much the program wrote
    known     \* history: whether the attach met a limit ShowsTheScreen names: "yes", none; "but history"; "no"

redrawVars == <<screen, terminal, width, writes, known>>

Blank == [cells |-> [c \in 1..Cols |-> "blank"], wrapped |-> FALSE]
Fresh == [lines |-> [r \in 1..Rows |-> Blank], row |-> 1, col |-> 1, waits |-> FALSE, before |-> FALSE]

RedrawInit == screen = Fresh /\ terminal = Fresh /\ width = 0 /\ writes = 0 /\ known = "yes"

(***************************************************************************)
(* A terminal, the parser's or the client's.                               *)
(***************************************************************************)
Line(t) == Len(t.lines) - Rows + t.row
Down(t) == IF t.row < Rows THEN [t EXCEPT !.row = @ + 1] ELSE [t EXCEPT !.lines = Append(@, Blank)]
Cup(t, row, col) == [t EXCEPT !.row = row, !.col = col, !.waits = FALSE, !.before = FALSE]
CrLf(t) == [Down(t) EXCEPT !.col = 1, !.waits = FALSE, !.before = FALSE]
Wrap(t) == [Down([t EXCEPT !.lines[Line(t)].wrapped = TRUE]) EXCEPT !.col = 1, !.waits = FALSE]

\* A cell written, the other half of a wide glyph there gone.
Over(cells, at, glyph) ==
    [c \in 1..Cols |-> IF c = at THEN glyph
                       ELSE IF c = at + 1 /\ cells[c] = "half" /\ glyph # "wide" THEN "blank"
                       ELSE IF c = at - 1 /\ cells[at] = "half" /\ glyph # "half" THEN "blank"
                       ELSE cells[c]]
Wide(glyph, odd) == glyph = "wide" \/ (glyph = "odd" /\ odd = 2)
Put(t, glyph, odd) ==
    LET size == IF Wide(glyph, odd) THEN 2 ELSE 1
        at == IF t.waits \/ t.col + size > Cols + 1 THEN Wrap(t) ELSE t
        one == [at EXCEPT !.lines[Line(at)].cells = Over(@, at.col, glyph)]
        all == IF size = 1 THEN one ELSE [one EXCEPT !.lines[Line(at)].cells = Over(@, at.col + 1, "half")]
    IN  IF glyph = "joins" /\ t.before THEN t
        ELSE [all EXCEPT !.col = IF at.col + size > Cols THEN Cols ELSE at.col + size,
                         !.waits = at.col + size > Cols, !.before = glyph # "blank"]

\* A row erased from the cursor on, or up to it: a wide glyph goes with either half, a soft wrap with
\* the last cell, and the row before keeps its own.  The cursor stays, and may still wait to wrap.
Erased(cells, from, to) ==
    [c \in 1..Cols |-> IF \/ c \in from..to
                          \/ c = from - 1 /\ cells[from] = "half"
                          \/ c = to + 1 /\ to < Cols /\ cells[c] = "half"
                       THEN "blank" ELSE cells[c]]
Erase(t, from, to, stays) ==
    [t EXCEPT !.lines[Line(t)] = [cells |-> Erased(@.cells, from, to), wrapped |-> @.wrapped /\ to < Cols],
              !.waits = @ /\ stays,
              !.before = @ /\ from = t.col /\ ~t.waits]

(***************************************************************************)
(* Painter::row and redraw.                                                *)
(***************************************************************************)
Certain(glyph) == glyph # "odd"
Painted(row) ==
    IF row.wrapped THEN Cols
    ELSE CHOOSE n \in 0..Cols : /\ n = 0 \/ row.cells[n] # "blank"
                                /\ \A c \in n + 1 .. Cols : row.cells[c] = "blank"

\* A cell: where the cursor may not be where it would be, or the glyph would join, a move first.
Moves(row, n) ==
    LET b == IF n > 2 /\ row.cells[n - 1] = "half" THEN n - 2 ELSE n - 1 IN
    /\ n > 1
    /\ row.cells[b] \notin {"blank"} /\ (~Certain(row.cells[b]) \/ row.cells[n] = "joins")
Cell(t, row, n, at, odd) ==
    IF row.cells[n] = "half" THEN t
    ELSE Put(IF Moves(row, n) /\ at > 0 THEN Cup(t, at, n) ELSE t, row.cells[n], odd)
Row(t, row, at, odd) ==
    FoldLeft(LAMBDA u, n : Cell(u, row, n, at, odd), t, [n \in 1..Painted(row) |-> n])

From == LET h == Len(screen.lines) - Rows IN IF h > History THEN h - History + 1 ELSE 1
\* The row's place, for moves: only the screen's rows have one.
OnScreen(n) == IF n > Len(screen.lines) - Rows THEN n - (Len(screen.lines) - Rows) ELSE 0
Breaks_AtWraps(row) == TRUE
\* A soft wrap that filled its row wraps on its own, and the terminal keeps it soft.
Breaks(row) == ~row.wrapped
PaintLine(t, n, odd) ==
    LET u == Row(t, screen.lines[n], OnScreen(n), odd) IN
    IF n < Len(screen.lines) /\ Breaks(screen.lines[n]) THEN CrLf(u) ELSE u

CursorCell == screen.lines[Line(screen)].cells[screen.col]
\* The cursor, waiting to wrap if it was: the glyph before it printed again leaves it so.
Again == screen.waits /\ CursorCell \notin {"blank", "half", "odd"}
Redrawn(odd) ==
    LET painted == FoldLeft(LAMBDA t, n : PaintLine(t, n, odd), Fresh,
                            [n \in 1 .. Len(screen.lines) - From + 1 |-> From + n - 1])
        put == Cup(painted, screen.row, screen.col)
    IN  IF Again THEN Put(put, CursorCell, odd) ELSE put

LastRows(t) == SubSeq(t.lines, Len(t.lines) - Rows + 1, Len(t.lines))
Has(lines, glyphs) == \E r \in DOMAIN lines, c \in 1..Cols : lines[r].cells[c] \in glyphs

(***************************************************************************)
(* Actions.                                                                *)
(***************************************************************************)
Both(op(_)) ==
    /\ writes < MaxWrites /\ width # 2
    /\ screen' = op(screen)
    /\ terminal' = IF width = 0 THEN terminal ELSE op(terminal)
    /\ writes' = writes + 1 /\ UNCHANGED <<width, known>>

\* One that joins is written where none is before it: joined, it is its cell's, not a glyph.
Prints(glyph) == (glyph = "joins" => ~screen.before) /\ Both(LAMBDA t : Put(t, glyph, 1))
Feeds == Both(CrLf)
MovesTo(row, col) == Both(LAMBDA t : Cup(t, row, col))
ErasesAfter(stays) == Both(LAMBDA t : Erase(t, t.col, Cols, stays))
ErasesBefore(stays) == Both(LAMBDA t : Erase(t, 1, t.col, stays))
\* A soft wrap into a row of which nothing is left: it paints nothing, so the wrap never comes, and
\* what goes below is a row too high.
Hollow(lines) == \E n \in 2 .. Len(lines) : lines[n - 1].wrapped /\ Painted(lines[n]) = 0
Split(lines) == \E n \in 2 .. Len(lines) : lines[n].cells[1] = "joins" /\ lines[n - 1].wrapped
Known ==
    IF \/ Split(screen.lines) \/ Hollow(screen.lines)
       \/ screen.waits /\ CursorCell \in {"blank", "half", "odd"} THEN "no"
    ELSE IF From < Len(screen.lines) - Rows + 1 /\ Has(screen.lines, {"odd", "joins"}) THEN "but history"
    ELSE "yes"
Attach(odd) ==
    /\ width = 0 /\ width' = odd
    /\ known' = Known
    /\ terminal' = Redrawn(odd)
    /\ UNCHANGED <<screen, writes>>

RedrawNext ==
    \/ \E glyph \in Glyphs : Prints(glyph)
    \/ Feeds
    \/ \E row \in 1..Rows, col \in 1..Cols : MovesTo(row, col)
    \/ \E stays \in BOOLEAN : ErasesAfter(stays) \/ ErasesBefore(stays)
    \/ \E odd \in {1, 2} : Attach(odd)

RedrawSpec == RedrawInit /\ [][RedrawNext]_redrawVars

(***************************************************************************)
(* Properties.                                                             *)
(***************************************************************************)
\* Where the terminal takes every glyph as the parser does, it shows the parser's screen, its soft
\* wraps, and the cursor waiting to wrap if it did, at the attach and after what the program prints
\* and erases from there (redraw): unless rows that scrolled off are painted and a glyph's place has
\* to be said, the cursor waits behind a wide glyph, an odd one or an erased one, which is not printed
\* again, a glyph that joins begins the row a soft wrap goes on in (row looks back to its own first
\* cell only), or nothing is left of a row a soft wrap went on in.
ShowsTheScreen ==
    width = 1 /\ known = "yes" =>
        /\ LastRows(terminal) = LastRows(screen)
        /\ <<terminal.row, terminal.col, terminal.waits>> = <<screen.row, screen.col, screen.waits>>

\* Where the terminal takes some glyphs as wider, every other glyph is still in its own cell and the
\* cursor where it is (certain, row): unless such a glyph ends a row, history is painted before, or
\* a soft wrap goes on in a row that begins with a glyph that joins or of which nothing is left.
OthersStayPut ==
    width = 2 /\ From = Len(screen.lines) - Rows + 1 /\ ~Split(screen.lines) /\ ~Hollow(screen.lines)
      /\ ~(\E r \in 1..Rows : screen.lines[r].cells[Cols] = "odd") =>
        /\ \A r \in 1..Rows, c \in 1..Cols :
             screen.lines[r].cells[c] \in {"narrow", "wide"} => terminal.lines[r].cells[c] = screen.lines[r].cells[c]
        /\ <<terminal.row, terminal.col>> = <<screen.row, screen.col>>

\* What the module's doc says of all it paints ("the primary screen (with as much history before it
\* as asked)"): a fresh terminal shows every row of the screen, with history painted too.
ShowsWithHistory ==
    width = 1 /\ known # "no" => LastRows(terminal) = LastRows(screen)
=============================================================================
