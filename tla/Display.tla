------------------------------- MODULE Display -------------------------------
(***************************************************************************)
(* What koh connect writes to the user's terminal (client/display.rs): the *)
(* program's output, filtered, the shell's marks and the state reports,    *)
(* and an overlay over it all, painted and taken back: the predicted       *)
(* echo and the status line.  The mirror is the client's own terminal, fed *)
(* what the user's is fed.                                                 *)
(*                                                                         *)
(* A screen is what each of a few cells holds; the predictions are a set   *)
(* of cells the predictor (module Predict) changes as it likes; the        *)
(* program sets one mode that the terminal must be rid of at the end.      *)
(* Until the first redraw, and from a leave (a suspend's) to the next, the *)
(* terminal is the user's shell's: it holds what that wrote, and what koh  *)
(* writes meanwhile falls where that left the cursor.                      *)
(***************************************************************************)
CONSTANTS
    Cells, StatusRow,    \* the screen's cells, and those of its last row
    Texts, Bare         \* what the program may write in a cell; nothing

VARIABLES
    \* the user's terminal: its cells, the program's mode, the activity it was told
    term, set, said,
    \* the mirror, whether an overlay may be painted on it, and its mode
    mirror, plain, mirrorSet,
    \* the display: the overlay painted, what is guessed, the status line, the last report, whether
    \* the filter is between sequences, and whether the terminal is the program's
    painted, guesses, status, report, between, entered,
    \* history: cells that may hold an overlay forgotten at a resize; output written while not
    \* entered
    stray, outside

displayVars == <<term, set, said, mirror, plain, mirrorSet, painted, guesses, status, report,
                 between, entered, stray, outside>>

None == "none"
Guess == "guess"
Status == "status"
Activities == {"busy"}  \* bound: those reported, of which the terminal knows the last or not
Marked == "marked"      \* said: the user's shell wrote marks since, which the terminal forgets it at
Theirs == "theirs"      \* in a cell: not known, what the user's shell wrote or what was moved there
NoPaint == [cells |-> {}, status |-> FALSE]
Screen(text) == [c \in Cells |-> text]

DisplayInit ==
    /\ term = Screen(Theirs) /\ set = FALSE /\ said = None
    /\ mirror = Screen(Bare) /\ plain = TRUE /\ mirrorSet = FALSE
    /\ painted = NoPaint /\ guesses = {} /\ status = FALSE /\ report = None
    /\ between = TRUE /\ entered = FALSE /\ stray = {} /\ outside = FALSE

\* What the proofs assume of the constants: nothing written is taken for an overlay.
DisplayAssumption == {Guess, Status} \cap (Texts \cup {Bare}) = {}

\* The terminal once others wrote on it, and a line feed at its bottom moved every row: of no cell
\* is it known what it holds, but that an overlay is on it still.
WrittenOn(screen) ==
    [c \in Cells |-> IF c \notin stray /\ screen[c] \in {Guess, Status} THEN screen[c] ELSE Theirs]
Moved(cells) == IF cells = {} THEN {} ELSE Cells

(***************************************************************************)
(* The overlay.                                                            *)
(***************************************************************************)
Covered(p) == p.cells \cup (IF p.status THEN StatusRow ELSE {})
\* The status line is painted last.
Over(screen, p) ==
    [c \in Cells |-> IF p.status /\ c \in StatusRow THEN Status
                     ELSE IF c \in p.cells THEN Guess ELSE screen[c]]
\* unpaint: what it covered painted again from the mirror.
Unpainted(screen) == [c \in Cells |-> IF c \in Covered(painted) THEN mirror[c] ELSE screen[c]]

Wanted == [cells |-> guesses, status |-> status]
Paintable == plain /\ between

\* The loop paints once it wrote what came: an overlay painted as it is stays.
Paint ==
    /\ painted # (IF Wanted = NoPaint \/ ~Paintable THEN NoPaint ELSE Wanted)
    /\ IF Wanted = NoPaint \/ ~Paintable
       THEN painted' = NoPaint /\ term' = Unpainted(term)
       ELSE painted' = Wanted /\ term' = Over(Unpainted(term), Wanted)
    /\ stray' = stray \ Covered(painted')
    /\ UNCHANGED <<set, said, mirror, plain, mirrorSet, guesses, status, report, between, entered,
                   outside>>

\* A key predicted, a guess confirmed or dropped.
Predicts ==
    /\ guesses' \in SUBSET Cells
    /\ UNCHANGED <<term, set, said, mirror, plain, mirrorSet, painted, status, report, between,
                   entered, stray, outside>>
SetStatus ==
    /\ status' = ~status
    /\ UNCHANGED <<term, set, said, mirror, plain, mirrorSet, painted, guesses, report, between,
                   entered, stray, outside>>

(***************************************************************************)
(* What the server sends.                                                  *)
(***************************************************************************)
Taken_Not == term
\* Before anything is written the overlay is taken back.
Taken == Unpainted(term)

\* Output: its whole sequences and characters are written, to the terminal and the mirror; on a
\* terminal that is not the mirror they fall where they may.
Output ==
    \E c \in Cells, text \in Texts, modes \in BOOLEAN :
        /\ mirror' = [mirror EXCEPT ![c] = text]
        /\ IF entered THEN term' = [Taken EXCEPT ![c] = text] /\ stray' = stray \ {c}
           ELSE term' = WrittenOn(Taken) /\ stray' = Moved(stray)
        /\ set' = (IF modes = mirrorSet THEN set ELSE modes) /\ mirrorSet' = modes
        /\ plain' \in BOOLEAN /\ between' \in BOOLEAN
        /\ guesses' \in SUBSET guesses
        /\ painted' = NoPaint
        /\ outside' = (outside \/ ~entered)
        /\ UNCHANGED <<said, status, report, entered>>

\* Output of which nothing is whole yet: held, and nothing written.
Holds ==
    /\ between' = FALSE
    /\ UNCHANGED <<term, set, said, mirror, plain, mirrorSet, painted, guesses, status, report,
                   entered, stray, outside>>

\* A terminal forgets the activity at a mark: it is reported again.
Resaid == report
Mark ==
    /\ term' = Taken /\ painted' = NoPaint /\ said' = Resaid
    /\ UNCHANGED <<set, mirror, plain, mirrorSet, guesses, status, report, between, entered, stray,
                   outside>>

Report(activity) ==
    /\ report' = activity /\ said' = activity
    /\ UNCHANGED <<term, set, mirror, plain, mirrorSet, painted, guesses, status, between, entered,
                   stray, outside>>

\* A new epoch begins with a redraw, which resets the terminal: the mirror starts anew with it, and
\* what was guessed is not.
NewEpoch ==
    \E c \in Cells, text \in Texts, modes \in BOOLEAN :
        /\ mirror' = [Screen(Bare) EXCEPT ![c] = text] /\ term' = mirror'
        /\ mirrorSet' = modes /\ set' = modes
        /\ plain' \in BOOLEAN /\ between' = TRUE /\ guesses' = {}
        /\ painted' = NoPaint /\ entered' = TRUE
        /\ stray' = {} /\ outside' = FALSE
        /\ UNCHANGED <<said, status, report>>

(***************************************************************************)
(* The user's side.                                                        *)
(***************************************************************************)
\* The window's size changed: the overlay is forgotten, not taken back.
Resize ==
    /\ painted' = NoPaint /\ guesses' = {} /\ stray' = stray \cup Covered(painted)
    /\ UNCHANGED <<term, set, said, mirror, plain, mirrorSet, status, report, between, entered,
                   outside>>

Cleared == FALSE
\* leave, at the run's end and at a suspend: the overlay is taken back; a terminal that was entered
\* is put back in its modes and given a fresh line, which the mirror is told of only as to the modes
\* that hide the main screen.  A suspend then writes its message, stops for the user's shell, and
\* takes the window's size, perhaps another, before anything else is shown.
Leave ==
    /\ term' = WrittenOn(Unpainted(term)) /\ painted' = NoPaint /\ stray' = Moved(stray)
    /\ IF entered
       THEN /\ set' = Cleared /\ mirrorSet' \in {mirrorSet, Cleared}
            /\ IF plain THEN UNCHANGED <<mirror, plain>>
               ELSE mirror' \in [Cells -> Texts \cup {Bare}] /\ plain' \in BOOLEAN
       ELSE UNCHANGED <<set, mirrorSet, mirror, plain>>
    /\ entered' = FALSE
    /\ said' \in {said, Marked} /\ guesses' \in {guesses, {}}
    /\ UNCHANGED <<status, report, between, outside>>

DisplayNext ==
    \/ Paint \/ Predicts \/ SetStatus \/ Output \/ Holds \/ Mark \/ NewEpoch \/ Resize \/ Leave
    \/ \E activity \in Activities : Report(activity)

(***************************************************************************)
(* Properties.                                                             *)
(***************************************************************************)
\* Once a redraw came, the terminal is the mirror with the overlay painted over it, but where an
\* overlay was forgotten at a resize: so the program's output goes where the program left the
\* terminal.  On a terminal that is not the mirror (before the first redraw, and after a suspend until
\* the next) only what is painted is as the display has it; and there too nothing of an overlay stays
\* once it is taken back, whatever was written and scrolled since (display.rs unpaint).
TerminalIsMirror ==
    \A c \in Cells \ stray :
        /\ entered \/ c \in Covered(painted) => term[c] = Over(mirror, painted)[c]
        /\ term[c] \in {Guess, Status} => c \in Covered(painted)

\* A terminal that was left is in no mode the program set, but for output that came after a suspend
\* and before its redraw; and it knows the activity last reported, but where the user's shell marked
\* the terminal meanwhile.
LeftAsFound ==
    /\ (~entered /\ ~outside) => ~set
    /\ said \in {report, Marked}
=============================================================================
