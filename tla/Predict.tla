-------------------------------- MODULE Predict --------------------------------
(***************************************************************************)
(* What the client shows of typing before it is echoed (predict.rs,        *)
(* client/mod.rs predict), against the program that will echo it or not.   *)
(*                                                                         *)
(* A terminal of one row, the cursor's: an Enter goes to another, as a     *)
(* wrap does, by moving there or by scrolling.  One glyph is typed; wide   *)
(* ones and clusters, the alternate screen and resizes are left out.       *)
(*                                                                         *)
(* External: the program, its PTY's modes, and the user, who types a       *)
(* secret only at a password prompt the screen shows.                      *)
(***************************************************************************)
EXTENDS Naturals, Sequences, FiniteSets

CONSTANTS
    Cols,       \* columns
    Modes,      \* of "echo" (lines the kernel echoes), "editor", "silent" (raw), "password"
    Keys,       \* of "glyph", "backspace", "left", "right", "enter", "other", "paste"
    MaxKeys,    \* bound: keys typed
    MaxEvents,  \* bound: prompts, mode changes and redraws
    MaxBoth     \* bound: of both together, where one of these counts as two keys

VARIABLES
    mode, screen,   \* the program's PTY and screen
    ever,           \* modes there ever were
    events,         \* prompts, mode changes and redraws so far
    toProgram,      \* keys written and not yet read
    stream,         \* to the client: what Shown it will read
    acked,          \* EchoAck: the newest key told echoed
    mirror,         \* the terminal as the client knows it
    prompted,       \* it shows a password prompt
    fresh,          \* new_row_at was less than PROMPT_HOLD ago, as of the last key since
    sent,           \* keys sent
    secrets,        \* those typed at a password prompt that was shown
    exposed,        \* and of those, the ones typed with no hold, and older modes told than its
    engine          \* PredictionEngine

predictVars == <<mode, screen, ever, events, toProgram, stream, acked, mirror, prompted, fresh, sent,
                 secrets, exposed, engine>>
programVars == <<mode, screen, ever, events, toProgram, acked>>
clientVars == <<mirror, prompted, fresh, sent, secrets, exposed, engine>>

NotKnown == "unknown"
Blank == " "
\* A row, the cursor in it, and how many came before it: its number tells one from another.
BlankRow == [cells |-> [c \in 1..Cols |-> Blank], at |-> 1, row |-> 0]
NewRow(s) == [BlankRow EXCEPT !.row = s.row + 1]
NoGuess == [on |-> FALSE, frame |-> 0, epoch |-> 0, at |-> 1]
NoHold == 0
Fresh == "fresh"            \* Line::Fresh
Started == "started"        \* Line::Started
UnknownLine == [is |-> "unknown", n |-> 0]

\* A prediction for one cell: PredCell.
NoCell == [on |-> FALSE, frame |-> 0, epoch |-> 0, text |-> Blank, original |-> Blank, typed |-> FALSE]
NoCells == [c \in 1..Cols |-> NoCell]

NewEngine ==
    [cells |-> NoCells, cursor |-> NoGuess, epoch |-> 1, confirmed |-> 0, acked |-> 0,
     held |-> NoHold, tty |-> NotKnown, carried |-> FALSE, line |-> UnknownLine]

PredictInit ==
    /\ mode \in Modes /\ screen = BlankRow /\ ever = {mode} /\ events = 0 /\ toProgram = <<>>
    /\ stream = <<[is |-> "tty", mode |-> mode]>> /\ acked = 0
    /\ mirror = BlankRow /\ prompted = FALSE /\ fresh = FALSE /\ sent = 0 /\ secrets = {}
    /\ exposed = {} /\ engine = NewEngine

-----------------------------------------------------------------------------
\* External: what the program's terminal does.  A cursor past the last column waits to wrap.
Wrapped(s) == IF s.at > Cols THEN NewRow(s) ELSE s
Insert(s, g) ==
    LET w == Wrapped(s) IN
    [w EXCEPT !.cells = [c \in 1..Cols |-> IF c < w.at THEN w.cells[c]
                                            ELSE IF c = w.at THEN g ELSE w.cells[c - 1]],
              !.at = @ + 1]
Erase(s) ==
    IF s.at = 1 THEN s
    ELSE [s EXCEPT !.cells = [c \in 1..Cols |-> IF c < s.at - 1 THEN s.cells[c]
                                                ELSE IF c < Cols THEN s.cells[c + 1] ELSE Blank],
                   !.at = @ - 1]
Moved(s, to) == IF to \in 1..Cols THEN [s EXCEPT !.at = to] ELSE s

\* What a key does there, read in a mode.
Shows(s, key, m) ==
    IF m \in {"silent", "password"} THEN IF key = "enter" /\ m = "password" THEN NewRow(s) ELSE s
    ELSE
    CASE key = "glyph" -> Insert(s, "a")
      [] key = "backspace" -> Erase(s)
      [] key = "enter" -> NewRow(s)
      [] key = "left" -> IF m = "editor" THEN Moved(s, s.at - 1) ELSE Insert(s, "^")
      [] key = "right" -> IF m = "editor" THEN Moved(s, s.at + 1) ELSE Insert(s, "^")
      [] OTHER -> Insert(s, "b")

Frame(s, p) == [is |-> "out", screen |-> s, prompt |-> p]
Tty(m) == [is |-> "tty", mode |-> m]

ProgramReads ==
    /\ toProgram # <<>>
    /\ LET key == Head(toProgram) IN
          /\ screen' = Shows(screen, key.key, mode)
          /\ stream' = IF screen' = screen THEN stream ELSE Append(stream, Frame(screen', FALSE))
    /\ toProgram' = Tail(toProgram)
    /\ UNCHANGED <<mode, ever, events, acked, clientVars>>

\* EchoAck: told once a key was read and what came of it shown, or after a while.
Echoes ==
    /\ acked < sent /\ acked' = acked + 1
    /\ \A i \in DOMAIN toProgram : toProgram[i].n # acked'
    /\ stream' = Append(stream, [is |-> "echo", n |-> acked'])
    /\ UNCHANGED <<mode, screen, ever, events, toProgram, clientVars>>

Happens == events < MaxEvents /\ events' = events + 1 /\ sent + 2 * events' <= MaxBoth

\* It changes its modes; a password prompt, on a row of its own or where the cursor stood, is told
\* with its modes, or before they are seen to change.
ChangesMode ==
    /\ Happens
    /\ mode' \in Modes \ {mode, "password"} /\ ever' = ever \cup {mode'}
    /\ stream' = Append(stream, Tty(mode'))
    /\ UNCHANGED <<screen, toProgram, acked, clientVars>>
AsksPassword ==
    /\ "password" \in Modes \ {mode} /\ Happens
    /\ mode' = "password" /\ ever' = ever \cup {mode'}
    /\ screen' \in {Insert(NewRow(screen), "b"), Insert(screen, "b")}
    /\ \/ stream' = stream \o <<Tty(mode'), Frame(screen', TRUE)>>
       \/ stream' = stream \o <<Frame(screen', TRUE), Tty(mode')>>
    /\ UNCHANGED <<toProgram, acked, clientVars>>

\* A lag or a reconnect: a new epoch begins with a redraw, the modes after it, of which those that
\* were not told yet may come later; what was on its way is not read.  Keys on their way reach the
\* program.
Untold == \E i \in DOMAIN stream : stream[i].is = "tty"
Redraws ==
    /\ Happens
    /\ \E last \in {<<Tty(mode)>>} \cup (IF Untold THEN {<<Tty(old), Tty(mode)>> : old \in ever} ELSE {}) :
          stream' = <<[is |-> "epoch"], Frame(screen, mode = "password")>> \o last
                        \o <<[is |-> "echo", n |-> acked]>>
    /\ UNCHANGED <<mode, screen, ever, toProgram, acked, clientVars>>

-----------------------------------------------------------------------------
\* The engine.  Each operator gives the engine after it.
CursorOf(s) == IF s.at > Cols THEN Cols ELSE s.at
Later(a, b) == IF a > b THEN a ELSE b
Password(tty) == tty = "password"
Tentative(e, epoch) == epoch > e.confirmed
BecomeTentative(e) == [e EXCEPT !.epoch = @ + 1]
DiscardLine(e) == IF e.line.is = Started THEN [e EXCEPT !.line = UnknownLine] ELSE e
Reset(e) == BecomeTentative([DiscardLine(e) EXCEPT !.cells = NoCells, !.cursor = NoGuess])
MoveCursor(e, frame, to) ==
    [e EXCEPT !.cursor = [on |-> TRUE, frame |-> frame, epoch |-> e.epoch, at |-> to]]

Carries(e) == e.carried \/ e.epoch = e.confirmed
Reattached(e) == [NewEngine EXCEPT !.carried = Carries(e)]

Shut(e) == IF \E c \in 1..Cols : e.cells[c].on \/ e.cursor.on THEN Reset(e) ELSE e
SetTty(e, m) ==
    IF Password(m) THEN [Shut(e) EXCEPT !.tty = m, !.carried = FALSE]
    ELSE [e EXCEPT !.tty = m, !.carried = FALSE,
                   !.confirmed = IF e.carried THEN Later(e.confirmed, e.epoch) ELSE @]

\* cell_validity, cursor_validity.
Credit(cell) == cell.original # cell.text
Validity(e, cell, shown) ==
    IF e.acked < cell.frame THEN "pending"
    ELSE IF cell.text = Blank THEN "no credit"
    ELSE IF shown # cell.text THEN "wrong"
    ELSE IF Credit(cell) THEN "right" ELSE "no credit"
CursorValidity(e, s) ==
    IF e.acked < e.cursor.frame THEN "pending"
    ELSE IF CursorOf(s) = e.cursor.at THEN "right" ELSE "wrong"

\* cull: each cell graded; a wrong one takes its epoch with it, or all if it was shown.
GradeCursor(e, s) ==
    IF ~e.cursor.on \/ CursorValidity(e, s) = "pending" THEN e
    ELSE IF CursorValidity(e, s) = "wrong" THEN Reset(e) ELSE [e EXCEPT !.cursor = NoGuess]
Killed(e, s, graded) ==
    LET wrong == {e.cells[c].epoch : c \in {c \in 1..Cols : e.cells[c].on /\ graded[c] = "wrong"}} IN
    [c \in 1..Cols |->
        IF e.cells[c].on /\ graded[c] = "pending" /\ e.cells[c].epoch \notin wrong
        THEN e.cells[c] ELSE NoCell]
Cull(e, s) ==
    LET on == {c \in 1..Cols : e.cells[c].on}
        graded == [c \in 1..Cols |-> Validity(e, e.cells[c], s.cells[c])]
        wrong == {c \in on : graded[c] = "wrong"}
        right == {e.cells[c].epoch : c \in {c \in on : graded[c] = "right"}}
        confirmed == CHOOSE n \in right \cup {e.confirmed} : \A o \in right \cup {e.confirmed} : o <= n
        kept == [e EXCEPT !.confirmed = confirmed, !.cells = Killed(e, s, graded)]
    IN
    IF \E c \in wrong : ~Tentative(e, e.cells[c].epoch) THEN Reset(e)
    ELSE GradeCursor(IF wrong = {} THEN kept
                     ELSE LET opened == BecomeTentative(DiscardLine(kept)) IN
                          MoveCursor(opened, sent + 1, CursorOf(s)), s)

\* The key typed now is input `sent + 1`.
Next_ == sent + 1
CursorAt(e) == IF e.cursor.on THEN e.cursor.at ELSE CursorOf(mirror)
GuessAt(e, c) == IF e.cells[c].on THEN e.cells[c].text ELSE mirror.cells[c]
Place(e, c, text, typed) ==
    [e EXCEPT !.cells[c] = [on |-> TRUE, frame |-> Next_, epoch |-> e.epoch, text |-> text,
                            original |-> mirror.cells[c], typed |-> typed]]
Unmodelled(e) == [BecomeTentative(e) EXCEPT !.line = UnknownLine]
MayStepBack(e, c) ==
    IF e.line.is = Started THEN c > e.line.n ELSE c > 1 /\ e.cells[c - 1].on /\ e.cells[c - 1].typed

BeginLine(e) ==
    IF e.line.is # Fresh THEN e
    ELSE [e EXCEPT !.line = IF ~e.cursor.on /\ e.acked >= e.line.n
                            THEN [is |-> Started, n |-> CursorOf(mirror)] ELSE UnknownLine]
\* The kernel's echo is trusted; a program must have shown one.
Trusted(e) == IF e.tty = "echo" THEN [e EXCEPT !.confirmed = Later(@, 1)] ELSE e
PredictGlyph(e) ==
    LET t == Trusted(e)
        c == CursorAt(t)
        placed == Place(t, c, "a", TRUE)
    IN
    IF GuessAt(t, c) # Blank THEN Unmodelled(t)
    ELSE IF c < Cols THEN MoveCursor(placed, Next_, c + 1)
    ELSE MoveCursor(BecomeTentative(placed), Next_, 1)
PredictBackspace(e) ==
    LET c == CursorAt(e) IN
    IF c > 1 /\ MayStepBack(e, c) /\ GuessAt(e, c) = Blank
    THEN MoveCursor(Place(e, c - 1, Blank, FALSE), Next_, c - 1)
    ELSE Unmodelled(e)
PredictArrow(e, right) ==
    LET c == CursorAt(e) IN
    CASE right /\ c < Cols -> MoveCursor(e, Next_, c + 1)
      [] ~right /\ c > 1 /\ MayStepBack(e, c) -> MoveCursor(e, Next_, c - 1)
      [] OTHER -> Unmodelled(e)
PredictEnter(e) ==
    [MoveCursor(BecomeTentative(e), Next_, 1) EXCEPT !.line = [is |-> Fresh, n |-> Next_]]

\* hold, and holding.
Hold_Not(e) == e
Hold(e) == BecomeTentative([e EXCEPT !.held = Next_])
Holding(e) == e.held # NoHold /\ e.acked < e.held
Released(e) == IF Holding(e) THEN e ELSE [e EXCEPT !.held = NoHold]

\* new_user_key, and new_user_other for a paste.
NotPredicted(e, key) ==
    [BecomeTentative(e) EXCEPT !.line = CASE key = "enter" -> [is |-> Fresh, n |-> Next_]
                                          [] key = "glyph" -> @ [] OTHER -> UnknownLine]
Begun(e, key) == IF key = "glyph" THEN BeginLine(e) ELSE e
NewKey(e, key) ==
    LET b == Begun(Cull(e, mirror), key) IN
    CASE key = "paste" -> Unmodelled(Cull(e, mirror))
      [] key # "paste" /\ (b.tty \in {NotKnown, "password"} \/ Holding(b)) -> NotPredicted(b, key)
      [] OTHER ->
         LET r == Released(b) IN
         CASE key = "glyph" -> PredictGlyph(r)
           [] key = "backspace" -> PredictBackspace(r)
           [] key = "enter" -> PredictEnter(r)
           [] key \in {"left", "right"} /\ r.tty # "echo" -> PredictArrow(r, key = "right")
           [] OTHER -> Unmodelled(r)

\* overlay.
Overlay(e) ==
    IF Password(e.tty) THEN {}
    ELSE {c \in 1..Cols : e.cells[c].on /\ ~Tentative(e, e.cells[c].epoch)}

-----------------------------------------------------------------------------
\* The client: a key typed, and what it reads.  At a row that is fresh still a key is held, whether or
\* not the modes came; at a prompt on a row the cursor was on for longer, of modes told before it,
\* it is not.
Kept == fresh' \/ Holding(engine) \/ engine.tty \in {NotKnown, "password"}
Types(key) ==
    /\ sent < MaxKeys /\ sent' = sent + 1 /\ sent' + 2 * events <= MaxBoth
    /\ fresh' \in {fresh, FALSE}
    /\ engine' = NewKey(IF fresh' /\ key # "paste" THEN Hold(engine) ELSE engine, key)
    /\ toProgram' = Append(toProgram, [n |-> sent', key |-> key])
    /\ secrets' = IF prompted THEN secrets \cup {sent'} ELSE secrets
    /\ exposed' = IF prompted /\ ~Kept THEN exposed \cup {sent'} ELSE exposed
    /\ UNCHANGED <<mode, screen, ever, events, stream, acked, mirror, prompted>>

\* new_row_at: output moved the cursor to another row, or every row up.
MovesRow(s) == s.row # mirror.row
Reads ==
    /\ stream # <<>> /\ stream' = Tail(stream)
    /\ LET shown == Head(stream) IN
       CASE shown.is = "out" ->
               /\ mirror' = shown.screen /\ prompted' = shown.prompt
               /\ fresh' = (fresh \/ MovesRow(shown.screen))
               /\ engine' = Cull(engine, shown.screen) /\ UNCHANGED exposed
         [] shown.is = "tty" ->
               /\ engine' = SetTty(engine, shown.mode)
               /\ exposed' = IF Password(shown.mode) THEN {} ELSE exposed
               /\ UNCHANGED <<mirror, prompted, fresh>>
         [] shown.is = "echo" ->
               /\ engine' = Cull([engine EXCEPT !.acked = shown.n], mirror)
               /\ UNCHANGED <<mirror, prompted, fresh, exposed>>
         [] OTHER ->
               /\ engine' = Reattached(engine) /\ mirror' = BlankRow /\ exposed' = {}
               /\ UNCHANGED <<prompted, fresh>>
    /\ UNCHANGED <<programVars, sent, secrets>>

PredictNext ==
    \/ ProgramReads \/ Echoes \/ ChangesMode \/ AsksPassword \/ Redraws
    \/ (\E key \in Keys : Types(key)) \/ Reads

\* What is typed at a password prompt the screen shows is not shown, whatever was trusted before:
\* once the prompt's modes came nothing of it is, nor ever again; and before they came, nothing that
\* was typed soon after the cursor went to another row, before a key so typed was reflected, or with
\* no modes told (set_tty, hold, reattached).  What is typed with older ones told may be shown until
\* the prompt's come.
SecretHidden ==
    \A c \in Overlay(engine) :
        engine.cells[c].text # Blank => engine.cells[c].frame \notin secrets \ exposed

\* A program that never echoed, nor had the kernel do it, has nothing of its typing shown
\* (the epochs, cell_validity).
TrustIsEarned == ever \subseteq {"silent", "password"} => Overlay(engine) = {}

\* No guess outlives its answer: once every key is acknowledged and all is read, the screen alone
\* is shown, so a wrong guess is taken back (cull).
NothingIsLeft ==
    stream = <<>> /\ acked = sent /\ engine.acked = sent =>
        /\ \A c \in 1..Cols : ~engine.cells[c].on
        /\ engine.cursor.on => Tentative(engine, engine.cursor.epoch)
===============================================================================
