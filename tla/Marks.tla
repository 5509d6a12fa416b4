-------------------------------- MODULE Marks --------------------------------
(***************************************************************************)
(* The commands a bash that koh marks runs (server/marks.rs END, PS0,      *)
(* PS1), as its session counts them and koh wait sees one end              *)
(* (server/wait.rs, On::Session with Until::End).                          *)
(*                                                                         *)
(* External: bash, which counts a line in its history or does not, prints  *)
(* PS0 for a command it could parse, and runs PROMPT_COMMAND before each   *)
(* prompt; the emulator, which starts a command at C and ends one at D.    *)
(***************************************************************************)
EXTENDS Naturals, Sequences, FiniteSets

CONSTANTS
    MaxLines    \* bound: lines typed

VARIABLES
    shell,      \* "starts", "prompt", "runs", or "printing" (output that looks like marks)
    lines,      \* typed so far
    history,    \* HISTCMD
    shown,      \* __koh_w: a prompt was shown and no command started since
    shownAt,    \* __koh_h: the history then
    commands,   \* those begun and those ended: what bash ran, and what it could not parse and kept
    marks,      \* written to the terminal, not yet parsed
    parsed,     \* Commands: running, and how many finished
    published,  \* Status
    waiter,     \* "none", "waits", "ended"
    began,      \* the status it began with
    seen        \* and the one it saw last

marksVars == <<shell, lines, history, shown, shownAt, commands, marks, parsed, published, waiter, began, seen>>

None == [running |-> FALSE, finished |-> 0]

MarksInit ==
    /\ shell = "starts" /\ lines = 0 /\ history = 0 /\ shown = FALSE /\ shownAt = 0
    /\ commands = [begun |-> 0, ended |-> 0] /\ marks = <<>> /\ parsed = None
    /\ published = None /\ waiter = "none" /\ began = None /\ seen = None

\* END, before each prompt: the start of a line that had none, then the end; and PS1's end.
Late_Never(to) == <<>>
Late(to) == IF shown /\ to # shownAt THEN <<"C">> ELSE <<>>
Prompt(to) ==
    /\ shell' = "prompt" /\ shown' = TRUE /\ shownAt' = to /\ history' = to
    /\ marks' = marks \o Late(to) \o <<"D", "A", "D", "A">>

Starts ==
    /\ shell = "starts" /\ Prompt(1)
    /\ UNCHANGED <<lines, commands, parsed, published, waiter, began, seen>>

\* A line is a command, or one bash could not parse (or a comment), each kept in the history or
\* not (HISTCONTROL's ignorespace and ignoredups); or an empty one.
Typed == shell = "prompt" /\ lines < MaxLines /\ lines' = lines + 1
Command(kept) ==
    /\ Typed
    /\ shell' = "runs" /\ history' = history + kept /\ shown' = FALSE
    /\ marks' = Append(marks, "C") /\ commands' = [commands EXCEPT !.begun = @ + 1]
    /\ UNCHANGED <<shownAt, parsed, published, waiter, began, seen>>
\* It never reaches PS0: END sees it by the history number alone. Kept out of the history it gets
\* no late start, its D ends nothing, and no session ever knows of it.
Unparsed(kept) ==
    /\ Typed /\ Prompt(history + kept)
    /\ commands' = [begun |-> commands.begun + kept, ended |-> commands.ended + kept]
    /\ UNCHANGED <<parsed, published, waiter, began, seen>>
EmptyLine ==
    /\ Typed /\ Prompt(history)
    /\ UNCHANGED <<commands, parsed, published, waiter, began, seen>>

\* What it runs writes marks of its own, another shell's, with another nonce or none.
WritesMarks ==
    /\ shell = "runs" /\ shell' = "printing" /\ marks' = marks \o <<"foreignD", "foreignC">>
    /\ UNCHANGED <<lines, history, shown, shownAt, commands, parsed, published, waiter, began, seen>>
CommandEnds ==
    /\ shell \in {"runs", "printing"} /\ Prompt(history)
    /\ commands' = [commands EXCEPT !.ended = @ + 1]
    /\ UNCHANGED <<lines, parsed, published, waiter, began, seen>>

\* require_mark_nonce: the marks of this shell alone count.
Counts(mark) == mark
Parses ==
    /\ marks # <<>> /\ marks' = Tail(marks)
    /\ parsed' = CASE Counts(Head(marks)) = "C" -> [parsed EXCEPT !.running = TRUE]
                   [] Counts(Head(marks)) = "D" /\ parsed.running ->
                          [running |-> FALSE, finished |-> parsed.finished + 1]
                   [] OTHER -> parsed
    /\ UNCHANGED <<shell, lines, history, shown, shownAt, commands, published, waiter, began, seen>>

\* The session's status, a watch: only the newest is ever seen.
Publishes ==
    /\ published # parsed /\ published' = parsed
    /\ UNCHANGED <<shell, lines, history, shown, shownAt, commands, marks, parsed, waiter, began, seen>>

\* koh wait SESSION --end.
Waits ==
    /\ waiter = "none" /\ waiter' = "waits" /\ began' = published /\ seen' = published
    /\ UNCHANGED <<shell, lines, history, shown, shownAt, commands, marks, parsed, published>>
EndSeen == ~began.running \/ published.finished > began.finished
Looks ==
    /\ waiter = "waits" /\ (EndSeen \/ seen # published)
    /\ seen' = published /\ waiter' = IF EndSeen THEN "ended" ELSE "waits"
    /\ UNCHANGED <<shell, lines, history, shown, shownAt, commands, marks, parsed, published, began>>

MarksNext ==
    \/ Starts \/ Command(0) \/ Command(1) \/ Unparsed(0) \/ Unparsed(1) \/ EmptyLine
    \/ WritesMarks \/ CommandEnds \/ Parses \/ Publishes \/ Waits \/ Looks

\* What must be taken: a session parses, publishes and answers; a command runs as long as it likes.
Goes == Parses \/ Publishes \/ Looks

\* Every command bash ran is counted once, kept in the history or not; of the lines it could not
\* parse those the history kept are, and the others are not; and nothing that is no command is,
\* whatever a command prints (marks.rs END, require_mark_nonce).
CommandsCounted ==
    /\ marks = <<>> => parsed = [running |-> shell \in {"runs", "printing"}, finished |-> commands.ended]
    /\ parsed.finished <= commands.ended

\* A wait for the end of a command that ran as it began is answered once that one ended, and not
\* before, whatever other began meanwhile (wait.rs Until::End).
WaitedHasEnded == waiter = "ended" /\ began.running => commands.ended > began.finished
\* And it is answered.
IsUnseen == waiter = "waits" /\ commands.ended > began.finished
IsSeen == waiter = "ended"
==============================================================================
