------------------------------ MODULE LiveParts ------------------------------
(***************************************************************************)
(* The parts something waits on, and some whose steps are few, that share  *)
(* no state with each other, each on an instance of its own, in one run.   *)
(* `part` says which of them a behaviour is of: that one takes every step, *)
(* the others rest as they began.  What each part is, and what is promised *)
(* of it, is in its own module; the properties here say which of its       *)
(* promises are checked.                                                   *)
(***************************************************************************)
EXTENDS Naturals, Sequences

CONSTANTS
    Sources, Relayed, MostPending, MaxConnections,  \* Gate
    Keys, Given, MaxSaves,                          \* Allowlist
    Programs, Groups,                               \* Reaper
    Streams, Room, MaxWritten, MaxStdin,            \* Exec
    Activities, Spacing,                            \* Reports
    Statuses                                        \* Commands

VARIABLES
    part,
    conn, underWay, older, free, queue,                                     \* Gate
    wanted, listed, onDisk, readSince, allowing, dropping, saves,           \* Allowlist
    logged, log, jobStatus, asked, readTo, now, reader, readFrom, readGot,  \* JobLog
    leader, others, held, grace, given, draining, before, strayed,          \* Reaper
    shell, lines, history, shown, shownAt, commands, marks, parsed, published, waiter, began, seen, \* Marks
    command, left, wrote, extra, pipe, sent, pump, exited, ended, status, link, got, client, stdin, \* Exec
    doing, waiting, attached, last, age, owed, unanswered, early,           \* Reports
    asker, reached, server, job, timer, interrupted,                        \* Commands
    typed, reads, window, signalled, tick, ticked, run, net, sending, size, resized, colours, attempt, \* Link
    dial, dropped, inputs, paused, control, lasted, frozen, told, fails, lostTyping, lost, unqueued,
    uncontrolled

gateVars == <<conn, underWay, older, free, queue>>
allowlistVars == <<wanted, listed, onDisk, readSince, allowing, dropping, saves>>
logVars == <<logged, log, jobStatus, asked, readTo, now, reader, readFrom, readGot>>
reaperVars == <<leader, others, held, grace, given, draining, before, strayed>>
marksVars == <<shell, lines, history, shown, shownAt, commands, marks, parsed, published, waiter, began, seen>>
execVars == <<command, left, wrote, extra, pipe, sent, pump, exited, ended, status, link, got, client, stdin>>
reportVars == <<doing, waiting, attached, last, age, owed, unanswered, early>>
commandVars == <<asker, reached, server, job, timer, interrupted>>
linkVars == <<typed, reads, window, signalled, tick, ticked, run, net, sending, size, resized, colours,
              attempt, dial, dropped, inputs, paused, control, lasted, frozen, told, fails, lostTyping,
              lost, unqueued, uncontrolled>>
vars == <<part, gateVars, allowlistVars, logVars, reaperVars, marksVars, execVars, reportVars,
          commandVars, linkVars>>

(***************************************************************************)
(* The instances.                                                          *)
(***************************************************************************)
Gate == INSTANCE Gate

Allowlist == INSTANCE Allowlist WITH kept <- listed

Log == INSTANCE JobLog WITH Bytes <- {"x", "n"}, NewLine <- "n", Text <- <<"x", "n">>, Budget <- 2,
                            MostRead <- 1, MaxWritten <- 3,
                            wrote <- logged, kept <- log, status <- jobStatus,
                            at <- readTo, began <- readFrom, got <- readGot

Reaper == INSTANCE Reaper
Marks == INSTANCE Marks WITH MaxLines <- 3
Exec == INSTANCE Exec
Reports == INSTANCE Reports
Commands == INSTANCE Commands WITH client <- asker, conn <- reached
Link == INSTANCE Link WITH MostQueued <- 2, Messages <- 1, ControlRoom <- 1, Long <- 3, LongestWait <- 2,
                           MaxDone <- 2, MaxReads <- 1, MaxWindows <- 1, MaxFails <- 1, queue <- inputs

\* What the proofs assume of the constants.
ASSUME PartsAssumption ==
    /\ Reports!ReportsAssumption /\ Reaper!ReaperAssumption
    /\ Commands!CommandAssumption /\ Gate!GateAssumption

(***************************************************************************)
(* Together.                                                               *)
(***************************************************************************)
Init ==
    /\ part \in {"gate", "allowlist", "log", "reaper", "marks", "exec", "reports", "commands", "link"}
    /\ Gate!GateInit /\ Allowlist!AllowlistInit /\ Log!LogInit /\ Reaper!ReaperInit
    /\ Marks!MarksInit /\ Exec!ExecInit /\ Reports!ReportsInit /\ Commands!CommandInit /\ Link!LinkInit
    /\ part # "log" => asked = "logs"
    /\ part # "reaper" => others = [q \in Groups |-> FALSE]
    /\ part # "reports" => doing = CHOOSE a \in Activities : TRUE

Rest(name, its) == IF part = name THEN TRUE ELSE UNCHANGED its
OthersRest ==
    /\ UNCHANGED part
    /\ Rest("gate", gateVars) /\ Rest("allowlist", allowlistVars) /\ Rest("log", logVars)
    /\ Rest("reaper", reaperVars) /\ Rest("marks", marksVars) /\ Rest("exec", execVars)
    /\ Rest("reports", reportVars) /\ Rest("commands", commandVars) /\ Rest("link", linkVars)

GateSteps == part = "gate" /\ Gate!GateNext /\ OthersRest
AllowlistSteps == part = "allowlist" /\ Allowlist!AllowlistNext /\ OthersRest
LogSteps == part = "log" /\ Log!LogNext /\ OthersRest
ReaperSteps == part = "reaper" /\ Reaper!ReaperNext /\ OthersRest
MarksSteps == part = "marks" /\ Marks!MarksNext /\ OthersRest
ExecSteps == part = "exec" /\ Exec!ExecNext /\ OthersRest
ReportsSteps == part = "reports" /\ Reports!ReportsNext /\ OthersRest
CommandSteps == part = "commands" /\ Commands!CommandNext /\ OthersRest
LinkSteps == part = "link" /\ Link!LinkNext /\ OthersRest

Next == \/ GateSteps \/ AllowlistSteps \/ LogSteps \/ ReaperSteps \/ MarksSteps \/ ExecSteps
        \/ ReportsSteps \/ CommandSteps \/ LinkSteps

\* The steps that must be taken.  Being fair to one part's together is being fair to each of them where
\* they can be taken finitely often; those beside which others go on for ever have a fairness of their own.
Goes ==
    /\ \/ part = "gate" /\ \E c \in Gate!Dials : Gate!Goes(c)
       \/ part = "allowlist" /\ Allowlist!Goes
       \/ part = "log" /\ Log!ReaderGoes
       \/ part = "reaper" /\ Reaper!Goes
       \/ part = "marks" /\ Marks!Goes
       \/ part = "exec" /\ Exec!Goes
       \/ part = "reports" /\ Reports!TimePasses
       \/ part = "commands" /\ Commands!ClientStep
       \/ part = "link" /\ Link!SendChunk
    /\ OthersRest
AlsoGoes ==
    /\ \/ part = "log" /\ Log!JobGoes
       \/ part = "reaper" /\ \E q \in Programs : Reaper!GraceOver(q)
       \/ part = "reports" /\ Reports!ProbeDue
       \/ part = "commands" /\ Commands!ServerStep("wait")
       \/ part = "link" /\ Link!Ticks
    /\ OthersRest
GoesToo ==
    /\ \/ part = "reports" /\ Reports!Poll
       \/ part = "commands" /\ \E ask \in {"jobs", "logs"} : Commands!ServerStep(ask)
       \/ part = "link" /\ Link!TakeResize
    /\ OthersRest

Fairness == WF_vars(Goes) /\ WF_vars(AlsoGoes) /\ WF_vars(GoesToo)
            /\ WF_linkVars(part = "link" /\ Link!WriteControl)

Spec == Init /\ [][Next]_vars /\ Fairness

(***************************************************************************)
(* Properties: each in its module.                                         *)
(***************************************************************************)
\* Permits add up, and a flood of handshakes gives up only its own (Gate, Pending).
GateKeeps == []Gate!PermitsAddUp /\ Gate!FloodGivesUpItsOwn
\* A save of the list locks no one out (Settling).
SaveLocksNoOneOut == Allowlist!SaveLocksNoOneOut
\* No signal strays, and a drain waits for all it was sent (Reaper).
ReapsItsOwn == Reaper!NoStraySignal /\ Reaper!DrainWaits
\* An exit status comes after all of the command's output (exec.rs).
StatusAfterOutput == part = "exec" => Exec!StatusAfterOutput
\* Commands are counted as they ran, and a wait sees the end of the one it waited for (marks.rs).
MarksAreTrue == Marks!CommandsCounted /\ Marks!WaitedHasEnded
\* Reports are spaced (Reports).
ReportsSpaced == Reports!ReportsSpaced
\* A command's exit is what happened, and it leaves no connection open (client/cli.rs).
CommandsExit == Commands!ExitIsTrue /\ Commands!LeavesNoneOpen
\* Every part ends what it began, of which there is more than one of some (n): who dials and waits,
\* a saved list, a reader of a log, a program hung up and a drain, a wait for a shell's command, a
\* command alone or exited, a report owed, a client's command and its requests, a window's size.
\* A program with a terminal, and one signalled as a group.
Program(n) == CHOOSE q \in Programs : q \in Groups <=> n = 2
\* A connection that shares its address, one that does not, and one through a relay.
Dial(n) == CHOOSE c \in Gate!Dials : (c \in Relayed <=> n = 3) /\ ({c} \in Sources <=> n # 1)
Begun(n) ==
    \/ part = "gate" /\ Gate!Waits(Dial(n))
    \/ part = "allowlist" /\ ~Allowlist!IsTaken
    \/ part = "log" /\ ~Log!IsAnswered
    \/ part = "reaper" /\ (IF n <= 2 THEN Reaper!IsHungUp(Program(n)) ELSE draining = "asked")
    \/ part = "marks" /\ Marks!IsUnseen
    \/ part = "exec" /\ (IF n = 1 THEN Exec!IsLeft ELSE Exec!HasExited)
    \/ part = "reports" /\ (IF n = 1 THEN Reports!IsOwed ELSE Reports!IsChanged)
    \/ part = "commands" /\ (IF n <= 2 THEN Commands!IsLeft(<<"wait", "logs">>[n]) ELSE Commands!IsDue)
    \/ part = "link" /\ Link!IsUntold
Ended(n) ==
    \/ part = "gate" /\ ~Gate!Waits(Dial(n))
    \/ part = "allowlist" /\ Allowlist!IsTaken
    \/ part = "log" /\ Log!IsAnswered
    \/ part = "reaper" /\ (IF n <= 2 THEN Reaper!IsReaped(Program(n)) ELSE Reaper!IsDrained)
    \/ part = "marks" /\ Marks!IsSeen
    \/ part = "exec" /\ (IF n = 1 THEN Exec!IsOver ELSE Exec!IsKnown)
    \/ part = "reports" /\ ~(IF n = 1 THEN Reports!IsOwed ELSE Reports!IsChanged)
    \/ part = "commands" /\ (IF n <= 2 THEN Commands!IsServed(<<"wait", "logs">>[n]) ELSE Commands!IsOver)
    \/ part = "link" /\ ~Link!IsUntold
AllEnd == \A n \in 1..3 : Begun(n) ~> Ended(n)
=============================================================================
