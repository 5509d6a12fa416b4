-------------------------------- MODULE Reaper --------------------------------
(***************************************************************************)
(* The programs a server hangs up and the thread that reaps them (pty.rs   *)
(* Program, Stopping, Reaper).                                             *)
(*                                                                         *)
(* External: a pid, and a group's id, is another process's once its own    *)
(* is reaped and its group is empty; a killed process dies.                *)
(***************************************************************************)
EXTENDS Naturals, Sequences, FiniteSets

CONSTANTS
    Programs,
    Groups      \* those with Whom::Group: no terminal, signalled as a group

VARIABLES
    leader,     \* of each: "runs", "zombie", "reaped"
    others,     \* whether others of its group still run
    held,       \* "owned" (a Program), "sent" to the reaper, "polled" by it, or "released"
    grace,      \* Stopping.kill_at: "running", "over", or "none" once it was killed
    given,      \* what the reaper's thread was sent: programs, and "drain"
    draining,   \* "no", "asked", "waits" (in drains), "answered", or "timeout"
    before,     \* the programs sent before the drain
    strayed     \* a signal reached a process koh did not start

reaperVars == <<leader, others, held, grace, given, draining, before, strayed>>

\* What the proofs assume of the constants.
ReaperAssumption == "drain" \notin Programs /\ Groups \subseteq Programs

ReaperInit ==
    /\ leader = [p \in Programs |-> "runs"] /\ others \in [Groups -> BOOLEAN]
    /\ held = [p \in Programs |-> "owned"] /\ grace = [p \in Programs |-> "none"]
    /\ given = <<>> /\ draining = "no" /\ before = {} /\ strayed = FALSE

Polled == {p \in Programs : held[p] = "polled"}
OthersRun(p) == p \in Groups /\ others[p]
Reused(p) == leader[p] = "reaped" /\ ~OthersRun(p)

\* A program exits of itself or by a signal it heeds; so do the others of its group.
Exits(p) ==
    /\ leader[p] = "runs" /\ leader' = [leader EXCEPT ![p] = "zombie"]
    /\ UNCHANGED <<others, held, grace, given, draining, before, strayed>>
OthersExit(p) ==
    /\ OthersRun(p) /\ others' = [others EXCEPT ![p] = FALSE]
    /\ UNCHANGED <<leader, held, grace, given, draining, before, strayed>>

\* Program::signal: of one still owned (koh kill, a resize, an interrupt).
Signals(p) ==
    /\ held[p] = "owned" /\ strayed' = (strayed \/ Reused(p))
    /\ UNCHANGED <<leader, others, held, grace, given, draining, before>>

\* Program::try_wait: reaped by its owner, and never signalled again.
LetGo(p) == [held EXCEPT ![p] = "released"]
OwnerReaps(p) ==
    /\ held[p] = "owned" /\ leader[p] = "zombie"
    /\ leader' = [leader EXCEPT ![p] = "reaped"] /\ held' = LetGo(p)
    /\ UNCHANGED <<others, grace, given, draining, before, strayed>>

\* Program's drop: hung up, and given to the reaper.
HangsUp(p) ==
    /\ held[p] = "owned"
    /\ strayed' = (strayed \/ Reused(p))
    /\ held' = [held EXCEPT ![p] = "sent"] /\ grace' = [grace EXCEPT ![p] = "running"]
    /\ given' = Append(given, p)
    /\ UNCHANGED <<leader, others, draining, before>>
GraceOver(p) ==
    /\ grace[p] = "running" /\ grace' = [grace EXCEPT ![p] = "over"]
    /\ UNCHANGED <<leader, others, held, given, draining, before, strayed>>

\* Reaper::drain, at the server's end: no program is started any more, and none is owned but by
\* what is being dropped.
AsksToDrain ==
    /\ draining = "no" /\ draining' = "asked" /\ given' = Append(given, "drain")
    /\ before' = {p \in Programs : held[p] \in {"sent", "polled"}}
    /\ UNCHANGED <<leader, others, held, grace, strayed>>
DrainTimesOut ==
    /\ draining \in {"asked", "waits"}
    /\ \A p \in before : grace[p] # "running"
    /\ draining' = "timeout"
    /\ UNCHANGED <<leader, others, held, grace, given, before, strayed>>

\* Stopping::reaped: killed once its grace is over; a group is reaped only after that.
Kills(ps) == {p \in ps : grace[p] = "over"}
MayReap_AtOnce(p) == TRUE
MayReap(p) == p \in Groups => grace[p] # "running"
Reaped(ps) ==
    {p \in ps : MayReap(p) /\ leader[p] = "zombie"}

\* One turn of the thread: what it was sent, if anything, then each program; then the drains, if
\* none is left.
Answered(left) == left = {}
Turn(polled, waits) ==
    LET gone == Reaped(polled) IN
    /\ strayed' = (strayed \/ \E p \in Kills(polled) : Reused(p))
    /\ leader' = [p \in Programs |-> IF p \in gone THEN "reaped"
                                     ELSE IF p \in Kills(polled) /\ leader[p] = "runs" THEN "zombie"
                                     ELSE leader[p]]
    /\ others' = [p \in Groups |-> others[p] /\ p \notin Kills(polled)]
    /\ grace' = [p \in Programs |-> IF p \in Kills(polled) THEN "none" ELSE grace[p]]
    /\ held' = [p \in Programs |-> IF p \in gone THEN "released"
                                   ELSE IF p \in polled THEN "polled" ELSE held[p]]
    /\ draining' = IF waits /\ Answered(polled \ gone) THEN "answered"
                   ELSE IF waits THEN "waits" ELSE draining
    /\ UNCHANGED before
Takes ==
    /\ given # <<>> /\ given' = Tail(given)
    /\ IF Head(given) = "drain" THEN Turn(Polled, draining = "asked")
       ELSE Turn(Polled \cup {Head(given)}, draining = "waits")
Polls == given = <<>> /\ Polled # {} /\ Turn(Polled, draining = "waits") /\ UNCHANGED given

ReaperNext ==
    \/ \E p \in Programs : \/ Exits(p) \/ Signals(p) \/ OwnerReaps(p) \/ HangsUp(p) \/ GraceOver(p)
    \/ \E p \in Groups : OthersExit(p)
    \/ AsksToDrain \/ DrainTimesOut \/ Takes \/ Polls

\* What must be taken: the thread polls every POLL while it has a program (and GraceOver, the grace's
\* time passes).  Nothing is assumed of the programs, which may ignore every signal but the kill.
Goes == Takes \/ Polls

\* No signal reaches a process koh did not start: a pid is signalled only while its own program,
\* reaped by no one, or its group holds it (Program, Stopping::reaped).
NoStraySignal == strayed = FALSE

\* A drain is answered only once every program hung up before it is reaped and, of a group, none
\* is left that was not killed (Reaper::drain).
DrainWaits ==
    draining = "answered" => \A p \in before : leader[p] = "reaped" /\ ~OthersRun(p)

\* Every program hung up is reaped, whatever it ignores, and so is a drain answered.
IsHungUp(p) == held[p] = "sent"
IsReaped(p) == held[p] = "released"
IsDrained == draining \in {"answered", "timeout"}
===============================================================================
