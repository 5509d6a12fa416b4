------------------------------ MODULE Commands ------------------------------
(***************************************************************************)
(* A client's command (client/cli.rs): `koh wait` on a job and `koh logs   *)
(* --follow`, each request of theirs a connection of its own, with the     *)
(* server that takes it (Gate::serve and dispatch of server/cli.rs,        *)
(* server/wait.rs, reply and linger of server/mod.rs), the job, a time to  *)
(* wait at most, and the user's interrupt.                                 *)
(*                                                                         *)
(* A command's requests: the "wait"; after one that timed out, the "jobs"  *)
(* to say how the job stands; the "logs", followed or to show what came    *)
(* last.  Words and JSON are left out; statuses are those of 8 bits.       *)
(***************************************************************************)
EXTENDS Integers

CONSTANTS Statuses        \* what the job may exit with

VARIABLES
    client,      \* the command: where it is, its request, what it is to exit with, and did
    conn,        \* each request's connection
    server,      \* each request's task: what it is at, the job's exit as it looked, what it said
    job,         \* the job's exit, -1 while it runs, and whether it wrote the text waited for
    timer,       \* the time to wait: "none", "armed" or "passed"
    interrupted

commandVars == <<client, conn, server, job, timer, interrupted>>

Asks == {"wait", "jobs", "logs"}
Nothing == -1
TimedOut == 124
Failed == 255     \* koh's own errors, of a command that exits with a remote status
Busy == 75
NoTask == [at |-> "none", saw |-> Nothing, said |-> "nothing", status |-> Nothing]

CommandInit ==
    /\ client = [at |-> "idle", ask |-> "wait", until |-> "end", shows |-> FALSE, status |-> Nothing,
                 exit |-> Nothing]
    /\ conn = [a \in Asks |-> "none"] /\ server = [a \in Asks |-> NoTask]
    /\ job = [exit |-> Nothing, text |-> FALSE]
    /\ timer = "none" /\ interrupted = FALSE

\* What the proofs assume of the constants.
CommandAssumption == Statuses \subseteq 0..255

(***************************************************************************)
(* The job and the world.                                                  *)
(***************************************************************************)
JobWrites == job.exit = Nothing /\ ~job.text /\ job' = [job EXCEPT !.text = TRUE]
             /\ UNCHANGED <<client, conn, server, timer, interrupted>>
JobEnds == job.exit = Nothing /\ (\E s \in Statuses : job' = [job EXCEPT !.exit = s])
           /\ UNCHANGED <<client, conn, server, timer, interrupted>>
TimePasses == timer = "armed" /\ timer' = "passed"
              /\ UNCHANGED <<client, conn, server, job, interrupted>>
Interrupts == client.at # "idle" /\ ~interrupted /\ interrupted' = TRUE
              /\ UNCHANGED <<client, conn, server, job, timer>>
Cut(a) == conn[a] = "open" /\ conn' = [conn EXCEPT ![a] = "cut"]
          /\ UNCHANGED <<client, server, job, timer, interrupted>>

(***************************************************************************)
(* The client.                                                             *)
(***************************************************************************)
Exits(status) == client' = [client EXCEPT !.at = "exited", !.exit = status] /\ UNCHANGED interrupted
\* The logs listen for interrupts anew; the question before them listens for none.
Then(ask, status) ==
    /\ client' = [client EXCEPT !.at = "dialing", !.ask = ask, !.status = status]
    /\ interrupted' = (ask # "logs" /\ interrupted)

StartWait(until, shows, timed) ==
    /\ client' = [client EXCEPT !.at = "dialing", !.until = until, !.shows = shows]
    /\ timer' = IF timed THEN "armed" ELSE "none"
    /\ UNCHANGED <<conn, server, job, interrupted>>
StartLogs ==
    /\ client' = [client EXCEPT !.at = "dialing", !.ask = "logs", !.until = "follow"]
    /\ UNCHANGED <<conn, server, job, timer, interrupted>>

\* first_dial, and open with the request: reached, or not in time, refused or busy.
Dialed ==
    /\ client.at = "dialing"
    /\ client' = [client EXCEPT !.at = "asked"]
    /\ conn' = [conn EXCEPT ![client.ask] = "open"]
    /\ server' = [server EXCEPT ![client.ask].at = "opening"]
    /\ UNCHANGED <<job, timer, interrupted>>
DialFails ==
    /\ client.at = "dialing" /\ \E status \in {Failed, Busy} : Exits(status)
    /\ UNCHANGED <<conn, server, job, timer>>

Closed == conn' = [conn EXCEPT ![client.ask] = IF @ = "open" THEN "left" ELSE @]

\* What a wait's answer exits with.
Outcome(said, status) == IF said = "text" THEN 0 ELSE IF client.until = "end" THEN status ELSE 1

\* The answer taken, the connection is closed, and what is shown last is asked for.
Answered ==
    /\ client.at = "asked" /\ conn[client.ask] = "open" /\ server[client.ask].said # "nothing"
    /\ LET task == server[client.ask] IN
       CASE client.ask = "wait" /\ client.until = "end" /\ client.shows ->
              Then("logs", Outcome(task.said, task.status))
         [] client.ask = "wait" /\ ~(client.until = "end" /\ client.shows) ->
              Exits(Outcome(task.said, task.status))
         [] client.ask = "jobs" -> Then("logs", client.status)
         [] client.ask = "logs" ->
              Exits(IF client.until = "follow" THEN task.status ELSE client.status)
    /\ Closed /\ UNCHANGED <<server, job, timer>>

\* The connection gone with no answer: refusal, or an error.
Unanswered ==
    /\ client.at = "asked" /\ conn[client.ask] \in {"cut", "refused"}
    /\ Exits(Failed)
    /\ UNCHANGED <<conn, server, job, timer>>

\* ask_until's stop: also while it dials.
Stoppable == client.ask = "wait" /\ client.at \in {"dialing", "asked"}
TimesOut ==
    /\ Stoppable /\ timer = "passed"
    /\ IF client.shows THEN Then("jobs", TimedOut) ELSE Exits(TimedOut)
    /\ Closed /\ UNCHANGED <<server, job, timer>>
\* An interrupt ends a wait, or the logs once they are open; nothing said, the logs exit 0.
Interrupted ==
    /\ interrupted
    /\ \/ Stoppable /\ Exits(Failed)
       \/ client.ask = "logs" /\ client.at = "asked"
          /\ Exits(IF client.until = "follow" THEN 0 ELSE client.status)
    /\ Closed /\ UNCHANGED <<server, job, timer>>

(***************************************************************************)
(* The server: serve, opening, permitted and dispatch.                     *)
(***************************************************************************)
Opens(a) ==
    /\ server[a].at = "opening" /\ conn[a] = "open"
    /\ \/ server' = [server EXCEPT ![a].at = "serving"] /\ UNCHANGED conn
       \/ server' = [server EXCEPT ![a].at = "done"] /\ conn' = [conn EXCEPT ![a] = "refused"]
    /\ UNCHANGED <<client, job, timer, interrupted>>
\* The peer is removed or rescoped: the connection is closed, whatever is served on it.
Revoked(a) ==
    /\ server[a].at \in {"opening", "serving", "found", "lingering"} /\ conn[a] = "open"
    /\ server' = [server EXCEPT ![a].at = "done"] /\ conn' = [conn EXCEPT ![a] = "refused"]
    /\ UNCHANGED <<client, job, timer, interrupted>>

Says(a, said, status) ==
    server' = [server EXCEPT ![a].at = "lingering", ![a].said = said, ![a].status = status]

\* waited: the job's status is read, then its text looked for, then what was read looked at.
Looks(a) ==
    /\ a = "wait" /\ server[a].at = "serving" /\ conn[a] = "open"
    /\ server' = [server EXCEPT ![a].at = "found", ![a].saw = job.exit]
    /\ UNCHANGED <<client, conn, job, timer, interrupted>>
Saw_AfterTheText(a) == job.exit
Saw(a) == server[a].saw
FindsText(a) == server[a].at = "found" /\ client.until = "text" /\ job.text /\ Says(a, "text", 0)
                /\ UNCHANGED <<client, conn, job, timer, interrupted>>
NoText(a) ==
    /\ server[a].at = "found" /\ conn[a] = "open" /\ (client.until = "text" => ~job.text)
    /\ server' = [server EXCEPT ![a].at = "judging"]
    /\ UNCHANGED <<client, conn, job, timer, interrupted>>
Judges(a) ==
    /\ server[a].at = "judging" /\ conn[a] = "open"
    /\ IF Saw(a) # Nothing THEN Says(a, "ended", Saw(a))
       ELSE server' = [server EXCEPT ![a].at = "serving"]
    /\ UNCHANGED <<client, conn, job, timer, interrupted>>

\* The list is answered at once; the logs as they are, or once the job ended if followed.
AnswersList(a) ==
    /\ a = "jobs" /\ server[a].at = "serving" /\ Says(a, "list", Nothing)
    /\ UNCHANGED <<client, conn, job, timer, interrupted>>
EndsLogs(a) ==
    /\ a = "logs" /\ server[a].at = "serving" /\ (client.until = "follow" => job.exit # Nothing)
    /\ Says(a, "log", job.exit)
    /\ UNCHANGED <<client, conn, job, timer, interrupted>>

\* The wait ends with its connection, and linger with the client's close or after its time.
SeesClose(a) ==
    /\ server[a].at \in {"opening", "serving", "found", "judging", "lingering"}
    /\ conn[a] \in {"left", "cut"}
    /\ server' = [server EXCEPT ![a].at = "done"]
    /\ UNCHANGED <<client, conn, job, timer, interrupted>>
LingerPasses(a) ==
    /\ server[a].at = "lingering" /\ conn[a] = "open"
    /\ server' = [server EXCEPT ![a].at = "done"] /\ conn' = [conn EXCEPT ![a] = "cut"]
    /\ UNCHANGED <<client, job, timer, interrupted>>

ServerStep(a) == Opens(a) \/ Looks(a) \/ FindsText(a) \/ NoText(a) \/ Judges(a)
                 \/ AnswersList(a) \/ EndsLogs(a) \/ SeesClose(a)
ClientStep == Dialed \/ DialFails \/ Answered \/ Unanswered \/ TimesOut \/ Interrupted
CommandNext ==
    \/ client.at = "idle" /\ \/ \E until \in {"end", "text"}, shows, timed \in BOOLEAN :
                                  StartWait(until, shows, timed)
                             \/ StartLogs
    \/ ClientStep
    \/ \E a \in Asks : ServerStep(a) \/ Revoked(a) \/ LingerPasses(a) \/ Cut(a)
    \/ JobWrites \/ JobEnds \/ TimePasses \/ Interrupts

\* What must be taken: ClientStep, and ServerStep of each request.

(***************************************************************************)
(* Properties.                                                             *)
(***************************************************************************)
\* What a command exits with is what happened to the job: a status that is the job's, 0 for a text
\* it wrote, 1 for one it ended without, whatever races it (wait, waited, logs).
ExitIsTrue ==
    client.at = "exited" =>
        /\ client.until = "end" /\ client.exit \notin {TimedOut, Failed, Busy} => client.exit = job.exit
        /\ client.until = "text" /\ client.exit = 0 => job.text
        /\ client.until = "text" /\ client.exit = 1 => job.exit # Nothing /\ ~job.text
        /\ client.until = "follow" /\ client.exit \notin {0, Failed, Busy} => client.exit = job.exit
        /\ client.exit = TimedOut => timer = "passed" \/ job.exit = TimedOut

\* A command that ended leaves no connection open (ask_until, logs: "closed either way").
LeavesNoneOpen == client.at = "exited" => \A a \in Asks : conn[a] # "open"

\* A command ends once its job has, its time passed or it was interrupted; and the server's part of
\* it ends with its connection.
IsDue == client.at # "idle" /\ (job.exit # Nothing \/ timer = "passed" \/ interrupted)
IsOver == client.at = "exited"
IsLeft(a) == conn[a] \in {"left", "cut"}
IsServed(a) == server[a].at = "done"
=============================================================================
