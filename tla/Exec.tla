--------------------------------- MODULE Exec ---------------------------------
(***************************************************************************)
(* A command run on a connection: koh exec at the server (server/exec.rs   *)
(* serve, finish, Drain, pump, feed) and at the client (client/exec.rs).   *)
(*                                                                         *)
(* External: a pipe and a QUIC stream keep order and hold back a writer    *)
(* past their room; a pipe ends once no process holds it.                  *)
(***************************************************************************)
EXTENDS Naturals, Sequences

CONSTANTS
    Streams,    \* ExecStream: its stdout and stderr, or one for both (together)
    Room,       \* bytes a pipe and a stream hold
    MaxWritten, \* bound: bytes the command writes, and as many the job it leaves behind
    MaxStdin    \* bound: chunks of local stdin

VARIABLES
    command,    \* "starts", "unstarted", "runs", "exited", "reaped", "hungUp"
    left,       \* a job it left in the background holds its pipes
    wrote,      \* of each stream: what the command itself wrote
    extra,      \* what the job left behind wrote
    pipe, sent, \* of each stream: in the pipe, and on its way to the client; what the command wrote is
                \* numbered, and what the job wrote is 0
    pump,       \* of each stream: "open", or "done" once finished
    exited,     \* the watch: its pumps are told
    ended,      \* finish saw the pumps end
    status,     \* "none", "sent"
    link,       \* "up", "closed" by the client, "lost", or "down" (the server stops)
    got,        \* of each stream: what its user was given
    client,     \* "copies", or its exit: "status", "broken", "interrupted", "cutOff"
    stdin       \* [local, fed, pipe, open, stopped]

execVars == <<command, left, wrote, extra, pipe, sent, pump, exited, ended, status, link, got, client, stdin>>
server == <<command, left, pump, exited, ended, status>>
data == <<wrote, extra, pipe, sent, got, stdin>>

ExecInit ==
    /\ command = "starts" /\ left = FALSE /\ exited = FALSE /\ ended = FALSE /\ status = "none"
    /\ wrote = [s \in Streams |-> 0] /\ extra = 0
    /\ pipe = [s \in Streams |-> <<>>] /\ sent = [s \in Streams |-> <<>>]
    /\ pump = [s \in Streams |-> "open"] /\ link = "up"
    /\ got = [s \in Streams |-> <<>>] /\ client = "copies"
    /\ stdin = [local |-> 0, fed |-> 0, pipe |-> 0, open |-> TRUE, stopped |-> FALSE]

\* spawn, or why it did not start, with its streams ended.
Started ==
    /\ command = "starts" /\ link = "up"
    /\ \/ command' = "runs" /\ UNCHANGED <<pump, ended>>
       \/ command' = "unstarted" /\ pump' = [s \in Streams |-> "done"] /\ ended' = TRUE
    /\ UNCHANGED <<left, exited, status, link, client, data>>

\* External: the command, and a job it leaves behind.
Writes(s) ==
    /\ command = "runs" /\ wrote[s] < MaxWritten /\ Len(pipe[s]) < Room
    /\ pipe' = [pipe EXCEPT ![s] = Append(@, wrote[s] + 1)] /\ wrote' = [wrote EXCEPT ![s] = @ + 1]
    /\ UNCHANGED <<extra, sent, got, stdin, link, client, server>>
JobWrites(s) ==
    /\ left /\ extra < MaxWritten /\ Len(pipe[s]) < Room
    /\ pipe' = [pipe EXCEPT ![s] = Append(@, 0)] /\ extra' = extra + 1
    /\ UNCHANGED <<wrote, sent, got, stdin, link, client, server>>
Leaves ==
    /\ command = "runs" /\ ~left /\ left' = TRUE
    /\ UNCHANGED <<command, pump, exited, ended, status, link, client, data>>
JobEnds ==
    /\ left /\ left' = FALSE
    /\ UNCHANGED <<command, pump, exited, ended, status, link, client, data>>
Exits ==
    /\ command = "runs" /\ command' = "exited"
    /\ UNCHANGED <<left, pump, exited, ended, status, link, client, data>>
Held == left \/ command = "runs"

Serving == link = "up" /\ command \in {"runs", "exited", "reaped"} /\ status = "none"

\* Drain and pump: what the pipe holds, then its end; or, once it exited, its quiet for DRAINED.
Pumps(s) ==
    /\ Serving /\ pump[s] = "open" /\ pipe[s] # <<>> /\ Len(sent[s]) < Room
    /\ pipe' = [pipe EXCEPT ![s] = Tail(@)] /\ sent' = [sent EXCEPT ![s] = Append(@, Head(pipe[s]))]
    /\ UNCHANGED <<wrote, extra, got, stdin, link, client, server>>
Quiet_OnceExited(s) == exited
Quiet(s) == pipe[s] = <<>> /\ (~Held \/ exited)
PumpEnds(s) ==
    /\ Serving /\ pump[s] = "open" /\ Quiet(s)
    /\ pump' = [pump EXCEPT ![s] = "done"]
    /\ UNCHANGED <<command, left, exited, ended, status, link, client, data>>

\* finish: the arms of its select!.
OutputEnds ==
    /\ Serving /\ ~ended /\ \A s \in Streams : pump[s] = "done"
    /\ ended' = TRUE
    /\ UNCHANGED <<command, left, pump, exited, status, link, client, data>>
Reaps ==
    /\ command = "exited" /\ command' = "reaped" /\ exited' = TRUE
    /\ UNCHANGED <<left, pump, ended, status, link, client, data>>
Stops_Never == FALSE
Stops == link # "up"
HangsUp ==
    /\ Stops /\ command \in {"starts", "runs", "exited"}
    /\ command' = "hungUp"
    /\ UNCHANGED <<left, pump, exited, ended, status, link, client, data>>

\* Its status, once both came.
Both == command = "reaped" /\ ended
SendStatus ==
    /\ link = "up" /\ status = "none" /\ (Both \/ command = "unstarted")
    /\ status' = "sent"
    /\ UNCHANGED <<command, left, pump, exited, ended, link, client, data>>

\* feed, at both ends: apart from the output.
ReadsStdin ==
    /\ client = "copies" /\ link = "up" /\ stdin.local < MaxStdin /\ stdin.open /\ ~stdin.stopped
    /\ stdin.local - stdin.fed < Room
    /\ stdin' = [stdin EXCEPT !.local = @ + 1]
    /\ UNCHANGED <<wrote, extra, pipe, sent, got, link, client, server>>
StdinEnds ==
    /\ client = "copies" /\ stdin.open /\ stdin' = [stdin EXCEPT !.open = FALSE]
    /\ UNCHANGED <<wrote, extra, pipe, sent, got, link, client, server>>
Feeds ==
    /\ Serving /\ ~ended /\ stdin.fed < stdin.local
    /\ IF command = "runs" THEN stdin.pipe < Room /\ stdin' = [stdin EXCEPT !.fed = @ + 1, !.pipe = @ + 1]
       ELSE ~stdin.stopped /\ stdin' = [stdin EXCEPT !.stopped = TRUE]
    /\ UNCHANGED <<wrote, extra, pipe, sent, got, link, client, server>>
CommandReads ==
    /\ command = "runs" /\ stdin.pipe > 0 /\ stdin' = [stdin EXCEPT !.pipe = @ - 1]
    /\ UNCHANGED <<wrote, extra, pipe, sent, got, link, client, server>>

\* The client: output and drive.
Copies(s) ==
    /\ client = "copies" /\ sent[s] # <<>>
    /\ got' = [got EXCEPT ![s] = Append(@, Head(sent[s]))] /\ sent' = [sent EXCEPT ![s] = Tail(@)]
    /\ UNCHANGED <<wrote, extra, pipe, stdin, link, client, server>>
StreamsEnd == \A s \in Streams : pump[s] = "done" /\ sent[s] = <<>>
TakesStatus ==
    /\ client = "copies" /\ status = "sent" /\ StreamsEnd
    /\ client' = "status" /\ link' = IF link = "up" THEN "closed" ELSE link
    /\ UNCHANGED <<server, data>>
ClientStops ==
    /\ client = "copies"
    /\ \/ client' = "interrupted"
       \/ client' = "broken" /\ \E s \in Streams : sent[s] # <<>>
    /\ link' = IF link = "up" THEN "closed" ELSE link
    /\ UNCHANGED <<server, data>>
LinkEnds ==
    /\ link = "up" /\ link' \in {"lost", "down"} /\ UNCHANGED <<client, server, data>>
CutOff ==
    /\ client = "copies" /\ link \in {"lost", "down"} /\ client' = "cutOff"
    /\ UNCHANGED <<link, server, data>>

ExecNext ==
    \/ Started \/ Leaves \/ JobEnds \/ Exits \/ OutputEnds \/ Reaps \/ HangsUp \/ SendStatus
    \/ ReadsStdin \/ StdinEnds \/ Feeds \/ CommandReads
    \/ TakesStatus \/ ClientStops \/ LinkEnds \/ CutOff
    \/ \E s \in Streams : Writes(s) \/ JobWrites(s) \/ Pumps(s) \/ PumpEnds(s) \/ Copies(s)

\* What must be taken: the tasks of both ends run.  Nothing is assumed of the command, the job it
\* leaves, its user's stdin, the link or the user.
Goes == Started \/ OutputEnds \/ Reaps \/ HangsUp \/ SendStatus \/ TakesStatus \/ CutOff
        \/ \E s \in Streams : Pumps(s) \/ PumpEnds(s) \/ Copies(s)

\* Of what a stream carries, all that the command wrote of it, once and in its order.
InOrder(bytes) == \A i, j \in DOMAIN bytes : i < j /\ bytes[i] # 0 /\ bytes[j] # 0 => bytes[i] < bytes[j]
HasAll(bytes, n) == \A m \in 1..n : \E i \in DOMAIN bytes : bytes[i] = m

\* An exit status is all of it: its user was given everything the command wrote first, on both
\* streams, whatever a job it left behind holds or writes (Drain, finish, the client's output).
StatusAfterOutput ==
    client = "status" =>
        \/ command = "unstarted"
        \/ command = "reaped" /\ \A s \in Streams : InOrder(got[s]) /\ HasAll(got[s], wrote[s])

\* A command whose client is gone is hung up, and one that exited is said to have, though a job
\* it left holds its pipes and nothing reads its stdin.
IsLeft == link # "up"
IsOver == command \notin {"starts", "runs", "exited"}
HasExited == command = "exited"
IsKnown == client # "copies" \/ link # "up"
===============================================================================
