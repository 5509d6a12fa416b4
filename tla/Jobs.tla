-------------------------------- MODULE Jobs --------------------------------
(***************************************************************************)
(* Jobs (`koh run`, server/jobs.rs): their table, how one starts, runs and *)
(* ends (server/exec.rs spawn and finish), what the allowlist's watcher    *)
(* and the server's shutdown do to them (server/cli.rs).                   *)
(*                                                                         *)
(* A job is the start that made it.  Its start is a future of a connection *)
(* that waits at one place, for the fork and exec on a blocking worker;    *)
(* there it may be dropped, as its peer is revoked.  What the future does  *)
(* between two waits other threads may interleave with, but not drop.      *)
(*                                                                         *)
(* Abstractions.  A job's log is left out: a process that exited has its   *)
(* output drained in time (Drain).                                         *)
(***************************************************************************)
EXTENDS Naturals, FiniteSets

CONSTANTS
    Peers,        \* client keys
    Scopes,       \* scopes of a key that let it run jobs
    Starts,       \* requests to start a job
    StartPeer,    \* the peer of each
    Names,        \* names of jobs: given, or the next number free to the peer
    MaxJobs,      \* MAX_JOBS
    SignalQueue,  \* signals that may wait for a job
    MaxPublish,   \* bound: changes of the allowlist
    MaxKill,      \* bound: signals sent
    None

ASSUME JobsAssumption ==
    /\ IsFiniteSet(Starts) /\ StartPeer \in [Starts -> Peers]
    /\ MaxJobs \in Nat \ {0} /\ Names # {} /\ Scopes # {}
    /\ None \notin Names \cup Scopes
    /\ SignalQueue \in Nat \ {0} /\ MaxPublish \in Nat /\ MaxKill \in Nat

VARIABLES
    \* the starts
    at,       \* "idle", "asked", "reserved", "counted", "spawning", "failing", "started",
              \* "refused", or "dropped"
    scope,    \* the scope each was admitted with
    spawn,    \* the blocking worker's part of each: "none", "busy", "failed", "spawned"
    \* the jobs
    table,    \* those kept
    name,     \* what each is called
    began,    \* when each was reserved
    status,   \* "none", "running" until it has an exit, "ended"
    stop,     \* those whose token was cancelled
    signals,  \* how many wait for each
    process,  \* "none", "alive", "exited", "gone" (reaped, or hung up and the reaper's)
    \* the server
    counted,  \* TaskTracker: those it waits for
    allowed,  \* the scope the list gives each peer, or None, as published
    toEnd,    \* peers the last change dropped or rescoped, their end not yet asked
    published,
    sent,     \* how many signals were sent
    shutdown, drained

startVars == <<at, scope, spawn>>
jobVars   == <<table, name, began, status, stop, signals, process>>
listVars  == <<allowed, toEnd, published>>
stopVars  == <<shutdown, drained>>
vars == <<startVars, jobVars, counted, listVars, sent, stopVars>>

Init ==
    /\ at = [j \in Starts |-> "idle"] /\ spawn = [j \in Starts |-> "none"]
    /\ scope = [j \in Starts |-> None]
    /\ table = {} /\ name = [j \in Starts |-> None] /\ began = [j \in Starts |-> 0]
    /\ status = [j \in Starts |-> "none"] /\ stop = {} /\ signals = [j \in Starts |-> 0]
    /\ process = [j \in Starts |-> "none"]
    /\ counted = {}
    /\ allowed \in [Peers -> Scopes] /\ toEnd = {} /\ published = 0 /\ sent = 0
    /\ shutdown = FALSE /\ drained = FALSE

(***************************************************************************)
(* The table.  A definition named X_Y beside X is X with a fault: the      *)
(* check of a property must fail with it for X.                            *)
(***************************************************************************)
Ended(jobs) == {k \in jobs : status[k] = "ended"}
Called(j, n, jobs) == {k \in jobs : StartPeer[k] = StartPeer[j] /\ name[k] = n}

\* The name is a running job's.
Taken(j, n, jobs) == Called(j, n, jobs) \ Ended(jobs) # {}

\* What may go to make room.
Evictable(jobs) == Ended(jobs)

Full(jobs) == Cardinality(jobs) >= MaxJobs
Oldest(k, jobs) == k \in jobs /\ \A m \in jobs : began[k] <= began[m]

StartAsked(j) ==
    /\ at[j] = "idle" /\ allowed[StartPeer[j]] # None
    /\ at' = [at EXCEPT ![j] = "asked"]
    /\ scope' = [scope EXCEPT ![j] = allowed[StartPeer[j]]]
    /\ UNCHANGED <<spawn, jobVars, counted, listVars, sent, stopVars>>

\* Jobs::reserve, under the table's lock: those ended for the TTL go first, then an ended job of the
\* name, then the oldest ended if there is no room.
Reserve(j) ==
    /\ at[j] = "asked"
    /\ \E expired \in SUBSET Ended(table), n \in Names :
        LET kept == table \ expired
            rest == kept \ Called(j, n, kept)
        IN
        \/ /\ Taken(j, n, kept)
           /\ table' = kept
           /\ at' = [at EXCEPT ![j] = "refused"]
           /\ UNCHANGED <<name, began, status>>
        \/ /\ ~Taken(j, n, kept)
           /\ Full(rest) /\ Evictable(rest) = {}
           /\ table' = rest
           /\ at' = [at EXCEPT ![j] = "refused"]
           /\ UNCHANGED <<name, began, status>>
        \/ /\ ~Taken(j, n, kept)
           /\ \/ ~Full(rest) /\ table' = rest \cup {j}
              \/ /\ Full(rest)
                 /\ \E k \in Evictable(rest) :
                     Oldest(k, Evictable(rest)) /\ table' = (rest \ {k}) \cup {j}
           /\ at' = [at EXCEPT ![j] = "reserved"]
           /\ name' = [name EXCEPT ![j] = n]
           /\ began' = [began EXCEPT ![j] = Cardinality({k \in Starts : began[k] # 0}) + 1]
           /\ status' = [status EXCEPT ![j] = "running"]
    /\ UNCHANGED <<scope, spawn, stop, signals, process, counted, listVars, sent, stopVars>>

Counts_LetGoAtOnce == FALSE

\* spawn takes its token before it looks whether the server stops, and holds it.
Counts == TRUE
StartCounts(j) ==
    /\ at[j] = "reserved"
    /\ counted' = IF Counts THEN counted \cup {j} ELSE counted
    /\ at' = [at EXCEPT ![j] = "counted"]
    /\ UNCHANGED <<scope, spawn, jobVars, listVars, sent, stopVars>>

StartFails(j) ==
    /\ status' = [status EXCEPT ![j] = "ended"]
    /\ at' = [at EXCEPT ![j] = "failing"]

StartIsLate(j) ==
    /\ at[j] = "counted" /\ shutdown
    /\ StartFails(j)
    /\ counted' = counted \ {j}
    /\ UNCHANGED <<scope, spawn, table, name, began, stop, signals, process, listVars, sent, stopVars>>

StartSpawns(j) ==
    /\ at[j] = "counted" /\ ~shutdown
    /\ at' = [at EXCEPT ![j] = "spawning"]
    /\ spawn' = [spawn EXCEPT ![j] = "busy"]
    /\ UNCHANGED <<scope, jobVars, counted, listVars, sent, stopVars>>

(***************************************************************************)
(* The blocking worker forks and execs, whatever became of the future that *)
(* waits for it.  What it spawned for one that was dropped is dropped, and *)
(* so hung up.                                                             *)
(***************************************************************************)
WorkerSpawns(j) ==
    /\ spawn[j] = "busy"
    /\ spawn' = [spawn EXCEPT ![j] = "spawned"]
    /\ IF at[j] = "dropped"
       THEN process' = [process EXCEPT ![j] = "gone"] /\ counted' = counted \ {j}
       ELSE process' = [process EXCEPT ![j] = "alive"] /\ counted' = counted
    /\ UNCHANGED <<at, scope, table, name, began, status, stop, signals, listVars, sent, stopVars>>

WorkerFails(j) ==
    /\ spawn[j] = "busy"
    /\ spawn' = [spawn EXCEPT ![j] = "failed"]
    /\ counted' = counted \ {j}
    /\ UNCHANGED <<at, scope, jobVars, listVars, sent, stopVars>>

\* Its process runs, and a task with it (runner).
StartDone(j) ==
    /\ at[j] = "spawning" /\ spawn[j] = "spawned"
    /\ at' = [at EXCEPT ![j] = "started"]
    /\ UNCHANGED <<scope, spawn, jobVars, counted, listVars, sent, stopVars>>

StartFailed(j) ==
    /\ at[j] = "spawning" /\ spawn[j] = "failed"
    /\ StartFails(j)
    /\ UNCHANGED <<scope, spawn, table, name, began, stop, signals, process, counted, listVars, sent,
                   stopVars>>

Forgotten_ByName(j) == Called(j, name[j], table)

\* Arc::ptr_eq: the name may be a newer job's by now.
Forgotten(j) == {j}

StartForgets(j) ==
    /\ at[j] = "failing"
    /\ table' = table \ Forgotten(j)
    /\ at' = [at EXCEPT ![j] = "refused"]
    /\ UNCHANGED <<scope, spawn, name, began, status, stop, signals, process, counted, listVars, sent,
                   stopVars>>

\* Gate::serve drops the connection's future: its peer is no longer allowed, or
\* its scope changed.
StartDropped(j) ==
    /\ at[j] \in {"asked", "spawning"} /\ allowed[StartPeer[j]] # scope[j]
    /\ at' = [at EXCEPT ![j] = "dropped"]
    /\ IF spawn[j] = "spawned"
       THEN process' = [process EXCEPT ![j] = "gone"] /\ counted' = counted \ {j}
       ELSE UNCHANGED <<process, counted>>
    /\ UNCHANGED <<scope, spawn, table, name, began, status, stop, signals, listVars, sent, stopVars>>

(***************************************************************************)
(* A job as it runs: its task (runner, finish) and its process.            *)
(***************************************************************************)
\* Job.stop is cancelled, or the server's token it is a child of.
Stopped(j) == j \in stop \/ shutdown

\* finish has waited for what ends it: its process exited, or it is stopped.
ToldToEnd(j) == process[j] = "exited" \/ Stopped(j)

Runs(j) == at[j] = "started" /\ status[j] = "running"

ProcessExits(j) ==
    /\ process[j] = "alive"
    /\ process' = [process EXCEPT ![j] = "exited"]
    /\ UNCHANGED <<startVars, table, name, began, status, stop, signals, counted, listVars, sent,
                   stopVars>>

\* Reaped, its output drained; or stopped: dropped, and so hung up.
RunnerEnds(j) ==
    /\ Runs(j)
    /\ ToldToEnd(j)
    /\ process' = [process EXCEPT ![j] = "gone"]
    /\ status' = [status EXCEPT ![j] = "ended"]
    /\ counted' = counted \ {j}
    /\ UNCHANGED <<startVars, table, name, began, stop, signals, listVars, sent, stopVars>>

\* It may end of it.
RunnerSignals(j) ==
    /\ Runs(j) /\ signals[j] > 0
    /\ signals' = [signals EXCEPT ![j] = @ - 1]
    /\ \/ UNCHANGED process
       \/ process[j] = "alive" /\ process' = [process EXCEPT ![j] = "exited"]
    /\ UNCHANGED <<startVars, table, name, began, status, stop, counted, listVars, sent, stopVars>>

\* Jobs::kill, of a job that may not have started yet; past the queue it fails.
Kill(j) ==
    /\ j \in table /\ status[j] = "running" /\ allowed[StartPeer[j]] # None
    /\ signals[j] < SignalQueue /\ sent < MaxKill
    /\ signals' = [signals EXCEPT ![j] = @ + 1]
    /\ sent' = sent + 1
    /\ UNCHANGED <<startVars, table, name, began, status, stop, process, counted, listVars,
                   stopVars>>

(***************************************************************************)
(* The watcher of the allowlist, and the server's shutdown.                *)
(***************************************************************************)
\* A change is published, then the jobs of those it drops or rescopes end.
WatcherPublishes ==
    /\ toEnd = {} /\ published < MaxPublish
    /\ published' = published + 1
    /\ allowed' \in [Peers -> Scopes \cup {None}] \ {allowed}
    /\ toEnd' = {p \in Peers : allowed[p] # None /\ allowed'[p] # allowed[p]}
    /\ UNCHANGED <<startVars, jobVars, counted, sent, stopVars>>

\* Jobs::end
JobsOf(p) == {j \in table : StartPeer[j] = p}
WatcherEnds(p) ==
    /\ p \in toEnd
    /\ toEnd' = toEnd \ {p}
    /\ table' = table \ JobsOf(p)
    /\ stop' = stop \cup JobsOf(p)
    /\ UNCHANGED <<startVars, name, began, status, signals, process, counted, allowed, published,
                   sent, stopVars>>

Shutdown ==
    /\ ~shutdown
    /\ shutdown' = TRUE
    /\ UNCHANGED <<startVars, jobVars, counted, listVars, sent, drained>>

\* serve_endpoint, Host.running: nothing it counts is left.
ShutdownDrained ==
    /\ shutdown /\ ~drained /\ counted = {}
    /\ drained' = TRUE
    /\ UNCHANGED <<startVars, jobVars, counted, listVars, sent, shutdown>>

(***************************************************************************)
(* The specification.  Futures, workers and runners go on.  A process need *)
(* not exit: it is killed only as it is hung up.                           *)
(***************************************************************************)
Start(j) ==
    \/ Reserve(j) \/ StartCounts(j) \/ StartIsLate(j) \/ StartSpawns(j) \/ StartDone(j)
    \/ StartFailed(j) \/ StartForgets(j)
Worker(j) == WorkerSpawns(j) \/ WorkerFails(j)
Next ==
    \/ \E j \in Starts :
        \/ StartAsked(j) \/ Start(j) \/ StartDropped(j) \/ Worker(j)
        \/ ProcessExits(j) \/ RunnerEnds(j) \/ RunnerSignals(j) \/ Kill(j)
    \/ WatcherPublishes
    \/ \E p \in Peers : WatcherEnds(p)
    \/ Shutdown \/ ShutdownDrained

Spec == Init /\ [][Next]_vars

Fairness ==
    /\ \A j \in Starts : WF_vars(Start(j)) /\ WF_vars(Worker(j)) /\ WF_vars(RunnerEnds(j))
    /\ WF_vars(ShutdownDrained)
FairSpec == Spec /\ Fairness

(***************************************************************************)
(* Correctness.                                                            *)
(***************************************************************************)
TypeOK ==
    /\ at \in [Starts -> {"idle", "asked", "reserved", "counted", "spawning", "failing", "started",
                          "refused", "dropped"}]
    /\ scope \in [Starts -> Scopes \cup {None}]
    /\ spawn \in [Starts -> {"none", "busy", "failed", "spawned"}]
    /\ table \subseteq Starts /\ Cardinality(table) <= MaxJobs
    /\ name \in [Starts -> Names \cup {None}] /\ began \in [Starts -> Nat]
    /\ status \in [Starts -> {"none", "running", "ended"}]
    /\ stop \subseteq Starts /\ signals \in [Starts -> 0..SignalQueue]
    /\ process \in [Starts -> {"none", "alive", "exited", "gone"}]
    /\ counted \subseteq Starts
    /\ allowed \in [Peers -> Scopes \cup {None}] /\ toEnd \subseteq Peers
    /\ published \in 0..MaxPublish /\ sent \in 0..MaxKill
    /\ shutdown \in BOOLEAN /\ drained \in BOOLEAN

\* A job keeps its name and its place while it runs: room is made of ended ones alone, and a start
\* that failed takes no newer job of its name with it (Arc::ptr_eq in Jobs::start).
RunningKeepsItsPlace ==
    [][\A j \in table : status[j] = "running" => j \in table' \/ j \in stop']_vars

\* Of a peer's jobs by one name, one runs that was not told to stop: `koh kill` and `koh logs` mean
\* that one.
Alive(j) == process[j] \in {"alive", "exited"}
OneOfAName ==
    \A j, k \in Starts :
        Alive(j) /\ Alive(k) /\ StartPeer[j] = StartPeer[k] /\ name[j] = name[k]
            => j = k \/ j \in stop \/ k \in stop

\* Once the shutdown has waited for what is counted, no job's process is left to it, nor comes to
\* be (spawn: "counted first").
DrainedOfProcesses == drained => \A j \in Starts : ~Alive(j) /\ spawn[j] # "busy"

\* Processes and the table agree: a name's job is one, and none outlives the wait for what is
\* counted (Jobs::reserve, spawn).
TableIsTrue == TypeOK /\ OneOfAName /\ DrainedOfProcesses

\* A job its peer's removal or the shutdown stops does end: its process is hung up.
StoppedJobsEnd == \A j \in Starts : Alive(j) /\ Stopped(j) ~> ~Alive(j)

\* A shutdown is not kept waiting by a job, whatever it runs.
ShutdownEnds == shutdown ~> drained

\* A job has its place as long as it runs, and runs no longer than it may (Jobs::start, runner).
RunsAsLongAsItMay == RunningKeepsItsPlace /\ StoppedJobsEnd /\ ShutdownEnds

\* A job that is said to run does, or is being started, its peer's end being over: only then does it
\* keep its name and its place among MAX_JOBS no longer than "until it exits, is signalled, its peer
\* is removed from the allowlist, or the server stops" (jobs.rs).  Not so (README, Findings).
RunningIsRun ==
    \A j \in table :
        status[j] = "running" /\ StartPeer[j] \notin toEnd
            => at[j] \in {"reserved", "counted", "spawning", "started"}
=============================================================================
