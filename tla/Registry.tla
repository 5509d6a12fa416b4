------------------------------ MODULE Registry ------------------------------
(***************************************************************************)
(* The registry of sessions: its task (Registry, registry_task, Sessions), *)
(* the attach calls of connections, the sessions as far as the registry    *)
(* knows them, and the watcher of the allowlist, which ends the sessions   *)
(* of a peer it drops (cli.rs).                                            *)
(*                                                                         *)
(* The registry never waits on a session: an attach is put in a session's  *)
(* control channel, which may close at any moment.  Its answer comes from  *)
(* the session.  An attach dropped unanswered is tried again.              *)
(*                                                                         *)
(* Abstractions.  What a session does beside its control channel is module *)
(* Session.  A peer is allowed if the list gives it the full scope.        *)
(***************************************************************************)
EXTENDS Naturals, Sequences, FiniteSets

CONSTANTS
    Peers,         \* client keys
    Calls,         \* calls of Registry::attach, a connection each
    CallPeer,      \* the peer of each
    MayPick,       \* what each may pick
    MaxNumber,     \* bound on the numbers of sessions
    MaxSessions,   \* SessionSpec.max_sessions
    MaxPublish,    \* bound: changes of the allowlist
    ControlQueue,  \* CONTROL_QUEUE
    RequestQueue,  \* the registry's channel
    AttachTries,   \* ATTACH_TRIES
    None

ASSUME RegistryAssumption ==
    /\ IsFiniteSet(Calls) /\ MaxNumber \in Nat /\ Cardinality(Calls) <= MaxNumber
    /\ CallPeer \in [Calls -> Peers]
    /\ MayPick \in [Calls -> SUBSET ([by : {"latest", "new", "stale"}, n : {0}]
                                       \cup [by : {"id"}, n : 1..MaxNumber])]
    /\ MaxSessions \in Nat \ {0} /\ MaxPublish \in Nat
    /\ ControlQueue \in Nat \ {0} /\ RequestQueue \in Nat \ {0} /\ AttachTries \in Nat \ {0}
    /\ None \notin Peers \cup Calls \cup 1..MaxNumber

VARIABLES
    \* the allowlist
    allowed,    \* the peers it gives everything, as published
    toEnd,      \* peers the last change dropped or rescoped, their end not yet asked
    published,  \* how many changes there were
    \* the attach calls
    pick,       \* the session each asks for
    at,         \* "idle", "admitted", "waiting", "dropped" (to be tried again), "answered", "gone"
    tries,      \* how often each was sent
    answer,     \* what each was told: a session's number, or a Close
    \* the registry
    queue,      \* its channel: attaches and ends
    reg,        \* what it is at
    live,       \* the sessions of its table
    last,       \* the number the last session took
    attaches,   \* how many attaches went to a session
    attached,   \* when one last went to each session
    shutdown,   \* its token
    \* the sessions
    stage,      \* "none", "spawning", "running", "closing" (its control channel closed), "done"
    owner,      \* the peer of each
    first,      \* the call that each was started for
    control     \* the control channel of each

listVars    == <<allowed, toEnd, published>>
callVars    == <<pick, at, tries, answer>>
tableVars   == <<live, last, attaches, attached>>
sessionVars == <<stage, owner, first, control>>
vars == <<listVars, callVars, queue, reg, tableVars, shutdown, sessionVars>>

Numbers  == 1..MaxNumber  \* a call starts one session at most
Picks    == [by : {"latest", "new", "stale"}, n : {0}]  \* stale: of another run of the server
              \cup [by : {"id"}, n : Numbers]
Answers  == [is : {"none", "NotAuthorized", "NoSuchSession", "AtCapacity", "CouldNotStart"}, n : {0}]
              \cup [is : {"session"}, n : Numbers]
Requests == [attach : Calls] \cup [end : Peers]
Idle     == [at |-> "idle"]
Close(why) == [is |-> why, n |-> 0]
Session(n) == [is |-> "session", n |-> n]
Down     == reg.at = "down"

Open(n) == stage[n] \in {"spawning", "running"}  \* its control channel is open
InSeq(s) == {s[k] : k \in 1..Len(s)}

Init ==
    /\ allowed \in SUBSET Peers /\ toEnd = {} /\ published = 0
    /\ pick = [c \in Calls |-> [by |-> "latest", n |-> 0]] /\ at = [c \in Calls |-> "idle"]
    /\ tries = [c \in Calls |-> 0] /\ answer = [c \in Calls |-> Close("none")]
    /\ queue = <<>> /\ reg = Idle /\ shutdown = FALSE
    /\ live = {} /\ last = 0 /\ attaches = 0 /\ attached = [n \in Numbers |-> 0]
    /\ stage = [n \in Numbers |-> "none"] /\ owner = [n \in Numbers |-> None]
    /\ first = [n \in Numbers |-> None] /\ control = [n \in Numbers |-> <<>>]

(***************************************************************************)
(* Answers.  A call that waits hears one, or that its reply was dropped; a *)
(* connection that is gone hears nothing.  A definition named X_Y beside X *)
(* is X with a fault: the check of a property must fail with it for X.     *)
(***************************************************************************)
AtAfter(dropped, told) ==
    at' = [c \in Calls |->
            IF at[c] # "waiting" THEN at[c]
            ELSE IF c \in told THEN "answered"
            ELSE IF c \in dropped THEN "dropped" ELSE "waiting"]

Dropped(calls) == AtAfter(calls, {}) /\ UNCHANGED answer

Told(c, what) ==
    /\ AtAfter({}, {c})
    /\ answer' = [answer EXCEPT ![c] = IF at[c] = "waiting" THEN what ELSE @]

\* The table becomes `kept`.  A channel whose session closed it and whose sender goes is freed, with
\* what is in it.
Freed(kept) == {n \in live \ kept : ~Open(n)}
Keep(kept) ==
    /\ live' = kept
    /\ control' = [n \in Numbers |-> IF n \in Freed(kept) THEN <<>> ELSE control[n]]
    /\ Dropped(UNION {InSeq(control[n]) : n \in Freed(kept)})

Retained == {n \in live : Open(n)}

QueueRoom_OneMore == Len(queue) <= RequestQueue

\* A request waits for room in the registry's channel.
QueueRoom == Len(queue) < RequestQueue

(***************************************************************************)
(* A connection's attach call.                                             *)
(***************************************************************************)
\* Its peer was on the list as it was admitted.
CallAdmitted(c) ==
    /\ at[c] = "idle" /\ CallPeer[c] \in allowed
    /\ \E k \in MayPick[c] : pick' = [pick EXCEPT ![c] = k]
    /\ at' = [at EXCEPT ![c] = "admitted"]
    /\ UNCHANGED <<listVars, tries, answer, queue, reg, tableVars, shutdown, sessionVars>>

CallSends(c) ==
    /\ at[c] \in {"admitted", "dropped"} /\ tries[c] < AttachTries
    /\ ~Down /\ QueueRoom
    /\ queue' = Append(queue, [attach |-> c])
    /\ at' = [at EXCEPT ![c] = "waiting"]
    /\ tries' = [tries EXCEPT ![c] = @ + 1]
    /\ UNCHANGED <<listVars, pick, answer, reg, tableVars, shutdown, sessionVars>>

\* The registry is gone, or the tries are over.
CallGivesUp(c) ==
    /\ at[c] \in {"admitted", "dropped"}
    /\ Down \/ tries[c] = AttachTries
    /\ at' = [at EXCEPT ![c] = "answered"]
    /\ answer' = [answer EXCEPT ![c] = Close("CouldNotStart")]
    /\ UNCHANGED <<listVars, pick, tries, queue, reg, tableVars, shutdown, sessionVars>>

\* Gate::serve drops it: its peer is no longer allowed.
CallRevoked(c) ==
    /\ at[c] \in {"admitted", "waiting", "dropped"} /\ CallPeer[c] \notin allowed
    /\ at' = [at EXCEPT ![c] = "gone"]
    /\ UNCHANGED <<listVars, pick, tries, answer, queue, reg, tableVars, shutdown, sessionVars>>

(***************************************************************************)
(* The watcher of the allowlist (watch_allowlist).                         *)
(***************************************************************************)
\* A change is published first.  It drops peers, or rescopes them; one that had less before is
\* ended too.
WatcherPublishes ==
    /\ toEnd = {} /\ published < MaxPublish
    /\ published' = published + 1
    /\ allowed' \in (SUBSET Peers) \ {allowed}
    /\ \E more \in SUBSET (allowed' \ allowed) : toEnd' = (allowed \ allowed') \cup more
    /\ UNCHANGED <<callVars, queue, reg, tableVars, shutdown, sessionVars>>

\* Registry::end, of each of them in turn: the registry is down, or is asked.
WatcherEnds(p) ==
    /\ p \in toEnd
    /\ \/ Down /\ UNCHANGED queue
       \/ ~Down /\ QueueRoom /\ queue' = Append(queue, [end |-> p])
    /\ toEnd' = toEnd \ {p}
    /\ UNCHANGED <<allowed, published, callVars, reg, tableVars, shutdown, sessionVars>>

(***************************************************************************)
(* The registry's task: one request at a time, a shutdown before it.       *)
(***************************************************************************)
NextAttach == reg = Idle /\ ~shutdown /\ queue # <<>> /\ "attach" \in DOMAIN Head(queue)
NextEnd    == reg = Idle /\ ~shutdown /\ queue # <<>> /\ "end" \in DOMAIN Head(queue)

Allows_Anyone(p) == TRUE

\* `allows`, asked as the attach is taken.
Allows(p) == p \in allowed

RegistryTakes ==
    /\ NextAttach
    /\ queue' = Tail(queue)
    /\ LET c == Head(queue).attach IN
       IF Allows(CallPeer[c])
       THEN reg' = [at |-> "choosing", call |-> c] /\ UNCHANGED <<at, answer>>
       ELSE reg' = reg /\ Told(c, Close("NotAuthorized"))
    /\ UNCHANGED <<listVars, pick, tries, tableVars, shutdown, sessionVars>>

OwnedBy(p, kept) == {n \in kept : owner[n] = p}

Named_AnyPeers(c, kept) == pick[c].n \in kept

\* A number picked is one of the peer's sessions.
Named(c, kept) == pick[c].n \in OwnedBy(CallPeer[c], kept)

\* Sessions whose channel closed are forgotten; then which session the pick names.
RegistryChooses ==
    /\ reg.at = "choosing"
    /\ LET c == reg.call
           mine == OwnedBy(CallPeer[c], Retained)
           hands(n) == /\ reg' = [at |-> "handing", call |-> c, named |-> n]
                       /\ Keep(Retained)
       IN \/ pick[c].by = "new" /\ hands(None)
          \/ pick[c].by = "latest" /\ mine = {} /\ hands(None)
          \/ /\ pick[c].by = "latest"
             /\ \E n \in mine : (\A m \in mine : attached[m] <= attached[n]) /\ hands(n)
          \/ pick[c].by = "id" /\ Named(c, Retained) /\ hands(pick[c].n)
          \/ /\ pick[c].by = "stale" \/ (pick[c].by = "id" /\ ~Named(c, Retained))
             /\ reg' = Idle
             /\ live' = Retained
             /\ LET freed == Freed(Retained) IN
                /\ control' = [n \in Numbers |-> IF n \in freed THEN <<>> ELSE control[n]]
                /\ AtAfter(UNION {InSeq(control[n]) : n \in freed}, {c})
             /\ answer' = [answer EXCEPT ![c] = IF at[c] = "waiting" THEN Close("NoSuchSession") ELSE @]
    /\ UNCHANGED <<listVars, pick, tries, queue, last, attaches, attached, shutdown, stage, owner,
                   first>>

HasRoom(n) == Len(control[n]) < ControlQueue

\* The attach goes into the named session's channel; even into one that closed as it was sent, where
\* it stays until the session is forgotten.
RegistryHands ==
    /\ reg.at = "handing" /\ reg.named # None
    /\ HasRoom(reg.named)
    /\ control' = [control EXCEPT ![reg.named] = Append(@, reg.call)]
    /\ attaches' = attaches + 1
    /\ attached' = [attached EXCEPT ![reg.named] = attaches']
    /\ reg' = Idle
    /\ UNCHANGED <<listVars, callVars, queue, live, last, shutdown, stage, owner, first>>

InItsPlace_OfAny(c) == TRUE

\* The named session ended a moment ago: the latest gets a new one in its place.
InItsPlace(c) == pick[c].by = "latest"

\* Its channel is full; or closed, and it was asked for by number.
RegistryRefuses ==
    /\ reg.at = "handing" /\ reg.named # None
    /\ \/ Open(reg.named) /\ ~HasRoom(reg.named)
          /\ Told(reg.call, Close("AtCapacity"))
       \/ ~Open(reg.named) /\ ~InItsPlace(reg.call) /\ Told(reg.call, Close("NoSuchSession"))
    /\ reg' = Idle
    /\ UNCHANGED <<listVars, pick, tries, queue, tableVars, shutdown, sessionVars>>

AtCap_PastIt == Cardinality(live) > MaxSessions

\* The sessions of all peers are as many as may be.
AtCap == Cardinality(live) >= MaxSessions

NamedClosed == reg.at = "handing" /\ reg.named # None /\ ~Open(reg.named)
StartsNew ==
    reg.at = "handing" /\ (reg.named = None \/ (NamedClosed /\ InItsPlace(reg.call)))

RegistryHasNoRoom ==
    /\ StartsNew /\ AtCap
    /\ Told(reg.call, Close("AtCapacity"))
    /\ reg' = Idle
    /\ UNCHANGED <<listVars, pick, tries, queue, tableVars, shutdown, sessionVars>>

RegistryStarts ==
    /\ StartsNew /\ ~AtCap /\ last < MaxNumber
    /\ LET n == last + 1 IN
       /\ last' = n
       /\ attaches' = attaches + 1
       /\ attached' = [attached EXCEPT ![n] = attaches']
       /\ live' = live \cup {n}
       /\ stage' = [stage EXCEPT ![n] = "spawning"]
       /\ owner' = [owner EXCEPT ![n] = CallPeer[reg.call]]
       /\ first' = [first EXCEPT ![n] = reg.call]
    /\ reg' = Idle
    /\ UNCHANGED <<listVars, callVars, queue, shutdown, control>>

KeptAtEnd(p) == {n \in live : owner[n] # p}

\* Sessions::end: the control senders of its sessions are dropped.
RegistryEnds ==
    /\ NextEnd
    /\ queue' = Tail(queue)
    /\ Keep(KeptAtEnd(Head(queue).end))
    /\ UNCHANGED <<listVars, pick, tries, reg, last, attaches, attached, shutdown, stage, owner,
                   first>>

KeptAtJoin_All == live
KeptAtJoin == Retained

\* Sessions::ended: a session's task ended, and what closed is forgotten.
RegistryJoins ==
    /\ reg = Idle /\ ~shutdown
    /\ \E n \in live : stage[n] = "done"
    /\ Keep(KeptAtJoin)
    /\ UNCHANGED <<listVars, pick, tries, queue, reg, last, attaches, attached, shutdown, stage,
                   owner, first>>

Shutdown ==
    /\ ~shutdown
    /\ shutdown' = TRUE
    /\ UNCHANGED <<listVars, callVars, queue, reg, tableVars, sessionVars>>

KeptAtShutdown == {}

\* Sessions::shutdown: the table is dropped, and with it every control sender.
RegistryStops ==
    /\ reg = Idle /\ shutdown
    /\ reg' = [at |-> "stopping"]
    /\ Keep(KeptAtShutdown)
    /\ UNCHANGED <<listVars, pick, tries, queue, last, attaches, attached, shutdown, stage, owner,
                   first>>

\* Every session's task ended: the channel goes, with what waits in it.
RegistryIsDown ==
    /\ reg.at = "stopping"
    /\ \A n \in Numbers : stage[n] \in {"none", "done"}
    /\ reg' = [at |-> "down"]
    /\ queue' = <<>>
    /\ Dropped({r.attach : r \in {q \in InSeq(queue) : "attach" \in DOMAIN q}})
    /\ UNCHANGED <<listVars, pick, tries, tableVars, shutdown, sessionVars>>

(***************************************************************************)
(* A session, as the registry and the calls see it.                        *)
(***************************************************************************)
\* The program runs, and the call it was started for is answered.
SessionSpawns(n) ==
    /\ stage[n] = "spawning"
    /\ stage' = [stage EXCEPT ![n] = "running"]
    /\ Told(first[n], Session(n))
    /\ UNCHANGED <<listVars, pick, tries, queue, reg, tableVars, shutdown, owner, first, control>>

\* It does not; attaches handed to it meanwhile are dropped with its channel.
SessionFails(n) ==
    /\ stage[n] = "spawning"
    /\ stage' = [stage EXCEPT ![n] = "done"]
    /\ AtAfter(InSeq(control[n]), {first[n]})
    /\ answer' = [answer EXCEPT ![first[n]] = IF at[first[n]] = "waiting"
                                                   THEN Close("CouldNotStart") ELSE @]
    /\ control' = [control EXCEPT ![n] = <<>>]
    /\ UNCHANGED <<listVars, pick, tries, queue, reg, tableVars, shutdown, owner, first>>

SessionAnswers(n) ==
    /\ stage[n] = "running" /\ control[n] # <<>>
    /\ Told(Head(control[n]), Session(n))
    /\ control' = [control EXCEPT ![n] = Tail(@)]
    /\ UNCHANGED <<listVars, pick, tries, queue, reg, tableVars, shutdown, stage, owner, first>>

\* Its loop breaks: its control senders are gone and nothing waits; or its TTL ran out, or a client
\* was told its program's end.  What is in the channel is dropped.
SessionCloses(n) ==
    /\ stage[n] = "running"
    /\ stage' = [stage EXCEPT ![n] = "closing"]
    /\ control' = [control EXCEPT ![n] = <<>>]
    /\ Dropped(InSeq(control[n]))
    /\ UNCHANGED <<listVars, pick, tries, queue, reg, tableVars, shutdown, owner, first>>
SessionUnregistered(n) == n \notin live /\ control[n] = <<>> /\ SessionCloses(n)

\* Its teardown is over, and its task.
SessionEnds(n) ==
    /\ stage[n] = "closing"
    /\ stage' = [stage EXCEPT ![n] = "done"]
    /\ UNCHANGED <<listVars, callVars, queue, reg, tableVars, shutdown, owner, first, control>>

(***************************************************************************)
(* The specification.  The tasks run; a spawn succeeds or fails, and a     *)
(* teardown ends.  That peers call, that the list changes and that a       *)
(* session has a reason of its own to end is owed by nobody.               *)
(***************************************************************************)
RegistryStep ==
    \/ RegistryTakes \/ RegistryChooses \/ RegistryHands \/ RegistryRefuses \/ RegistryHasNoRoom
    \/ RegistryStarts \/ RegistryEnds \/ RegistryJoins \/ RegistryStops \/ RegistryIsDown
CallStep(c) == CallSends(c) \/ CallGivesUp(c)
SessionStep(n) ==
    \/ SessionSpawns(n) \/ SessionFails(n) \/ SessionAnswers(n) \/ SessionUnregistered(n)
    \/ SessionEnds(n)

Next ==
    \/ \E c \in Calls : CallAdmitted(c) \/ CallStep(c) \/ CallRevoked(c)
    \/ WatcherPublishes
    \/ \E p \in Peers : WatcherEnds(p)
    \/ RegistryStep
    \/ Shutdown
    \/ \E n \in Numbers : SessionStep(n) \/ SessionCloses(n)

Spec == Init /\ [][Next]_vars

Fairness ==
    /\ WF_vars(RegistryStep)
    /\ \A c \in Calls : WF_vars(CallStep(c))
    /\ \A p \in Peers : WF_vars(WatcherEnds(p))
    /\ \A n \in Numbers : WF_vars(SessionStep(n))
FairSpec == Spec /\ Fairness

(***************************************************************************)
(* Correctness.                                                            *)
(***************************************************************************)
ListOK == allowed \subseteq Peers /\ toEnd \subseteq Peers /\ published \in 0..MaxPublish
CallsOK ==
    /\ pick \in [Calls -> Picks]
    /\ at \in [Calls -> {"idle", "admitted", "waiting", "dropped", "answered", "gone"}]
    /\ tries \in [Calls -> 0..AttachTries]
    /\ answer \in [Calls -> Answers]
QueueOK == queue \in Seq(Requests) /\ Len(queue) <= RequestQueue
TaskOK ==
    /\ reg \in [at : {"idle", "stopping", "down"}] \cup [at : {"choosing"}, call : Calls]
                 \cup [at : {"handing"}, call : Calls, named : Numbers \cup {None}]
    /\ shutdown \in BOOLEAN
TableOK ==
    /\ last \in 0..MaxNumber /\ live \subseteq 1..last
    /\ attaches \in Nat /\ attached \in [Numbers -> 0..attaches]
SessionsOK ==
    /\ stage \in [Numbers -> {"none", "spawning", "running", "closing", "done"}]
    /\ owner \in [Numbers -> Peers \cup {None}] /\ first \in [Numbers -> Calls \cup {None}]
    /\ control \in [Numbers -> Seq(Calls)]
    /\ \A n \in Numbers : Len(control[n]) <= ControlQueue
TypeOK == ListOK /\ CallsOK /\ QueueOK /\ TaskOK /\ TableOK /\ SessionsOK

\* Nobody is attached to another peer's session, whatever number it names and however sessions end
\* and start meanwhile (Sessions::attach).
OwnSessionOnly ==
    \A c \in Calls : answer[c].is = "session" => owner[answer[c].n] = CallPeer[c]

\* A session asked for by number, as a redialing client does, is that one or none: the client never
\* lands in a new shell where its program ran (TrySendError::Closed in Sessions::attach).
NamedGetsItself ==
    \A c \in Calls :
        answer[c].is = "session" /\ pick[c].by = "id" => answer[c].n = pick[c].n

\* A peer dropped from the list has no session once its end was taken: an attach that was under way
\* starts none after it ("Published first", watch_allowlist).
EndPending(p) ==
    \/ p \in toEnd
    \/ \E k \in 1..Len(queue) : queue[k] = [end |-> p]
RevokedHasNone ==
    \A p \in Peers \ allowed : OwnedBy(p, live) = {} \/ EndPending(p)

\* All peers together have no more sessions than the server may host.
CapKept == Cardinality(live) <= MaxSessions

\* Every attach is answered, though its session ends as it gets it, or the registry stops
\* (Sessions::ended: "so its requester tries again").
EveryCallAnswered == \A c \in Calls : at[c] # "idle" ~> at[c] \in {"answered", "gone"}

\* A peer that stays off the list ends up with no program running, for good.
RevokedPeersEnd ==
    \A p \in Peers :
        <>[](p \notin allowed)
            => <>[](\A n \in Numbers : owner[n] = p => stage[n] = "done")

\* A shutdown ends, with every session ended.
ShutdownEnds == shutdown ~> Down /\ \A n \in Numbers : stage[n] \in {"none", "done"}

\* The registry leaves nothing undone: calls, dropped peers' sessions and its own end (registry_task).
NothingLeftUndone == EveryCallAnswered /\ RevokedPeersEnd /\ ShutdownEnds
=============================================================================
