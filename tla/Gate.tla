-------------------------------- MODULE Gate --------------------------------
(***************************************************************************)
(* The server's accept loop, the handshakes under way, and admission       *)
(* (server/cli.rs serve_endpoint, Pending, handshake, Gate::admit).        *)
(*                                                                         *)
(* External: a tokio Semaphore gives a permit let go to the first that     *)
(* waits for one, and a QUIC endpoint lets an address be asked to show     *)
(* that it can be answered.                                                *)
(***************************************************************************)
EXTENDS Naturals, SequencesExt

CONSTANTS
    Sources,        \* SourceKey: the connections dialled, by the addresses they come from
    Relayed,        \* those through a relay, which have none, count as of one
    MostPending,    \* MOST_PENDING
    MaxConnections  \* --max-connections: permits, and as many places to wait for one

Dials == UNION Sources
GateAssumption ==
    /\ IsFiniteSet(Dials) /\ Relayed \subseteq Dials
    /\ \A a, b \in Sources : a # b => a \cap b = {}
    /\ MostPending \in Nat /\ MaxConnections \in Nat

VARIABLES
    conn,       \* "out", "retried" (sent back to show its address), "shaking", "granted",
                \* "waiting", "serving", or how it went: "givenUp", "failed", "refused", "busy", "done"
    underWay,   \* Pending: handshakes
    older,      \* which of them came before which
    free,       \* permits of `connections` free
    queue       \* those waiting for one, in order

gateVars == <<conn, underWay, older, free, queue>>

GateInit ==
    /\ conn = [c \in Dials |-> "out"] /\ underWay = {} /\ older = {}
    /\ free = MaxConnections /\ queue = <<>>

In(state) == {c \in Dials : conn[c] = state}

\* Pending::crowded forgets those done.
Live == {c \in underWay : conn[c] = "shaking"}
Keep(held) == underWay' = held /\ older' = older \cap (held \X held)
KeepAnd(held, c) == underWay' = held \cup {c} /\ older' = (older \cap (held \X held)) \cup (held \X {c})

\* Pending::room: the oldest of an address that holds the most.
Oldest(cs) == {c \in cs : \A b \in cs : <<b, c>> \notin older}
GivenUp_Oldest == Oldest(Live)
Most == {a \in Sources : \A b \in Sources : Cardinality(Live \cap b) <= Cardinality(Live \cap a)}
GivenUp == UNION {Oldest(Live \cap a) : a \in Most}

Crowded == Cardinality(Live) >= MostPending
\* An address that shows it can be answered is let in at once, or when the room is not all taken.
SendBack(c) ==
    /\ conn[c] = "out" /\ c \notin Relayed /\ Crowded
    /\ conn' = [conn EXCEPT ![c] = "retried"] /\ Keep(Live)
    /\ UNCHANGED <<free, queue>>

Accept(c) ==
    /\ conn[c] \in {"out", "retried"}
    /\ \/ /\ ~Crowded
          /\ conn' = [conn EXCEPT ![c] = "shaking"] /\ KeepAnd(Live, c)
       \/ /\ Crowded /\ (conn[c] = "retried" \/ c \in Relayed)
          /\ \E given \in GivenUp :
                /\ conn' = [conn EXCEPT ![c] = "shaking", ![given] = "givenUp"]
                /\ KeepAnd(Live \ {given}, c)
    /\ UNCHANGED <<free, queue>>

\* ACCEPT_HANDSHAKE_TIMEOUT, or a key not proved.
HandshakeFails(c) ==
    /\ conn[c] = "shaking" /\ conn' = [conn EXCEPT ![c] = "failed"]
    /\ UNCHANGED <<underWay, older, free, queue>>

\* Gate::admit: refused; room now; a place among those waiting; or turned away.
MayWait == Cardinality(In("waiting") \cup In("granted")) < MaxConnections
Admit(c) ==
    /\ conn[c] = "shaking"
    /\ \/ conn' = [conn EXCEPT ![c] = "refused"] /\ UNCHANGED <<free, queue>>
       \/ /\ free > 0
          /\ conn' = [conn EXCEPT ![c] = "serving"] /\ free' = free - 1 /\ UNCHANGED queue
       \/ /\ free = 0 /\ MayWait
          /\ conn' = [conn EXCEPT ![c] = "waiting"] /\ queue' = Append(queue, c) /\ UNCHANGED free
       \/ /\ free = 0 /\ ~MayWait
          /\ conn' = [conn EXCEPT ![c] = "busy"] /\ UNCHANGED <<free, queue>>
    /\ UNCHANGED <<underWay, older>>

\* The wait is over: with a permit, were it granted as the time was up; else turned away.
Granted(c) ==
    /\ conn[c] = "granted" /\ conn' = [conn EXCEPT ![c] = "serving"]
    /\ UNCHANGED <<underWay, older, free, queue>>
QueuedTooLong(c) ==
    /\ conn[c] = "waiting" /\ conn' = [conn EXCEPT ![c] = "busy"]
    /\ \E i \in DOMAIN queue : queue[i] = c /\ queue' = RemoveAt(queue, i)
    /\ UNCHANGED <<underWay, older, free>>

\* Served, or revoked: its permit goes to the first that waits.
Served(c) ==
    IF queue = <<>>
    THEN conn' = [conn EXCEPT ![c] = "done"] /\ free' = free + 1 /\ UNCHANGED queue
    ELSE /\ conn' = [conn EXCEPT ![c] = "done", ![Head(queue)] = "granted"]
         /\ queue' = Tail(queue) /\ UNCHANGED free
Leaves(c) == conn[c] = "serving" /\ Served(c) /\ UNCHANGED <<underWay, older>>

GateNext ==
    \E c \in Dials :
        \/ SendBack(c) \/ Accept(c) \/ HandshakeFails(c) \/ Admit(c)
        \/ Granted(c) \/ QueuedTooLong(c) \/ Leaves(c)

\* What must be taken: timers fire, and a task with a permit runs; how long a connection is served
\* is its client's.
Goes(c) == HandshakeFails(c) \/ QueuedTooLong(c) \/ Granted(c)

\* Every permit is held once or free, no more handshakes are under way than may be, and who waits
\* waits for a reason (Gate::admit).
PermitsAddUp ==
    /\ free + Cardinality(In("serving") \cup In("granted")) = MaxConnections
    /\ Cardinality(In("shaking")) <= MostPending /\ In("shaking") \subseteq underWay
    /\ Range(queue) = In("waiting") /\ (queue # <<>> => free = 0)
    /\ Cardinality(In("waiting")) <= MaxConnections

\* A flood gives up only its own: a handshake is never given up while another address holds more
\* of them, nor before an older one of its own (Pending::room).
FloodGivesUpItsOwn ==
    [][\A a \in Sources : \A c \in a : conn[c] = "shaking" /\ conn'[c] = "givenUp" =>
        /\ \A b \in Sources : Cardinality(In("shaking") \cap b) <= Cardinality(In("shaking") \cap a)
        /\ \A b \in In("shaking") \cap a : b # c => conn'[b] = "shaking" /\ <<c, b>> \in older]_gateVars

\* A client that comes is told how it went, whoever else stays (QUEUED_FOR, the handshake's limit).
Waits(c) == conn[c] \in {"shaking", "waiting", "granted"}
=============================================================================
