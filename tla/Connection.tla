----------------------------- MODULE Connection -----------------------------
(***************************************************************************)
(* One connection to a session: the server's task (attach.rs serve), the   *)
(* streams of its epochs (write_epoch over QUIC), and the client's reader  *)
(* and loop (client/mod.rs read_epochs, Client::heard, Client::lost).  The *)
(* session is seen through what it publishes on its broadcast and what it  *)
(* answers (module Session).                                               *)
(*                                                                         *)
(* Abstractions.  The events of the session are numbered: its output in    *)
(* chunks, and after them its program's end.  A redraw is the number of    *)
(* chunks it shows.  Sizes are counted in messages, and a timer may fire   *)
(* whenever it is armed.  Each epoch's messages are kept as they were      *)
(* written; how far the client read them is its own state.                 *)
(***************************************************************************)
EXTENDS Naturals, Sequences, FiniteSets

CONSTANTS
    MaxOut,        \* bound: chunks the program writes
    MaxEpoch,      \* bound: epochs of the connection
    Events,        \* EVENTS: what the session keeps for its slowest client
    Budget,        \* Pace.budget: in flight past what the client read
    ReaderQueue,   \* READER_QUEUE: decoded messages waiting for the client's loop
    ControlQueue,  \* CONTROL_QUEUE: messages waiting for the client's control stream
    Garbled        \* a terminal that shows no prefix of the output

ASSUME ConnectionAssumption ==
    /\ MaxOut \in Nat /\ MaxEpoch \in Nat \ {0} /\ Events \in Nat \ {0}
    /\ Budget \in Nat \ {0} /\ ReaderQueue \in Nat \ {0} /\ ControlQueue \in Nat \ {0}
    /\ Garbled \notin Nat

VARIABLES
    \* the session
    published, over,  \* what it published: chunks, and its program's end
    gone,             \* it ended, and its senders with it
    \* the server's task
    at,               \* where it stands: "run", "linger" (told, awaiting the close), "done"
    epoch,            \* the epoch it writes
    next,             \* how many events its receiver is past
    redraw,           \* Asked.redraw
    exited,           \* it sent the program's end
    told,             \* it told the session that the client has it
    paced,            \* Pace.read: how many of the epoch's messages the client read
    \* the connection
    stream,           \* what was written on each epoch's stream
    finished,         \* the last epoch's stream ends with what it has
    acked,            \* all of the finished stream was acknowledged
    control,          \* the client's messages on their way
    closed,           \* "no", or how it closed: "ended" (SessionEnded), or "plain"
    \* the client
    accepted,         \* the epochs whose stream its reader took up
    got,              \* how much it read of each
    rx,               \* read, and waiting for the client's loop
    wireEpoch,        \* Wire.epoch
    display,          \* how much of the output its terminal shows
    dropped,          \* the last report of each epoch that found no room among its messages
    client            \* "up", "has_end", "ended" (no status), or "redials"

sessionVars == <<published, over, gone>>
serveVars   == <<at, epoch, next, redraw, exited, told, paced>>
linkVars    == <<stream, finished, acked, control, closed>>
clientVars  == <<accepted, got, rx, wireEpoch, display, dropped, client>>
vars == <<sessionVars, serveVars, linkVars, clientVars>>

Epochs  == 1..MaxEpoch
Message == [t : {"snap", "out"}, n : 0..MaxOut] \cup {[t |-> "exit"]}
Control == [t : {"read"}, epoch : Epochs, n : Nat] \cup {[t |-> "redraw"]}

Least(a, b) == IF a < b THEN a ELSE b
Most(a, b) == IF a < b THEN b ELSE a

Total == published + IF over THEN 1 ELSE 0

\* Session::start: the screen as it is, and the end if the program exited.
Start ==
    LET screen == <<[t |-> "snap", n |-> published]>>
    IN  IF over THEN Append(screen, [t |-> "exit"]) ELSE screen

Init ==
    /\ published \in 0..Least(1, MaxOut) /\ over \in BOOLEAN /\ gone = FALSE
    /\ at = "run" /\ epoch = 1 /\ next = Total
    /\ redraw = FALSE /\ exited = FALSE /\ told = FALSE /\ paced = 0
    /\ stream = [e \in Epochs |-> IF e = 1 THEN Start ELSE <<>>]
    /\ finished = FALSE /\ acked = FALSE /\ control = <<>> /\ closed = "no"
    /\ accepted = {} /\ got = [e \in Epochs |-> 0] /\ rx = <<>>
    /\ wireEpoch = 0 /\ display = 0 /\ client = "up"
    /\ dropped = [e \in Epochs |-> 0]

(***************************************************************************)
(* The bound on epochs: nothing asks for one more than MaxEpoch.           *)
(***************************************************************************)
Lags(total) == total - next > Events
EpochsDue(total) ==
    epoch + Cardinality({k \in 1..Len(control) : control[k].t = "redraw"})
          + IF redraw \/ (~exited /\ Lags(total)) THEN 1 ELSE 0
WithinEpochs(total) == EpochsDue(total) <= MaxEpoch

(***************************************************************************)
(* The session.                                                            *)
(***************************************************************************)
SessionWrites ==
    /\ ~gone /\ ~over /\ published < MaxOut /\ WithinEpochs(Total + 1)
    /\ published' = published + 1
    /\ UNCHANGED <<over, gone, serveVars, linkVars, clientVars>>

SessionExits ==
    /\ ~gone /\ ~over /\ WithinEpochs(Total + 1)
    /\ over' = TRUE
    /\ UNCHANGED <<published, gone, serveVars, linkVars, clientVars>>

\* Told its end by this client or another, or ended by the registry.
SessionGoes ==
    /\ ~gone
    /\ gone' = TRUE
    /\ UNCHANGED <<published, over, serveVars, linkVars, clientVars>>

(***************************************************************************)
(* The server's task.  A redraw asked for goes before any arm of its       *)
(* select!, of which one runs at a time.  A definition named X_Y beside X  *)
(* is X with a fault: the check of a property must fail with it for X.     *)
(***************************************************************************)
Serving == at = "run" /\ ~(redraw /\ ~exited)
Room == Len(stream[epoch]) - paced < Budget

\* How the loop is left, the connection closed as `how` if it is not yet: a client that has the end
\* closed saying so, and the session is told.
Leave(how) ==
    /\ closed' = IF closed = "no" THEN how ELSE closed
    /\ at' = "done"
    /\ told' = (told \/ (exited /\ closed' = "ended"))

\* SessionClient::redraw, answered: the old epoch is reset, and the new one begins.
ServeRedraws ==
    /\ at = "run" /\ redraw /\ ~exited /\ ~gone
    /\ redraw' = FALSE
    /\ epoch' = epoch + 1
    /\ stream' = [stream EXCEPT ![epoch + 1] = Start]
    /\ next' = Total
    /\ paced' = 0
    /\ UNCHANGED <<sessionVars, at, exited, told, finished, acked, control, closed, clientVars>>

\* Its session is gone: no redraw, or no event after the last.
Outlived == redraw \/ (Room /\ next = Total)
ServeOutlives ==
    /\ at = "run" /\ gone /\ ~exited
    /\ Outlived
    /\ Leave("plain")
    /\ UNCHANGED <<sessionVars, epoch, next, redraw, exited, paced, stream, finished, acked, control,
                   clientVars>>

\* The receiver fell behind what the session keeps: a redraw.
ArmLagged ==
    /\ Serving /\ ~exited /\ Room /\ Lags(Total)
    /\ next' = Total - Events
    /\ redraw' = TRUE
    /\ UNCHANGED <<sessionVars, at, epoch, exited, told, paced, linkVars, clientVars>>

ArmOut ==
    /\ Serving /\ ~exited /\ Room /\ ~Lags(Total) /\ next < published
    /\ next' = next + 1
    /\ stream' = [stream EXCEPT ![epoch] = Append(@, [t |-> "out", n |-> next + 1])]
    /\ UNCHANGED <<sessionVars, at, epoch, redraw, exited, told, paced, finished, acked, control,
                   closed, clientVars>>

\* The end is the epoch's last: the writer finishes the stream.
ArmExit ==
    /\ Serving /\ ~exited /\ Room /\ ~Lags(Total) /\ over /\ next = published
    /\ next' = next + 1
    /\ stream' = [stream EXCEPT ![epoch] = Append(@, [t |-> "exit"])]
    /\ exited' = TRUE
    /\ finished' = TRUE
    /\ UNCHANGED <<sessionVars, at, epoch, redraw, told, paced, acked, control, closed, clientVars>>

Delivered == acked \/ closed = "ended"

\* The client had all of the stream, or closed saying it has the end: the session is told.
ArmDelivered ==
    /\ Serving /\ exited /\ Delivered
    /\ told' = TRUE
    /\ at' = "linger"
    /\ UNCHANGED <<sessionVars, epoch, next, redraw, exited, paced, linkVars, clientVars>>

\* FINAL_WAIT for the client to close first.
Lingers ==
    /\ at = "linger"
    /\ Leave("ended")
    /\ UNCHANGED <<sessionVars, epoch, next, redraw, exited, paced, stream, finished, acked, control,
                   clientVars>>

\* The stream failed, or the client took too long: the session keeps the end.
ArmUndelivered ==
    /\ Serving /\ exited
    /\ Leave("plain")
    /\ UNCHANGED <<sessionVars, epoch, next, redraw, exited, paced, stream, finished, acked, control,
                   clientVars>>

SeesClose_WithRoom == closed # "no" /\ Room
SeesClose == closed # "no"

\* The connection is gone, as some read, write or accept of the loop finds.
ArmClosed ==
    /\ Serving /\ SeesClose
    /\ Leave("plain")
    /\ UNCHANGED <<sessionVars, epoch, next, redraw, exited, paced, stream, finished, acked, control,
                   clientVars>>

PacedAfter_AnyEpoch(m) == Most(paced, m.n)
PacedAfter(m) == IF m.epoch = epoch THEN Most(paced, m.n) ELSE paced

\* take: progress for the pace of this epoch, or a redraw asked.
ArmControl ==
    /\ Serving /\ control # <<>>
    /\ control' = Tail(control)
    /\ LET m == Head(control) IN
       IF m.t = "redraw" THEN redraw' = TRUE /\ paced' = paced
       ELSE redraw' = redraw /\ paced' = PacedAfter(m)
    /\ UNCHANGED <<sessionVars, at, epoch, next, exited, told, stream, finished, acked, closed,
                   clientVars>>

(***************************************************************************)
(* The network.                                                            *)
(***************************************************************************)
StreamAcked ==
    /\ finished /\ ~acked /\ closed = "no"
    /\ acked' = TRUE
    /\ UNCHANGED <<sessionVars, serveVars, stream, finished, control, closed, clientVars>>

LinkLost ==
    /\ closed = "no"
    /\ closed' = "plain"
    /\ UNCHANGED <<sessionVars, serveVars, stream, finished, acked, control, clientVars>>

(***************************************************************************)
(* The client.                                                             *)
(***************************************************************************)
\* read_epochs: streams are opened by tasks of their own, so they come in any order; one no newer
\* than what is read is stopped.
ReaderAccepts(e) ==
    /\ client = "up" /\ e <= epoch /\ \A o \in accepted : o < e
    /\ accepted' = accepted \cup {e}
    /\ UNCHANGED <<sessionVars, serveVars, linkVars, got, rx, wireEpoch, display, dropped,
                   client>>

\* The reader waits for room among what waits for the client's loop.
ReaderRoom == Len(rx) < ReaderQueue

\* An epoch's reader: one replaced by a newer may read on until its abort is seen.
ReaderReads(e) ==
    /\ client = "up" /\ e \in accepted /\ got[e] < Len(stream[e]) /\ ReaderRoom
    /\ got' = [got EXCEPT ![e] = @ + 1]
    /\ rx' = Append(rx, [epoch |-> e, n |-> got[e] + 1, msg |-> stream[e][got[e] + 1]])
    /\ UNCHANGED <<sessionVars, serveVars, linkVars, accepted, wireEpoch, display, dropped, client>>

Stale_Never(e) == FALSE

\* A message of an epoch before the newest heard of is not shown.
Stale(e) == e < wireEpoch

\* What a terminal that shows the first d chunks shows after a message.
Shows(d, m) ==
    CASE m.t = "snap" -> m.n
      [] m.t = "out"  -> IF d = m.n - 1 THEN m.n ELSE Garbled
      [] OTHER        -> d

\* Wire::send of how far it read: dropped if the queue of its control stream is full.
ControlRoom == Len(control) < ControlQueue
Report(read) == IF ControlRoom THEN Append(control, read) ELSE control

\* Client::heard: shown, and the epoch's progress told to the server.
ClientHears ==
    /\ client = "up" /\ rx # <<>>
    /\ rx' = Tail(rx)
    /\ LET m == Head(rx) IN
       IF Stale(m.epoch) THEN UNCHANGED <<wireEpoch, display, dropped, client, control, closed>>
       ELSE /\ wireEpoch' = m.epoch
            /\ display' = Shows(display, m.msg)
            /\ IF m.msg.t = "exit"
               THEN /\ client' = "has_end"
                    /\ closed' = IF closed = "no" THEN "ended" ELSE closed
                    /\ UNCHANGED <<control, dropped>>
               ELSE /\ control' = Report([t |-> "read", epoch |-> m.epoch, n |-> m.n])
                    /\ dropped' = IF ControlRoom THEN dropped ELSE [dropped EXCEPT ![m.epoch] = m.n]
                    /\ UNCHANGED <<client, closed>>
    /\ UNCHANGED <<sessionVars, serveVars, stream, finished, acked, accepted, got>>

\* Client::lost: what was read is heard first.
ClientLost ==
    /\ client = "up" /\ closed # "no" /\ rx = <<>>
    /\ client' = IF closed = "ended" THEN "ended" ELSE "redials"
    /\ UNCHANGED <<sessionVars, serveVars, linkVars, accepted, got, rx, wireEpoch, display,
                   dropped>>

\* A suspended client resumes, and asks for a redraw.
ClientResumes ==
    /\ client = "up" /\ closed = "no"
    /\ ControlRoom /\ EpochsDue(Total) < MaxEpoch
    /\ control' = Append(control, [t |-> "redraw"])
    /\ UNCHANGED <<sessionVars, serveVars, stream, finished, acked, closed, clientVars>>

\* It quits, or redials after a freeze (Client::tick): its Wire is dropped.
ClientLeaves ==
    /\ client = "up" /\ closed = "no"
    /\ closed' = "plain"
    /\ client' = "redials"
    /\ UNCHANGED <<sessionVars, serveVars, stream, finished, acked, control, accepted, got, rx,
                   wireEpoch, display, dropped>>

(***************************************************************************)
(* The specification.  The tasks of both sides run on: each arm that stays *)
(* ready is taken.  The network delivers, while the connection lasts.      *)
(***************************************************************************)
Session == SessionWrites \/ SessionExits \/ SessionGoes
Serve ==
    \/ ServeRedraws \/ ServeOutlives
    \/ ArmLagged \/ ArmOut \/ ArmExit \/ ArmDelivered \/ ArmUndelivered \/ ArmClosed \/ ArmControl
    \/ Lingers
Network == StreamAcked \/ LinkLost
Reader == \E e \in Epochs : ReaderAccepts(e) \/ ReaderReads(e)
Client == Reader \/ ClientHears \/ ClientLost \/ ClientResumes \/ ClientLeaves

\* Both sides are done, and the session has nothing left to do.
Stopped == at = "done" /\ client # "up" /\ gone /\ UNCHANGED vars

Next == Session \/ Serve \/ Network \/ Client \/ Stopped

Spec == Init /\ [][Next]_vars

Fairness ==
    /\ WF_vars(ServeRedraws \/ ServeOutlives) /\ WF_vars(Lingers)
    /\ SF_vars(ArmLagged \/ ArmOut \/ ArmExit) /\ WF_vars(ArmDelivered \/ ArmUndelivered)
    /\ WF_vars(ArmClosed) /\ SF_vars(ArmControl)
    /\ \A e \in Epochs : WF_vars(ReaderAccepts(e)) /\ WF_vars(ReaderReads(e))
    /\ WF_vars(ClientHears) /\ WF_vars(ClientLost)
FairSpec == Spec /\ Fairness

(***************************************************************************)
(* Correctness.                                                            *)
(***************************************************************************)
TypeOK ==
    /\ published \in 0..MaxOut /\ {over, gone, redraw, exited, told, finished, acked} \subseteq BOOLEAN
    /\ at \in {"run", "linger", "done"} /\ epoch \in Epochs /\ next \in 0..(MaxOut + 1)
    /\ paced \in Nat
    /\ stream \in [Epochs -> Seq(Message)]
    /\ control \in Seq(Control) /\ Len(control) <= ControlQueue
    /\ closed \in {"no", "ended", "plain"}
    /\ accepted \subseteq Epochs /\ got \in [Epochs -> Nat]
    /\ rx \in Seq([epoch : Epochs, n : Nat, msg : Message]) /\ Len(rx) <= ReaderQueue
    /\ wireEpoch \in 0..MaxEpoch /\ display \in Nat \cup {Garbled}
    /\ dropped \in [Epochs -> Nat]
    /\ client \in {"up", "has_end", "ended", "redials"}

\* The client's terminal shows the program's output as View promises, through lags, redraws and
\* epochs whose readers overlap.
ViewOf == INSTANCE View WITH view <- display, end <- (client = "has_end")
ShowsAsPromised == ViewOf!Spec

\* A session is told that its end was read only if the client has it, or its stream was delivered:
\* else a reconnect would find a fresh shell and no status (ARCHITECTURE.md).
EndKeptTillDelivered == told => acked \/ client = "has_end"

\* The pace never counts as read what the client did not read of this epoch, whatever it says late
\* of the one before.
PacedWasRead == paced <= got[epoch]

\* What is in flight past what the client read stays within the budget, a redraw excepted.
InFlightBounded == Len(stream[epoch]) - paced <= Most(Budget, 2)

\* The connection's own account is true: of what was read of this epoch, of what is in flight past
\* it, and of who has the end (Pace, and what serve says of the end).
AccountIsTrue == TypeOK /\ EndKeptTillDelivered /\ PacedWasRead /\ InFlightBounded

\* All of the epoch was read, and the report that says so was dropped: the server has nothing more
\* to hear, and counts a whole budget in flight.  It sends no more of the epoch, no beat, and sees
\* no end of its session, until the client asks for a redraw or the connection goes.
Starved ==
    /\ at = "run" /\ ~exited /\ ~redraw /\ ~Room
    /\ control = <<>> /\ dropped[epoch] = Len(stream[epoch])

\* While the connection and its session last, what the program wrote is shown: neither the budget
\* nor a lag leaves the client behind for good, unless the last report it needed was dropped.
\* That it may be is not what is promised (README, Findings).
ShowsAll == display # published ~> display = published \/ closed # "no" \/ gone \/ Starved

\* A client whose program or session ended does not wait on, its server starved apart.
EndsForClient == over \/ gone ~> client # "up" \/ Starved

\* The server's task does not outlive its connection.
EndsForServer == closed # "no" ~> at = "done"

\* Neither side waits for ever: for output that was written, for the other's end, for its task.
\* Only a last report dropped from a full queue (Wire::send) makes them, and even then the server's
\* task ends with its connection.
NeitherWaitsOn == ShowsAll /\ EndsForClient /\ EndsForServer

\* Once a client has read the program's end, and closed saying so, the session is told
\* (ARCHITECTURE.md: "once one has read it, the session ends").  Not so (README, Findings).
EndReadIsTold == at = "done" /\ client = "has_end" /\ closed = "ended" => told
=============================================================================
