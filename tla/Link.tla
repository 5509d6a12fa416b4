-------------------------------- MODULE Link --------------------------------
(***************************************************************************)
(* The client's link to its server (client/mod.rs): what is typed and the  *)
(* window's resizes, queued on two streams of the live connection, dropped *)
(* where the server does not take them, and redialed when it is lost.      *)
(*                                                                         *)
(* What is typed is a read of one or two chunks (MAX_EVENTS events each),  *)
(* numbered as typed; a chunk is short or long, a paste.  A window size is *)
(* the number of times it changed.  The screen and the predictions are     *)
(* module Predict's; what the server answers is Connection's.              *)
(***************************************************************************)
EXTENDS Naturals, Sequences, SequencesExt

CONSTANTS
    MostQueued,      \* MAX_QUEUED_INPUT, in short messages
    Messages,        \* QUEUED_MESSAGES
    ControlRoom,     \* CONTROL_QUEUE
    Long,            \* the length of a paste, in short messages
    LongestWait,     \* RECONNECT_BACKOFF_MAX, in attempts
    MaxDone, MaxReads, MaxWindows, MaxFails    \* bounds of the instance

LinkAssumption == LongestWait \in Nat \ {0}

VARIABLES
    \* the user's terminal: chunks typed, reads waiting, the window, its signal and its tick
    typed, reads, window, signalled, tick, ticked,
    \* the client: whether it runs, its link, its window's size, the colours it was told
    run, net, sending, size, resized, colours, attempt, dial, dropped,
    \* the live connection: input and control waiting, whether input is paused
    queue, paused, control, lasted, frozen,
    \* the server: the newest resize it took
    told,
    \* history: the dials failed and connections that did not last since one did; whether typing was
    \* dropped in this outage; the chunks dropped while up; the newest window whose resize was
    \* dropped among the input, and on the control stream
    fails, lostTyping, lost, unqueued, uncontrolled

terminal == <<typed, reads, window, signalled, tick, ticked>>
wire == <<queue, paused, control, lasted, told>>
redialing == <<attempt, dial, dropped, fails>>
missed == <<unqueued, uncontrolled>>
history == <<lostTyping, lost, missed>>
linkVars == <<terminal, run, net, sending, size, resized, colours, redialing, wire, frozen, history>>

NoResize == [n |-> 0, size |-> 0]
NoDial == [wait |-> 0, size |-> 0]

LinkInit ==
    /\ typed = 0 /\ reads = <<>> /\ window = 0 /\ signalled = FALSE /\ tick = FALSE /\ ticked = 0
    /\ run = "on" /\ net = "up" /\ sending = <<>> /\ size = 0 /\ resized = 0 /\ colours = FALSE
    /\ attempt = 0 /\ dial = NoDial /\ dropped = FALSE
    /\ queue = <<>> /\ paused = FALSE /\ control = <<>>
    /\ lasted = FALSE /\ frozen = FALSE /\ told = NoResize
    /\ fails = 0 /\ lostTyping = FALSE /\ lost = {} /\ unqueued = 0 /\ uncontrolled = 0

(***************************************************************************)
(* The user and the terminal.                                              *)
(***************************************************************************)
Types(lens) ==
    /\ run = "on" /\ typed + Len(lens) + window <= MaxDone /\ Len(reads) < MaxReads
    /\ typed' = typed + Len(lens)
    /\ reads' = Append(reads, [first |-> typed + 1, lens |-> lens, window |-> ticked])
    /\ UNCHANGED <<window, signalled, tick, ticked, run, net, sending, size, resized, colours,
                   redialing, wire, frozen, history>>

WindowChanges ==
    /\ run = "on" /\ window < MaxWindows /\ typed + window < MaxDone /\ window' = window + 1 /\ signalled' = TRUE
    /\ UNCHANGED <<typed, reads, tick, ticked, run, net, sending, size, resized, colours,
                   redialing, wire, frozen, history>>

\* spawn_resizes: ticks the loop has yet to take are one.
Ticks ==
    /\ run = "on" /\ signalled /\ signalled' = FALSE /\ tick' = TRUE /\ ticked' = window
    /\ UNCHANGED <<typed, reads, window, run, net, sending, size, resized, colours, redialing,
                   wire, frozen, history>>

(***************************************************************************)
(* Wire::send and Wire::resize.                                            *)
(***************************************************************************)
Length(q) == FoldLeft(LAMBDA sum, m: sum + m.len, 0, q)

\* Input was dropped, and what waited then waits still.
Paused == paused /\ queue # <<>>
\* An empty queue takes any message.
HasRoom(m) ==
    /\ ~Paused
    /\ queue = <<>> \/ Length(queue) + m.len <= MostQueued
    /\ Len(queue) < Messages
Send(m) ==
    IF HasRoom(m) THEN queue' = Append(queue, m) /\ paused' = FALSE
    ELSE paused' = TRUE /\ UNCHANGED queue

ControlHasRoom == Len(control) < ControlRoom
ResizeOf(s) == [is |-> "resize", n |-> resized + 1, at |-> s, len |-> 1, first |-> 0]
Redraw == [is |-> "redraw", n |-> 0, at |-> 0, len |-> 1, first |-> 0]
Colours == [Redraw EXCEPT !.is = "colours"]

OnControl(q, m) == IF Len(q) < ControlRoom THEN Append(q, m) ELSE q

\* send_size: on both streams, each if it has room; and what follows it on the control stream.
SendSize(s, redraw) ==
    IF net = "down" THEN UNCHANGED <<resized, queue, paused, control, missed>>
    ELSE LET m == ResizeOf(s) IN
         /\ resized' = resized + 1
         /\ Send(m)
         /\ control' = LET sized == OnControl(control, m) IN
                       IF redraw THEN OnControl(sized, Redraw) ELSE sized
         /\ unqueued' = IF HasRoom(m) THEN unqueued ELSE s
         /\ uncontrolled' = IF ControlHasRoom THEN uncontrolled ELSE s

(***************************************************************************)
(* The loop's turns.  A resize is taken before anything else.              *)
(***************************************************************************)
Turn == run = "on" /\ sending = <<>>
Other == Turn /\ ~tick

TakeResize ==
    /\ Turn /\ tick
    /\ tick' = FALSE /\ size' = window
    /\ SendSize(window, FALSE)
    /\ UNCHANGED <<typed, reads, window, signalled, ticked, run, net, sending, colours, redialing,
                   lasted, told, frozen, lostTyping, lost>>

KeysOf(read) ==
    [i \in 1..Len(read.lens) |->
        [is |-> "keys", n |-> read.first + i - 1, at |-> read.window, len |-> read.lens[i],
         first |-> read.first]]

\* A read: its chunks are sent one by one, or, while the link is down, dropped.
TakeTyped ==
    /\ Other /\ reads # <<>>
    /\ reads' = Tail(reads)
    /\ IF net = "up"
       THEN sending' = KeysOf(Head(reads)) /\ UNCHANGED <<dropped, lostTyping>>
       ELSE dropped' = TRUE /\ lostTyping' = TRUE /\ UNCHANGED sending
    /\ UNCHANGED <<typed, window, signalled, tick, ticked, run, net, size, resized, colours,
                   attempt, dial, fails, wire, frozen, lost, missed>>

\* One dropped, what follows it is not sent.
LeftAfter(m) == IF HasRoom(m) THEN Tail(sending) ELSE <<>>
SendChunk ==
    /\ sending # <<>>
    /\ LET m == Head(sending) IN
       /\ Send(m)
       /\ sending' = LeftAfter(m)
       /\ lost' = IF HasRoom(m) THEN lost ELSE lost \cup {m.n}
    /\ UNCHANGED <<terminal, run, net, size, resized, colours, redialing, control, lasted,
                   told, frozen, lostTyping, missed>>

\* The terminal's answers: its colours are told now, if the link is up.
TakeColours ==
    /\ Other /\ ~colours
    /\ colours' = TRUE
    /\ IF net = "up" THEN Send(Colours) ELSE UNCHANGED <<queue, paused>>
    /\ UNCHANGED <<terminal, run, net, sending, size, resized, redialing, control, lasted,
                   told, frozen, history>>

\* The escape prefix and Ctrl-Z: stopped until continued, or until a read, which is taken for it;
\* then the size goes again, and a redraw is asked for.  The stop is no freeze.
Suspend ==
    /\ Other /\ resized < MaxWindows + 1
    /\ reads' \in {reads} \cup (IF reads = <<>> THEN {} ELSE {Tail(reads)})
    /\ size' = window
    /\ SendSize(window, TRUE)
    /\ frozen' = FALSE
    /\ UNCHANGED <<typed, window, signalled, tick, ticked, run, net, sending, colours, redialing,
                   lasted, told, lostTyping, lost>>

(***************************************************************************)
(* The connection's end, and the redial.                                   *)
(***************************************************************************)
\* redial: the waits grow with the attempts, up to the longest; none before attempt 0.
Wait_OneLess(n) == IF n = 0 THEN 0 ELSE IF n <= LongestWait THEN n - 1 ELSE LongestWait
Wait(n) == IF n < LongestWait THEN n ELSE LongestWait
Redials(n, was) ==
    /\ net' = "down" /\ dropped' = was
    /\ dial' = [wait |-> Wait(n), size |-> size]
    /\ queue' = <<>> /\ paused' = FALSE /\ control' = <<>> /\ lasted' = FALSE
    /\ lost' = {} /\ unqueued' = 0 /\ uncontrolled' = 0 /\ resized' = 0 /\ told' = NoResize

Drops == IF lasted THEN 0 ELSE attempt + 1
Lost ==
    /\ Other /\ net = "up" /\ fails < MaxFails
    /\ attempt' = Drops
    /\ fails' = IF lasted THEN 0 ELSE fails + 1
    /\ Redials(Drops, FALSE) /\ lostTyping' = FALSE
    /\ UNCHANGED <<terminal, run, sending, size, colours, frozen>>

\* The tick that finds a gap in the wall clock: the connection is dead by now.
Unfreezes ==
    /\ Other /\ frozen /\ frozen' = FALSE
    /\ IF net = "up" THEN Redials(0, FALSE) /\ lostTyping' = FALSE
       ELSE UNCHANGED <<net, dropped, dial, wire, resized, history>>
    /\ UNCHANGED <<terminal, run, sending, size, colours, attempt, fails>>

StillDropped == dropped
DialFails ==
    /\ Other /\ net = "down" /\ fails < MaxFails
    /\ attempt' = attempt + 1 /\ fails' = fails + 1
    /\ Redials(attempt + 1, StillDropped)
    /\ UNCHANGED <<terminal, run, sending, size, colours, frozen, lostTyping>>

Attempts == attempt
\* Up again: the colours are told again, and the window, which may have changed since.  The server
\* counts resizes anew.
Dialed ==
    /\ Other /\ net = "down"
    /\ net' = "up" /\ dial' = NoDial /\ dropped' = FALSE /\ lostTyping' = FALSE
    /\ attempt' = Attempts
    /\ LET m == ResizeOf(size) IN
       /\ resized' = 1
       /\ queue' = (IF colours THEN <<Colours>> ELSE <<>>) \o <<m>>
       /\ control' = <<m>>
    /\ told' = [n |-> 0, size |-> dial.size]
    /\ UNCHANGED <<terminal, run, sending, size, colours, paused, lasted, frozen, fails,
                   lost, missed>>

\* Quit, the program's exit, the session's end, or a refusal for good: the connection is closed.
Over ==
    /\ Other /\ run' = "over"
    /\ Redials(attempt, FALSE) /\ lostTyping' = FALSE /\ reads' = <<>> /\ frozen' = FALSE
    /\ UNCHANGED <<typed, window, signalled, tick, ticked, sending, size, colours, attempt, fails>>

(***************************************************************************)
(* The writers, the server, and time.                                      *)
(***************************************************************************)
Took(m) == IF m.is = "resize" /\ m.n > told.n THEN [n |-> m.n, size |-> m.at] ELSE told

\* Taken off what is queued once the server took it.
Write ==
    /\ run = "on" /\ queue # <<>>
    /\ queue' = Tail(queue) /\ told' = Took(Head(queue))
    /\ UNCHANGED <<terminal, run, net, sending, size, resized, colours, redialing, paused, control,
                   lasted, frozen, history>>
WriteControl ==
    /\ run = "on" /\ control # <<>>
    /\ control' = Tail(control) /\ told' = Took(Head(control))
    /\ UNCHANGED <<terminal, run, net, sending, size, resized, colours, redialing, queue,
                   paused, lasted, frozen, history>>

Lasts ==
    /\ run = "on" /\ net = "up" /\ ~lasted /\ lasted' = TRUE
    /\ UNCHANGED <<terminal, run, net, sending, size, resized, colours, redialing, queue,
                   paused, control, told, frozen, history>>
Freezes ==
    /\ run = "on" /\ net = "up" /\ ~frozen /\ frozen' = TRUE
    /\ UNCHANGED <<terminal, run, net, sending, size, resized, colours, redialing, wire, history>>

\* A read is a chunk, two, or one that is long.
Typings == {<<1>>, <<1, 1>>, <<Long>>}
LinkNext ==
    \/ \E lens \in Typings : Types(lens)
    \/ WindowChanges \/ Ticks \/ TakeResize \/ TakeTyped \/ SendChunk \/ TakeColours \/ Suspend
    \/ Lost \/ Unfreezes \/ DialFails \/ Dialed \/ Over
    \/ Write \/ WriteControl \/ Lasts \/ Freezes

\* What must be taken: Ticks, TakeResize, SendChunk and WriteControl, the loop, the resize's task and
\* the control stream's writer; the server may take no input.

(***************************************************************************)
(* Properties.                                                             *)
(***************************************************************************)
\* What waits for the server has no hole: nothing typed after a chunk that was dropped waits behind
\* one typed before it, nor does the rest of a read whose start was dropped (Wire::send, typed).
QueueHasNoGap ==
    LET keys == {i \in 1..Len(queue) : queue[i].is = "keys"} IN
    /\ \A i, j \in keys, n \in lost : i < j => ~(queue[i].n < n /\ n < queue[j].n)
    /\ \A i \in keys, n \in lost : ~(queue[i].first <= n /\ n < queue[i].n)

\* Keys typed once a resize's tick is in reach the server behind it, among the input or, taken
\* already, on either stream; unless the input dropped the resize (drive, Wire::resize).
KeysFollowResize ==
    \A i \in 1..Len(queue) : queue[i].is = "keys" =>
        \/ told.size >= queue[i].at \/ unqueued >= queue[i].at
        \/ \E j \in 1..(i - 1) : queue[j].is = "resize" /\ queue[j].at >= queue[i].at

\* The wait before a dial grows with what failed since a connection last lasted, a freeze's apart;
\* and the status line says typing was lost exactly if it was, however many dials fail.
RedialsBackOff ==
    /\ net = "down" => dial.wait \in {0, Wait(fails)} /\ attempt = fails
    /\ net = "down" => (dropped <=> lostTyping)
FlapsWait ==
    [][net = "up" /\ net' = "down" /\ run' = "on" /\ ~lasted /\ ~frozen => dial'.wait > 0]_linkVars

\* A window that stays is told while the link stays up, whether or not the server takes input,
\* unless the control stream was full.
IsUntold == run = "on" /\ net = "up" /\ told.size # window /\ uncontrolled = 0
=============================================================================
