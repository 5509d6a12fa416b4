------------------------------ MODULE Session ------------------------------
(***************************************************************************)
(* One detachable session: the task Session::run of server/session.rs, the *)
(* program it hosts, the PTY between them (pty.rs) and the handles its     *)
(* clients hold (SessionClient).                                           *)
(*                                                                         *)
(* The task is a loop: at its top it looks whether the program counts as   *)
(* ended and writes what input is pending, then it waits in one select!,   *)
(* of which a single arm runs.  `phase` says where it stands.  Everything  *)
(* else (the program, the PTY's writer thread, the connections, the        *)
(* registry) steps between.                                                *)
(*                                                                         *)
(* Abstractions.  A chunk of output is its number: `out` were written,     *)
(* `processed` fed to the emulator, `told` published; the ones between the *)
(* last two are held.  An input is the attachment it came on and its       *)
(* sequence number.  Time is not counted: an arm that waits for an instant *)
(* may run whenever what it waits for is set.                              *)
(***************************************************************************)
EXTENDS Naturals, Sequences, FiniteSets

CONSTANTS
    Clients,       \* client processes of the peer, each with its own input numbers
    MaxAttach,     \* bound: attaches in a behaviour
    MaxSeq,        \* bound: inputs a client types
    MaxOut,        \* bound: chunks the program writes
    InputQueue,    \* INPUT_QUEUE
    AskQueue,      \* ASK_QUEUE
    ControlQueue,  \* CONTROL_QUEUE
    EchoPending,   \* ECHO_PENDING
    PtyRoom,       \* writes the PTY's writer may hold (WRITE_BUDGET)
    TtyRoom,       \* writes the kernel's terminal queue may hold
    ChunksAtOnce,  \* OUTPUT_CHUNKS_AT_ONCE
    SettleReads,   \* reads of the modes after output: 10, 20, 40, 80 ms
    EchoModes,     \* the modes a program may set: echo on, or on and off
    Extras,        \* what clients send beside keys, of "redraw", "resize", "colours"
    None

ASSUME SessionAssumption ==
    /\ Clients # {}
    /\ MaxAttach \in Nat \ {0} /\ MaxSeq \in Nat /\ MaxOut \in Nat
    /\ InputQueue \in Nat \ {0} /\ AskQueue \in Nat \ {0}
    /\ ControlQueue \in Nat \ {0} /\ EchoPending \in Nat \ {0}
    /\ PtyRoom \in Nat \ {0} /\ TtyRoom \in Nat \ {0}
    /\ ChunksAtOnce \in Nat /\ SettleReads \in Nat \ {0}
    /\ EchoModes \subseteq BOOLEAN /\ Extras \subseteq {"redraw", "resize", "colours"}
    /\ None \notin [attach: Nat, seq: Nat]

VARIABLES
    \* the attachments
    owner,       \* the client of each attach, in order: its length is Session.attaches
    live,        \* the attachments whose SessionClient exists (presence receivers)
    shown,       \* what each attachment shows once it has read all it was sent
    knows,       \* the attachments that were sent the program's end
    \* input
    typed,       \* every input a client sent
    inq,         \* the session's input channel
    pending,     \* PendingInput: whether it holds bytes, and the input it holds
    wq,          \* the PTY writer's queue, its write in flight included
    tq,          \* the terminal's input queue in the kernel
    wrote,       \* the inputs whose bytes were written to the PTY
    read,        \* the inputs the program read, or that had no bytes
    lost,        \* the inputs the writer dropped as it stopped
    echo,        \* EchoAck.pending: inputs awaiting their echo
    written,     \* Session.written
    acked,       \* the inputs a client was told had their time to show
    claimed,     \* the inputs a client was told the program has read
    \* output
    out, processed, told, settle, echoOn, tty,
    \* the program and its end
    alive, termOpen, writer, exitSeen, outputEnded, exited,
    \* the task
    phase, control, registered, asks, detached

attachVars == <<owner, live, shown, knows>>
inputVars  == <<typed, inq, pending, wrote>>
ptyVars    == <<wq, tq, read, lost, writer>>
ackVars    == <<echo, written, acked, claimed>>
outVars    == <<out, processed, told, settle>>
ttyVars    == <<echoOn, tty>>
endVars    == <<alive, termOpen, exitSeen, outputEnded, exited>>
taskVars   == <<phase, control, registered, asks, detached>>
vars == <<attachVars, inputVars, ptyVars, ackVars, outVars, ttyVars, endVars, taskVars>>

Attachment == 1..MaxAttach
Input      == [attach: Attachment, seq: 0..MaxSeq]  \* number 0: colours, which have none
Keys       == {i \in Input : i.seq # 0}
Ask        == [t: {"redraw", "resize"}, attach: Attachment] \cup {[t |-> "ended"]}
NoPending  == [bytes |-> FALSE, input |-> None]

newest == Len(owner)  \* Session.attaches
InLoop == phase \in {"top", "select"}

Least(a, b) == IF a < b THEN a ELSE b

(***************************************************************************)
(* A client has one connection at a time: what it last attached to.  Of a  *)
(* report or an exit that names input s it concludes that its keys were    *)
(* read if it sent none past s (Client::heard).                            *)
(***************************************************************************)
Current(a) == a \in live /\ \A b \in (a + 1)..newest : owner[b] # owner[a]
Sent(a) == {i \in typed : i.attach = a}
SentNothingPast(a, s) == \A i \in Sent(a) : i.seq <= s
Concluded(s) == UNION {Sent(a) : a \in {b \in live : Current(b) /\ SentNothingPast(b, s)}}

\* An echo of input s, told to the newest attachment: what its client takes for echoed.
TakenForEchoed(s) == {i \in Sent(newest) : newest \in live /\ i.seq <= s}

Init ==
    /\ \E c \in Clients : owner = <<c>>
    /\ live \in {{1}, {}}
    /\ shown = [a \in Attachment |-> 0] /\ knows = {}
    /\ typed = {} /\ inq = <<>> /\ pending = NoPending
    /\ wq = <<>> /\ tq = <<>>
    /\ wrote = {} /\ read = {} /\ lost = {}
    /\ echo = <<>> /\ written = 0 /\ acked = {} /\ claimed = {}
    /\ out = 0 /\ processed = 0 /\ told = 0 /\ settle = 0
    /\ echoOn = TRUE /\ tty = TRUE
    /\ alive = TRUE /\ termOpen = TRUE /\ writer = TRUE
    /\ exitSeen = FALSE /\ outputEnded = FALSE /\ exited = FALSE
    /\ phase = "top" /\ control = <<>> /\ registered = TRUE
    /\ asks = <<>> /\ detached = FALSE

(***************************************************************************)
(* Small steps the arms share.  A definition named X_Y beside X is X with  *)
(* a fault: the check of a property must fail with it in place of X.       *)
(***************************************************************************)
Running_Ignored == TRUE

\* The program's end was not told yet (`running`).
Running == ~exited

\* Session::release, all output up to chunk n told: each attachment's events go on by that much.
Release(n) ==
    /\ told' = n
    /\ shown' = [a \in Attachment |-> IF a \in live THEN shown[a] + (n - told) ELSE shown[a]]

ReleaseAndStart_HeldAfter(a) ==
    told' = told /\ shown' = [shown EXCEPT ![a] = processed]

\* Session::release, then Session::start for attachment a: it begins with the screen as it is.
ReleaseAndStart(a) ==
    /\ told' = processed
    /\ shown' = [b \in Attachment |->
                    IF b = a THEN processed
                    ELSE IF b \in live THEN shown[b] + (processed - told) ELSE shown[b]]

KnowsFromStart_Nothing(a) == knows

\* What attachment a knows by what it began with: the end, if the program exited.
KnowsFromStart(a) == IF exited THEN knows \cup {a} ELSE knows

SettlingOfHeld_NotSet == settle

\* Output is held until the next reading of the modes, which is set if none is.
SettlingOfHeld == IF settle = 0 THEN 1 ELSE settle

KeysLeft_InTerminalAlone == tq # <<>>

\* Pty::activity: reading only with no key queued or unread and no output yet to come.
KeysLeft == wq # <<>> \/ tq # <<>>
MayRead(n) == alive /\ termOpen /\ ~KeysLeft /\ out = n

\* Session::probe, its report told, output up to chunk n processed: the program is busy, or it
\* reads and has all it was sent.
Report(n) ==
    \/ UNCHANGED claimed
    \/ MayRead(n) /\ claimed' = claimed \cup Concluded(written)

\* The program's exit as it is looked for: reaped if it happened.
ExitLookedFor == exitSeen \/ ~alive

ModesAtTick_AfterOutput == IF detached \/ settle = 0 THEN tty ELSE echoOn

\* The modes as the tick has them: read for an attached client alone.
ModesAtTick == IF detached THEN tty ELSE echoOn

DetachedAfterAttach_Kept(taken) == detached \/ live = {}

\* No client is attached since when none was: an attach that was taken ends that.
DetachedAfterAttach(taken) == ~taken /\ (detached \/ live = {})

WriteClosed_OrFull == ~(writer /\ Len(wq) < PtyRoom)

\* A write to the PTY: its writer takes it, holds as much as it may (Full), or is gone (Closed).
WriteTaken  == writer /\ Len(wq) < PtyRoom
WriteFull   == writer /\ wq # <<>>
WriteClosed == ~writer

EchoWritten_Unbounded(s) == echo' = Append(echo, s)

\* EchoAck::written
EchoWritten(s) ==
    echo' = IF Len(echo) < EchoPending THEN Append(echo, s)
            ELSE [echo EXCEPT ![Len(echo)] = s]

\* Nothing but the phase of the task changed.
UnchangedButPhase ==
    UNCHANGED <<attachVars, inputVars, ptyVars, ackVars, outVars, ttyVars, endVars,
                control, registered, asks, detached>>

(***************************************************************************)
(* The top of the loop: the end if it is due, else what input is pending.  *)
(***************************************************************************)
\* Ending::deadline passed at once: the exit is known and the output ended.
EndIsDue == Running /\ exitSeen /\ outputEnded

\* What is held goes first, then the end.  `counted`: Pty::keys_left can tell what was left unread
\* (macOS cannot, once the terminal closed).
TopEnds ==
    /\ phase = "top" /\ Running /\ (exitSeen \/ outputEnded)
    /\ Release(processed)
    /\ \E counted \in {TRUE, ~outputEnded} :
        claimed' = IF ~pending.bytes /\ counted /\ ~KeysLeft
                   THEN claimed \cup Concluded(written) ELSE claimed
    /\ exited' = TRUE
    /\ knows' = knows \cup live
    /\ pending' = NoPending
    /\ phase' = "select"
    /\ UNCHANGED <<owner, live, typed, inq, wrote, ptyVars, echo, written, acked, out, processed,
                   settle, ttyVars, alive, termOpen, exitSeen, outputEnded, control, registered,
                   asks, detached>>

\* Nothing is due; or the PTY does not take what is pending (WriteError::Full), which stays.
TopIdle ==
    /\ phase = "top" /\ ~EndIsDue
    /\ Running /\ pending.bytes => WriteFull
    /\ phase' = "select"
    /\ UnchangedButPhase

\* PendingInput::flush, taken by the PTY.
TopWrites ==
    /\ phase = "top" /\ ~EndIsDue /\ Running /\ pending.bytes /\ WriteTaken
    /\ wq' = Append(wq, pending.input)
    /\ pending' = NoPending
    /\ IF pending.input = None
       THEN UNCHANGED <<wrote, echo, written>>
       ELSE /\ wrote' = wrote \cup {pending.input}
            /\ EchoWritten(pending.input.seq)
            /\ written' = pending.input.seq
    /\ phase' = "select"
    /\ UNCHANGED <<attachVars, typed, inq, tq, read, lost, writer, acked, claimed, outVars,
                   ttyVars, endVars, control, registered, asks, detached>>

\* PendingInput::flush, the PTY's input closed: all of it is dropped.
TopDiscards ==
    /\ phase = "top" /\ ~EndIsDue /\ Running /\ pending.bytes /\ WriteClosed
    /\ pending' = NoPending
    /\ phase' = "select"
    /\ UNCHANGED <<attachVars, typed, inq, wrote, ptyVars, ackVars, outVars, ttyVars, endVars,
                   control, registered, asks, detached>>

(***************************************************************************)
(* The arms of the select!.  Each goes back to the top of the loop.        *)
(***************************************************************************)
Woken == phase = "select" /\ phase' = "top"

\* Output read: more chunks than one at once; the emulator's answers to the program's queries
\* (PendingInput::reply) join what is pending, or are dropped past their budget.  An echo of typing,
\* a mark or too much held: the modes are read and all of it told at once, and after a mark a
\* report; else it is held until its settling.
ArmOutput ==
    /\ Woken /\ Running /\ ~outputEnded /\ processed < out
    /\ processed' = Least(out, processed + 1 + ChunksAtOnce)
    /\ \E answered \in BOOLEAN : pending' = [pending EXCEPT !.bytes = @ \/ answered]
    /\ \/ /\ settle' = SettlingOfHeld
          /\ UNCHANGED <<told, shown, tty, claimed>>
       \/ /\ tty' = echoOn
          /\ Release(processed')
          /\ settle' = 1
          /\ UNCHANGED claimed \/ Report(processed')
    /\ UNCHANGED <<owner, live, knows, typed, inq, wrote, ptyVars, echo, written, acked, out,
                   echoOn, endVars, control, registered, asks, detached>>

\* The output channel ended: the program and all it left closed the terminal.
ArmOutputEnds ==
    /\ Woken /\ Running /\ ~outputEnded /\ processed = out /\ ~termOpen
    /\ outputEnded' = TRUE
    /\ exitSeen' = ExitLookedFor
    /\ UNCHANGED <<attachVars, inputVars, ptyVars, ackVars, outVars, ttyVars, alive, termOpen,
                   exited, control, registered, asks, detached>>

\* Ending::deadline, or INPUT_RETRY while input is pending: the loop goes round.
ArmWakes ==
    /\ Woken /\ Running
    /\ exitSeen \/ outputEnded \/ pending.bytes
    /\ UnchangedButPhase

\* The settling: the modes, then what is held; the next reading, if one is left before a tick.
ArmSettle ==
    /\ Woken /\ Running /\ settle # 0
    /\ settle' = IF settle < SettleReads THEN settle + 1 ELSE 0
    /\ tty' = echoOn
    /\ Release(processed)
    /\ UNCHANGED <<owner, live, knows, inputVars, ptyVars, ackVars, out, processed, echoOn,
                   endVars, control, registered, asks, detached>>

\* EchoAck::promote: every input that had its time is promoted, the newest of them told to the
\* newest attachment.
ArmEcho ==
    /\ Woken /\ told = processed /\ echo # <<>>
    /\ \E k \in 1..Len(echo) :
        /\ echo' = SubSeq(echo, k + 1, Len(echo))
        /\ acked' = acked \cup TakenForEchoed(echo[k])
    /\ UNCHANGED <<attachVars, inputVars, ptyVars, written, claimed, outVars, ttyVars, endVars,
                   control, registered, asks, detached>>

\* Input is taken while none is pending, and dropped once the program exited or from an attachment
\* that is not the newest.  What it encodes to may be nothing (ServerTerminal::encode_input).
ArmInput ==
    /\ Woken /\ inq # <<>>
    /\ ~pending.bytes \/ ~Running
    /\ inq' = Tail(inq)
    /\ LET i == Head(inq) IN
       IF i.attach # newest \/ ~Running THEN UNCHANGED <<pending, read>>
       ELSE \E bytes \in BOOLEAN :
            /\ pending' = [bytes |-> bytes, input |-> IF i.seq = 0 THEN pending.input ELSE i]
            /\ read' = IF i.seq = 0 \/ bytes THEN read ELSE read \cup {i}
    /\ UNCHANGED <<attachVars, typed, wrote, wq, tq, lost, writer, ackVars, outVars, ttyVars, endVars,
                   control, registered, asks, detached>>

\* Ask::Redraw: what is held goes first, then the asker begins anew.
ArmRedraw ==
    /\ Woken /\ asks # <<>> /\ Head(asks).t = "redraw"
    /\ asks' = Tail(asks)
    /\ LET a == Head(asks).attach IN
       IF a \in live THEN ReleaseAndStart(a) /\ knows' = KnowsFromStart(a)
       ELSE Release(processed) /\ knows' = knows
    /\ UNCHANGED <<owner, live, inputVars, ptyVars, ackVars, out, processed, settle, ttyVars,
                   endVars, control, registered, detached>>

\* Ask::Resize, of the newest attachment alone: the program may be owed a report of the size
\* (PtyHost::resize).
ArmResize ==
    /\ Woken /\ asks # <<>> /\ Head(asks).t = "resize"
    /\ asks' = Tail(asks)
    /\ \E reports \in BOOLEAN :
        pending' = IF Head(asks).attach = newest /\ Running
                   THEN [pending EXCEPT !.bytes = @ \/ reports] ELSE pending
    /\ UNCHANGED <<attachVars, typed, inq, wrote, ptyVars, ackVars, outVars, ttyVars, endVars,
                   control, registered, detached>>

\* Session::client: the new attachment is the newest, its echoes and its written input begin anew,
\* and a report of its size goes to the program if the PTY takes it at once.  A requester already
\* gone drops its client, and the session stays detached since when it was.
ArmAttach ==
    /\ Woken /\ control # <<>>
    /\ control' = Tail(control)
    /\ LET a == newest + 1 IN
       /\ owner' = Append(owner, Head(control))
       /\ \/ /\ live' = live \cup {a}
             /\ ReleaseAndStart(a)
             /\ knows' = KnowsFromStart(a)
             /\ detached' = DetachedAfterAttach(TRUE)
          \/ /\ UNCHANGED <<live, knows>>
             /\ Release(processed)
             /\ detached' = DetachedAfterAttach(FALSE)
    /\ echo' = <<>>
    /\ written' = 0
    /\ \/ UNCHANGED wq
       \/ "resize" \in Extras /\ WriteTaken /\ wq' = Append(wq, None)
    /\ UNCHANGED <<inputVars, tq, read, lost, writer, acked, claimed, out, processed, settle,
                   ttyVars, endVars, registered, asks>>

\* Presence: the last client left.  A listing may see it first (Ask::Describe).
ArmDetached ==
    /\ Woken /\ ~detached /\ live = {}
    /\ detached' = TRUE
    /\ UNCHANGED <<attachVars, inputVars, ptyVars, ackVars, outVars, ttyVars, endVars,
                   control, registered, asks>>

\* The tick: the exit is looked for, and the modes read.
ArmTick ==
    /\ Woken /\ Running
    /\ exitSeen' = ExitLookedFor
    /\ tty' = ModesAtTick
    /\ UNCHANGED <<attachVars, inputVars, ptyVars, ackVars, outVars, echoOn, alive, termOpen,
                   outputEnded, exited, control, registered, asks, detached>>

\* A report owed, or a poll that finds a change: never before output that is held.
ArmProbe ==
    /\ Woken /\ Running /\ told = processed
    /\ Report(processed)
    /\ UNCHANGED <<attachVars, inputVars, ptyVars, echo, written, acked, outVars, ttyVars,
                   endVars, control, registered, asks, detached>>

(***************************************************************************)
(* How the task ends: told its end, the TTL, or its handles dropped.  What *)
(* still waits in its channels goes with them.                             *)
(***************************************************************************)
Break ==
    /\ phase = "select" /\ phase' = "closing"
    /\ control' = <<>> /\ inq' = <<>> /\ asks' = <<>>
    /\ UNCHANGED <<attachVars, typed, pending, wrote, ptyVars, ackVars, outVars, ttyVars, endVars,
                   registered, detached>>

ArmEnded == asks # <<>> /\ Head(asks).t = "ended" /\ ~Running /\ Break
ArmTtl == detached /\ Break
ArmUnregistered == ~registered /\ control = <<>> /\ Break

\* The inputs in a queue of writes.
InputsOf(q) == {q[k] : k \in {j \in 1..Len(q) : q[j] # None}}

\* Pty::close: the program is hung up and the pumps joined.
Closes ==
    /\ phase = "closing"
    /\ phase' = "gone"
    /\ alive' = FALSE /\ termOpen' = FALSE
    /\ writer' = FALSE /\ wq' = <<>>
    /\ lost' = lost \cup InputsOf(wq)
    /\ UNCHANGED <<attachVars, inputVars, tq, read, ackVars, outVars, ttyVars, exitSeen,
                   outputEnded, exited, control, registered, asks, detached>>

(***************************************************************************)
(* The program, whoever holds its terminal after it, and the PTY's writer  *)
(* thread.  What they do once the end was told, nobody sees.               *)
(***************************************************************************)
Hosted == InLoop /\ Running

ProgramReads ==
    /\ Hosted /\ termOpen /\ tq # <<>>
    /\ tq' = Tail(tq)
    /\ read' = IF Head(tq) = None THEN read ELSE read \cup {Head(tq)}
    /\ UNCHANGED <<attachVars, inputVars, wq, lost, writer, ackVars, outVars, ttyVars, endVars,
                   taskVars>>

ProgramWrites ==
    /\ Hosted /\ termOpen /\ out < MaxOut
    /\ out' = out + 1
    /\ UNCHANGED <<attachVars, inputVars, ptyVars, ackVars, processed, told, settle, ttyVars,
                   endVars, taskVars>>

ProgramSetsEcho ==
    /\ Hosted /\ termOpen
    /\ echoOn' \in EchoModes \ {echoOn}
    /\ UNCHANGED <<attachVars, inputVars, ptyVars, ackVars, outVars, tty, endVars, taskVars>>

\* It exits, leaving a job that holds the terminal or none.
ProgramExits ==
    /\ Hosted /\ alive
    /\ alive' = FALSE
    /\ termOpen' \in {termOpen, FALSE}
    /\ UNCHANGED <<attachVars, inputVars, ptyVars, ackVars, outVars, ttyVars, exitSeen,
                   outputEnded, exited, taskVars>>

\* It closes its terminal and runs on, or the job it left ends.
TerminalCloses ==
    /\ Hosted /\ termOpen
    /\ termOpen' = FALSE
    /\ UNCHANGED <<attachVars, inputVars, ptyVars, ackVars, outVars, ttyVars, alive, exitSeen,
                   outputEnded, exited, taskVars>>

WriterWrites ==
    /\ Hosted /\ writer /\ termOpen /\ wq # <<>> /\ Len(tq) < TtyRoom
    /\ tq' = Append(tq, Head(wq))
    /\ wq' = Tail(wq)
    /\ UNCHANGED <<attachVars, inputVars, read, lost, writer, ackVars, outVars, ttyVars,
                   endVars, taskVars>>

\* write_while_running finds the terminal gone: the thread ends, and its queue is dropped, which
\* gives the budget back (InputChunk::drop).
WriterStops ==
    /\ Hosted /\ writer /\ ~termOpen /\ wq # <<>>
    /\ writer' = FALSE
    /\ wq' = <<>>
    /\ lost' = lost \cup InputsOf(wq)
    /\ UNCHANGED <<attachVars, inputVars, tq, read, ackVars, outVars, ttyVars, endVars,
                   taskVars>>

(***************************************************************************)
(* The connections and the registry.                                       *)
(***************************************************************************)
SentBy(c) == {i.seq : i \in {j \in typed : owner[j.attach] = c}}
Attaching(c) == \E k \in 1..Len(control) : control[k] = c

\* A client types on the connection it has, its numbers rising across its reconnects
\* (Client::typed), and its server task hands it on.
ClientTypes(a) ==
    /\ InLoop /\ Current(a) /\ Len(inq) < InputQueue /\ ~Attaching(owner[a])
    /\ \E s \in 1..MaxSeq :
        /\ SentBy(owner[a]) = 1..(s - 1)
        /\ inq' = Append(inq, [attach |-> a, seq |-> s])
        /\ typed' = typed \cup {[attach |-> a, seq |-> s]}
    /\ UNCHANGED <<attachVars, pending, wrote, ptyVars, ackVars, outVars, ttyVars, endVars,
                   taskVars>>

ClientTellsColours(a) ==
    /\ InLoop /\ "colours" \in Extras /\ a \in live /\ Len(inq) < InputQueue
    /\ inq' = Append(inq, [attach |-> a, seq |-> 0])
    /\ UNCHANGED <<attachVars, typed, pending, wrote, ptyVars, ackVars, outVars, ttyVars,
                   endVars, taskVars>>

\* SessionClient dropped, and the attachment with it.
ClientLeaves(a) ==
    /\ InLoop /\ a \in live
    /\ live' = live \ {a}
    /\ knows' = knows \ {a}
    /\ shown' = [shown EXCEPT ![a] = 0]
    /\ UNCHANGED <<owner, inputVars, ptyVars, ackVars, outVars, ttyVars, endVars, taskVars>>

AskRoom == InLoop /\ Len(asks) < AskQueue

ClientAsks(a) ==
    /\ AskRoom /\ a \in live
    /\ \E t \in {"redraw", "resize"} \cap Extras :
        asks' = Append(asks, [t |-> t, attach |-> a])
    /\ UNCHANGED <<attachVars, inputVars, ptyVars, ackVars, outVars, ttyVars, endVars, phase,
                   control, registered, detached>>

\* SessionClient::ended, of a client that has the program's end.
ClientHasEnd(a) ==
    /\ AskRoom /\ a \in live \cap knows
    /\ asks' = Append(asks, [t |-> "ended"])
    /\ UNCHANGED <<attachVars, inputVars, ptyVars, ackVars, outVars, ttyVars, endVars, phase,
                   control, registered, detached>>

\* The registry hands it an attach (Sessions::attach).
RegistryAttaches(c) ==
    /\ InLoop /\ registered
    /\ Len(control) < ControlQueue /\ newest + Len(control) < MaxAttach
    /\ control' = Append(control, c)
    /\ UNCHANGED <<attachVars, inputVars, ptyVars, ackVars, outVars, ttyVars, endVars, phase,
                   registered, asks, detached>>

\* The registry drops its handles: the peer was revoked, or the server stops.
RegistryEnds ==
    /\ InLoop /\ registered
    /\ registered' = FALSE
    /\ UNCHANGED <<attachVars, inputVars, ptyVars, ackVars, outVars, ttyVars, endVars, phase,
                   control, asks, detached>>

(***************************************************************************)
(* The specification.                                                      *)
(***************************************************************************)
Top == TopEnds \/ TopIdle \/ TopWrites \/ TopDiscards
Arms ==
    \/ ArmOutput \/ ArmOutputEnds \/ ArmWakes \/ ArmSettle \/ ArmEcho \/ ArmInput
    \/ ArmRedraw \/ ArmResize \/ ArmAttach \/ ArmDetached \/ ArmTick \/ ArmProbe
Ends == ArmEnded \/ ArmTtl \/ ArmUnregistered \/ Closes
Program ==
    \/ ProgramReads \/ ProgramWrites \/ ProgramSetsEcho \/ ProgramExits \/ TerminalCloses
    \/ WriterWrites \/ WriterStops
Others ==
    \/ \E a \in live : ClientTypes(a) \/ ClientTellsColours(a) \/ ClientLeaves(a) \/ ClientAsks(a)
                         \/ ClientHasEnd(a)
    \/ \E c \in Clients : RegistryAttaches(c)
    \/ RegistryEnds
Gone == phase = "gone" /\ UNCHANGED vars

Next == Top \/ Arms \/ Ends \/ Program \/ Others \/ Gone

Spec == Init /\ [][Next]_vars

(***************************************************************************)
(* Fairness.  tokio's select! picks at random among the arms that are      *)
(* ready, so an arm ready again and again is run; its timers fire; the     *)
(* PTY's threads run.  The program, the clients and the registry owe       *)
(* nothing.                                                                *)
(***************************************************************************)
Fairness ==
    /\ WF_vars(Top) /\ SF_vars(TopEnds) /\ WF_vars(Closes)
    /\ SF_vars(ArmOutput) /\ SF_vars(ArmOutputEnds) /\ SF_vars(ArmSettle)
    /\ SF_vars(ArmTick) /\ SF_vars(ArmDetached) /\ SF_vars(ArmTtl)
FairSpec == Spec /\ Fairness

(***************************************************************************)
(* Correctness.                                                            *)
(***************************************************************************)
AttachOK ==
    /\ owner \in Seq(Clients) /\ newest \in 1..MaxAttach
    /\ live \subseteq 1..newest /\ knows \subseteq 1..newest
    /\ shown \in [Attachment -> Nat]
InputOK ==
    /\ typed \subseteq Keys /\ wrote \subseteq typed
    /\ inq \in Seq(Input) /\ Len(inq) <= InputQueue
    /\ pending \in [bytes : BOOLEAN, input : Keys \cup {None}]
PtyOK ==
    /\ wq \in Seq(Keys \cup {None}) /\ Len(wq) <= PtyRoom
    /\ tq \in Seq(Keys \cup {None}) /\ Len(tq) <= TtyRoom
    /\ read \subseteq Keys /\ lost \subseteq Keys /\ writer \in BOOLEAN
AckOK ==
    /\ echo \in Seq(1..MaxSeq) /\ Len(echo) <= EchoPending /\ written \in 0..MaxSeq
    /\ acked \subseteq Keys /\ claimed \subseteq Keys
OutOK ==
    /\ out \in 0..MaxOut /\ processed \in 0..out /\ told \in 0..processed
    /\ settle \in 0..SettleReads
    /\ echoOn \in BOOLEAN /\ tty \in BOOLEAN
EndOK ==
    /\ alive \in BOOLEAN /\ termOpen \in BOOLEAN
    /\ exitSeen \in BOOLEAN /\ outputEnded \in BOOLEAN /\ exited \in BOOLEAN
TaskOK ==
    /\ phase \in {"top", "select", "closing", "gone"}
    /\ control \in Seq(Clients) /\ Len(control) <= ControlQueue
    /\ registered \in BOOLEAN /\ detached \in BOOLEAN
    /\ asks \in Seq(Ask) /\ Len(asks) <= AskQueue
TypeOK == AttachOK /\ InputOK /\ PtyOK /\ AckOK /\ OutOK /\ EndOK /\ TaskOK

\* Every attachment, begun or redrawn at whatever moment, shows the program's output with none
\* missed and none twice: its redraw ends where the events after it begin (the releases before
\* Session::start).
ShownExact == \A a \in live : shown[a] = told

\* Output read from the program is never held with no reading of the modes to come that tells it
\* (the settling set as it is held), and none is held once the end was told.
HeldIsSettling == told < processed => settle # 0 /\ ~exited

\* Of what one connection sent, the program never gets an input after one that was dropped: the end
\* of a line whose start was lost must not run alone (ARCHITECTURE.md, Reconnect).
WrittenWithoutGaps ==
    \A i \in wrote, j \in typed :
        i.attach = j.attach /\ j.seq < i.seq => j \in wrote \cup read

\* An echo told to a client is of input that reached its program: a client never counts as echoed
\* what it typed and the program did not get (Event::Echo).
EchoedWasWritten == acked \subseteq wrote \cup read

\* What became of keys: written in order with none missing between, and echoed only if written.
KeysAreTrue == WrittenWithoutGaps /\ EchoedWasWritten

\* A client that is told its keys were read (a report of a reading program, or the exit's `read`)
\* is right, but for keys the PTY's writer dropped as the terminal closed.
ClaimsButLost == claimed \subseteq read \cup lost

\* The same, whatever became of them: what proto.rs says of Shown::Exit.  Not so (README, Findings).
ClaimsTrue == claimed \subseteq read

\* Everyone attached once the program's end was told was sent it, however the attach or redraw and
\* the end fell (Session::start).
EndReachesAll == exited => live \subseteq knows

\* No session ends under an attached client unless that is the registry's doing or its program's
\* end is known to a client: the TTL never fires on one that was reattached.
KeptWhileAttached ==
    [][phase = "select" /\ phase' = "closing" => live = {} \/ ~registered \/ exited]_vars

\* Nothing of the program reaches clients after its end: the end is the last of the output.
EndIsLast == [][exited => told' = told /\ wrote' = wrote]_vars

\* The program's exit, once it happened, is told to the clients unless the session ends first.
ExitIsTold == ~alive ~> exited \/ phase = "gone"

\* What the program wrote is told, or its end is, or the session ends.
OutputIsTold == told < out ~> told = out \/ exited \/ phase = "gone"

\* A session no client comes back to ends, whatever its program does.
DetachedEnds == <>[](live = {} /\ control = <<>>) => <>(phase = "gone")

\* While a client is attached, the modes the program keeps are told, written with output or not.
ModesAreTold ==
    \A m \in BOOLEAN :
        <>[](echoOn = m) => <>[](tty = m \/ detached \/ exited \/ phase = "gone")

\* Nothing a client waits for is kept from it for ever: the exit, the output, the modes; nor is a
\* session kept that no client comes back to (the arms of Session::run).
ToldInTheEnd == ExitIsTold /\ OutputIsTold /\ DetachedEnds /\ ModesAreTold

\* Output no echo of typing waits for the modes: "never told with echo on" (TTY_SETTLE), so that
\* a prompt's output never comes before the modes it was written with.  Not so (README, Findings).
NeverToldBeforeModes == [][told' > told /\ ~exited' => tty' = echoOn]_vars
=============================================================================
