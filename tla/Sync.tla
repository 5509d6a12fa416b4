-------------------------------- MODULE Sync --------------------------------
(***************************************************************************)
(* A copy (`koh cp`): the sender that walks its sources and answers the    *)
(* receiver's answers (sync/send.rs), the receiver that lands what comes   *)
(* (sync/receive.rs), and the bounded channels and the stream between them *)
(* (send_on and receive_on of sync/mod.rs).                                *)
(*                                                                         *)
(* What the destination holds before the copy is any leftover: files, and  *)
(* parts of copies cut short.  At most one thing goes wrong in a copy: the *)
(* connection or the receiver goes, or a read or a write fails.            *)
(*                                                                         *)
(* Abstractions.  A file is its blocks and its hash is its content.  A     *)
(* channel, its stream and the channel of the other end are one queue.  A  *)
(* message gathers Gather items.  Modes, times and kinds of failure are    *)
(* left out, but for when a directory gets its own.                        *)
(***************************************************************************)
EXTENDS Naturals, Sequences, FiniteSets

CONSTANTS
    Files,      \* paths of files
    Dirs,       \* paths of directories
    Top,        \* where the copy lands
    In,         \* the directory each path is in
    Copies,     \* copies to make: what the walk of the sources yields, and the options
    Starts,     \* what may be at the destination: files, parts and directories
    Window,     \* WINDOW
    PipeDepth,  \* items between the ends
    ReplyDepth, \* REPLY_DEPTH
    Gather,     \* items a message gathers
    None, Link, \* no file; a symlink in place of one
    Zero        \* a block no one wrote

ASSUME SyncAssumption ==
    /\ In \in [Files \cup Dirs -> Dirs \cup {Top}] /\ Top \notin Files \cup Dirs /\ Files \cap Dirs = {}
    /\ Window \in Nat \ {0} /\ Gather \in Nat \ {0} /\ PipeDepth \in Nat /\ PipeDepth >= Gather
    /\ ReplyDepth \in Nat /\ ReplyDepth > Window
    /\ None \notin Seq(Nat) /\ Link \notin Seq(Nat) /\ None # Link /\ Zero \in Nat
    /\ None \notin Nat \cup {"ok", "failed"}

\* The directories a path is beneath: what any set has that has its own and, with each, that one's.
Upward(s) == \A d \in s \ {Top} : In[d] \in s
Above == [p \in Files \cup Dirs |->
    {d \in Dirs \cup {Top} : \A s \in SUBSET (Dirs \cup {Top}) : In[p] \in s /\ Upward(s) => d \in s}]

Contents == Seq(Nat)

\* What Sender::dir yields: entries, each in the directory begun last before it and not yet ended.
\* One excluded is not gone into, so no directory walked is.
AnEntry == [is : {"dir", "end", "file", "link"}, at : Files \cup Dirs \cup {None},
            whole : Contents \cup {None, Link}]
Typed(e) ==
    /\ e.is = "dir" => e.at \in Dirs
    /\ e.is = "file" => e.at \in Files /\ e.whole \in Contents
    /\ e.is = "link" => e.at \in Files /\ e.whole = Link
Nests(w, ends) ==
    /\ \A i \in DOMAIN ends : i < ends[i]
    /\ \A i, j \in DOMAIN ends : i < j /\ j < ends[i] => ends[j] < ends[i]
    /\ \A e \in DOMAIN w : w[e].is = "end" => \E i \in DOMAIN ends : ends[i] = e
    /\ \A i \in DOMAIN w : w[i].is # "end" /\ In[w[i].at] # Top =>
          \E j \in DOMAIN ends : /\ w[j].at = In[w[i].at] /\ j < i /\ i < ends[j]
                                /\ \A k \in DOMAIN ends : j < k /\ k < i => ends[k] < i
IsWalk(w) ==
    /\ w \in Seq(AnEntry) /\ \A i \in DOMAIN w : Typed(w[i])
    /\ \E ends \in [{i \in DOMAIN w : w[i].is = "dir"} -> {i \in DOMAIN w : w[i].is = "end"}] :
          Nests(w, ends)

ASSUME CopiesAssumption ==
    /\ \A c \in Copies :
          /\ IsWalk(c.walk) /\ c.dry \in BOOLEAN /\ c.delete \in BOOLEAN /\ c.excluded \subseteq Files \cup Dirs
          /\ \A i \in DOMAIN c.walk : c.walk[i].is = "dir" => c.walk[i].at \notin c.excluded
    /\ \A s \in Starts :
          /\ s.file \in [Files -> Contents \cup {None, Link}] /\ s.part \in [Files -> Contents \cup {None}]
          /\ s.dirs \subseteq Dirs

VARIABLES
    copy,      \* the copy made
    was,       \* the destination at its start
    \* the sender
    sender,    \* "walking", "answers" (taking those there are), "awaiting" one, "bytes" (of a
               \* file), "closing", "flushing" its last, "ending" (for the receiver's word), "over"
    walked,    \* entries sent
    pending,   \* files whose headers went
    bytes,     \* the file being sent, and how many of its blocks went
    buf,       \* items not yet handed to the stream
    gaveUp,    \* a source could not be read
    said,      \* what it says of the copy
    \* between them
    pipe, replies, link,
    \* the receiver
    receiver,  \* "reading" an item, "landing" a file's bytes, or "ended"
    open,      \* directories open, the innermost last, and the names seen in each
    awaited,   \* files whose headers came
    landing,   \* the file landing, and its next block
    closing,   \* directories ended, not yet given their mode and time
    closed,    \* those given them
    counted,   \* files in the summary
    outcome, told,
    \* the destination
    file, part, dirs,
    faulted

sendVars == <<sender, walked, pending, bytes, gaveUp, said>>
landVars == <<file, part, dirs>>
recvVars == <<receiver, open, awaited, landing, closing, closed, counted>>
vars == <<copy, was, sendVars, buf, pipe, replies, link, recvVars, outcome, told, landVars, faulted>>

Nothing == [id |-> 0, at |-> 0]
Entry(id) == copy.walk[id]
Item(is, id, n) == [is |-> is, id |-> id, n |-> n]
Answer(is, id, have) == [is |-> is, id |-> id, have |-> have]

Init ==
    /\ copy \in Copies /\ was \in Starts
    /\ sender = "walking" /\ walked = 0 /\ pending = {} /\ bytes = Nothing /\ gaveUp = FALSE
    /\ buf = <<>> /\ said = None
    /\ pipe = <<>> /\ replies = <<>> /\ link = "up"
    /\ receiver = "reading" /\ open = <<>> /\ awaited = {} /\ landing = Nothing
    /\ closing = {} /\ closed = {} /\ counted = 0 /\ outcome = None /\ told = FALSE
    /\ file = was.file /\ part = was.part /\ dirs = was.dirs
    /\ faulted = FALSE

(***************************************************************************)
(* The sender.                                                             *)
(***************************************************************************)
\* Out::flush: waits for room.  Once the connection is cut nobody reads what it hands on.
CanFlush == link = "cut" \/ Len(pipe) + Len(buf) <= PipeDepth
Flushed == IF link = "cut" THEN pipe ELSE pipe \o buf

Flush == CanFlush /\ pipe' = Flushed /\ buf' = <<>>

Put(item) ==
    \/ Len(buf) < Gather /\ buf' = Append(buf, item) /\ UNCHANGED pipe
    \/ Len(buf) = Gather /\ CanFlush /\ pipe' = Flushed /\ buf' = <<item>>

AtWindow(ids) == Cardinality(ids) >= Window

\* Send the next entry's header, but one excluded; a file's waits for an answer at the window.
SendEntry ==
    /\ sender = "walking" /\ walked < Len(copy.walk)
    /\ walked' = walked + 1
    /\ LET here == Entry(walked + 1) IN
       \/ /\ here.is # "end" /\ here.at \in copy.excluded
          /\ UNCHANGED <<sender, pending, buf, pipe>>
       \/ /\ here.is = "end" \/ here.at \notin copy.excluded
          /\ Put(Item("entry", walked + 1, 0))
          /\ pending' = IF here.is = "file" THEN pending \cup {walked + 1} ELSE pending
          /\ sender' = IF here.is = "file" /\ AtWindow(pending') THEN "awaiting"
                       ELSE IF here.is \in {"file", "link"} THEN "answers"
                       ELSE "walking"
    /\ UNCHANGED <<copy, was, bytes, gaveUp, said, replies, link, recvVars, outcome, told,
                   landVars, faulted>>

\* All entries sent: wait for the answers due, then close.
SentAll ==
    /\ sender = "walking" /\ walked = Len(copy.walk)
    /\ sender' = IF pending = {} THEN "closing" ELSE "awaiting"
    /\ UNCHANGED <<copy, was, walked, pending, bytes, gaveUp, said, buf, pipe, replies, link,
                   recvVars, outcome, told, landVars, faulted>>

\* What was written must reach the receiver for it to answer.
ToFlush == buf # <<>>

FlushToWait ==
    /\ sender = "awaiting" /\ ToFlush /\ Flush
    /\ UNCHANGED <<copy, was, sendVars, replies, link, recvVars, outcome, told, landVars, faulted>>

MayTake == sender = "answers" \/ (sender = "awaiting" /\ ~ToFlush)

\* From which block a file goes, as it was answered; None if the receiver has the same.
From_Unchecked(a) ==
    IF a.is = "check" THEN (IF a.have = Entry(a.id).whole THEN None ELSE 0) ELSE Len(a.have)
From(a) ==
    LET whole == Entry(a.id).whole IN
    IF a.is = "check" THEN IF a.have = whole THEN None ELSE 0
    ELSE IF a.have # <<>> /\ SubSeq(whole, 1, Len(a.have)) = a.have THEN Len(a.have) ELSE 0

\* Sender::answers and answer: one reply.
TakeAnswer ==
    /\ MayTake /\ replies # <<>> /\ Head(replies).is # "end"
    /\ replies' = Tail(replies)
    /\ LET a == Head(replies) from == From(a) IN
       /\ a.id \in pending
       /\ pending' = pending \ {a.id}
       /\ \/ /\ from = None
             /\ Put(Item("same", a.id, 0)) /\ sender' = "answers" /\ UNCHANGED bytes
          \/ /\ from # None /\ copy.dry
             /\ Put(Item("differs", a.id, from)) /\ sender' = "answers" /\ UNCHANGED bytes
          \/ /\ from # None /\ ~copy.dry
             /\ Put(Item("data", a.id, from)) /\ sender' = "bytes"
             /\ bytes' = [id |-> a.id, at |-> from]
    /\ UNCHANGED <<copy, was, walked, gaveUp, said, link, recvVars, outcome, told, landVars, faulted>>

\* The receiver ended the copy: its word is the sender's.
TakeEnd ==
    /\ MayTake \/ sender = "ending"
    /\ replies # <<>> /\ Head(replies).is = "end"
    /\ replies' = Tail(replies) /\ said' = Head(replies).have /\ sender' = "over"
    /\ UNCHANGED <<copy, was, walked, pending, bytes, gaveUp, buf, pipe, link, recvVars, outcome,
                   told, landVars, faulted>>

\* No answer more has come.
GoOn ==
    /\ sender = "answers" /\ sender' = "walking"
    /\ UNCHANGED <<copy, was, walked, pending, bytes, gaveUp, said, buf, pipe, replies, link,
                   recvVars, outcome, told, landVars, faulted>>

SendBytes ==
    /\ sender = "bytes"
    /\ LET whole == Entry(bytes.id).whole IN
       \/ /\ bytes.at < Len(whole)
          /\ Put(Item("chunk", bytes.id, whole[bytes.at + 1]))
          /\ bytes' = [bytes EXCEPT !.at = @ + 1] /\ UNCHANGED sender
       \/ /\ bytes.at = Len(whole)
          /\ Put(Item("sent", bytes.id, 0)) /\ bytes' = Nothing /\ sender' = "answers"
    /\ UNCHANGED <<copy, was, walked, pending, gaveUp, said, replies, link, recvVars, outcome,
                   told, landVars, faulted>>

SourceFails ==
    /\ ~faulted /\ sender \in {"walking", "bytes"}
    /\ faulted' = TRUE /\ gaveUp' = TRUE /\ sender' = "closing"
    /\ UNCHANGED <<copy, was, walked, pending, bytes, said, buf, pipe, replies, link, recvVars,
                   outcome, told, landVars>>

\* Done, or Failed: the last item, flushed; then the receiver's word is waited for.
SendLast ==
    /\ sender = "closing" /\ sender' = "flushing"
    /\ Put(Item(IF gaveUp THEN "failed" ELSE "done", 0, 0))
    /\ UNCHANGED <<copy, was, walked, pending, bytes, gaveUp, said, replies, link, recvVars,
                   outcome, told, landVars, faulted>>
FlushLast ==
    /\ sender = "flushing" /\ sender' = "ending" /\ Flush
    /\ UNCHANGED <<copy, was, walked, pending, bytes, gaveUp, said, replies, link, recvVars,
                   outcome, told, landVars, faulted>>
PassOver ==
    /\ sender = "ending" /\ replies # <<>> /\ Head(replies).is # "end"
    /\ replies' = Tail(replies)
    /\ UNCHANGED <<copy, was, sendVars, buf, pipe, link, recvVars, outcome, told, landVars, faulted>>

SenderStep ==
    \/ SendEntry \/ SentAll \/ FlushToWait \/ TakeAnswer \/ TakeEnd \/ GoOn \/ SendBytes
    \/ SendLast \/ FlushLast \/ PassOver

(***************************************************************************)
(* The receiver.                                                           *)
(***************************************************************************)
At(is) == receiver = "reading" /\ pipe # <<>> /\ Head(pipe).is = is
AtEntry(is) == At("entry") /\ Entry(Head(pipe).id).is = is
Here == Entry(Head(pipe).id).at

sentUnchanged == UNCHANGED <<copy, was, sendVars, buf, link>>

Ends(how) == receiver' = "ended" /\ outcome' = how
Goes == UNCHANGED <<receiver, outcome>>

\* close_ready: a directory ended gets its mode and time once no file beneath it is under way.
Ready_AtEnd(ended, ids) == ended
Ready(ended, ids) == {d \in ended : \A id \in ids : d \notin Above[Entry(id).at]}

CloseReady(ended, ids) ==
    /\ closed' = closed \cup Ready(ended, ids)
    /\ closing' = ended \ Ready(ended, ids)

\* saw: names sent into the open directory, and parts that may be resumed, are spared by --delete.
Saw(names, parts) ==
    IF open = <<>> THEN open
    ELSE [open EXCEPT ![Len(open)].seen = @ \cup names, ![Len(open)].parts = @ \cup parts]

\* A directory: made or merged into, and open for what follows.
Enter ==
    /\ AtEntry("dir")
    /\ open' = Append(Saw({Here}, {}), [dir |-> Here, seen |-> {}, parts |-> {}])
    /\ dirs' = IF copy.dry THEN dirs ELSE dirs \cup {Here}
    /\ pipe' = Tail(pipe) /\ Goes
    /\ UNCHANGED <<awaited, landing, closing, closed, counted, file, part, replies, told, faulted>>
    /\ sentUnchanged

\* What --delete takes from a directory that ends: what was not sent, but for what is excluded.
Goner(p, last) == In[p] = last.dir /\ p \notin last.seen /\ p \notin copy.excluded
Lost(last) ==
    {p \in Files \cup Dirs : \E q \in {p} \cup (Above[p] \ {Top}) : Goner(q, last)}
LostParts(last) ==
    {f \in Files : (In[f] = last.dir /\ f \notin last.parts) \/ In[f] \in Lost(last)}

Leave ==
    /\ AtEntry("end") /\ open # <<>>
    /\ LET last == open[Len(open)] deletes == copy.delete /\ ~copy.dry IN
       /\ file' = [f \in Files |-> IF deletes /\ f \in Lost(last) THEN None ELSE file[f]]
       /\ part' = [f \in Files |-> IF deletes /\ f \in LostParts(last) THEN None ELSE part[f]]
       /\ dirs' = IF deletes THEN dirs \ Lost(last) ELSE dirs
       /\ CloseReady(IF copy.dry THEN closing ELSE closing \cup {last.dir}, awaited)
    /\ open' = SubSeq(open, 1, Len(open) - 1)
    /\ pipe' = Tail(pipe) /\ Goes
    /\ UNCHANGED <<awaited, landing, counted, replies, told, faulted>> /\ sentUnchanged

Malformed == Cardinality(awaited) >= Window \/ Head(pipe).id \in awaited

\* An answer the channel has no room for is dropped: the receiver never waits on one.
Reply(a) ==
    replies' = IF link = "up" /\ Len(replies) < ReplyDepth THEN Append(replies, a) ELSE replies

\* A file's header: is it the file here, of the same size, or which start of it was kept?
SawPart(f) == {f}
SameSize(f, size) == IF file[f] \in {None, Link} THEN FALSE ELSE Len(file[f]) = size
Resumable(f, size) == IF part[f] = None THEN FALSE ELSE Len(part[f]) \in 1..size
Header ==
    /\ AtEntry("file")
    /\ pipe' = Tail(pipe)
    /\ LET id == Head(pipe).id  f == Here  size == Len(Entry(id).whole) IN
       \/ Malformed /\ Ends("malformed") /\ UNCHANGED <<open, awaited, replies>>
       \/ /\ ~Malformed
          /\ SameSize(f, size)
          /\ Reply(Answer("check", id, file[f]))
          /\ open' = Saw({f}, {}) /\ awaited' = awaited \cup {id} /\ Goes
       \/ /\ ~Malformed
          /\ ~SameSize(f, size)
          /\ Reply(Answer("want", id,
                IF Resumable(f, size) THEN part[f] ELSE <<>>))
          /\ open' = Saw({f}, SawPart(f)) /\ awaited' = awaited \cup {id} /\ Goes
    /\ UNCHANGED <<landing, closing, closed, counted, landVars, told, faulted>> /\ sentUnchanged

\* The file's bytes follow: into its part, from where the sender says.
Sized(s, n) == [i \in 1..n |-> IF i <= Len(s) THEN s[i] ELSE Zero]
Kept(f) == IF part[f] = None THEN <<>> ELSE part[f]
Data ==
    /\ At("data") /\ ~copy.dry
    /\ LET m == Head(pipe)  f == Entry(m.id).at IN
       \/ m.id \notin awaited /\ Ends("malformed") /\ UNCHANGED <<landing, awaited, part>>
       \/ /\ m.id \in awaited /\ awaited' = awaited \ {m.id}
          /\ part' = [part EXCEPT ![f] = Sized(Kept(f), m.n)]
          /\ landing' = [id |-> m.id, at |-> m.n] /\ receiver' = "landing" /\ UNCHANGED outcome
    /\ pipe' = Tail(pipe)
    /\ UNCHANGED <<open, closing, closed, counted, file, dirs, replies, told, faulted>>
    /\ sentUnchanged

Arrived(is) == receiver = "landing" /\ pipe # <<>> /\ Head(pipe).is = is
Chunk ==
    /\ Arrived("chunk")
    /\ LET f == Entry(landing.id).at IN
       part' = [part EXCEPT ![f] = Append(SubSeq(@, 1, landing.at), Head(pipe).n)]
    /\ landing' = [landing EXCEPT !.at = @ + 1]
    /\ pipe' = Tail(pipe)
    /\ UNCHANGED <<receiver, outcome, open, awaited, closing, closed, counted, file, dirs, replies,
                   told, faulted>> /\ sentUnchanged
Rename ==
    /\ Arrived("sent")
    /\ LET f == Entry(landing.id).at IN
       file' = [file EXCEPT ![f] = part[f]] /\ part' = [part EXCEPT ![f] = None]
    /\ landing' = Nothing /\ receiver' = "reading" /\ counted' = counted + 1
    /\ CloseReady(closing, awaited)
    /\ pipe' = Tail(pipe)
    /\ UNCHANGED <<outcome, open, awaited, dirs, replies, told, faulted>> /\ sentUnchanged

\* The same here, or, in a dry run, one that would be written.
Settled ==
    /\ At("same") \/ (At("differs") /\ copy.dry)
    /\ pipe' = Tail(pipe)
    /\ LET id == Head(pipe).id IN
       \/ id \notin awaited /\ Ends("malformed") /\ UNCHANGED <<awaited, closing, closed, counted>>
       \/ /\ id \in awaited /\ awaited' = awaited \ {id} /\ counted' = counted + 1
          /\ CloseReady(closing, awaited') /\ Goes
    /\ UNCHANGED <<open, landing, landVars, replies, told, faulted>> /\ sentUnchanged

\* A symlink, made beside what is there and put in its place, by way of the part.
Symlink ==
    /\ AtEntry("link")
    /\ open' = Saw({Here}, {}) /\ pipe' = Tail(pipe) /\ Goes
    /\ LET whole == Entry(Head(pipe).id).whole IN
       IF copy.dry \/ file[Here] = whole THEN UNCHANGED <<file, part>>
       ELSE /\ file' = [file EXCEPT ![Here] = whole]
            /\ part' = IF file[Here] = None THEN part ELSE [part EXCEPT ![Here] = None]
    /\ UNCHANGED <<awaited, landing, closing, closed, counted, dirs, replies, told, faulted>>
    /\ sentUnchanged

\* The end of the copy, the sender's failure, an item out of place, or no more to read.
AllLanded == open = <<>> /\ awaited = {}
Finish ==
    /\ receiver # "ended"
    /\ \/ pipe = <<>> /\ link = "cut" /\ Ends("cut") /\ UNCHANGED pipe
       \/ At("done") /\ AllLanded /\ Ends("ok") /\ pipe' = Tail(pipe)
       \/ At("done") /\ ~AllLanded /\ Ends("malformed") /\ pipe' = Tail(pipe)
       \/ At("failed") /\ Ends("failed") /\ pipe' = Tail(pipe)
       \/ Arrived("failed") /\ Ends("malformed") /\ pipe' = Tail(pipe)
    /\ UNCHANGED <<open, awaited, landing, closing, closed, counted, landVars, replies, told, faulted>>
    /\ sentUnchanged

\* receive_on: how it went, once there is room to say so.
SayEnd ==
    /\ outcome # None /\ ~told
    /\ link = "cut" \/ Len(replies) < ReplyDepth
    /\ told' = TRUE
    /\ Reply(Answer("end", 0, IF outcome = "ok" THEN "ok" ELSE "failed"))
    /\ UNCHANGED <<pipe, recvVars, outcome, landVars, faulted>> /\ sentUnchanged

ReceiverStep ==
    \/ Enter \/ Leave \/ Header \/ Data \/ Chunk \/ Rename \/ Settled \/ Symlink \/ Finish \/ SayEnd

(***************************************************************************)
(* What goes wrong.                                                        *)
(***************************************************************************)
\* An entry cannot be landed, or the disk is full: the stream is read no further.
LandFails ==
    /\ ~faulted /\ faulted' = TRUE /\ receiver # "ended" /\ pipe # <<>> /\ Ends("failed")
    /\ UNCHANGED <<copy, was, sendVars, buf, link, pipe, replies, open, awaited, landing, closing,
                   closed, counted, told, landVars>>

\* The connection goes, and what was on its way past some point; or the receiver with it.
Cut ==
    /\ ~faulted /\ faulted' = TRUE /\ link' = "cut"
    /\ \E n \in 0..Len(pipe), m \in 0..Len(replies) :
          pipe' = SubSeq(pipe, 1, n) /\ replies' = SubSeq(replies, 1, m)
    /\ \/ UNCHANGED <<receiver, outcome>>
       \/ outcome = None /\ Ends("died")
    /\ UNCHANGED <<copy, was, sendVars, buf, open, awaited, landing, closing, closed, counted, told,
                   landVars>>

Next == SenderStep \/ ReceiverStep \/ SourceFails \/ LandFails \/ Cut

Spec == Init /\ [][Next]_vars

\* The ends are threads of their own, the tasks between them always run.
Fairness == WF_vars(SenderStep) /\ WF_vars(ReceiverStep)
FairSpec == Spec /\ Fairness

(***************************************************************************)
(* Properties.                                                             *)
(***************************************************************************)
\* Every variable keeps its type, every queue its bound, and no more headers wait than a window.
TypeOK ==
    /\ sender \in {"walking", "answers", "awaiting", "bytes", "closing", "flushing", "ending", "over"}
    /\ walked \in 0..Len(copy.walk) /\ pending \subseteq 1..walked
    /\ Cardinality(pending) <= Window /\ Cardinality(awaited) <= Window
    /\ Len(buf) <= Gather /\ Len(pipe) <= PipeDepth /\ Len(replies) <= ReplyDepth
    /\ receiver \in {"reading", "landing", "ended"} /\ link \in {"up", "cut"}
    /\ awaited \subseteq 1..Len(copy.walk) /\ dirs \subseteq Dirs
    /\ closing \cap closed = {} /\ closing \cup closed \subseteq Dirs
    /\ said \in {None, "ok", "failed"} /\ outcome \in {None, "ok", "failed", "malformed", "cut", "died"}

\* What the copy brings to a path.
Brought(f) == {copy.walk[i].whole : i \in {j \in DOMAIN copy.walk :
                    copy.walk[j].is \in {"file", "link"} /\ copy.walk[j].at = f /\ f \notin copy.excluded}}
Walked == {copy.walk[i].at : i \in {j \in DOMAIN copy.walk : copy.walk[j].is = "dir"}}
Starting(f) == UNION {{SubSeq(w, 1, n) : n \in 0..Len(w)} : w \in Brought(f) \ {Link}}

Sent == {copy.walk[i].at : i \in {j \in DOMAIN copy.walk :
            copy.walk[j].is # "end" /\ copy.walk[j].at \notin copy.excluded}}
\* What --delete may take: what was not sent of a directory that was, with all it holds, excluded or not.
MayGo(f) == \E p \in {f} \cup (Above[f] \ {Top}) :
                In[p] \in Walked /\ p \notin Sent /\ p \notin copy.excluded

\* Wherever a copy is cut, each file is as it was or whole, what is kept of one under way is its
\* start, and nothing goes but what --delete takes (receive.rs data and leave, send.rs answer).
WholeFiles ==
    \A f \in Files :
        /\ \/ file[f] = was.file[f] \/ file[f] \in Brought(f)
           \/ file[f] = None /\ copy.delete /\ Brought(f) = {} /\ MayGo(f)
        /\ part[f] \in {was.part[f], None} \cup Starting(f)
        /\ copy.dry => file[f] = was.file[f] /\ part[f] = was.part[f]

\* "--delete never removes what they exclude" (CHANGELOG.md).  Not so of what is in a directory that
\* the source lacks, which goes whole: fsat::remove asks of no pattern.
ExcludedStays == \A f \in copy.excluded \cap Files : file[f] = was.file[f]

\* A copy that is said done landed every entry, closed every directory, counted every file once,
\* and with --delete left nothing else; the sender says so only then (receive.rs run, close_ready).
IsDone ==
    /\ counted = Cardinality({i \in DOMAIN copy.walk :
            copy.walk[i].is = "file" /\ copy.walk[i].at \notin copy.excluded})
    /\ ~copy.dry =>
        /\ Walked \subseteq dirs /\ closed = Walked
        /\ \A f \in Files : Brought(f) # {} => file[f] \in Brought(f)
        /\ copy.delete => \A f \in Files : In[f] \in Walked =>
            /\ part[f] = None
            /\ Brought(f) = {} /\ f \notin copy.excluded => file[f] = None
DoneIsDone == (said = "ok" => outcome = "ok") /\ (outcome = "ok" => IsDone)

\* A copy fails by a fault alone: honest ends never take each other's items for malformed,
\* whatever runs ahead of what (send.rs file and answers, receive.rs file).
FailsByFault == outcome \in {None, "ok"} \/ faulted

\* Once a directory has its mode and time nothing lands in it or goes from it: it may be read-only
\* (receive.rs close_ready).
ClosedIsQuiet ==
    [][\A f \in Files : In[f] \in closed => file'[f] = file[f] /\ part'[f] = part[f]]_vars

\* The receiver always ends, and without a fault both ends do: neither the window, nor the depth of
\* the pipe, nor that of the replies ever has them wait for each other (send.rs answers).
CopyEnds == <>(outcome # None) /\ <>(said # None \/ faulted)

\* A copy is what it says: said done when it is, failed by a fault alone, its directories left alone
\* once they are closed, and ended in the end.
CopyIsTrue == [](TypeOK /\ DoneIsDone /\ FailsByFault) /\ ClosedIsQuiet /\ CopyEnds

\* "The stream gone cuts the copy short" (send.rs flush), and the receiver gone, too (answers): the
\* sender ends.  Not so: send_on keeps the channels' other ends while it waits for it.
SenderEnds == <>(said # None)
=============================================================================
