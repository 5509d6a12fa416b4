----------------------------- MODULE SyncProofs -----------------------------
(***************************************************************************)
(* Proofs about a copy: wherever it is cut, of any tree, over anything an  *)
(* earlier copy left, each file is as it was or whole; said done, it is;   *)
(* a directory closed is left alone; and a copy fails by a fault alone.    *)
(*                                                                         *)
(* The argument.  What is ahead of the receiver (the file it lands, what   *)
(* is in the pipe, what the sender gathered) is a stream whose headers     *)
(* come in the order of the walk, none left out, and in which the chunks   *)
(* after a file's data go on where the data says (Stream, Runs).  Data     *)
(* says a start only while the part has just that start (Fits), since      *)
(* --delete spares the part of a file under way (Spared); and --delete     *)
(* takes nothing that was sent, since a directory's end comes after all    *)
(* that is in it, each noted in that directory (Opened).                   *)
(* What has landed agrees with the last header read, r (Landed): each      *)
(* entry before it is there but the files under way, which are the files   *)
(* not counted, and each directory that ended is closed unless a file      *)
(* under way is beneath it.  A file is taken for the same only while it    *)
(* is what the sender compared (Same).  The sender's last word comes after *)
(* every entry (Finished), so that read with nothing under way all has     *)
(* landed, and no entry after a directory's end is beneath it.             *)
(* Until a fault, what will be awaited when the receiver reads an item is  *)
(* what is awaited less the answers before the item and with the headers   *)
(* before it, and what is pending is that after the last item (Accounts,   *)
(* Honest): so every answer is due and every header has its room.          *)
(***************************************************************************)
EXTENDS Sync, TLAPS, FiniteSetTheorems

\* No two entries land as one path: so it is of one source, or of sources of different names.
OneOfAName ==
    \A i, j \in DOMAIN copy.walk :
        /\ Entry(i).is # "end" /\ Entry(j).is # "end"
        /\ Entry(i).at = Entry(j).at
        => i = j

AnItem ==
    [is : {"entry", "same", "differs", "data", "chunk", "sent", "failed", "done"}, id : Nat, n : Nat]
AnAnswer == [is : {"check", "want", "end"}, id : Nat, have : Contents \cup {"ok", "failed"}]
AFrame == [dir : Dirs, seen : SUBSET (Files \cup Dirs), parts : SUBSET Files]

Ids == 1..Len(copy.walk)
IsFile(i) == i \in Ids /\ Entry(i).is = "file" /\ Entry(i).at \notin copy.excluded
Skipped(i) == Entry(i).is # "end" /\ Entry(i).at \in copy.excluded
DirIds == {i \in DOMAIN copy.walk : Entry(i).is = "dir"}
EndIds == {i \in DOMAIN copy.walk : Entry(i).is = "end"}

\* The end of each directory walked.
EndOf == CHOOSE ends \in [DirIds -> EndIds] : Nests(copy.walk, ends)

\* An answer is about a file sent, and asks for no more than it has.
Sound(a) ==
    /\ IsFile(a.id) /\ a.have \in Contents
    /\ a.is = "want" => Len(a.have) <= Len(Entry(a.id).whole)

Types ==
    /\ copy \in Copies /\ was \in Starts /\ OneOfAName
    /\ walked \in 0..Len(copy.walk)
    /\ pipe \in Seq(AnItem) /\ buf \in Seq(AnItem) /\ replies \in Seq(AnAnswer)
    /\ open \in Seq(AFrame) /\ link \in {"up", "cut"} /\ receiver \in {"reading", "landing", "ended"}
    /\ file \in [Files -> Contents \cup {None, Link}] /\ part \in [Files -> Contents \cup {None}]
    /\ bytes \in [id : Nat, at : Nat] /\ landing \in [id : Nat, at : Nat]
    /\ \A k \in 1..Len(replies) : replies[k].is # "end" => Sound(replies[k])
    /\ sender = "bytes" => IsFile(bytes.id) /\ bytes.at <= Len(Entry(bytes.id).whole)
    /\ gaveUp => sender \in {"closing", "flushing", "ending", "over"}

\* What is ahead of the receiver.
Queued == IF link = "up" THEN pipe \o buf ELSE pipe
Ahead == IF receiver = "landing" THEN <<Item("data", landing.id, landing.at)>> \o Queued ELSE Queued

Holds(s, i) == \E k \in 1..Len(s) : s[k].is = "entry" /\ s[k].id = i

\* The stream s after the header r: the next ones in order and none left out, and data of files before.
Stream(s, r) ==
    /\ \A k \in 1..Len(s) : s[k].is = "entry" => s[k].id \in r + 1..walked /\ ~Skipped(s[k].id)
    /\ \A k \in 1..Len(s) : s[k].is = "data" =>
          IsFile(s[k].id) /\ s[k].id <= r /\ s[k].n <= Len(Entry(s[k].id).whole)
    /\ \A j, k \in 1..Len(s) : j < k /\ s[j].is = "entry" /\ s[k].is = "entry" => s[j].id < s[k].id
    /\ \A k \in 1..Len(s) : s[k].is = "entry" =>
          \A i \in r + 1..s[k].id - 1 : Skipped(i) \/ Holds(s, i)

AllAhead(s, r) == \A i \in r + 1..walked : Skipped(i) \/ Holds(s, i)

\* What may follow data m and c chunks: the next chunk, or the end of the file after its last.
Right(m, c, x) ==
    \/ x.is = "failed"
    \/ /\ x.is = "chunk" /\ m.n + c < Len(Entry(m.id).whole)
       /\ x.n = Entry(m.id).whole[m.n + c + 1]
    \/ x.is = "sent" /\ m.n + c >= Len(Entry(m.id).whole)
RunsTo(s, j, k) == s[j].is = "data" /\ \A i \in j + 1..k - 1 : s[i].is = "chunk"
Runs(s) == \A j, k \in 1..Len(s) : j < k /\ RunsTo(s, j, k) => Right(s[j], k - j - 1, s[k])

\* The file the sender sends is the one whose data the stream ends with.
Hand(s) ==
    /\ sender = "bytes" => \A j \in 1..Len(s) : RunsTo(s, j, Len(s) + 1) =>
          s[j].id = bytes.id /\ bytes.at = s[j].n + (Len(s) - j)
    /\ sender # "bytes" /\ ~gaveUp => \A j \in 1..Len(s) : ~RunsTo(s, j, Len(s) + 1)

\* A start that an answer or data speaks of is what the part holds.
FitsAt(s, id) ==
    /\ \A k \in 1..Len(replies) : replies[k].is = "want" /\ replies[k].id = id =>
          replies[k].have = <<>> \/ part[Entry(id).at] = replies[k].have
    /\ \A k \in 1..Len(s) : s[k].is = "data" /\ s[k].id = id =>
          s[k].n = 0 \/ part[Entry(id).at] = SubSeq(Entry(id).whole, 1, s[k].n)
Fits(s) == \A id \in awaited : FitsAt(s, id)

\* Some start of the file is spoken of.
Spoken(s, id) ==
    \/ \E k \in 1..Len(replies) : replies[k].is = "want" /\ replies[k].id = id /\ replies[k].have # <<>>
    \/ \E k \in 1..Len(s) : s[k].is = "data" /\ s[k].id = id /\ s[k].n # 0
SparedAt(s, id) ==
    Spoken(s, id) =>
        \A k \in 1..Len(open) : open[k].dir = In[Entry(id).at] => Entry(id).at \in open[k].parts
Spared(s) == \A id \in awaited : SparedAt(s, id)

\* The directories begun and not ended up to the header r are those open, and each has noted what came.
Begun(r) ==
    \A k \in 1..Len(open) : \E j \in DirIds : Entry(j).at = open[k].dir /\ j <= r /\ r < EndOf[j]
NotEnded(r) ==
    \A j \in DirIds : j <= r /\ r < EndOf[j] => \E k \in 1..Len(open) : open[k].dir = Entry(j).at
InOrder ==
    \A k, l \in 1..Len(open) : \A i, j \in DirIds :
        k < l /\ open[k].dir = Entry(i).at /\ open[l].dir = Entry(j).at => i < j
Noted(r) ==
    \A k \in 1..Len(open) : \A i \in 1..r :
        Entry(i).is # "end" /\ ~Skipped(i) /\ In[Entry(i).at] = open[k].dir => Entry(i).at \in open[k].seen
Opened(r) == Begun(r) /\ NotEnded(r) /\ InOrder /\ Noted(r)

\* The headers awaited and those answered came, and what lands has its start.
Awaiting(r) ==
    /\ \A id \in awaited : IsFile(id) /\ id <= r
    /\ \A k \in 1..Len(replies) : replies[k].is # "end" => replies[k].id <= r
Lands ==
    receiver = "landing" =>
        /\ IsFile(landing.id) /\ landing.id \notin awaited /\ ~copy.dry
        /\ landing.at <= Len(Entry(landing.id).whole)
        /\ part[Entry(landing.id).at] = SubSeq(Entry(landing.id).whole, 1, landing.at)

\* The files that came up to the header r, and those of them whose bytes have not.
Came(r) == {i \in 1..r : IsFile(i)}
UnderWay == awaited \cup (IF receiver = "landing" THEN {landing.id} ELSE {})

\* The directories that ended up to the header r, and those a file under way is beneath.
EndedBy(r) == {Entry(j).at : j \in {i \in DirIds : EndOf[i] <= r}}
Under(d) == \E id \in UnderWay : d \in Above[Entry(id).at]

\* Each file is counted as it lands, and what landed is there.
Counts(r) == counted = Cardinality(Came(r) \ UnderWay)
Placed(r) ==
    ~copy.dry =>
        /\ \A i \in 1..r : Entry(i).is \in {"file", "link"} /\ ~Skipped(i) /\ i \notin UnderWay =>
              file[Entry(i).at] = Entry(i).whole
        /\ \A j \in DirIds : j <= r => Entry(j).at \in dirs

\* A directory is closed as it ended and nothing beneath it is under way.
Closes(r) ==
    /\ closing \cup closed = IF copy.dry THEN {} ELSE EndedBy(r)
    /\ (\A d \in closing : Under(d)) /\ \A d \in closed : ~Under(d)

\* A directory that ended has no part but of files under way, nor what was not sent.
Deletes == copy.delete /\ ~copy.dry
Cleared(r) ==
    Deletes => \A f \in Files : In[f] \in EndedBy(r) =>
        /\ part[f] = None \/ \E id \in UnderWay : Entry(id).at = f
        /\ Brought(f) = {} /\ f \notin copy.excluded => file[f] = None

\* A directory noted no more than came, and spares only the parts of files under way.
Entered(p, r) == \E i \in 1..r : Entry(i).is # "end" /\ ~Skipped(i) /\ Entry(i).at = p
Frames(r) ==
    \A k \in 1..Len(open) :
        /\ \A p \in open[k].seen : Entered(p, r)
        /\ ~copy.dry => \A f \in open[k].parts :
              \E i \in Came(r) : Entry(i).at = f /\ (i \in UnderWay \/ part[f] = None)

Landed(r) == Counts(r) /\ Placed(r) /\ Closes(r) /\ Cleared(r) /\ Frames(r)

\* A file compared is the one that is there, and no part of it is kept.
Compared(s, id) ==
    \/ \E k \in 1..Len(replies) : replies[k].is = "check" /\ replies[k].id = id
    \/ \E k \in 1..Len(s) : s[k].is = "same" /\ s[k].id = id
Unkept(f, r) ==
    /\ \A k \in 1..Len(open) : f \notin open[k].parts
    /\ Deletes /\ In[f] \in EndedBy(r) => part[f] = None
SameAt(s, id, r) ==
    /\ \A k \in 1..Len(replies) : replies[k].is = "check" /\ replies[k].id = id =>
          replies[k].have = file[Entry(id).at]
    /\ \A k \in 1..Len(s) : s[k].is = "same" /\ s[k].id = id => file[Entry(id).at] = Entry(id).whole
    /\ Compared(s, id) /\ ~copy.dry => Unkept(Entry(id).at, r)
Same(s, r) ==
    /\ \A k \in 1..Len(s) : s[k].is = "same" => s[k].id <= r
    /\ \A id \in awaited : SameAt(s, id, r)

\* The sender is done with all sent, and says so last.
Finished(s, r) ==
    /\ sender = "closing" /\ ~gaveUp => walked = Len(copy.walk)
    /\ \A k \in 1..Len(s) : s[k].is = "done" =>
          /\ k = Len(s) /\ sender \in {"flushing", "ending", "over"} /\ walked = Len(copy.walk)
          /\ \A i \in r + 1..walked : Skipped(i) \/ Holds(s, i)

Agreed(s, r) == Landed(r) /\ Same(s, r) /\ Finished(s, r)

LiveAt(s, r) ==
    /\ Stream(s, r) /\ Runs(s) /\ (link = "up" => AllAhead(s, r) /\ Hand(s))
    /\ Fits(s) /\ Spared(s) /\ Opened(r) /\ Awaiting(r) /\ Lands
Live == receiver # "ended" => \E r \in 0..walked : LiveAt(Ahead, r) /\ Agreed(Ahead, r)

Inv == Types /\ Live /\ WholeFiles

\* Done is said only of a copy that is, which goes on being so.
Says ==
    /\ said = "ok" => outcome = "ok"
    /\ \A k \in 1..Len(replies) : replies[k].is = "end" /\ replies[k].have = "ok" => outcome = "ok"
    /\ outcome = None \/ receiver = "ended"

(***************************************************************************)
(* Sequences.                                                              *)
(***************************************************************************)
LEMMA Appended ==
    ASSUME NEW S, NEW s \in Seq(S), NEW x \in S
    PROVE  /\ Append(s, x) \in Seq(S) /\ Len(Append(s, x)) = Len(s) + 1
           /\ \A k \in 1..Len(s) : Append(s, x)[k] = s[k]
           /\ Append(s, x)[Len(s) + 1] = x
OBVIOUS

LEMMA Taken ==
    ASSUME NEW S, NEW s \in Seq(S), s # <<>>
    PROVE  /\ Tail(s) \in Seq(S) /\ Len(s) \in Nat /\ Len(s) >= 1 /\ Len(Tail(s)) = Len(s) - 1
           /\ Head(s) = s[1] /\ Head(s) \in S
           /\ \A k \in 1..Len(s) - 1 : Tail(s)[k] = s[k + 1]
OBVIOUS

LEMMA Joined ==
    ASSUME NEW S, NEW s \in Seq(S), NEW t \in Seq(S)
    PROVE  /\ s \o t \in Seq(S) /\ Len(s \o t) = Len(s) + Len(t) /\ Len(s) \in Nat /\ Len(t) \in Nat
           /\ \A k \in 1..Len(s) : (s \o t)[k] = s[k]
           /\ \A k \in Len(s) + 1..Len(s) + Len(t) : (s \o t)[k] = t[k - Len(s)]
OBVIOUS

LEMMA Started ==
    ASSUME NEW S, NEW s \in Seq(S), NEW n \in 0..Len(s)
    PROVE  /\ SubSeq(s, 1, n) \in Seq(S) /\ Len(SubSeq(s, 1, n)) = n
           /\ \A k \in 1..n : SubSeq(s, 1, n)[k] = s[k]
OBVIOUS

LEMMA Elements ==
    ASSUME NEW S, NEW s \in Seq(S)
    PROVE  Len(s) \in Nat /\ DOMAIN s = 1..Len(s) /\ \A k \in 1..Len(s) : s[k] \in S
OBVIOUS

LEMMA SameElements ==
    ASSUME NEW S, NEW s \in Seq(S), NEW t \in Seq(S), Len(s) = Len(t),
           \A k \in 1..Len(s) : s[k] = t[k]
    PROVE  s = t
OBVIOUS

(***************************************************************************)
(* What is ahead of the receiver, step by step.                            *)
(***************************************************************************)
LEMMA ItemType ==
    ASSUME NEW is \in {"entry", "same", "differs", "data", "chunk", "sent", "failed", "done"},
           NEW id \in Nat, NEW n \in Nat
    PROVE  /\ Item(is, id, n) \in AnItem
           /\ Item(is, id, n).is = is /\ Item(is, id, n).id = id /\ Item(is, id, n).n = n
BY DEF Item, AnItem

LEMMA ChunkType ==
    ASSUME NEW id \in Nat, NEW n \in Nat
    PROVE  /\ Item("chunk", id, n) \in AnItem
           /\ Item("chunk", id, n).is = "chunk" /\ Item("chunk", id, n).n = n
BY DEF Item, AnItem

LEMMA AheadIs ==
    ASSUME pipe \in Seq(AnItem), buf \in Seq(AnItem), landing \in [id : Nat, at : Nat]
    PROVE  /\ Queued \in Seq(AnItem) /\ Ahead \in Seq(AnItem)
           /\ receiver # "landing" => Ahead = Queued
           /\ receiver = "landing" =>
                /\ Len(Ahead) = Len(Queued) + 1 /\ Ahead[1] = Item("data", landing.id, landing.at)
                /\ \A k \in 1..Len(Queued) : Ahead[k + 1] = Queued[k]
<1> DEFINE first == Item("data", landing.id, landing.at)
<1>1. first \in AnItem
  BY ItemType
<1>2. Queued \in Seq(AnItem)
  BY Joined DEF Queued
<1>3. <<first>> \in Seq(AnItem) /\ Len(<<first>>) = 1 /\ <<first>>[1] = first
  BY <1>1
<1> HIDE DEF first
<1>4. <<first>> \o Queued \in Seq(AnItem) /\ Len(<<first>> \o Queued) = Len(Queued) + 1
      /\ (<<first>> \o Queued)[1] = first
      /\ \A k \in 1..Len(Queued) : (<<first>> \o Queued)[k + 1] = Queued[k]
  <2>1. Len(Queued) \in Nat
    BY <1>2
  <2> QED BY <1>2, <1>3, <2>1, Joined
<1>5. Ahead = IF receiver = "landing" THEN <<first>> \o Queued ELSE Queued
  BY DEF Ahead, first
<1> QED BY <1>2, <1>4, <1>5 DEF first

\* The tail of what is queued, when the receiver takes an item.
LEMMA QueuedTaken ==
    ASSUME pipe \in Seq(AnItem), buf \in Seq(AnItem), pipe # <<>>,
           pipe' = Tail(pipe), UNCHANGED <<buf, link>>
    PROVE  /\ Queued[1] = Head(pipe) /\ Len(Queued) >= 1 /\ Len(Queued') = Len(Queued) - 1
           /\ Head(pipe) \in AnItem /\ pipe' \in Seq(AnItem)
           /\ \A k \in 1..Len(Queued) - 1 : Queued'[k] = Queued[k + 1]
<1>1. /\ pipe' \in Seq(AnItem) /\ Len(pipe) \in Nat /\ Len(pipe) >= 1 /\ Len(pipe') = Len(pipe) - 1
      /\ Head(pipe) = pipe[1] /\ Head(pipe) \in AnItem
      /\ \A k \in 1..Len(pipe) - 1 : pipe'[k] = pipe[k + 1]
  BY Taken
<1>2. CASE link = "up"
  <2>1. Queued = pipe \o buf /\ Queued' = pipe' \o buf
    BY <1>2 DEF Queued
  <2>2. /\ Len(Queued) = Len(pipe) + Len(buf) /\ Len(buf) \in Nat
        /\ \A k \in 1..Len(pipe) : Queued[k] = pipe[k]
        /\ \A k \in Len(pipe) + 1..Len(pipe) + Len(buf) : Queued[k] = buf[k - Len(pipe)]
    BY <2>1, Joined
  <2>3. /\ Len(Queued') = Len(pipe') + Len(buf)
        /\ \A k \in 1..Len(pipe') : Queued'[k] = pipe'[k]
        /\ \A k \in Len(pipe') + 1..Len(pipe') + Len(buf) : Queued'[k] = buf[k - Len(pipe')]
    BY <1>1, <2>1, Joined
  <2>4. ASSUME NEW k \in 1..Len(Queued) - 1 PROVE Queued'[k] = Queued[k + 1]
    <3>1. CASE k <= Len(pipe) - 1
      BY <1>1, <2>2, <2>3, <3>1
    <3>2. CASE k > Len(pipe) - 1
      <4>1. Queued'[k] = buf[k - (Len(pipe) - 1)]
        BY <1>1, <2>2, <2>3, <3>2
      <4>2. Queued[k + 1] = buf[(k + 1) - Len(pipe)]
        BY <1>1, <2>2, <3>2
      <4>3. k - (Len(pipe) - 1) = (k + 1) - Len(pipe)
        BY <1>1, <2>2
      <4> QED BY <4>1, <4>2, <4>3
    <3> QED BY <1>1, <2>2, <3>1, <3>2
  <2> QED BY <1>1, <2>2, <2>3, <2>4
<1>3. CASE link # "up"
  BY <1>1, <1>3 DEF Queued
<1> QED BY <1>2, <1>3

\* What the sender puts in the stream: nobody reads it once the connection is cut.
LEMMA QueuedPut ==
    ASSUME pipe \in Seq(AnItem), buf \in Seq(AnItem), NEW x \in AnItem,
           link \in {"up", "cut"}, Put(x), UNCHANGED link
    PROVE  /\ pipe' \in Seq(AnItem) /\ buf' \in Seq(AnItem)
           /\ link = "up" => Queued' = Append(Queued, x)
           /\ link # "up" => Queued' = Queued
<1>1. CASE Len(buf) < Gather /\ buf' = Append(buf, x) /\ UNCHANGED pipe
  <2>1. pipe \o Append(buf, x) = Append(pipe \o buf, x)
    OBVIOUS
  <2> QED BY <1>1, <2>1, Appended DEF Queued
<1>2. CASE CanFlush /\ pipe' = Flushed /\ buf' = <<x>>
  <2>1. pipe' \in Seq(AnItem) /\ buf' \in Seq(AnItem)
    BY <1>2, Joined DEF Flushed
  <2>2. (pipe \o buf) \o <<x>> = Append(pipe \o buf, x)
    OBVIOUS
  <2>3. CASE link = "up"
    BY <1>2, <2>1, <2>2, <2>3 DEF Queued, Flushed
  <2>4. CASE link = "cut"
    BY <1>2, <2>1, <2>4 DEF Queued, Flushed
  <2> QED BY <2>1, <2>3, <2>4
<1> QED BY <1>1, <1>2 DEF Put

LEMMA AheadPut ==
    ASSUME Types, NEW x \in AnItem, Put(x), UNCHANGED <<link, receiver, landing>>
    PROVE  /\ pipe' \in Seq(AnItem) /\ buf' \in Seq(AnItem)
           /\ link = "up" =>
                /\ Len(Ahead') = Len(Ahead) + 1 /\ Ahead'[Len(Ahead) + 1] = x
                /\ \A k \in 1..Len(Ahead) : Ahead'[k] = Ahead[k]
           /\ link # "up" => Ahead' = Ahead
<1>1. pipe' \in Seq(AnItem) /\ buf' \in Seq(AnItem)
  BY QueuedPut DEF Types
<1>2. /\ Queued \in Seq(AnItem) /\ Ahead \in Seq(AnItem)
      /\ receiver # "landing" => Ahead = Queued
      /\ receiver = "landing" =>
                /\ Len(Ahead) = Len(Queued) + 1 /\ Ahead[1] = Item("data", landing.id, landing.at)
                /\ \A k \in 1..Len(Queued) : Ahead[k + 1] = Queued[k]
  BY AheadIs DEF Types
<1>3. CASE link # "up"
  <2>1. Queued' = Queued
    BY <1>3, QueuedPut DEF Types
  <2> QED BY <1>1, <1>3, <2>1 DEF Ahead
<1>4. CASE link = "up"
  <2>1. Queued' = Append(Queued, x)
    BY <1>4, QueuedPut DEF Types
  <2>2. /\ Queued' \in Seq(AnItem) /\ Len(Queued') = Len(Queued) + 1
        /\ \A k \in 1..Len(Queued) : Queued'[k] = Queued[k]
        /\ Queued'[Len(Queued) + 1] = x
    BY <1>2, <2>1, Appended
  <2>3. CASE receiver # "landing"
    BY <1>1, <1>2, <1>4, <2>2, <2>3 DEF Ahead
  <2>4. CASE receiver = "landing"
    <3>1. Ahead' = <<Item("data", landing.id, landing.at)>> \o Queued'
      BY <2>4 DEF Ahead, Item
    <3>2. Item("data", landing.id, landing.at) \in AnItem
      BY ItemType DEF Types
    <3>3. /\ Len(Ahead') = Len(Queued') + 1 /\ Ahead'[1] = Item("data", landing.id, landing.at)
          /\ \A k \in 2..Len(Queued') + 1 : Ahead'[k] = Queued'[k - 1]
      BY <2>2, <3>1, <3>2, Joined
    <3>4. Len(Queued) \in Nat
      BY <1>2
    <3>5. ASSUME NEW k \in 2..Len(Ahead) PROVE Ahead'[k] = Ahead[k]
      <4>1. k - 1 \in 1..Len(Queued) /\ (k - 1) + 1 = k
        BY <1>2, <2>4, <3>4
      <4>2. Ahead'[k] = Queued'[k - 1] /\ Queued'[k - 1] = Queued[k - 1]
        BY <2>2, <3>3, <3>4, <4>1
      <4>3. Ahead[k] = Queued[k - 1]
        BY <1>2, <2>4, <4>1
      <4> QED BY <4>2, <4>3
    <3>6. Ahead'[Len(Ahead) + 1] = x
      <4>1. Len(Ahead) + 1 \in 2..Len(Queued') + 1 /\ (Len(Ahead) + 1) - 1 = Len(Queued) + 1
        BY <1>2, <2>2, <2>4, <3>4
      <4> QED BY <2>2, <3>3, <4>1
    <3> QED BY <1>1, <1>2, <1>4, <2>2, <2>4, <3>3, <3>4, <3>5, <3>6
  <2> QED BY <2>3, <2>4
<1> QED BY <1>3, <1>4

\* The receiver takes an item between files.
LEMMA AheadTaken ==
    ASSUME Types, receiver = "reading", receiver' = "reading", pipe # <<>>, pipe' = Tail(pipe),
           UNCHANGED <<buf, link>>
    PROVE  /\ pipe' \in Seq(AnItem) /\ Ahead[1] = Head(pipe) /\ Head(pipe) \in AnItem
           /\ Len(Ahead) >= 1 /\ Len(Ahead') = Len(Ahead) - 1
           /\ \A k \in 1..Len(Ahead) - 1 : Ahead'[k] = Ahead[k + 1]
<1>1. Ahead = Queued /\ Ahead' = Queued'
  BY DEF Ahead
<1> QED BY <1>1, QueuedTaken DEF Types

\* It takes a file's data: what it lands stands for it.
LEMMA AheadBegun ==
    ASSUME Types, receiver = "reading", receiver' = "landing", pipe # <<>>, pipe' = Tail(pipe),
           Head(pipe).is = "data", landing' = [id |-> Head(pipe).id, at |-> Head(pipe).n],
           UNCHANGED <<buf, link>>
    PROVE  /\ pipe' \in Seq(AnItem) /\ landing' \in [id : Nat, at : Nat]
           /\ Ahead[1] = Head(pipe) /\ Head(pipe) \in AnItem /\ Len(Ahead) >= 1
           /\ Ahead' = Ahead
<1>1. /\ Queued[1] = Head(pipe) /\ Len(Queued) >= 1 /\ Len(Queued') = Len(Queued) - 1
      /\ Head(pipe) \in AnItem /\ pipe' \in Seq(AnItem)
      /\ \A k \in 1..Len(Queued) - 1 : Queued'[k] = Queued[k + 1]
  BY QueuedTaken DEF Types
<1>2. Ahead = Queued /\ Queued \in Seq(AnItem)
  BY AheadIs DEF Types, Ahead
<1>3. landing' \in [id : Nat, at : Nat] /\ Item("data", landing'.id, landing'.at) = Head(pipe)
  <2>1. Head(pipe) = [is |-> "data", id |-> Head(pipe).id, n |-> Head(pipe).n]
        /\ Head(pipe).id \in Nat /\ Head(pipe).n \in Nat
    BY <1>1 DEF AnItem
  <2> QED BY <2>1 DEF Item
<1>4. Queued' \in Seq(AnItem)
  BY <1>1, Joined DEF Queued, Types
<1>5. Ahead' = <<Head(pipe)>> \o Queued'
  BY <1>3 DEF Ahead, Item
<1>6. /\ Ahead' \in Seq(AnItem) /\ Len(Ahead') = Len(Queued') + 1 /\ Ahead'[1] = Head(pipe)
      /\ \A k \in 2..Len(Queued') + 1 : Ahead'[k] = Queued'[k - 1]
  BY <1>1, <1>4, <1>5, Joined
<1>7. Len(Ahead') = Len(Ahead) /\ Len(Ahead) \in Nat
  BY <1>1, <1>2, <1>6
<1>8. ASSUME NEW k \in 1..Len(Ahead) PROVE Ahead'[k] = Ahead[k]
  <2>1. CASE k = 1
    BY <1>1, <1>2, <1>6, <2>1
  <2>2. CASE k # 1
    <3>1. k \in 2..Len(Queued') + 1 /\ k - 1 \in 1..Len(Queued) - 1 /\ (k - 1) + 1 = k
      BY <1>1, <1>2, <1>7, <2>2
    <3> QED BY <1>1, <1>2, <1>6, <3>1
  <2> QED BY <2>1, <2>2
<1>9. Ahead' = Ahead
  BY <1>2, <1>6, <1>7, <1>8, SameElements
<1> QED BY <1>1, <1>2, <1>3, <1>9

\* It takes an item of the file it lands.
LEMMA AheadLanding ==
    ASSUME Types, receiver = "landing", pipe # <<>>, pipe' = Tail(pipe),
           landing' \in [id : Nat, at : Nat], UNCHANGED <<buf, link>>
    PROVE  /\ pipe' \in Seq(AnItem) /\ Head(pipe) \in AnItem
           /\ Ahead[1] = Item("data", landing.id, landing.at) /\ Ahead[2] = Head(pipe) /\ Len(Ahead) >= 2
           /\ receiver' = "reading" =>
                /\ Len(Ahead') = Len(Ahead) - 2
                /\ \A k \in 1..Len(Ahead) - 2 : Ahead'[k] = Ahead[k + 2]
           /\ receiver' = "landing" =>
                /\ Len(Ahead') = Len(Ahead) - 1 /\ Ahead'[1] = Item("data", landing'.id, landing'.at)
                /\ \A k \in 2..Len(Ahead) - 1 : Ahead'[k] = Ahead[k + 1]
<1>1. /\ Queued[1] = Head(pipe) /\ Len(Queued) >= 1 /\ Len(Queued') = Len(Queued) - 1
      /\ Head(pipe) \in AnItem /\ pipe' \in Seq(AnItem)
      /\ \A k \in 1..Len(Queued) - 1 : Queued'[k] = Queued[k + 1]
  BY QueuedTaken DEF Types
<1>2. /\ Queued \in Seq(AnItem) /\ Ahead \in Seq(AnItem)
      /\ Len(Ahead) = Len(Queued) + 1 /\ Ahead[1] = Item("data", landing.id, landing.at)
      /\ \A k \in 1..Len(Queued) : Ahead[k + 1] = Queued[k]
  BY AheadIs DEF Types
<1>3. Len(Queued) \in Nat
  BY <1>2
<1>4. Queued' \in Seq(AnItem)
  BY <1>1, Joined DEF Queued, Types
<1>5. Ahead[2] = Head(pipe) /\ Len(Ahead) >= 2
  <2>1. 1 \in 1..Len(Queued) /\ 1 + 1 = 2
    BY <1>1, <1>3
  <2>2. Ahead[1 + 1] = Queued[1]
    BY <1>2, <2>1
  <2> QED BY <1>1, <1>2, <1>3, <2>2
<1>6. CASE receiver' = "reading"
  <2>1. Ahead' = Queued'
    BY <1>6 DEF Ahead
  <2>2. ASSUME NEW k \in 1..Len(Ahead) - 2 PROVE Ahead'[k] = Ahead[k + 2]
    <3>1. k \in 1..Len(Queued) - 1 /\ k + 1 \in 1..Len(Queued) /\ (k + 1) + 1 = k + 2
      BY <1>2, <1>3
    <3> QED BY <1>1, <1>2, <2>1, <3>1
  <2> QED BY <1>1, <1>2, <1>3, <1>5, <1>6, <2>1, <2>2
<1>7. CASE receiver' = "landing"
  <2>1. Ahead' = <<Item("data", landing'.id, landing'.at)>> \o Queued'
    BY <1>7 DEF Ahead, Item
  <2>2. Item("data", landing'.id, landing'.at) \in AnItem
    BY ItemType
  <2>3. /\ Len(Ahead') = Len(Queued') + 1 /\ Ahead'[1] = Item("data", landing'.id, landing'.at)
        /\ \A k \in 2..Len(Queued') + 1 : Ahead'[k] = Queued'[k - 1]
    BY <1>4, <2>1, <2>2, Joined
  <2>4. ASSUME NEW k \in 2..Len(Ahead) - 1 PROVE Ahead'[k] = Ahead[k + 1]
    <3>1. k \in 2..Len(Queued') + 1 /\ k - 1 \in 1..Len(Queued) - 1 /\ (k - 1) + 1 = k
          /\ k \in 1..Len(Queued)
      BY <1>1, <1>2, <1>3
    <3>2. Ahead'[k] = Queued'[k - 1] /\ Queued'[k - 1] = Queued[k]
      BY <1>1, <2>3, <3>1
    <3>3. Ahead[k + 1] = Queued[k]
      BY <1>2, <3>1
    <3> QED BY <3>2, <3>3
  <2> QED BY <1>1, <1>2, <1>3, <1>5, <1>7, <2>3, <2>4
<1> QED BY <1>1, <1>2, <1>5, <1>6, <1>7

\* The connection is cut: what is left is a start of it.
LEMMA AheadCut ==
    ASSUME Types, link' = "cut", NEW n \in 0..Len(pipe), pipe' = SubSeq(pipe, 1, n),
           UNCHANGED <<receiver, landing>>
    PROVE  /\ pipe' \in Seq(AnItem) /\ Ahead' \in Seq(AnItem) /\ Len(Ahead') <= Len(Ahead)
           /\ \A k \in 1..Len(Ahead') : Ahead'[k] = Ahead[k]
<1>1. /\ pipe' \in Seq(AnItem) /\ Len(pipe') = n /\ Len(pipe) \in Nat
      /\ \A k \in 1..n : pipe'[k] = pipe[k]
  BY Started DEF Types
<1>2. Queued' = pipe'
  BY DEF Queued
<1>3. Len(Queued) >= Len(pipe) /\ \A k \in 1..Len(pipe) : Queued[k] = pipe[k]
  BY Joined DEF Queued, Types
<1>4. Len(Queued') <= Len(Queued) /\ \A k \in 1..Len(Queued') : Queued'[k] = Queued[k]
  BY <1>1, <1>2, <1>3
<1>5. /\ Queued \in Seq(AnItem) /\ Ahead \in Seq(AnItem)
      /\ receiver # "landing" => Ahead = Queued
      /\ receiver = "landing" =>
                /\ Len(Ahead) = Len(Queued) + 1 /\ Ahead[1] = Item("data", landing.id, landing.at)
                /\ \A k \in 1..Len(Queued) : Ahead[k + 1] = Queued[k]
  BY AheadIs DEF Types
<1>6. CASE receiver # "landing"
  BY <1>1, <1>2, <1>4, <1>5, <1>6 DEF Ahead
<1>7. CASE receiver = "landing"
  <2>1. Ahead' = <<Item("data", landing.id, landing.at)>> \o Queued'
    BY <1>7 DEF Ahead, Item
  <2>2. Item("data", landing.id, landing.at) \in AnItem
    BY ItemType DEF Types
  <2>3. /\ Ahead' \in Seq(AnItem)
        /\ Len(Ahead') = Len(Queued') + 1 /\ Ahead'[1] = Item("data", landing.id, landing.at)
        /\ \A k \in 2..Len(Queued') + 1 : Ahead'[k] = Queued'[k - 1]
    BY <1>1, <1>2, <2>1, <2>2, Joined
  <2>4. Len(Queued) \in Nat /\ Len(Queued') \in Nat
    BY <1>1, <1>2, <1>5
  <2>5. ASSUME NEW k \in 2..Len(Ahead') PROVE Ahead'[k] = Ahead[k]
    <3>1. k \in 2..Len(Queued') + 1 /\ k - 1 \in 1..Len(Queued') /\ (k - 1) + 1 = k
          /\ k - 1 \in 1..Len(Queued)
      BY <1>4, <2>3, <2>4
    <3>2. Ahead'[k] = Queued'[k - 1] /\ Queued'[k - 1] = Queued[k - 1]
      BY <1>4, <2>3, <3>1
    <3>3. Ahead[k] = Queued[k - 1]
      BY <1>5, <1>7, <3>1
    <3> QED BY <3>2, <3>3
  <2> QED BY <1>1, <1>4, <1>5, <1>7, <2>3, <2>4, <2>5
<1> QED BY <1>6, <1>7

(***************************************************************************)
(* The walk.                                                               *)
(***************************************************************************)
LEMMA Walk ==
    ASSUME Types
    PROVE  /\ Len(copy.walk) \in Nat /\ DOMAIN copy.walk = Ids
           /\ \A i \in Ids : Entry(i).is \in {"dir", "end", "file", "link"}
           /\ \A i \in Ids : Entry(i).is = "dir" => Entry(i).at \in Dirs /\ ~Skipped(i)
           /\ \A i \in Ids : Entry(i).is = "file" => Entry(i).at \in Files /\ Entry(i).whole \in Seq(Nat)
           /\ \A i \in Ids : Entry(i).is = "link" => Entry(i).at \in Files /\ Entry(i).whole = Link
<1>1. copy \in Copies
  BY DEF Types
<1>2. IsWalk(copy.walk)
      /\ \A i \in DOMAIN copy.walk : copy.walk[i].is = "dir" => copy.walk[i].at \notin copy.excluded
  BY <1>1, CopiesAssumption
<1>3. copy.walk \in Seq(AnEntry) /\ \A i \in DOMAIN copy.walk : Typed(copy.walk[i])
  BY <1>2 DEF IsWalk
<1>4. /\ Len(copy.walk) \in Nat /\ DOMAIN copy.walk = 1..Len(copy.walk)
      /\ \A i \in 1..Len(copy.walk) : copy.walk[i] \in AnEntry
  BY <1>3, Elements
<1> QED BY <1>2, <1>3, <1>4 DEF Ids, Entry, AnEntry, Typed, Contents, Skipped

LEMMA Nested ==
    ASSUME Types
    PROVE  EndOf \in [DirIds -> EndIds] /\ Nests(copy.walk, EndOf)
<1>1. IsWalk(copy.walk)
  BY CopiesAssumption DEF Types
<1>2. \E ends \in [DirIds -> EndIds] : Nests(copy.walk, ends)
  BY <1>1 DEF IsWalk, DirIds, EndIds, Entry
<1> QED BY <1>2 DEF EndOf

LEMMA SameWalk ==
    ASSUME UNCHANGED copy
    PROVE  /\ Ids' = Ids /\ DirIds' = DirIds /\ EndIds' = EndIds /\ EndOf' = EndOf
           /\ OneOfAName' = OneOfAName
           /\ \A i : Entry(i)' = Entry(i) /\ Skipped(i)' = Skipped(i) /\ IsFile(i)' = IsFile(i)
BY DEF Ids, DirIds, EndIds, EndOf, OneOfAName, Entry, Skipped, IsFile, Nests

(***************************************************************************)
(* The stream, step by step.                                               *)
(***************************************************************************)
\* The sender adds an item.
LEMMA StreamGrows ==
    ASSUME Types, NEW r \in 0..walked, Stream(Ahead, r), AllAhead(Ahead, r),
           NEW x \in AnItem, UNCHANGED copy, walked' \in walked..walked + 1,
           Len(Ahead') = Len(Ahead) + 1, Ahead'[Len(Ahead) + 1] = x,
           \A k \in 1..Len(Ahead) : Ahead'[k] = Ahead[k],
           x.is # "entry" => walked' = walked,
           x.is = "entry" => x.id = walked + 1 /\ walked' = walked + 1 /\ ~Skipped(walked + 1),
           x.is = "data" => IsFile(x.id) /\ x.id <= r /\ x.n <= Len(Entry(x.id).whole)
    PROVE  Stream(Ahead, r)' /\ AllAhead(Ahead, r)'
<1>1. Ahead \in Seq(AnItem) /\ Len(Ahead) \in Nat /\ \A k \in 1..Len(Ahead) : Ahead[k] \in AnItem
  BY AheadIs, Elements DEF Types
<1>2. walked \in Nat /\ r \in Nat /\ r <= walked
  BY Walk DEF Types
<1>3. \A i : Entry(i)' = Entry(i) /\ Skipped(i)' = Skipped(i) /\ IsFile(i)' = IsFile(i)
  BY SameWalk
<1>4. \A k \in 1..Len(Ahead') : k \in 1..Len(Ahead) \/ k = Len(Ahead) + 1
  BY <1>1
<1>5. \A i : Holds(Ahead, i) => Holds(Ahead, i)'
  BY <1>1 DEF Holds
<1>6. x.is = "entry" => Holds(Ahead, x.id)'
  <2>1. Len(Ahead) + 1 \in 1..Len(Ahead')
    BY <1>1
  <2> QED BY <2>1 DEF Holds
<1>7. AllAhead(Ahead, r)'
  <2> SUFFICES ASSUME NEW i \in r + 1..walked' PROVE Skipped(i) \/ Holds(Ahead, i)'
    BY <1>3 DEF AllAhead
  <2>1. CASE i <= walked
    BY <1>2, <1>5, <2>1 DEF AllAhead
  <2>2. CASE i > walked
    BY <1>2, <1>6, <2>2
  <2> QED BY <1>2, <2>1, <2>2
<1>8. \A k \in 1..Len(Ahead') : Ahead'[k].is = "entry" => Ahead'[k].id \in r + 1..walked' /\ ~Skipped(Ahead'[k].id)
  <2> SUFFICES ASSUME NEW k \in 1..Len(Ahead'), Ahead'[k].is = "entry"
               PROVE  Ahead'[k].id \in r + 1..walked' /\ ~Skipped(Ahead'[k].id)
    OBVIOUS
  <2>1. CASE k \in 1..Len(Ahead)
    <3>1. Ahead[k].id \in r + 1..walked /\ ~Skipped(Ahead[k].id) /\ Ahead'[k] = Ahead[k]
      BY <2>1 DEF Stream
    <3> QED BY <1>2, <3>1
  <2>2. CASE k = Len(Ahead) + 1
    BY <1>2, <2>2
  <2> QED BY <1>4, <2>1, <2>2
<1>9. \A k \in 1..Len(Ahead') : Ahead'[k].is = "data" =>
        IsFile(Ahead'[k].id) /\ Ahead'[k].id <= r /\ Ahead'[k].n <= Len(Entry(Ahead'[k].id).whole)
  BY <1>1, <1>4 DEF Stream
<1>10. \A j, k \in 1..Len(Ahead') : j < k /\ Ahead'[j].is = "entry" /\ Ahead'[k].is = "entry"
          => Ahead'[j].id < Ahead'[k].id
  <2> SUFFICES ASSUME NEW j \in 1..Len(Ahead'), NEW k \in 1..Len(Ahead'), j < k,
                      Ahead'[j].is = "entry", Ahead'[k].is = "entry"
               PROVE  Ahead'[j].id < Ahead'[k].id
    OBVIOUS
  <2>1. j \in 1..Len(Ahead) /\ Ahead'[j] = Ahead[j] /\ Ahead[j].id \in r + 1..walked
    BY <1>1, <1>4 DEF Stream
  <2>2. CASE k \in 1..Len(Ahead)
    BY <2>1, <2>2 DEF Stream
  <2>3. CASE k = Len(Ahead) + 1
    BY <1>2, <2>1, <2>3
  <2> QED BY <1>4, <2>2, <2>3
<1>11. \A k \in 1..Len(Ahead') : Ahead'[k].is = "entry" =>
          \A i \in r + 1..Ahead'[k].id - 1 : Skipped(i) \/ Holds(Ahead, i)'
  <2> SUFFICES ASSUME NEW k \in 1..Len(Ahead'), Ahead'[k].is = "entry",
                      NEW i \in r + 1..Ahead'[k].id - 1
               PROVE  Skipped(i) \/ Holds(Ahead, i)'
    OBVIOUS
  <2>1. i \in r + 1..walked'
    BY <1>2, <1>8
  <2> QED BY <1>3, <1>7, <2>1 DEF AllAhead
<1> HIDE DEF AllAhead
<1>12. Stream(Ahead, r)'
  BY <1>3, <1>8, <1>9, <1>10, <1>11 DEF Stream
<1> QED BY <1>7, <1>12

\* It passes over what is excluded.
LEMMA StreamSkips ==
    ASSUME Types, NEW r \in 0..walked, Stream(Ahead, r), link = "up" => AllAhead(Ahead, r),
           UNCHANGED <<copy, link>>, Ahead' = Ahead, walked' \in walked..walked + 1,
           walked' = walked + 1 => Skipped(walked + 1) \/ link # "up"
    PROVE  Stream(Ahead, r)' /\ (link = "up" => AllAhead(Ahead, r))'
<1>1. Ahead \in Seq(AnItem) /\ Len(Ahead) \in Nat /\ \A k \in 1..Len(Ahead) : Ahead[k] \in AnItem
  BY AheadIs, Elements DEF Types
<1>2. walked \in Nat /\ r \in Nat /\ r <= walked
  BY Walk DEF Types
<1>3. \A i : Entry(i)' = Entry(i) /\ Skipped(i)' = Skipped(i) /\ IsFile(i)' = IsFile(i)
  BY SameWalk
<1>4. \A i : Holds(Ahead, i)' = Holds(Ahead, i)
  BY DEF Holds
<1>5. (link = "up" => AllAhead(Ahead, r))'
  <2> SUFFICES ASSUME link = "up", NEW i \in r + 1..walked' PROVE Skipped(i) \/ Holds(Ahead, i)
    BY <1>3, <1>4 DEF AllAhead
  <2>1. CASE i <= walked
    BY <1>2, <2>1 DEF AllAhead
  <2>2. CASE i > walked
    BY <1>2, <2>2
  <2> QED BY <1>2, <2>1, <2>2
<1>6. Stream(Ahead, r)'
  BY <1>1, <1>2, <1>3, <1>4 DEF Stream
<1> QED BY <1>5, <1>6

\* The receiver takes an item: a header is then the last.
LEMMA StreamTaken ==
    ASSUME Types, NEW r \in 0..walked, Stream(Ahead, r), link = "up" => AllAhead(Ahead, r),
           UNCHANGED <<copy, link, walked>>, Len(Ahead) >= 1, Len(Ahead') = Len(Ahead) - 1,
           \A k \in 1..Len(Ahead) - 1 : Ahead'[k] = Ahead[k + 1],
           NEW q, q = IF Ahead[1].is = "entry" THEN Ahead[1].id ELSE r
    PROVE  /\ q \in r..walked /\ Stream(Ahead, q)' /\ (link = "up" => AllAhead(Ahead, q))'
           /\ Ahead[1].is = "entry" =>
                q > r /\ ~Skipped(q) /\ \A i \in r + 1..q - 1 : Skipped(i)
<1>1. Ahead \in Seq(AnItem) /\ Len(Ahead) \in Nat /\ \A k \in 1..Len(Ahead) : Ahead[k] \in AnItem
  BY AheadIs, Elements DEF Types
<1>2. walked \in Nat /\ r \in Nat /\ r <= walked
  BY Walk DEF Types
<1>3. \A i : Entry(i)' = Entry(i) /\ Skipped(i)' = Skipped(i) /\ IsFile(i)' = IsFile(i)
  BY SameWalk
<1>4. \A k \in 1..Len(Ahead') : k + 1 \in 1..Len(Ahead) /\ Ahead'[k] = Ahead[k + 1]
  BY <1>1
<1>5. ASSUME NEW i, Holds(Ahead, i), ~(Ahead[1].is = "entry" /\ i = q) PROVE Holds(Ahead, i)'
  <2>1. PICK k \in 1..Len(Ahead) : Ahead[k].is = "entry" /\ Ahead[k].id = i
    BY <1>5 DEF Holds
  <2>2. k # 1
    BY <1>5, <2>1
  <2>3. k - 1 \in 1..Len(Ahead') /\ (k - 1) + 1 = k
    BY <1>1, <2>2
  <2> QED BY <1>4, <2>1, <2>3 DEF Holds
<1>6. q \in r..walked /\ (Ahead[1].is = "entry" => q > r /\ ~Skipped(q))
  BY <1>1, <1>2 DEF Stream
<1>7. ASSUME Ahead[1].is = "entry", NEW k \in 2..Len(Ahead), Ahead[k].is = "entry" PROVE Ahead[k].id > q
  <2>1. 1 \in 1..Len(Ahead) /\ k \in 1..Len(Ahead) /\ 1 < k
    BY <1>1
  <2>2. Ahead[1].id < Ahead[k].id
    BY <1>7, <2>1 DEF Stream
  <2>3. Ahead[1].id \in Nat /\ Ahead[k].id \in Nat
    BY <1>1, <2>1 DEF AnItem
  <2> QED BY <1>7, <2>2, <2>3
<1>8. ASSUME Ahead[1].is = "entry", NEW i \in r + 1..q - 1 PROVE Skipped(i)
  <2>1. Skipped(i) \/ Holds(Ahead, i)
    BY <1>1, <1>8 DEF Stream
  <2>2. ~Holds(Ahead, i)
    <3> SUFFICES ASSUME NEW k \in 1..Len(Ahead), Ahead[k].is = "entry", Ahead[k].id = i PROVE FALSE
      BY DEF Holds
    <3>1. CASE k = 1
      BY <1>2, <1>6, <1>8, <3>1
    <3>2. CASE k # 1
      BY <1>1, <1>2, <1>6, <1>7, <1>8, <3>2
    <3> QED BY <3>1, <3>2
  <2> QED BY <2>1, <2>2
<1>9. (link = "up" => AllAhead(Ahead, q))'
  <2> SUFFICES ASSUME link = "up", NEW i \in q + 1..walked PROVE Skipped(i) \/ Holds(Ahead, i)'
    BY <1>3 DEF AllAhead
  <2>1. Skipped(i) \/ Holds(Ahead, i)
    BY <1>2, <1>6 DEF AllAhead
  <2>2. i # q
    BY <1>2, <1>6
  <2> QED BY <1>5, <2>1, <2>2
<1>10. \A k \in 1..Len(Ahead') : Ahead'[k].is = "entry" => Ahead'[k].id \in q + 1..walked /\ ~Skipped(Ahead'[k].id)
  <2> SUFFICES ASSUME NEW k \in 1..Len(Ahead'), Ahead'[k].is = "entry"
               PROVE  Ahead'[k].id \in q + 1..walked /\ ~Skipped(Ahead'[k].id)
    OBVIOUS
  <2>1. k + 1 \in 2..Len(Ahead) /\ Ahead'[k] = Ahead[k + 1]
    BY <1>1, <1>4
  <2>2. Ahead'[k].id \in r + 1..walked /\ ~Skipped(Ahead'[k].id)
    BY <1>4, <2>1 DEF Stream
  <2>3. CASE Ahead[1].is = "entry"
    BY <1>2, <1>6, <1>7, <2>1, <2>2, <2>3
  <2>4. CASE Ahead[1].is # "entry"
    BY <2>2, <2>4
  <2> QED BY <2>3, <2>4
<1>11. \A k \in 1..Len(Ahead') : Ahead'[k].is = "data" =>
          IsFile(Ahead'[k].id) /\ Ahead'[k].id <= q /\ Ahead'[k].n <= Len(Entry(Ahead'[k].id).whole)
  <2> SUFFICES ASSUME NEW k \in 1..Len(Ahead'), Ahead'[k].is = "data"
               PROVE  IsFile(Ahead'[k].id) /\ Ahead'[k].id <= q /\ Ahead'[k].n <= Len(Entry(Ahead'[k].id).whole)
    OBVIOUS
  <2>1. IsFile(Ahead'[k].id) /\ Ahead'[k].id <= r /\ Ahead'[k].n <= Len(Entry(Ahead'[k].id).whole)
    BY <1>4 DEF Stream
  <2>2. Ahead'[k].id \in Nat
    BY <1>1, <1>4 DEF AnItem
  <2> QED BY <1>2, <1>6, <2>1, <2>2
<1>12. \A j, k \in 1..Len(Ahead') : j < k /\ Ahead'[j].is = "entry" /\ Ahead'[k].is = "entry"
          => Ahead'[j].id < Ahead'[k].id
  <2> SUFFICES ASSUME NEW j \in 1..Len(Ahead'), NEW k \in 1..Len(Ahead'), j < k,
                      Ahead'[j].is = "entry", Ahead'[k].is = "entry"
               PROVE  Ahead'[j].id < Ahead'[k].id
    OBVIOUS
  <2>1. j + 1 < k + 1 /\ Ahead'[j] = Ahead[j + 1] /\ Ahead'[k] = Ahead[k + 1]
    BY <1>4
  <2> QED BY <1>4, <2>1 DEF Stream
<1>13. \A k \in 1..Len(Ahead') : Ahead'[k].is = "entry" =>
          \A i \in q + 1..Ahead'[k].id - 1 : Skipped(i) \/ Holds(Ahead, i)'
  <2> SUFFICES ASSUME NEW k \in 1..Len(Ahead'), Ahead'[k].is = "entry", NEW i \in q + 1..Ahead'[k].id - 1
               PROVE  Skipped(i) \/ Holds(Ahead, i)'
    OBVIOUS
  <2>1. i \in r + 1..Ahead[k + 1].id - 1 /\ i # q
    BY <1>2, <1>4, <1>6
  <2>2. Skipped(i) \/ Holds(Ahead, i)
    BY <1>4, <2>1 DEF Stream
  <2> QED BY <1>5, <2>1, <2>2
<1>14. Stream(Ahead, q)'
  BY <1>3, <1>10, <1>11, <1>12, <1>13 DEF Stream
<1> QED BY <1>6, <1>8, <1>9, <1>14

\* It takes an item of a file: its first, of data, goes on, or goes with the file's end.
LEMMA StreamLands ==
    ASSUME Types, NEW r \in 0..walked, Stream(Ahead, r), link = "up" => AllAhead(Ahead, r),
           UNCHANGED <<copy, link, walked>>, Len(Ahead) >= 2, Ahead[1].is # "entry", Ahead[2].is # "entry",
           NEW d \in {1, 2}, Len(Ahead') = Len(Ahead) - d,
           \A k \in 1..Len(Ahead') : Ahead'[k] = Ahead[k + d] \/ (k = 1 /\ d = 1),
           d = 1 => /\ Ahead'[1].is = "data" /\ IsFile(Ahead'[1].id) /\ Ahead'[1].id <= r
                    /\ Ahead'[1].n <= Len(Entry(Ahead'[1].id).whole)
    PROVE  Stream(Ahead, r)' /\ (link = "up" => AllAhead(Ahead, r))'
<1>1. Ahead \in Seq(AnItem) /\ Len(Ahead) \in Nat /\ \A k \in 1..Len(Ahead) : Ahead[k] \in AnItem
  BY AheadIs, Elements DEF Types
<1>2. walked \in Nat /\ r \in Nat /\ r <= walked
  BY Walk DEF Types
<1>3. \A i : Entry(i)' = Entry(i) /\ Skipped(i)' = Skipped(i) /\ IsFile(i)' = IsFile(i)
  BY SameWalk
<1>4. \A k \in 1..Len(Ahead') : k + d \in 1..Len(Ahead)
  BY <1>1
<1>5. \A k \in 1..Len(Ahead') : Ahead'[k].is = "entry" => Ahead'[k] = Ahead[k + d]
  OBVIOUS
<1>6. ASSUME NEW i, Holds(Ahead, i) PROVE Holds(Ahead, i)'
  <2>1. PICK k \in 1..Len(Ahead) : Ahead[k].is = "entry" /\ Ahead[k].id = i
    BY <1>6 DEF Holds
  <2>2. k # 1 /\ k # 2
    BY <2>1
  <2>3. k - d \in 1..Len(Ahead') /\ (k - d) + d = k /\ ~(k - d = 1 /\ d = 1)
    BY <1>1, <2>2
  <2>4. Ahead'[k - d] = Ahead[(k - d) + d]
    BY <2>3
  <2> QED BY <2>1, <2>3, <2>4 DEF Holds
<1>7. (link = "up" => AllAhead(Ahead, r))'
  BY <1>3, <1>6 DEF AllAhead
<1>8. \A k \in 1..Len(Ahead') : Ahead'[k].is = "entry" => Ahead'[k].id \in r + 1..walked /\ ~Skipped(Ahead'[k].id)
  BY <1>4, <1>5 DEF Stream
<1>9. \A k \in 1..Len(Ahead') : Ahead'[k].is = "data" =>
          IsFile(Ahead'[k].id) /\ Ahead'[k].id <= r /\ Ahead'[k].n <= Len(Entry(Ahead'[k].id).whole)
  BY <1>4 DEF Stream
<1>10. \A j, k \in 1..Len(Ahead') : j < k /\ Ahead'[j].is = "entry" /\ Ahead'[k].is = "entry"
          => Ahead'[j].id < Ahead'[k].id
  <2> SUFFICES ASSUME NEW j \in 1..Len(Ahead'), NEW k \in 1..Len(Ahead'), j < k,
                      Ahead'[j].is = "entry", Ahead'[k].is = "entry"
               PROVE  Ahead'[j].id < Ahead'[k].id
    OBVIOUS
  <2>1. j + d \in 1..Len(Ahead) /\ k + d \in 1..Len(Ahead) /\ j + d < k + d
    BY <1>1, <1>4
  <2> QED BY <1>5, <2>1 DEF Stream
<1>11. \A k \in 1..Len(Ahead') : Ahead'[k].is = "entry" =>
          \A i \in r + 1..Ahead'[k].id - 1 : Skipped(i) \/ Holds(Ahead, i)'
  BY <1>4, <1>5, <1>6 DEF Stream
<1>12. Stream(Ahead, r)'
  BY <1>3, <1>8, <1>9, <1>10, <1>11 DEF Stream
<1> QED BY <1>7, <1>12

\* Cut: what is left has no header left out before one it holds.
LEMMA StreamCut ==
    ASSUME Types, NEW r \in 0..walked, Stream(Ahead, r), UNCHANGED <<copy, walked>>,
           Ahead' \in Seq(AnItem), Len(Ahead') <= Len(Ahead),
           \A k \in 1..Len(Ahead') : Ahead'[k] = Ahead[k]
    PROVE  Stream(Ahead, r)'
<1>1. /\ Ahead \in Seq(AnItem) /\ Len(Ahead) \in Nat /\ \A k \in 1..Len(Ahead) : Ahead[k] \in AnItem
      /\ Len(Ahead') \in Nat
  BY AheadIs, Elements DEF Types
<1>2. walked \in Nat /\ r \in Nat /\ r <= walked
  BY Walk DEF Types
<1>3. \A i : Entry(i)' = Entry(i) /\ Skipped(i)' = Skipped(i) /\ IsFile(i)' = IsFile(i)
  BY SameWalk
<1>4. \A k \in 1..Len(Ahead') : k \in 1..Len(Ahead)
  BY <1>1
<1>5. ASSUME NEW k \in 1..Len(Ahead'), Ahead'[k].is = "entry", NEW i \in r + 1..Ahead'[k].id - 1
      PROVE  Skipped(i) \/ Holds(Ahead, i)'
  <2>1. Skipped(i) \/ Holds(Ahead, i)
    BY <1>4, <1>5 DEF Stream
  <2>2. ASSUME NEW j \in 1..Len(Ahead), Ahead[j].is = "entry", Ahead[j].id = i PROVE j < k
    <3>0. Ahead'[k] = Ahead[k] /\ Ahead[j].id \in Nat /\ Ahead[k].id \in Nat
      BY <1>1, <1>4 DEF AnItem
    <3>1. Ahead[j].id < Ahead[k].id
      BY <1>2, <1>5, <2>2, <3>0
    <3>2. ~(k < j) /\ k # j
      BY <1>4, <1>5, <2>2, <3>0, <3>1 DEF Stream
    <3> QED BY <1>1, <3>2
  <2>3. Holds(Ahead, i) => Holds(Ahead, i)'
    BY <1>1, <2>2 DEF Holds
  <2> QED BY <2>1, <2>3
<1>6. \A j, k \in 1..Len(Ahead') : j < k /\ Ahead'[j].is = "entry" /\ Ahead'[k].is = "entry"
          => Ahead'[j].id < Ahead'[k].id
  BY <1>4 DEF Stream
<1>7. \A k \in 1..Len(Ahead') :
        /\ Ahead'[k].is = "entry" => Ahead'[k].id \in r + 1..walked /\ ~Skipped(Ahead'[k].id)
        /\ Ahead'[k].is = "data" =>
              IsFile(Ahead'[k].id) /\ Ahead'[k].id <= r /\ Ahead'[k].n <= Len(Entry(Ahead'[k].id).whole)
  BY <1>4 DEF Stream
<1> QED BY <1>3, <1>5, <1>6, <1>7 DEF Stream

(***************************************************************************)
(* The chunks of a file, step by step.                                     *)
(***************************************************************************)
LEMMA RunsGrow ==
    ASSUME Types, Runs(Ahead), NEW x \in AnItem, UNCHANGED copy,
           Len(Ahead') = Len(Ahead) + 1, Ahead'[Len(Ahead) + 1] = x,
           \A k \in 1..Len(Ahead) : Ahead'[k] = Ahead[k],
           \A j \in 1..Len(Ahead) : RunsTo(Ahead, j, Len(Ahead) + 1) => Right(Ahead[j], Len(Ahead) - j, x)
    PROVE  Runs(Ahead)'
<1>1. Ahead \in Seq(AnItem) /\ Len(Ahead) \in Nat
  BY AheadIs, Elements DEF Types
<1>2. \A i : Entry(i)' = Entry(i)
  BY SameWalk
<1> SUFFICES ASSUME NEW j \in 1..Len(Ahead'), NEW k \in 1..Len(Ahead'), j < k, RunsTo(Ahead', j, k)
             PROVE  Right(Ahead'[j], k - j - 1, Ahead'[k])
  BY <1>2 DEF Runs, RunsTo, Right
<1>3. j \in 1..Len(Ahead) /\ Ahead'[j] = Ahead[j]
  BY <1>1
<1>4. \A i \in j + 1..k - 1 : i \in 1..Len(Ahead) /\ Ahead'[i] = Ahead[i]
  BY <1>1
<1>5. RunsTo(Ahead, j, k)
  BY <1>3, <1>4 DEF RunsTo
<1>6. CASE k \in 1..Len(Ahead)
  BY <1>3, <1>5, <1>6 DEF Runs
<1>7. CASE k = Len(Ahead) + 1
  <2>1. k - j - 1 = Len(Ahead) - j
    BY <1>1, <1>7
  <2> QED BY <1>3, <1>5, <1>7, <2>1
<1> QED BY <1>1, <1>6, <1>7

LEMMA RunsTaken ==
    ASSUME Types, Runs(Ahead), UNCHANGED copy, NEW d \in Nat, Len(Ahead) >= d, Len(Ahead') = Len(Ahead) - d,
           \A k \in 1..Len(Ahead') : Ahead'[k] = Ahead[k + d]
    PROVE  Runs(Ahead)'
<1>1. Ahead \in Seq(AnItem) /\ Len(Ahead) \in Nat
  BY AheadIs, Elements DEF Types
<1>2. \A i : Entry(i)' = Entry(i)
  BY SameWalk
<1> SUFFICES ASSUME NEW j \in 1..Len(Ahead'), NEW k \in 1..Len(Ahead'), j < k, RunsTo(Ahead', j, k)
             PROVE  Right(Ahead'[j], k - j - 1, Ahead'[k])
  BY <1>2 DEF Runs, RunsTo, Right
<1>3. j + d \in 1..Len(Ahead) /\ k + d \in 1..Len(Ahead) /\ j + d < k + d
      /\ (k + d) - (j + d) - 1 = k - j - 1
  BY <1>1
<1>4. ASSUME NEW i \in (j + d) + 1..(k + d) - 1 PROVE Ahead[i].is = "chunk"
  <2>1. i - d \in j + 1..k - 1 /\ i - d \in 1..Len(Ahead') /\ (i - d) + d = i
    BY <1>1
  <2> QED BY <2>1 DEF RunsTo
<1>5. RunsTo(Ahead, j + d, k + d)
  BY <1>4 DEF RunsTo
<1>6. Right(Ahead[j + d], (k + d) - (j + d) - 1, Ahead[k + d])
  BY <1>3, <1>5 DEF Runs
<1> QED BY <1>3, <1>6

LEMMA OneMore ==
    ASSUME NEW a \in Nat, NEW b, b = a + 1, NEW k \in Nat
    PROVE  b + (k - 1 - 1) = a + ((k + 1) - 1 - 1)
OBVIOUS

LEMMA RunsLand ==
    ASSUME Types, Runs(Ahead), UNCHANGED copy, Len(Ahead) >= 2, Len(Ahead') = Len(Ahead) - 1,
           Ahead[1].is = "data", Ahead[2].is = "chunk", Ahead[1].n \in Nat,
           Ahead'[1] = Item("data", Ahead[1].id, Ahead[1].n + 1),
           \A k \in 2..Len(Ahead') : Ahead'[k] = Ahead[k + 1]
    PROVE  Runs(Ahead)'
<1>1. Ahead \in Seq(AnItem) /\ Len(Ahead) \in Nat
  BY AheadIs, Elements DEF Types
<1>2. \A i : Entry(i)' = Entry(i)
  BY SameWalk
<1> SUFFICES ASSUME NEW j \in 1..Len(Ahead'), NEW k \in 1..Len(Ahead'), j < k, RunsTo(Ahead', j, k)
             PROVE  Right(Ahead'[j], k - j - 1, Ahead'[k])
  BY <1>2 DEF Runs, RunsTo, Right
<1>0. j \in Nat /\ k \in Nat
  <2>1. Len(Ahead') \in Nat
    BY ONLY <1>1, Len(Ahead') = Len(Ahead) - 1, Len(Ahead) >= 2
  <2> QED BY ONLY <2>1, j \in 1..Len(Ahead'), k \in 1..Len(Ahead')
<1>3. k + 1 \in 1..Len(Ahead) /\ Ahead'[k] = Ahead[k + 1] /\ k >= 2
  BY <1>1
<1>4. ASSUME NEW i \in j + 1..k - 1 PROVE i + 1 \in 1..Len(Ahead) /\ Ahead[i + 1].is = "chunk"
  <2>1. i + 1 \in 1..Len(Ahead) /\ i \in 2..Len(Ahead')
    BY <1>1
  <2>2. Ahead'[i].is = "chunk"
    BY DEF RunsTo
  <2> QED BY <2>1, <2>2
<1>5. CASE j = 1
  <2>1. ASSUME NEW i \in 1 + 1..(k + 1) - 1 PROVE Ahead[i].is = "chunk"
    <3>1. CASE i = 2
      BY <3>1
    <3>2. CASE i # 2
      <4>1. i - 1 \in j + 1..k - 1 /\ (i - 1) + 1 = i
        BY <1>1, <1>5, <3>2
      <4> QED BY <1>4, <4>1
    <3> QED BY <3>1, <3>2
  <2>2. RunsTo(Ahead, 1, k + 1) /\ 1 \in 1..Len(Ahead) /\ 1 < k + 1
    BY <1>1, <1>3, <2>1 DEF RunsTo
  <2>3. Right(Ahead[1], (k + 1) - 1 - 1, Ahead[k + 1])
    BY <1>3, <2>2 DEF Runs
  <2>4. Ahead'[1].n = Ahead[1].n + 1 /\ Ahead'[1].id = Ahead[1].id
    BY DEF Item
  <2>5. Ahead'[1].n + (k - 1 - 1) = Ahead[1].n + ((k + 1) - 1 - 1)
    <3>1. k \in Nat
      BY <1>0
    <3> QED BY ONLY <2>4, <3>1, Ahead[1].n \in Nat, OneMore
  <2>6. Right(Ahead'[1], k - 1 - 1, Ahead[k + 1])
    BY <2>3, <2>4, <2>5 DEF Right
  <2> QED BY <1>3, <1>5, <2>6
<1>6. CASE j # 1
  <2>1. j + 1 \in 1..Len(Ahead) /\ Ahead'[j] = Ahead[j + 1] /\ j + 1 < k + 1
        /\ (k + 1) - (j + 1) - 1 = k - j - 1
    BY <1>1, <1>6
  <2>2. ASSUME NEW i \in (j + 1) + 1..(k + 1) - 1 PROVE Ahead[i].is = "chunk"
    <3>1. i - 1 \in j + 1..k - 1 /\ (i - 1) + 1 = i
      BY ONLY <1>0, i \in (j + 1) + 1..(k + 1) - 1
    <3> QED BY <1>4, <3>1
  <2>3. RunsTo(Ahead, j + 1, k + 1)
    BY <2>1, <2>2 DEF RunsTo
  <2>4. Right(Ahead[j + 1], (k + 1) - (j + 1) - 1, Ahead[k + 1])
    BY <1>3, <2>1, <2>3 DEF Runs
  <2> QED BY <1>3, <2>1, <2>4
<1> QED BY <1>5, <1>6

LEMMA RunsCut ==
    ASSUME Types, Runs(Ahead), UNCHANGED copy, Ahead' \in Seq(AnItem), Len(Ahead') <= Len(Ahead),
           \A k \in 1..Len(Ahead') : Ahead'[k] = Ahead[k]
    PROVE  Runs(Ahead)'
<1>1. Ahead \in Seq(AnItem) /\ Len(Ahead) \in Nat /\ Len(Ahead') \in Nat
  BY AheadIs, Elements DEF Types
<1>2. \A i : Entry(i)' = Entry(i)
  BY SameWalk
<1> SUFFICES ASSUME NEW j \in 1..Len(Ahead'), NEW k \in 1..Len(Ahead'), j < k, RunsTo(Ahead', j, k)
             PROVE  Right(Ahead'[j], k - j - 1, Ahead'[k])
  BY <1>2 DEF Runs, RunsTo, Right
<1>3. RunsTo(Ahead, j, k)
  <2>1. \A i \in j..k - 1 : i \in 1..Len(Ahead') /\ Ahead[i] = Ahead'[i]
    BY <1>1
  <2>2. \A i \in j + 1..k - 1 : i \in j..k - 1
    BY <1>1
  <2>3. j \in j..k - 1
    BY <1>1
  <2> QED BY <2>1, <2>2, <2>3 DEF RunsTo
<1> QED BY <1>1, <1>3 DEF Runs

(***************************************************************************)
(* The file the sender is sending, step by step.                           *)
(***************************************************************************)
LEMMA HandGrows ==
    ASSUME Types, Hand(Ahead), NEW x \in AnItem, UNCHANGED gaveUp,
           Len(Ahead') = Len(Ahead) + 1, Ahead'[Len(Ahead) + 1] = x,
           \A k \in 1..Len(Ahead) : Ahead'[k] = Ahead[k],
           x.is = "chunk" => sender = "bytes" /\ sender' = "bytes" /\ bytes' = [bytes EXCEPT !.at = @ + 1],
           x.is = "data" => sender' = "bytes" /\ bytes' = [id |-> x.id, at |-> x.n],
           x.is \notin {"chunk", "data"} => sender' # "bytes"
    PROVE  Hand(Ahead)'
<1>1. Ahead \in Seq(AnItem) /\ Len(Ahead) \in Nat /\ \A k \in 1..Len(Ahead) : Ahead[k] \in AnItem
  BY AheadIs, Elements DEF Types
<1>2. ASSUME NEW j \in 1..Len(Ahead'), RunsTo(Ahead', j, Len(Ahead') + 1)
      PROVE  sender' = "bytes" /\ Ahead'[j].id = bytes'.id /\ bytes'.at = Ahead'[j].n + (Len(Ahead') - j)
  <2>1. CASE j = Len(Ahead) + 1
    <3>1. x.is = "data" /\ Ahead'[j] = x /\ Len(Ahead') - j = 0
      BY <1>1, <1>2, <2>1 DEF RunsTo
    <3> QED BY <3>1 DEF AnItem
  <2>2. CASE j \in 1..Len(Ahead)
    <3>1. Len(Ahead) + 1 \in j + 1..(Len(Ahead') + 1) - 1
      BY <1>1, <2>2
    <3>2. x.is = "chunk"
      BY <1>2, <3>1 DEF RunsTo
    <3>3. RunsTo(Ahead, j, Len(Ahead) + 1)
      <4>1. ASSUME NEW i \in j + 1..(Len(Ahead) + 1) - 1 PROVE Ahead[i].is = "chunk"
        <5>1. i \in 1..Len(Ahead) /\ i \in j + 1..(Len(Ahead') + 1) - 1
          BY <1>1, <2>2
        <5> QED BY <1>2, <5>1 DEF RunsTo
      <4> QED BY <1>2, <2>2, <4>1 DEF RunsTo
    <3>4. Ahead[j].id = bytes.id /\ bytes.at = Ahead[j].n + (Len(Ahead) - j)
      BY <2>2, <3>2, <3>3 DEF Hand
    <3>5. bytes'.id = bytes.id /\ bytes'.at = bytes.at + 1
      BY <3>2 DEF Types
    <3>6. Ahead[j].n \in Nat
      BY <1>1, <2>2 DEF AnItem
    <3>7. bytes'.at = Ahead[j].n + (Len(Ahead') - j)
      <4>1. j \in Nat
        OBVIOUS
      <4> QED BY <1>1, <3>4, <3>5, <3>6, <4>1
    <3> QED BY <2>2, <3>2, <3>4, <3>5, <3>7
  <2> QED BY <1>1, <2>1, <2>2
<1> QED BY <1>2 DEF Hand, RunsTo

LEMMA HandTaken ==
    ASSUME Types, Hand(Ahead), UNCHANGED <<sender, bytes, gaveUp>>,
           NEW d \in Nat, Len(Ahead) >= d, Len(Ahead') = Len(Ahead) - d,
           \A k \in 1..Len(Ahead') : Ahead'[k] = Ahead[k + d]
    PROVE  Hand(Ahead)'
<1>1. Ahead \in Seq(AnItem) /\ Len(Ahead) \in Nat
  BY AheadIs, Elements DEF Types
<1>2. ASSUME NEW j \in 1..Len(Ahead'), RunsTo(Ahead', j, Len(Ahead') + 1)
      PROVE  /\ j + d \in 1..Len(Ahead) /\ RunsTo(Ahead, j + d, Len(Ahead) + 1)
             /\ Len(Ahead) - (j + d) = Len(Ahead') - j /\ Ahead'[j] = Ahead[j + d]
  <2>1. j + d \in 1..Len(Ahead) /\ Len(Ahead) - (j + d) = Len(Ahead') - j
    BY <1>1
  <2>2. ASSUME NEW i \in (j + d) + 1..(Len(Ahead) + 1) - 1 PROVE Ahead[i].is = "chunk"
    <3>1. i - d \in j + 1..(Len(Ahead') + 1) - 1 /\ i - d \in 1..Len(Ahead') /\ (i - d) + d = i
      BY <1>1
    <3>2. Ahead'[i - d].is = "chunk"
      BY <1>2, <3>1 DEF RunsTo
    <3>3. Ahead'[i - d] = Ahead[(i - d) + d]
      BY <3>1
    <3> QED BY <3>1, <3>2, <3>3
  <2> QED BY <1>2, <2>1, <2>2 DEF RunsTo
<1>3. \A j \in 1..Len(Ahead') : RunsTo(Ahead', j, Len(Ahead') + 1) =>
        (sender = "bytes" => Ahead'[j].id = bytes.id /\ bytes.at = Ahead'[j].n + (Len(Ahead') - j))
        /\ (sender # "bytes" => gaveUp)
  BY <1>2 DEF Hand
<1> QED BY <1>3 DEF Hand, RunsTo

LEMMA HandLands ==
    ASSUME Types, Hand(Ahead), UNCHANGED <<sender, bytes, gaveUp>>,
           Len(Ahead) >= 2, Len(Ahead') = Len(Ahead) - 1,
           Ahead[1].is = "data", Ahead[2].is = "chunk", Ahead[1].n \in Nat,
           Ahead'[1] = Item("data", Ahead[1].id, Ahead[1].n + 1),
           \A k \in 2..Len(Ahead') : Ahead'[k] = Ahead[k + 1]
    PROVE  Hand(Ahead)'
<1>1. Ahead \in Seq(AnItem) /\ Len(Ahead) \in Nat
  BY AheadIs, Elements DEF Types
<1>2. ASSUME NEW j \in 1..Len(Ahead'), RunsTo(Ahead', j, Len(Ahead') + 1)
      PROVE  \E k \in 1..Len(Ahead) :
                /\ RunsTo(Ahead, k, Len(Ahead) + 1) /\ Ahead'[j].id = Ahead[k].id
                /\ Ahead[k].n + (Len(Ahead) - k) = Ahead'[j].n + (Len(Ahead') - j)
  <2>1. ASSUME NEW i \in j + 1..Len(Ahead') PROVE i + 1 \in 1..Len(Ahead) /\ Ahead[i + 1].is = "chunk"
    <3>1. i + 1 \in 1..Len(Ahead) /\ i \in 2..Len(Ahead') /\ i \in j + 1..(Len(Ahead') + 1) - 1
      BY <1>1
    <3>2. Ahead'[i].is = "chunk"
      BY <1>2, <3>1 DEF RunsTo
    <3> QED BY <3>1, <3>2
  <2>2. CASE j = 1
    <3>1. ASSUME NEW i \in 1 + 1..(Len(Ahead) + 1) - 1 PROVE Ahead[i].is = "chunk"
      <4>1. CASE i = 2
        BY <4>1
      <4>2. CASE i # 2
        <5>1. i - 1 \in j + 1..Len(Ahead') /\ (i - 1) + 1 = i
          BY <1>1, <2>2, <4>2
        <5> QED BY <2>1, <5>1
      <4> QED BY <4>1, <4>2
    <3>2. RunsTo(Ahead, 1, Len(Ahead) + 1) /\ 1 \in 1..Len(Ahead)
      BY <1>1, <3>1 DEF RunsTo
    <3>3. Ahead'[1].n = Ahead[1].n + 1 /\ Ahead'[1].id = Ahead[1].id
      BY DEF Item
    <3>4. Ahead[1].n + (Len(Ahead) - 1) = Ahead'[1].n + (Len(Ahead') - 1)
      BY <1>1, <3>3
    <3> QED BY <2>2, <3>2, <3>3, <3>4
  <2>3. CASE j # 1
    <3>1. j + 1 \in 1..Len(Ahead) /\ Ahead'[j] = Ahead[j + 1] /\ Len(Ahead) - (j + 1) = Len(Ahead') - j
      <4>1. j \in 2..Len(Ahead')
        BY <1>1, <2>3
      <4>2. Ahead'[j] = Ahead[j + 1]
        BY <4>1
      <4> QED BY <1>1, <4>1, <4>2
    <3>2. ASSUME NEW i \in (j + 1) + 1..(Len(Ahead) + 1) - 1 PROVE Ahead[i].is = "chunk"
      <4>1. i - 1 \in j + 1..Len(Ahead') /\ (i - 1) + 1 = i
        BY <1>1
      <4> QED BY <2>1, <4>1
    <3>3. RunsTo(Ahead, j + 1, Len(Ahead) + 1)
      BY <1>2, <3>1, <3>2 DEF RunsTo
    <3> QED BY <3>1, <3>3
  <2> QED BY <2>2, <2>3
<1>3. \A j \in 1..Len(Ahead') : RunsTo(Ahead', j, Len(Ahead') + 1) =>
        (sender = "bytes" => Ahead'[j].id = bytes.id /\ bytes.at = Ahead'[j].n + (Len(Ahead') - j))
        /\ (sender # "bytes" => gaveUp)
  BY <1>2 DEF Hand
<1> QED BY <1>3 DEF Hand, RunsTo

(***************************************************************************)
(* The directories open.                                                   *)
(***************************************************************************)
LEMMA NestFacts ==
    ASSUME Types
    PROVE  /\ \A j \in DirIds : j \in Ids /\ Entry(j).is = "dir" /\ Entry(j).at \in Dirs
           /\ \A j \in DirIds : EndOf[j] \in Ids /\ Entry(EndOf[j]).is = "end" /\ j < EndOf[j]
           /\ \A i, j \in DirIds : i < j /\ j < EndOf[i] => EndOf[j] < EndOf[i]
           /\ \A i, j \in DirIds : EndOf[i] = EndOf[j] => i = j
           /\ \A i, j \in DirIds : Entry(i).at = Entry(j).at => i = j
           /\ \A e \in Ids : Entry(e).is = "end" => \E j \in DirIds : EndOf[j] = e
           /\ \A i \in Ids : Entry(i).is # "end" /\ In[Entry(i).at] # Top =>
                \E j \in DirIds : /\ Entry(j).at = In[Entry(i).at] /\ j < i /\ i < EndOf[j]
                                  /\ \A k \in DirIds : j < k /\ k < i => EndOf[k] < i
<1>1. EndOf \in [DirIds -> EndIds] /\ Nests(copy.walk, EndOf)
  BY Nested
<1>2. DOMAIN EndOf = DirIds
  BY <1>1
<1>3. DOMAIN copy.walk = Ids /\ \A i \in Ids : Entry(i).is = "dir" => Entry(i).at \in Dirs
  BY Walk
<1>4. \A j \in DirIds : EndOf[j] \in EndIds /\ j < EndOf[j]
  BY <1>1, <1>2 DEF Nests
<1>5. \A i, j \in DirIds : i < j /\ j < EndOf[i] => EndOf[j] < EndOf[i]
  BY <1>1, <1>2 DEF Nests
<1>6. \A j \in DirIds : j \in Ids /\ Entry(j).is = "dir" /\ Entry(j).at \in Dirs
  BY <1>3 DEF DirIds
<1>7. \A j \in DirIds : EndOf[j] \in Ids /\ Entry(EndOf[j]).is = "end" /\ j < EndOf[j]
  BY <1>3, <1>4 DEF EndIds
<1>8. ASSUME NEW i \in DirIds, NEW j \in DirIds, EndOf[i] = EndOf[j] PROVE i = j
  <2>1. i \in Nat /\ j \in Nat /\ EndOf[i] \in Nat
    BY <1>6, <1>7, Walk DEF Ids
  <2>2. ~(i < j) /\ ~(j < i)
    BY <1>5, <1>7, <1>8, <2>1
  <2> QED BY <2>1, <2>2
<1>9. \A i, j \in DirIds : Entry(i).at = Entry(j).at => i = j
  <2>1. OneOfAName
    BY DEF Types
  <2> QED BY <1>3, <1>6, <2>1 DEF OneOfAName
<1>10. /\ \A e \in Ids : Entry(e).is = "end" => \E j \in DirIds : EndOf[j] = e
       /\ \A i \in Ids : Entry(i).is # "end" /\ In[Entry(i).at] # Top =>
            \E j \in DirIds : /\ Entry(j).at = In[Entry(i).at] /\ j < i /\ i < EndOf[j]
                              /\ \A k \in DirIds : j < k /\ k < i => EndOf[k] < i
  BY <1>1, <1>2, <1>3 DEF Nests, Entry
<1> QED BY <1>5, <1>6, <1>7, <1>8, <1>9, <1>10

\* An entry comes between the start and the end of each directory it is beneath.
LEMMA AboveNested ==
    ASSUME Types, NEW i \in Ids, Entry(i).is # "end", NEW d \in Above[Entry(i).at], d # Top
    PROVE  d \in Dirs /\ \E j \in DirIds : Entry(j).at = d /\ j < i /\ i < EndOf[j]
<1> DEFINE p == Entry(i).at
           s == {Top} \cup {Entry(j).at : j \in {k \in DirIds : k < i /\ i < EndOf[k]}}
<1>1. p \in Files \cup Dirs
  BY Walk
<1>2. s \in SUBSET (Dirs \cup {Top})
  BY NestFacts
<1>3. In[p] \in s
  BY NestFacts
<1>4. Upward(s)
  <2> SUFFICES ASSUME NEW j \in DirIds, j < i, i < EndOf[j] PROVE In[Entry(j).at] \in s
    BY DEF Upward
  <2>1. CASE In[Entry(j).at] = Top
    BY <2>1
  <2>2. CASE In[Entry(j).at] # Top
    <3>1. j \in Ids /\ Entry(j).is # "end"
      BY NestFacts
    <3>2. PICK k \in DirIds : Entry(k).at = In[Entry(j).at] /\ k < j /\ j < EndOf[k]
      BY <2>2, <3>1, NestFacts
    <3>3. EndOf[j] < EndOf[k]
      BY <3>2, NestFacts
    <3>4. i \in Nat /\ j \in Nat /\ k \in Nat /\ EndOf[j] \in Nat /\ EndOf[k] \in Nat
      BY NestFacts, Walk DEF Ids
    <3> QED BY <3>2, <3>3, <3>4
  <2> QED BY <2>1, <2>2
<1>5. d \in Dirs \cup {Top} /\ (In[p] \in s /\ Upward(s) => d \in s)
  <2> HIDE DEF s
  <2>1. Above[p] = {x \in Dirs \cup {Top} : \A t \in SUBSET (Dirs \cup {Top}) : In[p] \in t /\ Upward(t) => x \in t}
    BY <1>1 DEF Above
  <2> QED BY <1>2, <2>1
<1> QED BY <1>3, <1>4, <1>5

\* The header q comes after the header r: all between were passed over.
Next2(r, q) == q \in Ids /\ r \in 0..q - 1 /\ \A i \in r + 1..q - 1 : Skipped(i)

LEMMA NoDirBetween ==
    ASSUME Types, NEW r, NEW q, Next2(r, q), NEW j \in DirIds
    PROVE  /\ j <= r \/ j >= q
           /\ EndOf[j] <= r \/ EndOf[j] >= q
           /\ Entry(q).is # "end" => EndOf[j] # q
           /\ Entry(q).is # "dir" => j # q
           /\ r \in Nat /\ q \in Nat /\ r < q /\ j \in Nat /\ EndOf[j] \in Nat
<1>1. j \in Ids /\ Entry(j).is = "dir" /\ EndOf[j] \in Ids /\ Entry(EndOf[j]).is = "end"
  BY NestFacts
<1>2. ~Skipped(j) /\ ~Skipped(EndOf[j])
  BY <1>1, Walk DEF Skipped
<1>3. r \in Nat /\ q \in Nat /\ r < q /\ j \in Nat /\ EndOf[j] \in Nat
  BY <1>1, Walk DEF Next2, Ids
<1> QED BY <1>1, <1>2, <1>3 DEF Next2

\* An entry is in the directory open last.
LEMMA Innermost ==
    ASSUME Types, NEW r, NEW q, Next2(r, q), Opened(r), Entry(q).is # "end",
           NEW k \in 1..Len(open), open[k].dir = In[Entry(q).at]
    PROVE  k = Len(open)
<1>0. Len(open) \in Nat /\ \A l \in 1..Len(open) : open[l] \in AFrame
  BY Elements DEF Types
<1>1. Len(open) \in Nat /\ \A l \in 1..Len(open) : open[l].dir \in Dirs
  BY <1>0 DEF AFrame
<1>2. In[Entry(q).at] # Top /\ q \in Ids
  BY <1>1, SyncAssumption DEF Next2
<1>3. PICK j \in DirIds : /\ Entry(j).at = In[Entry(q).at] /\ j < q /\ q < EndOf[j]
                          /\ \A i \in DirIds : j < i /\ i < q => EndOf[i] < q
  BY <1>2, NestFacts
<1> SUFFICES ASSUME k # Len(open) PROVE FALSE
  OBVIOUS
<1>4. Len(open) \in 1..Len(open) /\ k < Len(open)
  BY <1>1
<1>5. PICK i \in DirIds : Entry(i).at = open[Len(open)].dir /\ i <= r /\ r < EndOf[i]
  BY <1>4 DEF Opened, Begun
<1>6. j < i
  BY <1>3, <1>4, <1>5 DEF Opened, InOrder
<1>7. i < q
  BY <1>5, NoDirBetween
<1>8. EndOf[i] < q
  BY <1>3, <1>6, <1>7
<1> QED BY <1>5, <1>8, NoDirBetween

\* An end is that of the directory open last.
LEMMA EndsLast ==
    ASSUME Types, NEW r, NEW q, Next2(r, q), Opened(r), Entry(q).is = "end", open # <<>>
    PROVE  \A j \in DirIds : Entry(j).at = open[Len(open)].dir => EndOf[j] = q
<1>1. Len(open) \in Nat /\ Len(open) \in 1..Len(open)
  BY Elements DEF Types
<1>2. PICK j \in DirIds : EndOf[j] = q
  BY NestFacts DEF Next2
<1>3. j < q /\ j <= r
  <2>1. j < q
    BY <1>2, NestFacts
  <2> QED BY <2>1, NoDirBetween
<1>4. r < EndOf[j]
  BY <1>2, NoDirBetween
<1>5. PICK k \in 1..Len(open) : open[k].dir = Entry(j).at
  BY <1>3, <1>4 DEF Opened, NotEnded
<1>6. PICK i \in DirIds : Entry(i).at = open[Len(open)].dir /\ i <= r /\ r < EndOf[i]
  BY <1>1 DEF Opened, Begun
<1>7. i = j
  <2> SUFFICES ASSUME i # j PROVE FALSE
    OBVIOUS
  <2>1. k # Len(open)
    BY <1>5, <1>6, NestFacts
  <2>2. k < Len(open)
    BY <1>1, <2>1
  <2>3. j < i
    BY <1>1, <1>5, <1>6, <2>2 DEF Opened, InOrder
  <2>4. i < EndOf[j]
    BY <1>2, <1>6, NoDirBetween
  <2>5. EndOf[i] < q
    BY <1>2, <2>3, <2>4, NestFacts
  <2> QED BY <1>6, <2>5, NoDirBetween
<1> QED BY <1>2, <1>6, <1>7, NestFacts

\* An entry that came is noted, and, a directory, is open.
LEMMA OpenedOn ==
    ASSUME Types, NEW r, NEW q, Next2(r, q), Opened(r), Entry(q).is # "end", UNCHANGED copy,
           Len(open') = IF Entry(q).is = "dir" THEN Len(open) + 1 ELSE Len(open),
           \A k \in 1..Len(open) :
                /\ open'[k].dir = open[k].dir /\ open[k].seen \subseteq open'[k].seen
                /\ k = Len(open) => Entry(q).at \in open'[k].seen,
           Entry(q).is = "dir" => open'[Len(open) + 1].dir = Entry(q).at
    PROVE  Opened(q)'
<1>1. Len(open) \in Nat /\ q \in Ids /\ q \in Nat /\ r \in Nat /\ r < q
  BY Elements, Walk DEF Types, Next2, Ids
<1>2. /\ DirIds' = DirIds /\ EndOf' = EndOf
      /\ \A i : Entry(i)' = Entry(i) /\ Skipped(i)' = Skipped(i)
  BY SameWalk
<1>3. \A k \in 1..Len(open') : k \in 1..Len(open) \/ (k = Len(open) + 1 /\ Entry(q).is = "dir")
  BY <1>1
<1>4. \A k \in 1..Len(open) : k \in 1..Len(open')
  BY <1>1
<1>5. Entry(q).is = "dir" => q \in DirIds /\ Len(open) + 1 \in 1..Len(open')
  BY <1>1, Walk DEF DirIds
<1>6. \A k \in 1..Len(open) : \E j \in DirIds : Entry(j).at = open[k].dir /\ j <= r /\ q < EndOf[j]
  <2> SUFFICES ASSUME NEW k \in 1..Len(open)
               PROVE  \E j \in DirIds : Entry(j).at = open[k].dir /\ j <= r /\ q < EndOf[j]
    OBVIOUS
  <2>1. PICK j \in DirIds : Entry(j).at = open[k].dir /\ j <= r /\ r < EndOf[j]
    BY DEF Opened, Begun
  <2>2. q < EndOf[j]
    BY <2>1, NoDirBetween
  <2> QED BY <2>1, <2>2
<1>7. \A k \in 1..Len(open') : \E j \in DirIds : Entry(j).at = open'[k].dir /\ j <= q /\ q < EndOf[j]
  <2> SUFFICES ASSUME NEW k \in 1..Len(open')
               PROVE  \E j \in DirIds : Entry(j).at = open'[k].dir /\ j <= q /\ q < EndOf[j]
    OBVIOUS
  <2>1. CASE k \in 1..Len(open)
    <3>1. PICK j \in DirIds : Entry(j).at = open[k].dir /\ j <= r /\ q < EndOf[j]
      BY <1>6, <2>1
    <3>2. j <= q
      BY <3>1, NoDirBetween
    <3> QED BY <2>1, <3>1, <3>2
  <2>2. CASE k = Len(open) + 1 /\ Entry(q).is = "dir"
    <3>1. q < EndOf[q] /\ q <= q
      BY <1>1, <1>5, <2>2, NestFacts
    <3> QED BY <1>5, <2>2, <3>1
  <2> QED BY <1>3, <2>1, <2>2
<1>8. ASSUME NEW j \in DirIds, j <= q, q < EndOf[j]
      PROVE  \E k \in 1..Len(open') : open'[k].dir = Entry(j).at
  <2>1. CASE j = q
    <3>1. Entry(q).is = "dir"
      BY <2>1, NestFacts
    <3> QED BY <1>5, <2>1, <3>1
  <2>2. CASE j # q
    <3>1. j <= r /\ r < EndOf[j]
      BY <1>8, <2>2, NoDirBetween
    <3>2. PICK k \in 1..Len(open) : open[k].dir = Entry(j).at
      BY <3>1 DEF Opened, NotEnded
    <3> QED BY <1>4, <3>2
  <2> QED BY <2>1, <2>2
<1>9. ASSUME NEW k \in 1..Len(open'), NEW l \in 1..Len(open'), NEW i \in DirIds, NEW j \in DirIds,
             k < l, open'[k].dir = Entry(i).at, open'[l].dir = Entry(j).at
      PROVE  i < j
  <2>1. k \in 1..Len(open) /\ open[k].dir = Entry(i).at
    <3>1. k \in 1..Len(open)
      BY <1>1, <1>3, <1>9
    <3> QED BY <1>9, <3>1
  <2>2. CASE l \in 1..Len(open)
    BY <1>9, <2>1, <2>2 DEF Opened, InOrder
  <2>3. CASE l = Len(open) + 1 /\ Entry(q).is = "dir"
    <3>1. j = q
      BY <1>5, <1>9, <2>3, NestFacts
    <3>2. PICK h \in DirIds : Entry(h).at = open[k].dir /\ h <= r
      BY <1>6, <2>1
    <3>3. h = i
      BY <2>1, <3>2, NestFacts
    <3> QED BY <3>1, <3>2, <3>3, NoDirBetween
  <2> QED BY <1>3, <2>2, <2>3
<1>10. ASSUME NEW k \in 1..Len(open'), NEW i \in 1..q, Entry(i).is # "end", ~Skipped(i),
              In[Entry(i).at] = open'[k].dir
       PROVE  Entry(i).at \in open'[k].seen
  <2>1. i \in 1..r \/ i = q
    <3>1. i \notin r + 1..q - 1
      BY <1>10 DEF Next2
    <3> QED BY <1>1, <3>1
  <2>2. CASE k \in 1..Len(open)
    <3>1. CASE i \in 1..r
      BY <1>10, <2>2, <3>1 DEF Opened, Noted
    <3>2. CASE i = q
      <4>1. k = Len(open)
        BY <1>10, <2>2, <3>2, Innermost
      <4> QED BY <2>2, <3>2, <4>1
    <3> QED BY <2>1, <3>1, <3>2
  <2>3. CASE k = Len(open) + 1 /\ Entry(q).is = "dir"
    <3>1. In[Entry(i).at] = Entry(q).at /\ Entry(q).at \in Dirs /\ i \in Ids
      BY <1>1, <1>5, <1>10, <2>3, NestFacts, Walk DEF Ids
    <3>2. PICK j \in DirIds : Entry(j).at = In[Entry(i).at] /\ j < i
      BY <1>10, <3>1, NestFacts, SyncAssumption
    <3>3. j = q
      BY <1>5, <2>3, <3>1, <3>2, NestFacts
    <3> QED BY <1>1, <3>2, <3>3
  <2> QED BY <1>3, <2>2, <2>3
<1>11. Begun(q)'
  BY <1>2, <1>7 DEF Begun
<1>12. NotEnded(q)'
  BY <1>2, <1>8 DEF NotEnded
<1>13. InOrder'
  BY <1>2, <1>9 DEF InOrder
<1>14. Noted(q)'
  BY <1>2, <1>10 DEF Noted
<1> QED BY <1>11, <1>12, <1>13, <1>14 DEF Opened

\* What is open stays so.
LEMMA OpenedKept ==
    ASSUME UNCHANGED <<copy, open>>, NEW r, Opened(r)
    PROVE  Opened(r)'
<1>1. /\ DirIds' = DirIds /\ EndOf' = EndOf
      /\ \A i : Entry(i)' = Entry(i) /\ Skipped(i)' = Skipped(i)
  BY SameWalk
<1>2. Begun(r)'
  BY <1>1 DEF Opened, Begun
<1>3. NotEnded(r)'
  BY <1>1 DEF Opened, NotEnded
<1>4. InOrder'
  BY <1>1 DEF Opened, InOrder
<1>5. Noted(r)'
  BY <1>1 DEF Opened, Noted
<1> QED BY <1>2, <1>3, <1>4, <1>5 DEF Opened

\* A directory that ended is no longer open.
LEMMA OpenedLeft ==
    ASSUME Types, NEW r, NEW q, Next2(r, q), Opened(r), Entry(q).is = "end", UNCHANGED copy,
           open # <<>>, Len(open') = Len(open) - 1, \A k \in 1..Len(open) - 1 : open'[k] = open[k]
    PROVE  Opened(q)'
<1>1. Len(open) \in Nat /\ Len(open) \in 1..Len(open) /\ q \in Ids /\ q \in Nat /\ r \in Nat /\ r < q
  BY Elements, Walk DEF Types, Next2, Ids
<1>2. /\ DirIds' = DirIds /\ EndOf' = EndOf
      /\ \A i : Entry(i)' = Entry(i) /\ Skipped(i)' = Skipped(i)
  BY SameWalk
<1>3. \A k \in 1..Len(open') : k \in 1..Len(open) /\ open'[k] = open[k] /\ k < Len(open)
  BY <1>1
<1>4. PICK last \in DirIds : Entry(last).at = open[Len(open)].dir /\ EndOf[last] = q
  <2>1. PICK j \in DirIds : Entry(j).at = open[Len(open)].dir
    BY <1>1 DEF Opened, Begun
  <2> QED BY <2>1, EndsLast
<1>5. ASSUME NEW k \in 1..Len(open')
      PROVE  \E j \in DirIds : Entry(j).at = open'[k].dir /\ j <= q /\ q < EndOf[j]
  <2>1. PICK j \in DirIds : Entry(j).at = open[k].dir /\ j <= r /\ r < EndOf[j]
    BY <1>3 DEF Opened, Begun
  <2>2. j < last
    BY <1>1, <1>3, <1>4, <2>1 DEF Opened, InOrder
  <2>3. j # last /\ EndOf[j] # q
    <3>1. j # last
      BY <2>2, NoDirBetween
    <3> QED BY <1>4, <3>1, NestFacts
  <2>4. q < EndOf[j] /\ j <= q
    BY <2>1, <2>3, NoDirBetween
  <2> QED BY <1>3, <2>1, <2>4
<1>6. ASSUME NEW j \in DirIds, j <= q, q < EndOf[j]
      PROVE  \E k \in 1..Len(open') : open'[k].dir = Entry(j).at
  <2>1. j # q /\ j <= r /\ r < EndOf[j]
    BY <1>6, NoDirBetween
  <2>2. PICK k \in 1..Len(open) : open[k].dir = Entry(j).at
    BY <2>1 DEF Opened, NotEnded
  <2>3. k # Len(open)
    <3>1. j # last
      BY <1>1, <1>4, <1>6
    <3> QED BY <1>4, <2>2, <3>1, NestFacts
  <2>4. k \in 1..Len(open')
    BY <1>1, <2>3
  <2> QED BY <1>3, <2>2, <2>4
<1>7. ASSUME NEW k \in 1..Len(open'), NEW i \in 1..q, Entry(i).is # "end", ~Skipped(i),
             In[Entry(i).at] = open'[k].dir
      PROVE  Entry(i).at \in open'[k].seen
  <2>1. i # q /\ i \notin r + 1..q - 1
    BY <1>7 DEF Next2
  <2>2. i \in 1..r
    BY <1>1, <2>1
  <2> QED BY <1>3, <1>7, <2>2 DEF Opened, Noted
<1>8. ASSUME NEW k \in 1..Len(open'), NEW l \in 1..Len(open'), NEW i \in DirIds, NEW j \in DirIds,
             k < l, open'[k].dir = Entry(i).at, open'[l].dir = Entry(j).at
      PROVE  i < j
  BY <1>3, <1>8 DEF Opened, InOrder
<1>9. Begun(q)'
  BY <1>2, <1>5 DEF Begun
<1>10. NotEnded(q)'
  BY <1>2, <1>6 DEF NotEnded
<1>11. InOrder'
  BY <1>2, <1>8 DEF InOrder
<1>12. Noted(q)'
  BY <1>2, <1>7 DEF Noted
<1> QED BY <1>9, <1>10, <1>11, <1>12 DEF Opened

\* What --delete takes from a directory that ended was not sent,
LEMMA GonerNotSent ==
    ASSUME Types, NEW r, NEW q, Next2(r, q), Opened(r), Entry(q).is = "end", open # <<>>,
           NEW p, Goner(p, open[Len(open)])
    PROVE  p \notin Sent /\ In[p] \in Walked
<1> DEFINE last == open[Len(open)]
<1>1. Len(open) \in 1..Len(open) /\ last \in AFrame /\ r \in Nat /\ q \in Nat
  BY Elements, Walk DEF Types, Next2, Ids
<1>2. last.dir \in Dirs /\ In[p] = last.dir /\ p \notin last.seen /\ p \notin copy.excluded
  BY <1>1 DEF AFrame, Goner
<1>3. In[p] \in Walked
  <2>1. PICK j \in DirIds : Entry(j).at = last.dir
    BY <1>1 DEF Opened, Begun
  <2> QED BY <1>2, <2>1 DEF Walked, DirIds, Entry
<1>4. ASSUME p \in Sent PROVE FALSE
  <2>1. PICK j \in Ids : Entry(j).is # "end" /\ Entry(j).at = p
    BY <1>4, Walk DEF Sent, Entry
  <2>2. ~Skipped(j)
    BY <1>2, <2>1 DEF Skipped
  <2>3. PICK i \in DirIds : Entry(i).at = In[p] /\ j < EndOf[i]
    BY <1>2, <2>1, NestFacts, SyncAssumption
  <2>4. EndOf[i] = q
    BY <1>2, <2>3, EndsLast
  <2>5. j \notin r + 1..q - 1 /\ j \in Nat /\ j >= 1
    BY <2>1, <2>2, Walk DEF Next2, Ids
  <2>6. j \in 1..r
    BY <1>1, <2>3, <2>4, <2>5
  <2> QED BY <1>1, <1>2, <2>1, <2>2, <2>6 DEF Opened, Noted
<1> QED BY <1>3, <1>4

\* so nothing that was sent goes.
LEMMA SentStays ==
    ASSUME Types, NEW r, NEW q, Next2(r, q), Opened(r), Entry(q).is = "end", open # <<>>,
           NEW p \in Sent
    PROVE  p \notin Lost(open[Len(open)])
<1> SUFFICES ASSUME p \in Lost(open[Len(open)]) PROVE FALSE
  OBVIOUS
<1>1. p \in Files \cup Dirs
  BY DEF Lost
<1>2. PICK d \in {p} \cup (Above[p] \ {Top}) : Goner(d, open[Len(open)])
  BY DEF Lost
<1>3. CASE d = p
  BY <1>1, <1>2, <1>3, GonerNotSent
<1>4. CASE d # p
  <2>1. PICK i \in Ids : Entry(i).is # "end" /\ Entry(i).at = p
    BY Walk DEF Sent, Entry
  <2>2. PICK j \in DirIds : Entry(j).at = d
    BY <1>2, <1>4, <2>1, AboveNested
  <2>3. d \in Dirs /\ d \in Sent
    <3>1. j \in DOMAIN copy.walk /\ Entry(j).is = "dir" /\ d \in Dirs /\ ~Skipped(j)
      BY <2>2, NestFacts, Walk
    <3> QED BY <2>2, <3>1 DEF Sent, Entry, Skipped
  <2> QED BY <1>2, <2>3, GonerNotSent
<1> QED BY <1>3, <1>4

(***************************************************************************)
(* Starts spoken of, step by step.                                         *)
(***************************************************************************)
\* Data m answers a.
Asks(a, m) ==
    /\ a.is = "want" /\ a.id = m.id /\ a.have # <<>> /\ m.n = Len(a.have)
    /\ a.have = SubSeq(Entry(m.id).whole, 1, m.n)

OldReplies(id) ==
    \A k \in 1..Len(replies') : replies'[k].is = "want" /\ replies'[k].id = id =>
        \E l \in 1..Len(replies) : replies[l] = replies'[k]
OldData(id) ==
    \A k \in 1..Len(Ahead') : Ahead'[k].is = "data" /\ Ahead'[k].id = id /\ Ahead'[k].n # 0 =>
        \/ \E l \in 1..Len(Ahead) : Ahead[l] = Ahead'[k]
        \/ \E l \in 1..Len(replies) : Asks(replies[l], Ahead'[k])

LEMMA FitsKept ==
    ASSUME NEW id, FitsAt(Ahead, id), UNCHANGED copy, OldReplies(id), OldData(id),
           Spoken(Ahead, id) => part'[Entry(id).at] = part[Entry(id).at]
    PROVE  FitsAt(Ahead, id)' /\ (Spoken(Ahead, id)' => Spoken(Ahead, id))
<1>1. Entry(id)' = Entry(id)
  BY SameWalk
<1>2. ASSUME NEW k \in 1..Len(replies'), replies'[k].is = "want", replies'[k].id = id, replies'[k].have # <<>>
      PROVE  Spoken(Ahead, id) /\ part'[Entry(id).at] = replies'[k].have
  <2>1. PICK l \in 1..Len(replies) : replies[l] = replies'[k]
    BY <1>2 DEF OldReplies
  <2>2. Spoken(Ahead, id)
    BY <1>2, <2>1 DEF Spoken
  <2> QED BY <1>2, <2>1, <2>2 DEF FitsAt
<1>3. ASSUME NEW k \in 1..Len(Ahead'), Ahead'[k].is = "data", Ahead'[k].id = id, Ahead'[k].n # 0
      PROVE  Spoken(Ahead, id) /\ part'[Entry(id).at] = SubSeq(Entry(id).whole, 1, Ahead'[k].n)
  <2>1. CASE \E l \in 1..Len(Ahead) : Ahead[l] = Ahead'[k]
    <3>1. PICK l \in 1..Len(Ahead) : Ahead[l] = Ahead'[k]
      BY <2>1
    <3>2. Spoken(Ahead, id)
      BY <1>3, <3>1 DEF Spoken
    <3> QED BY <1>3, <3>1, <3>2 DEF FitsAt
  <2>2. CASE \E l \in 1..Len(replies) : Asks(replies[l], Ahead'[k])
    <3>1. PICK l \in 1..Len(replies) : Asks(replies[l], Ahead'[k])
      BY <2>2
    <3>2. Spoken(Ahead, id)
      BY <1>3, <3>1 DEF Spoken, Asks
    <3>3. part[Entry(id).at] = replies[l].have
      BY <1>3, <3>1 DEF FitsAt, Asks
    <3> QED BY <1>3, <3>1, <3>2, <3>3 DEF Asks
  <2> QED BY <1>3, <2>1, <2>2 DEF OldData
<1>4. FitsAt(Ahead, id)'
  BY <1>1, <1>2, <1>3 DEF FitsAt
<1>5. Spoken(Ahead, id)' => Spoken(Ahead, id)
  BY <1>2, <1>3 DEF Spoken
<1> QED BY <1>4, <1>5

(***************************************************************************)
(* The sender's steps.                                                     *)
(***************************************************************************)
\* What no step of the sender changes, and the replies it takes from the front.
SenderKeeps ==
    /\ UNCHANGED <<copy, was, link, receiver, landing, open, awaited, closing, closed, counted, file, part, dirs>>
    /\ replies' = replies \/ (replies # <<>> /\ replies' = Tail(replies))

LEMMA RepliesTaken ==
    ASSUME Types, SenderKeeps
    PROVE  /\ replies' \in Seq(AnAnswer)
           /\ \A k \in 1..Len(replies') : \E l \in 1..Len(replies) : replies[l] = replies'[k]
<1>1. CASE replies' = replies
  BY <1>1 DEF Types
<1>2. CASE replies # <<>> /\ replies' = Tail(replies)
  <2>1. /\ replies' \in Seq(AnAnswer) /\ Len(replies) \in Nat /\ Len(replies') = Len(replies) - 1
        /\ \A k \in 1..Len(replies) - 1 : replies'[k] = replies[k + 1]
    BY <1>2, Taken DEF Types
  <2>2. \A k \in 1..Len(replies') : k + 1 \in 1..Len(replies) /\ replies[k + 1] = replies'[k]
    BY <2>1
  <2> QED BY <2>1, <2>2
<1> QED BY <1>1, <1>2 DEF SenderKeeps

LEMMA SenderTypes ==
    ASSUME Types, SenderKeeps, walked' \in 0..Len(copy.walk),
           pipe' \in Seq(AnItem), buf' \in Seq(AnItem), bytes' \in [id : Nat, at : Nat],
           sender' = "bytes" => IsFile(bytes'.id) /\ bytes'.at <= Len(Entry(bytes'.id).whole),
           gaveUp' => sender' \in {"closing", "flushing", "ending", "over"}
    PROVE  Types'
<1>1. /\ OneOfAName' = OneOfAName
      /\ \A i : Entry(i)' = Entry(i) /\ IsFile(i)' = IsFile(i)
  BY SameWalk DEF SenderKeeps
<1>2. /\ replies' \in Seq(AnAnswer)
      /\ \A k \in 1..Len(replies') : replies'[k].is # "end" => Sound(replies'[k])
  BY RepliesTaken DEF Types
<1>3. (\A k \in 1..Len(replies) : replies[k].is # "end" => Sound(replies[k]))'
  BY <1>1, <1>2 DEF Sound
<1> QED BY <1>1, <1>2, <1>3 DEF Types, SenderKeeps

LEMMA SenderLive ==
    ASSUME Types, SenderKeeps, NEW r \in 0..walked, LiveAt(Ahead, r), \A id \in awaited : OldData(id),
           Stream(Ahead, r)', Runs(Ahead)', (link = "up" => AllAhead(Ahead, r) /\ Hand(Ahead))'
    PROVE  LiveAt(Ahead, r)'
<1>1. UNCHANGED <<copy, receiver, landing, open, awaited, part>>
  BY DEF SenderKeeps
<1>2. /\ DirIds' = DirIds /\ EndOf' = EndOf
      /\ \A i : Entry(i)' = Entry(i) /\ Skipped(i)' = Skipped(i) /\ IsFile(i)' = IsFile(i)
  BY <1>1, SameWalk
<1>3. \A id : OldReplies(id)
  BY RepliesTaken DEF OldReplies
<1>4. ASSUME NEW id \in awaited PROVE FitsAt(Ahead, id)' /\ SparedAt(Ahead, id)'
  <2>1. FitsAt(Ahead, id) /\ SparedAt(Ahead, id) /\ OldData(id)
    BY DEF LiveAt, Fits, Spared
  <2>2. FitsAt(Ahead, id)' /\ (Spoken(Ahead, id)' => Spoken(Ahead, id))
    BY <1>1, <1>3, <2>1, FitsKept
  <2>3. SparedAt(Ahead, id)'
    BY <1>1, <1>2, <2>1, <2>2 DEF SparedAt
  <2> QED BY <2>2, <2>3
<1>5. Fits(Ahead)' /\ Spared(Ahead)'
  BY <1>1, <1>4 DEF Fits, Spared
<1>6. Opened(r)'
  BY <1>1, OpenedKept DEF LiveAt
<1>7. Awaiting(r)'
  <2>1. \A k \in 1..Len(replies') : replies'[k].is # "end" => replies'[k].id <= r
    BY RepliesTaken DEF LiveAt, Awaiting
  <2> QED BY <1>1, <1>2, <2>1 DEF LiveAt, Awaiting
<1>8. Lands'
  BY <1>1, <1>2 DEF LiveAt, Lands
<1> QED BY <1>5, <1>6, <1>7, <1>8 DEF LiveAt

\* A step that puts nothing in the stream.
LEMMA SenderQuiet ==
    ASSUME Types, SenderKeeps, Ahead' = Ahead, walked' \in walked..walked + 1, UNCHANGED gaveUp,
           walked' = walked + 1 => Skipped(walked + 1) \/ link # "up",
           link = "up" => sender # "bytes" /\ sender' # "bytes",
           NEW r \in 0..walked, LiveAt(Ahead, r)
    PROVE  LiveAt(Ahead, r)'
<1>1. UNCHANGED <<copy, link>>
  BY DEF SenderKeeps
<1>2. Stream(Ahead, r)' /\ (link = "up" => AllAhead(Ahead, r))'
  BY <1>1, StreamSkips DEF LiveAt
<1>3. \A i : Entry(i)' = Entry(i)
  BY <1>1, SameWalk
<1>4. Runs(Ahead)'
  BY <1>3 DEF LiveAt, Runs, RunsTo, Right
<1>5. (link = "up" => Hand(Ahead))'
  BY <1>1 DEF LiveAt, Hand, RunsTo
<1>6. \A id : OldData(id)
  BY DEF OldData
<1> QED BY <1>2, <1>4, <1>5, <1>6, SenderLive

\* A step that puts an item in it.
LEMMA SenderPuts ==
    ASSUME Types, SenderKeeps, NEW x \in AnItem, Put(x), UNCHANGED gaveUp,
           walked' \in walked..walked + 1,
           x.is # "entry" => walked' = walked,
           x.is = "entry" => x.id = walked + 1 /\ walked' = walked + 1 /\ ~Skipped(walked + 1),
           x.is = "chunk" => sender' = "bytes" /\ bytes' = [bytes EXCEPT !.at = @ + 1],
           x.is = "data" => sender' = "bytes" /\ bytes' = [id |-> x.id, at |-> x.n],
           x.is \notin {"chunk", "data"} => sender' # "bytes",
           sender = "bytes" =>
                LET whole == Entry(bytes.id).whole IN
                \/ x.is = "chunk" /\ bytes.at < Len(whole) /\ x.n = whole[bytes.at + 1]
                \/ x.is = "sent" /\ bytes.at >= Len(whole),
           x.is = "chunk" => sender = "bytes",
           gaveUp => x.is = "failed",
           NEW r \in 0..walked, LiveAt(Ahead, r),
           x.is = "data" => /\ IsFile(x.id) /\ x.id <= r /\ x.n <= Len(Entry(x.id).whole)
                            /\ x.n = 0 \/ \E l \in 1..Len(replies) : Asks(replies[l], x)
    PROVE  LiveAt(Ahead, r)'
<1>1. UNCHANGED <<copy, link, receiver, landing>>
  BY DEF SenderKeeps
<1>2. /\ link = "up" =>
                /\ Len(Ahead') = Len(Ahead) + 1 /\ Ahead'[Len(Ahead) + 1] = x
                /\ \A k \in 1..Len(Ahead) : Ahead'[k] = Ahead[k]
      /\ link # "up" => Ahead' = Ahead
  BY <1>1, AheadPut
<1>3. CASE link # "up"
  <2>1. Stream(Ahead, r)' /\ (link = "up" => AllAhead(Ahead, r))'
    BY <1>1, <1>2, <1>3, StreamSkips DEF LiveAt
  <2>2. \A i : Entry(i)' = Entry(i)
    BY <1>1, SameWalk
  <2>3. Runs(Ahead)'
    BY <1>2, <1>3, <2>2 DEF LiveAt, Runs, RunsTo, Right
  <2>4. \A id : OldData(id)
    BY <1>2, <1>3 DEF OldData
  <2> QED BY <1>1, <1>3, <2>1, <2>3, <2>4, SenderLive
<1>4. CASE link = "up"
  <2>1. /\ Len(Ahead') = Len(Ahead) + 1 /\ Ahead'[Len(Ahead) + 1] = x
        /\ \A k \in 1..Len(Ahead) : Ahead'[k] = Ahead[k]
    BY <1>2, <1>4
  <2>2. Stream(Ahead, r) /\ AllAhead(Ahead, r) /\ Runs(Ahead) /\ Hand(Ahead)
    BY <1>4 DEF LiveAt
  <2>3. Stream(Ahead, r)' /\ AllAhead(Ahead, r)'
    BY <1>1, <2>1, <2>2, StreamGrows
  <2>4. Hand(Ahead)'
    BY <2>1, <2>2, HandGrows
  <2>5. ASSUME NEW j \in 1..Len(Ahead), RunsTo(Ahead, j, Len(Ahead) + 1)
        PROVE  Right(Ahead[j], Len(Ahead) - j, x)
    <3>1. CASE sender = "bytes"
      BY <2>2, <2>5, <3>1 DEF Hand, Right
    <3>2. CASE sender # "bytes"
      BY <2>2, <2>5, <3>2 DEF Hand, Right
    <3> QED BY <3>1, <3>2
  <2>6. Runs(Ahead)'
    BY <1>1, <2>1, <2>2, <2>5, RunsGrow
  <2>7. ASSUME NEW id PROVE OldData(id)
    <3> SUFFICES ASSUME NEW k \in 1..Len(Ahead'), Ahead'[k].is = "data", Ahead'[k].id = id, Ahead'[k].n # 0
                 PROVE  \/ \E l \in 1..Len(Ahead) : Ahead[l] = Ahead'[k]
                        \/ \E l \in 1..Len(replies) : Asks(replies[l], Ahead'[k])
      BY DEF OldData
    <3>1. Len(Ahead) \in Nat
      BY AheadIs, Elements DEF Types
    <3>2. k \in 1..Len(Ahead) \/ k = Len(Ahead) + 1
      BY <2>1, <3>1
    <3> QED BY <2>1, <3>2
  <2> QED BY <1>1, <2>3, <2>4, <2>6, <2>7, SenderLive
<1> QED BY <1>3, <1>4

LEMMA SameBrought ==
    ASSUME UNCHANGED copy
    PROVE  \A f : Brought(f)' = Brought(f) /\ Starting(f)' = Starting(f) /\ MayGo(f)' = MayGo(f)
BY DEF Brought, Starting, MayGo, Walked, Sent

LEMMA WholeKept ==
    ASSUME WholeFiles, UNCHANGED <<copy, was, file, part>>
    PROVE  WholeFiles'
BY SameBrought DEF WholeFiles

LEMMA AheadFlushed ==
    ASSUME Types, Flush, UNCHANGED <<link, receiver, landing>>
    PROVE  pipe' \in Seq(AnItem) /\ buf' \in Seq(AnItem) /\ Ahead' = Ahead
<1>1. pipe' \in Seq(AnItem) /\ buf' \in Seq(AnItem)
  BY Joined DEF Types, Flush, Flushed
<1>2. Queued' = Queued
  <2>1. CASE link = "up"
    <3>1. (pipe \o buf) \o <<>> = pipe \o buf
      BY DEF Types
    <3> QED BY <2>1, <3>1 DEF Flush, Flushed, Queued
  <2>2. CASE link # "up"
    BY <2>2 DEF Types, Flush, Flushed, Queued
  <2> QED BY <2>1, <2>2
<1> QED BY <1>1, <1>2 DEF Ahead

\* From which block a file goes.
LEMMA FromIs ==
    ASSUME Types, NEW a \in AnAnswer, a.is # "end", Sound(a), From(a) # None
    PROVE  /\ From(a) \in Nat /\ From(a) <= Len(Entry(a.id).whole)
           /\ From(a) = 0 \/ Asks(a, Item("data", a.id, From(a)))
<1>1. Entry(a.id).whole \in Seq(Nat) /\ a.have \in Seq(Nat)
  BY Walk DEF Sound, IsFile, Contents
<1>2. Len(Entry(a.id).whole) \in Nat /\ Len(a.have) \in Nat
  BY <1>1, Elements
<1>3. CASE From(a) = 0
  BY <1>2, <1>3
<1>4. CASE From(a) # 0
  <2>1. /\ a.is = "want" /\ a.have # <<>> /\ SubSeq(Entry(a.id).whole, 1, Len(a.have)) = a.have
        /\ From(a) = Len(a.have)
    BY <1>4 DEF From, AnAnswer
  <2>2. Len(a.have) <= Len(Entry(a.id).whole)
    BY <2>1 DEF Sound
  <2> QED BY <1>2, <2>1, <2>2 DEF Asks, Item
<1> QED BY <1>3, <1>4

(***************************************************************************)
(* The receiver's steps.                                                   *)
(***************************************************************************)
LEMMA ReceiverTypes ==
    ASSUME Types, sentUnchanged, pipe' \in Seq(AnItem), replies' \in Seq(AnAnswer), open' \in Seq(AFrame),
           \A k \in 1..Len(replies') : replies'[k].is # "end" => Sound(replies'[k]),
           receiver' \in {"reading", "landing", "ended"}, landing' \in [id : Nat, at : Nat],
           file' \in [Files -> Contents \cup {None, Link}], part' \in [Files -> Contents \cup {None}]
    PROVE  Types'
<1>1. UNCHANGED <<copy, was, sender, walked, bytes, gaveUp, buf, link>>
  BY DEF sentUnchanged, sendVars
<1>2. /\ OneOfAName' = OneOfAName
      /\ \A i : Entry(i)' = Entry(i) /\ IsFile(i)' = IsFile(i)
  BY <1>1, SameWalk
<1>3. (\A k \in 1..Len(replies) : replies[k].is # "end" => Sound(replies[k]))'
  BY <1>2 DEF Sound
<1> QED BY <1>1, <1>2, <1>3 DEF Types

\* Once it has ended nothing is ahead.
LEMMA EndedKeeps ==
    ASSUME Types', WholeFiles', receiver' = "ended"
    PROVE  Inv'
BY DEF Inv, Live

LEMMA FrameGrows ==
    ASSUME NEW m \in AFrame, NEW names \in SUBSET (Files \cup Dirs), NEW parts \in SUBSET Files
    PROVE  [[m EXCEPT !.seen = @ \cup names] EXCEPT !.parts = @ \cup parts] =
                [dir |-> m.dir, seen |-> m.seen \cup names, parts |-> m.parts \cup parts]
<1> DEFINE u == [m EXCEPT !.seen = @ \cup names]
<1>1. u = [dir |-> m.dir, seen |-> m.seen \cup names, parts |-> m.parts] /\ u \in AFrame
  BY DEF AFrame
<1>2. u.dir = m.dir /\ u.seen = m.seen \cup names /\ u.parts = m.parts
  BY <1>1
<1> HIDE DEF u
<1>3. [u EXCEPT !.parts = @ \cup parts] = [dir |-> u.dir, seen |-> u.seen, parts |-> u.parts \cup parts]
  BY <1>1 DEF AFrame
<1>4. [u EXCEPT !.parts = @ \cup parts] =
            [dir |-> m.dir, seen |-> m.seen \cup names, parts |-> m.parts \cup parts]
  BY <1>2, <1>3
<1> QED BY <1>4 DEF u

LEMMA SawIs ==
    ASSUME Types, NEW names \in SUBSET (Files \cup Dirs), NEW parts \in SUBSET Files
    PROVE  /\ Saw(names, parts) \in Seq(AFrame) /\ Len(Saw(names, parts)) = Len(open) /\ Len(open) \in Nat
           /\ \A k \in 1..Len(open) :
                /\ Saw(names, parts)[k].dir = open[k].dir
                /\ open[k].seen \subseteq Saw(names, parts)[k].seen
                /\ open[k].parts \subseteq Saw(names, parts)[k].parts
                /\ k = Len(open) => names \subseteq Saw(names, parts)[k].seen
                                    /\ parts \subseteq Saw(names, parts)[k].parts
<1>1. Len(open) \in Nat /\ DOMAIN open = 1..Len(open) /\ \A k \in 1..Len(open) : open[k] \in AFrame
  BY Elements DEF Types
<1>2. CASE open = <<>>
  <2>1. Len(open) = 0 /\ Saw(names, parts) = open
    BY <1>2 DEF Saw
  <2> QED BY <1>1, <2>1 DEF Types
<1>3. CASE open # <<>>
  <2> DEFINE n == Len(open)
             last == [dir |-> open[n].dir, seen |-> open[n].seen \cup names, parts |-> open[n].parts \cup parts]
  <2>1. n \in 1..Len(open) /\ open[n] \in AFrame
    BY <1>1, <1>3 DEF Types
  <2>2. last \in AFrame
    BY <2>1 DEF AFrame
  <2>3. Saw(names, parts) = [open EXCEPT ![n] = last]
    <3>1. [[open[n] EXCEPT !.seen = @ \cup names] EXCEPT !.parts = @ \cup parts] = last
      BY <2>1, FrameGrows
    <3> QED BY <1>1, <1>3, <2>1, <3>1 DEF Saw, AFrame
  <2> HIDE DEF last
  <2>4. [open EXCEPT ![n] = last] \in Seq(AFrame) /\ Len([open EXCEPT ![n] = last]) = Len(open)
    BY <1>1, <2>1, <2>2 DEF Types
  <2>5. \A k \in 1..Len(open) : Saw(names, parts)[k] = IF k = n THEN last ELSE open[k]
    BY <1>1, <2>1, <2>3
  <2>6. last.dir = open[n].dir /\ last.seen = open[n].seen \cup names /\ last.parts = open[n].parts \cup parts
    BY DEF last
  <2> QED BY <1>1, <2>3, <2>4, <2>5, <2>6
<1> QED BY <1>2, <1>3

\* It takes an item between files: a header is then the last that came.
LEMMA ItemTaken ==
    ASSUME Types, NEW r \in 0..walked, LiveAt(Ahead, r), receiver = "reading", receiver' = "reading",
           pipe # <<>>, pipe' = Tail(pipe), sentUnchanged,
           NEW q, q = IF Head(pipe).is = "entry" THEN Head(pipe).id ELSE r
    PROVE  /\ q \in 0..walked /\ Stream(Ahead, q)' /\ Runs(Ahead)'
           /\ (link = "up" => AllAhead(Ahead, q) /\ Hand(Ahead))'
           /\ pipe' \in Seq(AnItem) /\ Head(pipe) \in AnItem
           /\ Ahead[1] = Head(pipe) /\ 1 \in 1..Len(Ahead)
           /\ \A id : OldData(id)
           /\ \A k \in 1..Len(Ahead') : \E l \in 1..Len(Ahead) : Ahead'[k] = Ahead[l]
           /\ Head(pipe).is = "entry" => Next2(r, q) /\ q > r /\ ~Skipped(q)
<1>1. UNCHANGED <<copy, link, walked, buf, sender, bytes, gaveUp>>
  BY DEF sentUnchanged, sendVars
<1>2. /\ pipe' \in Seq(AnItem) /\ Ahead[1] = Head(pipe) /\ Head(pipe) \in AnItem
      /\ Len(Ahead) >= 1 /\ Len(Ahead') = Len(Ahead) - 1
      /\ \A k \in 1..Len(Ahead) - 1 : Ahead'[k] = Ahead[k + 1]
  BY <1>1, AheadTaken
<1>3. Len(Ahead) \in Nat /\ walked \in Nat /\ Len(copy.walk) \in Nat /\ walked <= Len(copy.walk)
  BY AheadIs, Elements, Walk DEF Types
<1>4. Stream(Ahead, r) /\ Runs(Ahead) /\ (link = "up" => AllAhead(Ahead, r) /\ Hand(Ahead))
  BY DEF LiveAt
<1>5. /\ q \in r..walked /\ Stream(Ahead, q)' /\ (link = "up" => AllAhead(Ahead, q))'
      /\ Ahead[1].is = "entry" => q > r /\ ~Skipped(q) /\ \A i \in r + 1..q - 1 : Skipped(i)
  BY <1>1, <1>2, <1>4, StreamTaken
<1>6. \A k \in 1..Len(Ahead') : k + 1 \in 1..Len(Ahead) /\ Ahead'[k] = Ahead[k + 1]
  BY <1>2, <1>3
<1>7. Runs(Ahead)'
  BY <1>1, <1>2, <1>4, <1>6, RunsTaken
<1>8. (link = "up" => Hand(Ahead))'
  BY <1>1, <1>2, <1>4, <1>6, HandTaken
<1>9. \A id : OldData(id)
  BY <1>6 DEF OldData
<1>10. Head(pipe).is = "entry" => Next2(r, q)
  BY <1>2, <1>3, <1>5 DEF Next2, Ids
<1>11. q \in 0..walked /\ 1 \in 1..Len(Ahead)
  BY <1>2, <1>3, <1>5
<1> QED BY <1>2, <1>5, <1>6, <1>7, <1>8, <1>9, <1>10, <1>11

\* Files of different headers are different ones.
LEMMA OneFile ==
    ASSUME Types, NEW i \in Ids, NEW j \in Ids, Entry(i).is # "end", Entry(j).is # "end",
           Entry(i).at = Entry(j).at
    PROVE  i = j
<1>1. OneOfAName /\ DOMAIN copy.walk = Ids
  BY Walk DEF Types
<1> QED BY <1>1 DEF OneOfAName

\* What the copy brings to a path, and a start of it.
LEMMA Brings ==
    ASSUME Types, NEW i \in Ids, Entry(i).is \in {"file", "link"}, ~Skipped(i)
    PROVE  /\ Entry(i).whole \in Brought(Entry(i).at)
           /\ Entry(i).is = "file" => \A n \in 0..Len(Entry(i).whole) :
                SubSeq(Entry(i).whole, 1, n) \in Starting(Entry(i).at)
<1>1. i \in DOMAIN copy.walk
  BY Walk
<1>2. Entry(i).whole \in Brought(Entry(i).at)
  BY <1>1 DEF Brought, Entry, Skipped
<1>3. Entry(i).is = "file" => Entry(i).whole # Link
  BY Walk, SyncAssumption
<1> QED BY <1>2, <1>3 DEF Starting

\* Where the files awaited stay what they are, and the part of each a start is spoken of.
LEMMA StillFits ==
    ASSUME Types, NEW r, LiveAt(Ahead, r), UNCHANGED copy, NEW id \in awaited,
           OldReplies(id), OldData(id),
           Spoken(Ahead, id) => part'[Entry(id).at] = part[Entry(id).at],
           Spoken(Ahead, id) =>
                \A k \in 1..Len(open') : open'[k].dir = In[Entry(id).at] => Entry(id).at \in open'[k].parts
    PROVE  FitsAt(Ahead, id)' /\ SparedAt(Ahead, id)'
<1>1. FitsAt(Ahead, id)
  BY DEF LiveAt, Fits
<1>2. FitsAt(Ahead, id)' /\ (Spoken(Ahead, id)' => Spoken(Ahead, id))
  BY <1>1, FitsKept
<1>3. Entry(id)' = Entry(id)
  BY SameWalk
<1>4. SparedAt(Ahead, id)'
  BY <1>2, <1>3 DEF SparedAt
<1> QED BY <1>2, <1>4

LEMMA AwaitingOn ==
    ASSUME Types, UNCHANGED copy, NEW r \in Nat, NEW q \in Nat, r <= q, Awaiting(r),
           awaited' \subseteq awaited,
           \A k \in 1..Len(replies') : replies'[k].is # "end" =>
                \E l \in 1..Len(replies) : replies[l] = replies'[k]
    PROVE  Awaiting(q)'
<1>1. \A i : IsFile(i)' = IsFile(i)
  BY SameWalk
<1>2. \A i \in Ids : i \in Nat
  BY Walk DEF Ids
<1>3. \A id \in awaited : id <= q
  BY <1>2 DEF Awaiting, IsFile
<1>4. ASSUME NEW k \in 1..Len(replies), replies[k].is # "end" PROVE replies[k].id <= q
  <2>1. replies[k].id \in Ids
    BY <1>4 DEF Types, Sound, IsFile
  <2> QED BY <1>2, <1>4, <2>1 DEF Awaiting
<1> QED BY <1>1, <1>3, <1>4 DEF Awaiting

LEMMA RepliesGrow ==
    ASSUME Types, NEW a \in AnAnswer, Reply(a), a.is # "end" => Sound(a)
    PROVE  /\ replies' \in Seq(AnAnswer)
           /\ \A k \in 1..Len(replies') : replies'[k] = a \/ \E l \in 1..Len(replies) : replies[l] = replies'[k]
           /\ \A k \in 1..Len(replies') : replies'[k].is # "end" => Sound(replies'[k])
<1>1. replies \in Seq(AnAnswer) /\ Len(replies) \in Nat
  BY Elements DEF Types
<1>2. CASE replies' = replies
  BY <1>1, <1>2 DEF Types
<1>3. CASE replies' = Append(replies, a)
  <2>1. /\ replies' \in Seq(AnAnswer) /\ Len(replies') = Len(replies) + 1
        /\ (\A k \in 1..Len(replies) : replies'[k] = replies[k]) /\ replies'[Len(replies) + 1] = a
    BY <1>1, <1>3, Appended
  <2>2. \A k \in 1..Len(replies') : replies'[k] = a \/ \E l \in 1..Len(replies) : replies[l] = replies'[k]
    <3> SUFFICES ASSUME NEW k \in 1..Len(replies')
                 PROVE  replies'[k] = a \/ \E l \in 1..Len(replies) : replies[l] = replies'[k]
      OBVIOUS
    <3>1. k \in 1..Len(replies) \/ k = Len(replies) + 1
      BY <1>1, <2>1
    <3> QED BY <2>1, <3>1
  <2>3. \A k \in 1..Len(replies) : replies[k].is # "end" => Sound(replies[k])
    BY DEF Types
  <2> QED BY <2>1, <2>2, <2>3
<1> QED BY <1>2, <1>3 DEF Reply

\* A part sized to a start it has is that start.
LEMMA SizedIs ==
    ASSUME NEW s \in Seq(Nat), NEW whole \in Seq(Nat), NEW n \in 0..Len(whole),
           n = 0 \/ s = SubSeq(whole, 1, n)
    PROVE  Sized(s, n) = SubSeq(whole, 1, n) /\ Sized(s, n) \in Seq(Nat)
<1>1. SubSeq(whole, 1, n) \in Seq(Nat) /\ Len(SubSeq(whole, 1, n)) = n /\ n \in Nat
  BY Started, Elements
<1>2. CASE n = 0
  <2>1. Sized(s, n) = [i \in 1..0 |-> IF i <= Len(s) THEN s[i] ELSE Zero]
    BY <1>2 DEF Sized
  <2>2. Sized(s, n) = <<>> /\ SubSeq(whole, 1, n) = <<>>
    <3>1. 1..0 = {}
      OBVIOUS
    <3>2. SubSeq(whole, 1, n) = <<>>
      BY <1>1, <1>2
    <3>3. [i \in 1..0 |-> IF i <= Len(s) THEN s[i] ELSE Zero] \in Seq(Nat)
          /\ Len([i \in 1..0 |-> IF i <= Len(s) THEN s[i] ELSE Zero]) = 0
      BY <3>1
    <3>4. Sized(s, n) \in Seq(Nat) /\ Len(Sized(s, n)) = 0
      BY <2>1, <3>3
    <3>5. Sized(s, n) = <<>>
      BY <3>4
    <3> QED BY <3>2, <3>5
  <2> QED BY <1>1, <2>2
<1>3. CASE n # 0
  <2>1. s = SubSeq(whole, 1, n) /\ Len(s) = n
    BY <1>1, <1>3
  <2>2. Sized(s, n) = [i \in 1..n |-> s[i]]
    BY <1>1, <2>1 DEF Sized
  <2>3. [i \in 1..n |-> s[i]] = s
    BY <1>1, <2>1
  <2> QED BY <1>1, <2>1, <2>2, <2>3
<1> QED BY <1>2, <1>3

\* A file that lands: its part is a start of it, and no other file awaited has that part.
LEMMA LandsPart ==
    ASSUME Types, WholeFiles, UNCHANGED <<copy, was>>, NEW i, IsFile(i), ~copy.dry,
           NEW n \in 0..Len(Entry(i).whole),
           \/ file' = file /\ part' = [part EXCEPT ![Entry(i).at] = SubSeq(Entry(i).whole, 1, n)]
           \/ /\ file' = [file EXCEPT ![Entry(i).at] = Entry(i).whole]
              /\ part' = [part EXCEPT ![Entry(i).at] = None]
    PROVE  /\ WholeFiles'
           /\ file' \in [Files -> Contents \cup {None, Link}] /\ part' \in [Files -> Contents \cup {None}]
           /\ \A id \in Ids : Entry(id).is = "file" /\ id # i => part'[Entry(id).at] = part[Entry(id).at]
<1> DEFINE f == Entry(i).at
<1>1. i \in Ids /\ Entry(i).is = "file" /\ ~Skipped(i) /\ f \in Files /\ Entry(i).whole \in Seq(Nat)
  BY Walk DEF IsFile, Skipped
<1>2. SubSeq(Entry(i).whole, 1, n) \in Contents
  BY <1>1, Started DEF Contents
<1>3. Entry(i).whole \in Brought(f) /\ SubSeq(Entry(i).whole, 1, n) \in Starting(f)
  BY <1>1, Brings
<1>4. \A id \in Ids : Entry(id).is = "file" /\ id # i => Entry(id).at # f /\ Entry(id).at \in Files
  BY <1>1, OneFile, Walk
<1>5. /\ file \in [Files -> Contents \cup {None, Link}] /\ part \in [Files -> Contents \cup {None}]
      /\ Entry(i).whole \in Contents
  BY <1>1 DEF Types, Contents
<1> HIDE DEF f
<1>6. CASE file' = file /\ part' = [part EXCEPT ![f] = SubSeq(Entry(i).whole, 1, n)]
  <2>1. /\ part' \in [Files -> Contents \cup {None}] /\ part'[f] = SubSeq(Entry(i).whole, 1, n)
        /\ \A g \in Files : g # f => part'[g] = part[g]
    BY <1>1, <1>2, <1>5, <1>6
  <2>2. WholeFiles'
    <3> SUFFICES ASSUME NEW g \in Files
                 PROVE  /\ \/ file'[g] = was.file[g] \/ file'[g] \in Brought(g)
                           \/ file'[g] = None /\ copy.delete /\ Brought(g) = {} /\ MayGo(g)
                        /\ part'[g] \in {was.part[g], None} \cup Starting(g)
      BY SameBrought DEF WholeFiles
    <3> QED BY <1>3, <1>6, <2>1 DEF WholeFiles
  <2> QED BY <1>4, <1>5, <1>6, <2>1, <2>2
<1>7. CASE file' = [file EXCEPT ![f] = Entry(i).whole] /\ part' = [part EXCEPT ![f] = None]
  <2>1. /\ part' \in [Files -> Contents \cup {None}] /\ part'[f] = None
        /\ \A g \in Files : g # f => part'[g] = part[g]
        /\ file' \in [Files -> Contents \cup {None, Link}] /\ file'[f] = Entry(i).whole
        /\ \A g \in Files : g # f => file'[g] = file[g]
    BY <1>1, <1>5, <1>7
  <2>2. WholeFiles'
    <3> SUFFICES ASSUME NEW g \in Files
                 PROVE  /\ \/ file'[g] = was.file[g] \/ file'[g] \in Brought(g)
                           \/ file'[g] = None /\ copy.delete /\ Brought(g) = {} /\ MayGo(g)
                        /\ part'[g] \in {was.part[g], None} \cup Starting(g)
      BY SameBrought DEF WholeFiles
    <3> QED BY <1>3, <2>1 DEF WholeFiles
  <2> QED BY <1>4, <2>1, <2>2
<1> QED BY <1>6, <1>7 DEF f

\* The files awaited, when another lands.
LEMMA OthersFit ==
    ASSUME Types, NEW r \in 0..walked, LiveAt(Ahead, r), UNCHANGED <<copy, open, replies>>,
           awaited' \subseteq awaited, NEW i, i \notin awaited',
           \A id \in awaited' : OldData(id),
           \A id \in Ids : Entry(id).is = "file" /\ id # i => part'[Entry(id).at] = part[Entry(id).at]
    PROVE  Fits(Ahead)' /\ Spared(Ahead)' /\ Awaiting(r)' /\ Opened(r)'
<1>1. ASSUME NEW id \in awaited' PROVE FitsAt(Ahead, id)' /\ SparedAt(Ahead, id)'
  <2>1. id \in awaited /\ id # i /\ id \in Ids /\ Entry(id).is = "file" /\ Spared(Ahead)
    BY <1>1 DEF LiveAt, Awaiting, IsFile
  <2>2. OldReplies(id) /\ OldData(id)
    BY <1>1 DEF OldReplies
  <2>3. Spoken(Ahead, id) =>
            \A k \in 1..Len(open') : open'[k].dir = In[Entry(id).at] => Entry(id).at \in open'[k].parts
    BY <2>1 DEF Spared, SparedAt
  <2> QED BY <2>1, <2>2, <2>3, StillFits
<1>2. Awaiting(r)'
  <2>1. r \in Nat /\ r <= r /\ Awaiting(r)
    BY DEF LiveAt
  <2> QED BY <2>1, AwaitingOn
<1>3. Opened(r)'
  BY OpenedKept DEF LiveAt
<1> QED BY <1>1, <1>2, <1>3 DEF Fits, Spared

\* A start and its next block is the next start; all of it is the whole.
LEMMA NextStart ==
    ASSUME NEW whole \in Seq(Nat), NEW n \in 0..Len(whole)
    PROVE  /\ SubSeq(SubSeq(whole, 1, n), 1, n) = SubSeq(whole, 1, n)
           /\ n < Len(whole) => Append(SubSeq(whole, 1, n), whole[n + 1]) = SubSeq(whole, 1, n + 1)
           /\ n = Len(whole) => SubSeq(whole, 1, n) = whole
<1> DEFINE s == SubSeq(whole, 1, n)
<1>1. s \in Seq(Nat) /\ Len(s) = n /\ n \in Nat /\ Len(whole) \in Nat /\ \A k \in 1..n : s[k] = whole[k]
  BY Started, Elements
<1> HIDE DEF s
<1>2. SubSeq(s, 1, n) = s
  <2>1. SubSeq(s, 1, n) \in Seq(Nat) /\ Len(SubSeq(s, 1, n)) = n /\ \A k \in 1..n : SubSeq(s, 1, n)[k] = s[k]
    <3>1. n \in 0..Len(s)
      BY <1>1
    <3> QED BY <1>1, <3>1, Started
  <2> QED BY <1>1, <2>1, SameElements
<1>3. ASSUME n < Len(whole) PROVE Append(s, whole[n + 1]) = SubSeq(whole, 1, n + 1)
  <2>1. n + 1 \in 0..Len(whole) /\ n + 1 \in 1..Len(whole) /\ whole[n + 1] \in Nat
    BY <1>1, <1>3
  <2> DEFINE t == SubSeq(whole, 1, n + 1)
             u == Append(s, whole[n + 1])
  <2>2. t \in Seq(Nat) /\ Len(t) = n + 1 /\ \A k \in 1..n + 1 : t[k] = whole[k]
    BY <2>1, Started
  <2>3. u \in Seq(Nat) /\ Len(u) = n + 1 /\ (\A k \in 1..n : u[k] = s[k]) /\ u[n + 1] = whole[n + 1]
    BY <1>1, <2>1, Appended
  <2> HIDE DEF t, u
  <2>4. ASSUME NEW k \in 1..Len(u) PROVE u[k] = t[k]
    <3>1. k \in 1..n \/ k = n + 1
      BY <1>1, <2>3
    <3>2. k \in 1..n => u[k] = s[k] /\ s[k] = whole[k] /\ t[k] = whole[k]
      BY <1>1, <2>2, <2>3
    <3>3. t[n + 1] = whole[n + 1]
      BY <1>1, <2>2
    <3> QED BY <2>3, <3>1, <3>2, <3>3
  <2>5. u = t
    BY <2>2, <2>3, <2>4, SameElements
  <2> QED BY <2>5 DEF t, u
<1>4. n = Len(whole) => s = whole
  BY <1>1, SameElements
<1> QED BY <1>2, <1>3, <1>4 DEF s

\* What the receiver finds of the file it lands is what comes next of it.
LEMMA LandsNext ==
    ASSUME Types, NEW r \in 0..walked, LiveAt(Ahead, r), receiver = "landing", pipe # <<>>,
           pipe' = Tail(pipe), landing' \in [id : Nat, at : Nat], sentUnchanged
    PROVE  LET f == Entry(landing.id).at  whole == Entry(landing.id).whole IN
           /\ IsFile(landing.id) /\ landing.id \notin awaited /\ landing.id <= r /\ ~copy.dry
           /\ whole \in Seq(Nat) /\ landing.at \in 0..Len(whole) /\ f \in Files
           /\ part[f] = SubSeq(whole, 1, landing.at)
           /\ Head(pipe).is = "chunk" => landing.at < Len(whole) /\ Head(pipe).n = whole[landing.at + 1]
           /\ Head(pipe).is = "sent" => landing.at = Len(whole)
           /\ Ahead[1] = Item("data", landing.id, landing.at) /\ Ahead[2] = Head(pipe) /\ Len(Ahead) >= 2
           /\ Len(Ahead) \in Nat
<1> DEFINE f == Entry(landing.id).at
           whole == Entry(landing.id).whole
<1>1. UNCHANGED <<buf, link>>
  BY DEF sentUnchanged
<1>2. Ahead[1] = Item("data", landing.id, landing.at) /\ Ahead[2] = Head(pipe) /\ Len(Ahead) >= 2
  BY <1>1, AheadLanding
<1>3. Len(Ahead) \in Nat /\ 1 \in 1..Len(Ahead) /\ 2 \in 1..Len(Ahead) /\ landing.id \in Nat /\ landing.at \in Nat
  BY <1>2, AheadIs, Elements DEF Types
<1>4. Ahead[1].is = "data" /\ Ahead[1].id = landing.id /\ Ahead[1].n = landing.at
  BY <1>2, <1>3, ItemType
<1>5. /\ IsFile(landing.id) /\ landing.id \notin awaited /\ ~copy.dry /\ landing.at <= Len(whole)
      /\ part[f] = SubSeq(whole, 1, landing.at)
  BY DEF LiveAt, Lands
<1>6. landing.id <= r
  BY <1>3, <1>4 DEF LiveAt, Stream
<1>7. whole \in Seq(Nat) /\ Len(whole) \in Nat /\ f \in Files
  BY <1>5, Walk, Elements DEF IsFile
<1>8. RunsTo(Ahead, 1, 2)
  BY <1>4 DEF RunsTo
<1>9. Right(Ahead[1], 2 - 1 - 1, Ahead[2])
  BY <1>3, <1>8 DEF LiveAt, Runs
<1>10. Right(Ahead[1], 0, Head(pipe))
  BY <1>2, <1>9
<1>11. /\ Head(pipe).is = "chunk" => landing.at + 0 < Len(whole) /\ Head(pipe).n = whole[landing.at + 0 + 1]
       /\ Head(pipe).is = "sent" => landing.at + 0 >= Len(whole)
  BY <1>4, <1>10 DEF Right
<1>12. landing.at + 0 = landing.at /\ landing.at \in 0..Len(whole)
  BY <1>3, <1>5, <1>7
<1>13. /\ Head(pipe).is = "chunk" => landing.at < Len(whole) /\ Head(pipe).n = whole[landing.at + 1]
       /\ Head(pipe).is = "sent" => landing.at = Len(whole)
  BY <1>7, <1>11, <1>12
<1> QED BY <1>2, <1>3, <1>5, <1>6, <1>7, <1>12, <1>13

\* What the receiver answers a header with: the file that is there, or the start kept of it.
LEMMA AnswersHeader ==
    ASSUME Types, NEW q, IsFile(q), q \in Nat,
           NEW f, f = Entry(q).at, NEW size, size = Len(Entry(q).whole), NEW a,
           \/ SameSize(f, size) /\ a = Answer("check", q, file[f])
           \/ a = Answer("want", q, IF Resumable(f, size) THEN part[f] ELSE <<>>)
    PROVE  /\ a \in AnAnswer /\ a.is # "end" /\ a.id = q /\ Sound(a)
           /\ a.is = "want" => a.have = <<>> \/ part[f] = a.have
<1>1. f \in Files /\ size \in Nat
  BY Walk, Elements DEF IsFile
<1>2. file[f] \in Contents \cup {None, Link} /\ part[f] \in Contents \cup {None}
  BY <1>1 DEF Types
<1>3. CASE SameSize(f, size) /\ a = Answer("check", q, file[f])
  <2>1. file[f] \in Contents
    BY <1>2, <1>3 DEF SameSize
  <2> QED BY <1>3, <2>1 DEF Answer, AnAnswer, Sound
<1>4. CASE a = Answer("want", q, IF Resumable(f, size) THEN part[f] ELSE <<>>)
  <2> DEFINE have == IF Resumable(f, size) THEN part[f] ELSE <<>>
  <2>1. CASE Resumable(f, size)
    <3>1. have = part[f] /\ part[f] \in Contents /\ Len(part[f]) <= size
      BY <1>1, <1>2, <2>1 DEF Resumable
    <3> QED BY <1>4, <3>1 DEF Answer, AnAnswer, Sound
  <2>2. CASE ~Resumable(f, size)
    <3>1. have = <<>> /\ <<>> \in Contents /\ Len(<<>>) = 0
      BY <2>2 DEF Contents
    <3>2. a.is = "want" /\ a.id = q /\ a.have = <<>> /\ a \in AnAnswer
      BY <1>4, <2>2, <3>1 DEF Answer, AnAnswer
    <3> QED BY <1>1, <3>1, <3>2 DEF Sound
  <2> QED BY <2>1, <2>2
<1> QED BY <1>3, <1>4

\* The parts of files awaited, of which a start is spoken, are spared.
LEMMA SparedStay ==
    ASSUME Types, NEW r, NEW q, Next2(r, q), Opened(r), Entry(q).is = "end", open # <<>>,
           NEW id, IsFile(id), SparedAt(Ahead, id), Spoken(Ahead, id)
    PROVE  Entry(id).at \notin LostParts(open[Len(open)])
<1> DEFINE f == Entry(id).at
           last == open[Len(open)]
<1>1. id \in Ids /\ Entry(id).is = "file" /\ f \in Files
  BY Walk DEF IsFile
<1>2. Len(open) \in 1..Len(open)
  BY Elements DEF Types
<1>3. In[f] = last.dir => f \in last.parts
  BY <1>2 DEF SparedAt
<1>4. In[f] \notin Lost(last)
  <2>1. CASE In[f] = Top
    BY <2>1, SyncAssumption DEF Lost
  <2>2. CASE In[f] # Top
    <3>1. PICK j \in DirIds : Entry(j).at = In[f]
      BY <1>1, <2>2, NestFacts
    <3>2. j \in DOMAIN copy.walk /\ Entry(j).is = "dir" /\ ~Skipped(j)
      BY <3>1, NestFacts, Walk
    <3>3. In[f] \in Sent
      BY <3>1, <3>2 DEF Sent, Entry, Skipped
    <3> QED BY <3>3, SentStays
  <2> QED BY <2>1, <2>2
<1> QED BY <1>3, <1>4 DEF LostParts

\* What goes with a directory that ended may go.
LEMMA LostMayGo ==
    ASSUME Types, NEW r, NEW q, Next2(r, q), Opened(r), Entry(q).is = "end", open # <<>>,
           NEW f \in Files, f \in Lost(open[Len(open)])
    PROVE  Brought(f) = {} /\ MayGo(f)
<1>1. f \notin Sent
  BY SentStays
<1>2. Brought(f) = {}
  <2> SUFFICES ASSUME NEW i \in DOMAIN copy.walk, copy.walk[i].is \in {"file", "link"},
                      copy.walk[i].at = f, f \notin copy.excluded
               PROVE  FALSE
    BY DEF Brought
  <2> QED BY <1>1 DEF Sent
<1>3. PICK p \in {f} \cup (Above[f] \ {Top}) : Goner(p, open[Len(open)])
  BY DEF Lost
<1>4. p \notin Sent /\ In[p] \in Walked
  BY <1>3, GonerNotSent
<1>5. MayGo(f)
  BY <1>3, <1>4 DEF MayGo, Goner
<1> QED BY <1>2, <1>5

(***************************************************************************)
(* What landed, step by step.                                              *)
(***************************************************************************)
LEMMA SameLanding ==
    ASSUME UNCHANGED copy
    PROVE  \A r : /\ Came(r)' = Came(r) /\ EndedBy(r)' = EndedBy(r) /\ \A p : Entered(p, r)' = Entered(p, r)
BY SameWalk DEF Came, EndedBy, Entered, Ids, IsFile, Skipped, Entry, DirIds, EndOf

LEMMA CameIs ==
    ASSUME Types, NEW r \in Nat
    PROVE  /\ Came(r) \subseteq 1..r /\ IsFiniteSet(Came(r)) /\ IsFiniteSet(Came(r) \ UnderWay)
           /\ Cardinality(Came(r) \ UnderWay) \in Nat
<1>1. IsFiniteSet(1..r)
  BY FS_Interval
<1>2. IsFiniteSet(Came(r)) /\ IsFiniteSet(Came(r) \ UnderWay)
  BY <1>1, FS_Subset DEF Came
<1> QED BY <1>2, FS_CardinalityType DEF Came

\* What comes with the header q that comes after the header r.
LEMMA CameOn ==
    ASSUME Types, NEW r, NEW q, Next2(r, q), ~Skipped(q)
    PROVE  /\ r \in Nat /\ q \in Nat /\ r < q /\ q \in Ids /\ q \notin Came(r)
           /\ \A i \in 1..q : ~Skipped(i) => i \in 1..r \/ i = q
           /\ \A i \in 1..r : i \in 1..q
           /\ Came(q) = IF Entry(q).is = "file" THEN Came(r) \cup {q} ELSE Came(r)
           /\ \A p : Entered(p, r) => Entered(p, q)
           /\ Entry(q).is # "end" => Entered(Entry(q).at, q)
<1>1. r \in Nat /\ q \in Nat /\ r < q /\ q \in Ids /\ q >= 1
  BY Walk DEF Next2, Ids
<1>2. \A i \in 1..q : ~Skipped(i) => i \in 1..r \/ i = q
  BY <1>1 DEF Next2
<1>3. \A i \in 1..r : i \in 1..q
  BY <1>1
<1>4. \A i : IsFile(i) => ~Skipped(i)
  BY DEF IsFile, Skipped
<1>5. IsFile(q) <=> Entry(q).is = "file"
  BY <1>1 DEF IsFile, Skipped
<1>6. Came(q) = IF Entry(q).is = "file" THEN Came(r) \cup {q} ELSE Came(r)
  BY <1>1, <1>2, <1>3, <1>4, <1>5 DEF Came
<1> QED BY <1>1, <1>2, <1>3, <1>6 DEF Came, Entered

LEMMA EndedOn ==
    ASSUME Types, NEW r, NEW q, Next2(r, q), ~Skipped(q)
    PROVE  /\ Entry(q).is # "end" => EndedBy(q) = EndedBy(r)
           /\ Entry(q).is = "end" /\ Opened(r) /\ open # <<>> =>
                EndedBy(q) = EndedBy(r) \cup {open[Len(open)].dir}
<1>1. r \in Nat /\ q \in Nat /\ r < q /\ \A j \in DirIds : EndOf[j] \in Nat
  BY CameOn, NestFacts, Walk DEF Ids
<1>2. \A j \in DirIds : EndOf[j] <= q <=> EndOf[j] <= r \/ EndOf[j] = q
  BY <1>1, NoDirBetween
<1>3. Entry(q).is # "end" => \A j \in DirIds : EndOf[j] # q
  BY NoDirBetween
<1>4. ASSUME Entry(q).is = "end", Opened(r), open # <<>>
      PROVE  {Entry(j).at : j \in {i \in DirIds : EndOf[i] = q}} = {open[Len(open)].dir}
  <2>1. Len(open) \in 1..Len(open)
    BY <1>4, Elements DEF Types
  <2>2. PICK j \in DirIds : Entry(j).at = open[Len(open)].dir
    BY <1>4, <2>1 DEF Opened, Begun
  <2>3. EndOf[j] = q
    BY <1>4, <2>2, EndsLast
  <2>4. \A i \in DirIds : EndOf[i] = q => i = j
    BY <2>3, NestFacts
  <2> QED BY <2>2, <2>3, <2>4
<1>5. EndedBy(q) = EndedBy(r) \cup {Entry(j).at : j \in {i \in DirIds : EndOf[i] = q}}
  BY <1>2 DEF EndedBy
<1>6. Entry(q).is # "end" => EndedBy(q) = EndedBy(r)
  BY <1>3, <1>5
<1> QED BY <1>4, <1>5, <1>6

\* A frame notes no more than it is told.
LEMMA SawNoMore ==
    ASSUME Types, NEW names \in SUBSET (Files \cup Dirs), NEW parts \in SUBSET Files, NEW k \in 1..Len(open)
    PROVE  /\ Saw(names, parts)[k].seen \subseteq open[k].seen \cup names
           /\ Saw(names, parts)[k].parts \subseteq open[k].parts \cup parts
<1>1. Len(open) \in Nat /\ DOMAIN open = 1..Len(open) /\ open[k] \in AFrame /\ open # <<>>
  BY Elements DEF Types
<1>2. Len(open) \in 1..Len(open) /\ open[Len(open)] \in AFrame
  BY <1>1, Elements DEF Types
<1>3. k # Len(open) => Saw(names, parts)[k] = open[k]
  BY <1>1 DEF Saw
<1>4. Saw(names, parts)[Len(open)] =
        [dir |-> open[Len(open)].dir, seen |-> open[Len(open)].seen \cup names,
         parts |-> open[Len(open)].parts \cup parts]
  <2>1. Saw(names, parts)[Len(open)] =
            [[open[Len(open)] EXCEPT !.seen = @ \cup names] EXCEPT !.parts = @ \cup parts]
    BY <1>1, <1>2 DEF Saw
  <2> QED BY <1>2, <2>1, FrameGrows
<1> QED BY <1>3, <1>4

LEMMA LandedKept ==
    ASSUME NEW r, Landed(r), UnderWay' = UnderWay,
           UNCHANGED <<copy, open, closing, closed, counted, dirs, file, part>>
    PROVE  Landed(r)'
<1>1. /\ DirIds' = DirIds /\ Came(r)' = Came(r) /\ EndedBy(r)' = EndedBy(r)
      /\ \A p : Entered(p, r)' = Entered(p, r)
      /\ \A i : Entry(i)' = Entry(i) /\ Skipped(i)' = Skipped(i)
      /\ \A f : Brought(f)' = Brought(f)
  BY SameWalk, SameLanding, SameBrought
<1>2. \A d : Under(d)' = Under(d)
  BY <1>1 DEF Under
<1>3. Counts(r)'
  BY <1>1 DEF Landed, Counts
<1>4. Placed(r)'
  BY <1>1 DEF Landed, Placed
<1>5. Closes(r)'
  BY <1>1, <1>2 DEF Landed, Closes
<1>6. Cleared(r)'
  BY <1>1 DEF Landed, Cleared, Deletes
<1>7. Frames(r)'
  BY <1>1 DEF Landed, Frames
<1> QED BY <1>3, <1>4, <1>5, <1>6, <1>7 DEF Landed

\* What was compared stays what it was.
OldChecks(id) ==
    \A k \in 1..Len(replies') : replies'[k].is = "check" /\ replies'[k].id = id =>
        \E l \in 1..Len(replies) : replies[l] = replies'[k]
OldSame(id) ==
    \A k \in 1..Len(Ahead') : Ahead'[k].is = "same" /\ Ahead'[k].id = id =>
        \/ \E l \in 1..Len(Ahead) : Ahead[l] = Ahead'[k]
        \/ \E l \in 1..Len(replies) : /\ replies[l].is = "check" /\ replies[l].id = id
                                      /\ replies[l].have = Entry(id).whole

LEMMA SameKept ==
    ASSUME NEW id, NEW r, NEW q, SameAt(Ahead, id, r), UNCHANGED copy, OldChecks(id), OldSame(id),
           file'[Entry(id).at] = file[Entry(id).at],
           Compared(Ahead, id) /\ ~copy.dry /\ Unkept(Entry(id).at, r) => Unkept(Entry(id).at, q)'
    PROVE  SameAt(Ahead, id, q)'
<1>1. Entry(id)' = Entry(id)
  BY SameWalk
<1>2. ASSUME NEW k \in 1..Len(replies'), replies'[k].is = "check", replies'[k].id = id
      PROVE  Compared(Ahead, id) /\ replies'[k].have = file[Entry(id).at]
  <2>1. PICK l \in 1..Len(replies) : replies[l] = replies'[k]
    BY <1>2 DEF OldChecks
  <2> QED BY <1>2, <2>1 DEF SameAt, Compared
<1>3. ASSUME NEW k \in 1..Len(Ahead'), Ahead'[k].is = "same", Ahead'[k].id = id
      PROVE  Compared(Ahead, id) /\ file[Entry(id).at] = Entry(id).whole
  <2>1. CASE \E l \in 1..Len(Ahead) : Ahead[l] = Ahead'[k]
    BY <1>3, <2>1 DEF SameAt, Compared
  <2>2. CASE \E l \in 1..Len(replies) : /\ replies[l].is = "check" /\ replies[l].id = id
                                        /\ replies[l].have = Entry(id).whole
    BY <2>2 DEF SameAt, Compared
  <2> QED BY <1>3, <2>1, <2>2 DEF OldSame
<1>4. Compared(Ahead, id)' => Compared(Ahead, id)
  BY <1>2, <1>3 DEF Compared
<1>5. ASSUME Compared(Ahead, id)', ~copy'.dry PROVE (Unkept(Entry(id).at, q))'
  <2>1. Unkept(Entry(id).at, r)
    BY <1>4, <1>5 DEF SameAt
  <2> QED BY <1>1, <1>4, <1>5, <2>1 DEF Unkept
<1> QED BY <1>1, <1>2, <1>3, <1>5 DEF SameAt

\* No part is kept of a file of which none was, as long as no frame spares it and its part stays.
LEMMA UnkeptKept ==
    ASSUME NEW f, NEW r, NEW q, UNCHANGED copy, Unkept(f, r), EndedBy(q) = EndedBy(r), part'[f] = part[f],
           \A k \in 1..Len(open') : f \in open'[k].parts => \E l \in 1..Len(open) : f \in open[l].parts
    PROVE  Unkept(f, q)'
BY SameLanding DEF Unkept, Deletes

(* Arithmetic of a place in a list that lost its first items. *)
LEMMA Shift ==
    ASSUME NEW a \in Nat, NEW n \in Nat, NEW m \in Nat, NEW x \in Nat, x + a = n, m = n - a
    PROVE  x = m
OBVIOUS

\* The receiver takes items from the front: the sender's last word stays its last.
LEMMA FinishedTaken ==
    ASSUME Types, NEW r \in Nat, NEW q \in Nat, r <= q, Finished(Ahead, r), UNCHANGED <<copy, walked, sender, gaveUp>>,
           Len(Ahead') \in Nat, NEW d \in Nat, Len(Ahead') = Len(Ahead) - d,
           \A k \in 1..Len(Ahead') : Ahead'[k] = Ahead[k + d] \/ (Ahead'[k].is # "done"),
           \A i \in q + 1..walked : Holds(Ahead, i) => Holds(Ahead, i)'
    PROVE  Finished(Ahead, q)'
<1>1. Len(Ahead) \in Nat /\ walked \in Nat
  BY AheadIs, Elements, Walk DEF Types
<1>2. ASSUME NEW k \in 1..Len(Ahead'), Ahead'[k].is = "done"
      PROVE  /\ k = Len(Ahead') /\ sender \in {"flushing", "ending", "over"} /\ walked = Len(copy.walk)
             /\ \A i \in q + 1..walked : Skipped(i) \/ Holds(Ahead, i)'
  <2>1. Ahead[k + d].is = "done" /\ k + d \in 1..Len(Ahead)
    BY <1>1, <1>2
  <2>2. /\ k + d = Len(Ahead) /\ sender \in {"flushing", "ending", "over"} /\ walked = Len(copy.walk)
        /\ \A i \in r + 1..walked : Skipped(i) \/ Holds(Ahead, i)
    BY <2>1 DEF Finished
  <2>3. \A i \in q + 1..walked : i \in r + 1..walked
    BY <1>1
  <2>4. \A i \in q + 1..walked : Skipped(i) \/ Holds(Ahead, i)'
    BY <2>2, <2>3, Zenon
  <2>5. k \in Nat
    BY ONLY k \in 1..Len(Ahead'), Len(Ahead') \in Nat
  <2>6. k + d = Len(Ahead)
    BY <2>2, Zenon
  <2>7. k = Len(Ahead')
    BY ONLY <1>1, <2>5, <2>6, Len(Ahead') = Len(Ahead) - d, d \in Nat, Len(Ahead') \in Nat, Shift
  <2> QED BY <2>2, <2>4, <2>7
<1>3. \A i : Skipped(i)' = Skipped(i)
  BY SameWalk
<1> QED BY <1>2, <1>3 DEF Finished

LEMMA CountOne ==
    ASSUME Types, NEW r \in Nat, Counts(r), UNCHANGED copy, NEW i \in UnderWay, i \in Came(r),
           UnderWay' = UnderWay \ {i}, counted' = counted + 1
    PROVE  Counts(r)'
<1>1. IsFiniteSet(Came(r) \ UnderWay) /\ Came(r)' = Came(r)
  BY CameIs, SameLanding
<1>2. Came(r) \ UnderWay' = (Came(r) \ UnderWay) \cup {i} /\ i \notin Came(r) \ UnderWay
  OBVIOUS
<1>3. Cardinality(Came(r) \ UnderWay') = Cardinality(Came(r) \ UnderWay) + 1
  BY <1>1, <1>2, FS_AddElement
<1> QED BY <1>1, <1>3 DEF Counts

\* The directories ended of which no file is under way are closed, those of which one is are not.
LEMMA ClosesOn ==
    ASSUME NEW r, NEW q, UNCHANGED copy, Closes(r), UnderWay' = awaited', awaited' \subseteq UnderWay,
           NEW ended, CloseReady(ended, awaited'),
           closed \cup ended = IF copy.dry THEN {} ELSE EndedBy(q)
    PROVE  Closes(q)'
<1>1. \A i : Entry(i)' = Entry(i)
  BY SameWalk
<1>2. \A d : Under(d)' <=> \E id \in awaited' : d \in Above[Entry(id).at]
  BY <1>1 DEF Under
<1>3. \A d : Under(d)' => Under(d)
  BY <1>2 DEF Under
<1>4. /\ closed' = closed \cup Ready(ended, awaited') /\ closing' = ended \ Ready(ended, awaited')
      /\ Ready(ended, awaited') = {d \in ended : ~Under(d)'}
  <2>1. Ready(ended, awaited') = {d \in ended : ~Under(d)'}
    BY <1>2 DEF Ready
  <2> QED BY <2>1 DEF CloseReady
<1>5. closing' \cup closed' = closed \cup ended
  BY <1>4
<1>6. (\A d \in closing' : Under(d)') /\ \A d \in closed' : ~Under(d)'
  BY <1>3, <1>4 DEF Closes
<1> QED BY <1>5, <1>6, SameLanding DEF Closes

\* An item read, and not of a file that lands.
LEMMA ItemAgrees ==
    ASSUME Types, NEW r \in 0..walked, LiveAt(Ahead, r), Finished(Ahead, r), receiver = "reading",
           receiver' = "reading", pipe # <<>>, pipe' = Tail(pipe), sentUnchanged,
           NEW q, q = IF Head(pipe).is = "entry" THEN Head(pipe).id ELSE r
    PROVE  Finished(Ahead, q)' /\ \A id : OldSame(id)
<1>1. UNCHANGED <<copy, link, walked, buf, sender, gaveUp>>
  BY DEF sentUnchanged, sendVars
<1>2. /\ Ahead[1] = Head(pipe) /\ Len(Ahead) >= 1 /\ Len(Ahead') = Len(Ahead) - 1
      /\ \A k \in 1..Len(Ahead) - 1 : Ahead'[k] = Ahead[k + 1]
  BY <1>1, AheadTaken
<1>3. /\ q \in 0..walked /\ \A k \in 1..Len(Ahead') : \E l \in 1..Len(Ahead) : Ahead'[k] = Ahead[l]
      /\ Head(pipe).is = "entry" => q > r
  BY ItemTaken
<1>4. Len(Ahead) \in Nat /\ walked \in Nat /\ r \in Nat /\ q \in Nat /\ r <= q
  BY <1>3, AheadIs, Elements, Walk DEF Types
<1>5. \A k \in 1..Len(Ahead') : Ahead'[k] = Ahead[k + 1]
  BY <1>2, <1>4
<1>6. ASSUME NEW i \in q + 1..walked, Holds(Ahead, i) PROVE Holds(Ahead, i)'
  <2>1. PICK k \in 1..Len(Ahead) : Ahead[k].is = "entry" /\ Ahead[k].id = i
    BY <1>6 DEF Holds
  <2>2. k # 1
    BY <1>2, <1>4, <2>1
  <2>3. k - 1 \in 1..Len(Ahead') /\ (k - 1) + 1 = k
    BY <1>2, <1>4, <2>2
  <2>4. Ahead'[k - 1] = Ahead[k]
    BY <1>5, <2>3
  <2> QED BY <2>1, <2>3, <2>4 DEF Holds
<1>7. Finished(Ahead, q)'
  <2>1. Len(Ahead') \in Nat /\ 1 \in Nat
    BY <1>2, <1>4
  <2> QED BY <1>1, <1>2, <1>4, <1>5, <1>6, <2>1, FinishedTaken
<1> QED BY <1>3, <1>7 DEF OldSame

LEMMA FramesOn ==
    ASSUME Types, NEW r, NEW q, Next2(r, q), ~Skipped(q), Frames(r), UNCHANGED copy, Entry(q).is # "end",
           NEW parts,
           \A k \in 1..Len(open') :
                \/ /\ k \in 1..Len(open) /\ open'[k].seen \subseteq open[k].seen \cup {Entry(q).at}
                   /\ open'[k].parts \subseteq open[k].parts \cup parts
                \/ open'[k].seen = {} /\ open'[k].parts = {},
           \A f \in parts : f = Entry(q).at /\ q \in Came(q) /\ q \in UnderWay',
           UnderWay \subseteq UnderWay',
           ~copy.dry => \A i \in Came(r) : part[Entry(i).at] = None => part'[Entry(i).at] = None
    PROVE  Frames(q)'
<1>1. /\ \A i : Entry(i)' = Entry(i)
      /\ \A p : (Entered(p, r) => Entered(p, q)') /\ Entered(Entry(q).at, q)'
      /\ Came(r) \subseteq Came(q)' /\ Came(q)' = Came(q)
  BY CameOn, SameWalk, SameLanding
<1> SUFFICES ASSUME NEW k \in 1..Len(open')
             PROVE  /\ \A p \in open'[k].seen : Entered(p, q)'
                    /\ ~copy.dry => \A f \in open'[k].parts :
                          \E i \in Came(q) : Entry(i).at = f /\ (i \in UnderWay' \/ part'[f] = None)
  BY <1>1 DEF Frames
<1>2. CASE open'[k].seen = {} /\ open'[k].parts = {}
  BY <1>2
<1>3. CASE /\ k \in 1..Len(open) /\ open'[k].seen \subseteq open[k].seen \cup {Entry(q).at}
           /\ open'[k].parts \subseteq open[k].parts \cup parts
  <2>1. \A p \in open'[k].seen : Entered(p, q)'
    BY <1>1, <1>3 DEF Frames
  <2>2. ASSUME ~copy.dry, NEW f \in open'[k].parts
        PROVE  \E i \in Came(q) : Entry(i).at = f /\ (i \in UnderWay' \/ part'[f] = None)
    <3>1. CASE f \in parts
      BY <3>1
    <3>2. CASE f \in open[k].parts
      <4>1. PICK i \in Came(r) : Entry(i).at = f /\ (i \in UnderWay \/ part[f] = None)
        BY <1>3, <2>2, <3>2 DEF Frames
      <4>2. i \in Came(q) /\ (i \in UnderWay' \/ part'[f] = None)
        BY <1>1, <2>2, <4>1
      <4> QED BY <4>1, <4>2
    <3> QED BY <1>3, <2>2, <3>1, <3>2
  <2> QED BY <2>1, <2>2
<1> QED BY <1>2, <1>3

LEMMA ClosesStill ==
    ASSUME NEW r, NEW q, Closes(r), UNCHANGED <<copy, closing, closed>>, UnderWay \subseteq UnderWay',
           EndedBy(q) = EndedBy(r),
           \A id \in UnderWay' : id \notin UnderWay => \A d \in closed : d \notin Above[Entry(id).at]
    PROVE  Closes(q)'
<1>1. (\A i : Entry(i)' = Entry(i)) /\ EndedBy(q)' = EndedBy(r)
  BY SameWalk, SameLanding
<1>2. \A d : Under(d) => Under(d)'
  BY <1>1 DEF Under
<1>3. \A d \in closed : ~Under(d)'
  BY <1>1 DEF Closes, Under
<1> QED BY <1>1, <1>2, <1>3 DEF Closes

LEMMA ClearedStill ==
    ASSUME NEW r, NEW q, Cleared(r), UNCHANGED copy, UnderWay \subseteq UnderWay', EndedBy(q) = EndedBy(r),
           Deletes => \A f \in Files :
                /\ part[f] = None => part'[f] = None \/ \E id \in UnderWay' : Entry(id).at = f
                /\ Brought(f) = {} => file'[f] = file[f]
    PROVE  Cleared(q)'
<1>1. (\A i : Entry(i)' = Entry(i)) /\ EndedBy(q)' = EndedBy(r) /\ \A f : Brought(f)' = Brought(f)
  BY SameWalk, SameLanding, SameBrought
<1> SUFFICES ASSUME Deletes, NEW f \in Files, In[f] \in EndedBy(r)
             PROVE  /\ part'[f] = None \/ \E id \in UnderWay' : Entry(id).at = f
                    /\ Brought(f) = {} /\ f \notin copy.excluded => file'[f] = None
  BY <1>1 DEF Cleared, Deletes
<1>2. /\ part[f] = None \/ \E id \in UnderWay : Entry(id).at = f
      /\ Brought(f) = {} /\ f \notin copy.excluded => file[f] = None
  BY DEF Cleared
<1> QED BY <1>2

LEMMA SameAtStill ==
    ASSUME NEW r, NEW q, NEW id \in awaited, Same(Ahead, r), UNCHANGED copy, EndedBy(q) = EndedBy(r),
           OldChecks(id), OldSame(id),
           file'[Entry(id).at] = file[Entry(id).at], part'[Entry(id).at] = part[Entry(id).at],
           \A k \in 1..Len(open') :
                Entry(id).at \in open'[k].parts => \E l \in 1..Len(open) : Entry(id).at \in open[l].parts
    PROVE  SameAt(Ahead, id, q)'
<1>1. SameAt(Ahead, id, r)
  BY DEF Same
<1>2. ASSUME Unkept(Entry(id).at, r) PROVE Unkept(Entry(id).at, q)'
  <2>0. PICK f : f = Entry(id).at
    OBVIOUS
  <2>1. part'[f] = part[f]
        /\ \A k \in 1..Len(open') : f \in open'[k].parts => \E l \in 1..Len(open) : f \in open[l].parts
    BY <2>0
  <2>2. Unkept(f, q)'
    BY <1>2, <2>0, <2>1, UnkeptKept
  <2>3. Entry(id)' = Entry(id)
    BY SameWalk
  <2> QED BY <2>0, <2>2, <2>3
<1> QED BY <1>1, <1>2, SameKept

\* What is said to be the same came.
LEMMA SameCame ==
    ASSUME Types, NEW r \in Nat, NEW q \in Nat, r <= q, Same(Ahead, r), Awaiting(r), \A id : OldSame(id)
    PROVE  \A k \in 1..Len(Ahead') : Ahead'[k].is = "same" => Ahead'[k].id <= q
<1> SUFFICES ASSUME NEW k \in 1..Len(Ahead'), Ahead'[k].is = "same" PROVE Ahead'[k].id <= q
  OBVIOUS
<1>1. PICK id : id = Ahead'[k].id
  OBVIOUS
<1>2. CASE \E l \in 1..Len(Ahead) : Ahead[l] = Ahead'[k]
  <2>1. PICK l \in 1..Len(Ahead) : Ahead[l] = Ahead'[k]
    BY <1>2
  <2>2. Ahead[l] \in AnItem
    BY AheadIs, Elements DEF Types
  <2>3. Ahead[l].id <= r /\ Ahead[l].id \in Nat
    BY <2>1, <2>2 DEF Same, AnItem
  <2> QED BY <2>1, <2>3
<1>3. CASE \E l \in 1..Len(replies) : replies[l].is = "check" /\ replies[l].id = id
  <2>1. PICK l \in 1..Len(replies) : replies[l].is = "check" /\ replies[l].id = id
    BY <1>3
  <2>2. replies[l] \in AnAnswer
    BY Elements DEF Types
  <2>3. replies[l].id <= r /\ replies[l].id \in Nat
    BY <2>1, <2>2 DEF Awaiting, AnAnswer
  <2> QED BY <1>1, <2>1, <2>3
<1> QED BY <1>1, <1>2, <1>3 DEF OldSame

LEMMA SameStill ==
    ASSUME Types, NEW r \in Nat, NEW q \in Nat, r <= q, Same(Ahead, r), Awaiting(r), UNCHANGED copy,
           EndedBy(q) = EndedBy(r), \A id : OldSame(id),
           \A id \in awaited' : /\ id \in awaited /\ OldChecks(id)
                                /\ file'[Entry(id).at] = file[Entry(id).at]
                                /\ part'[Entry(id).at] = part[Entry(id).at],
           \A id \in awaited' : \A k \in 1..Len(open') :
                Entry(id).at \in open'[k].parts => \E l \in 1..Len(open) : Entry(id).at \in open[l].parts
    PROVE  Same(Ahead, q)'
<1>1. \A id \in awaited' : SameAt(Ahead, id, q)'
  BY SameAtStill
<1> QED BY <1>1, SameCame DEF Same

\* Nothing the header q brings came before, nor is in a directory that ended.
LEMMA InAbove ==
    ASSUME NEW p \in Files \cup Dirs
    PROVE  In[p] \in Above[p]
BY SyncAssumption DEF Above

LEMMA FreshFile ==
    ASSUME Types, NEW r, NEW q, Next2(r, q), Frames(r), Entry(q).is # "end"
    PROVE  /\ In[Entry(q).at] \notin EndedBy(r) /\ \A d \in Above[Entry(q).at] : d \notin EndedBy(r)
           /\ ~copy.dry => \A k \in 1..Len(open) : Entry(q).at \notin open[k].parts
           /\ \A i \in 1..r : Entry(i).is # "end" => Entry(i).at # Entry(q).at
<1>1. q \in Ids /\ r \in Nat /\ q \in Nat /\ r < q /\ Entry(q).at \in Files \cup Dirs /\ 1..r \subseteq Ids
  BY Walk DEF Next2, Ids
<1>2. \A i \in 1..r : Entry(i).is # "end" => Entry(i).at # Entry(q).at
  <2> SUFFICES ASSUME NEW i \in 1..r, Entry(i).is # "end", Entry(i).at = Entry(q).at PROVE FALSE
    OBVIOUS
  <2>1. i = q
    BY <1>1, OneFile
  <2> QED BY <1>1, <2>1
<1>3. ASSUME NEW d \in Above[Entry(q).at], d \in EndedBy(r) PROVE FALSE
  <2>1. PICK j \in DirIds : EndOf[j] <= r /\ Entry(j).at = d
    BY <1>3 DEF EndedBy
  <2>2. d # Top
    BY <2>1, NestFacts, SyncAssumption
  <2>3. PICK k \in DirIds : Entry(k).at = d /\ q < EndOf[k]
    BY <1>1, <2>2, AboveNested
  <2>4. k = j
    BY <2>1, <2>3, NestFacts
  <2> QED BY <1>1, <2>1, <2>3, <2>4, NoDirBetween
<1>4. In[Entry(q).at] \notin EndedBy(r)
  BY <1>1, <1>3, InAbove
<1>5. ASSUME ~copy.dry, NEW k \in 1..Len(open), Entry(q).at \in open[k].parts PROVE FALSE
  <2>1. PICK i \in Came(r) : Entry(i).at = Entry(q).at
    BY <1>5 DEF Frames
  <2>2. i \in 1..r /\ Entry(i).is # "end"
    BY <2>1 DEF Came, IsFile
  <2> QED BY <1>2, <2>1, <2>2
<1> QED BY <1>2, <1>3, <1>4, <1>5

(***************************************************************************)
(* The receiver's steps.                                                   *)
(***************************************************************************)

\* A file's bytes go to its part, and nothing else moves.
LEMMA PartGrows ==
    ASSUME Types, NEW r \in 0..walked, LiveAt(Ahead, r), Agreed(Ahead, r),
           UNCHANGED <<copy, open, closing, closed, counted, file, dirs, replies>>,
           UnderWay' = UnderWay, awaited' \subseteq awaited, NEW i \in UnderWay, i \in Came(r), i \notin awaited',
           \A f \in Files : f # Entry(i).at => part'[f] = part[f],
           \A id : OldSame(id), Finished(Ahead, r)'
    PROVE  Agreed(Ahead, r)'
<1>1. Landed(r) /\ Same(Ahead, r) /\ Awaiting(r)
  BY DEF Agreed, LiveAt
<1>2. r \in Nat /\ r <= r /\ i \in Ids /\ IsFile(i) /\ 1..r \subseteq Ids
  <2>1. walked \in Nat /\ r \in Nat /\ r <= walked /\ walked <= Len(copy.walk) /\ Len(copy.walk) \in Nat
    BY Walk DEF Types
  <2> QED BY <2>1 DEF Came, IsFile, Ids
<1>3. /\ DirIds' = DirIds /\ Came(r)' = Came(r) /\ EndedBy(r)' = EndedBy(r)
      /\ \A p : Entered(p, r)' = Entered(p, r)
      /\ \A j : Entry(j)' = Entry(j) /\ Skipped(j)' = Skipped(j)
  BY SameWalk, SameLanding
<1>4. Counts(r)'
  BY <1>1, <1>3 DEF Landed, Counts
<1>5. Placed(r)'
  BY <1>1, <1>3 DEF Landed, Placed
<1>6. Closes(r)'
  BY <1>1, ClosesStill DEF Landed
<1>7. Cleared(r)'
  BY <1>1, ClearedStill DEF Landed
<1>8. Frames(r)'
  <2> SUFFICES ASSUME NEW k \in 1..Len(open), ~copy.dry, NEW f \in open[k].parts
               PROVE  \E j \in Came(r) : Entry(j).at = f /\ (j \in UnderWay \/ part'[f] = None)
    BY <1>1, <1>3 DEF Landed, Frames
  <2>1. PICK j \in Came(r) : Entry(j).at = f /\ (j \in UnderWay \/ part[f] = None)
    BY <1>1 DEF Landed, Frames
  <2>2. f \in Files
    BY <2>1, Walk DEF Came, IsFile
  <2>3. CASE f = Entry(i).at
    BY <2>3
  <2>4. CASE f # Entry(i).at
    BY <2>1, <2>2, <2>4
  <2> QED BY <2>3, <2>4
<1>9. Same(Ahead, r)'
  <2>1. ASSUME NEW id \in awaited' PROVE id \in awaited /\ OldChecks(id) /\ part'[Entry(id).at] = part[Entry(id).at]
    <3>1. id \in awaited /\ IsFile(id) /\ id # i
      BY <1>1, <2>1 DEF Awaiting
    <3>2. Entry(id).at \in Files /\ Entry(id).at # Entry(i).at
      BY <1>2, <3>1, OneFile, Walk DEF IsFile
    <3> QED BY <3>1, <3>2 DEF OldChecks
  <2> QED BY <1>1, <1>2, <2>1, SameStill
<1> QED BY <1>4, <1>5, <1>6, <1>7, <1>8, <1>9 DEF Agreed, Landed

\* A file under way is no longer: what it brings is there, and no part of it is kept.
LEMMA FileLands ==
    ASSUME Types, NEW r \in 0..walked, LiveAt(Ahead, r), Agreed(Ahead, r), UNCHANGED <<copy, open, dirs, replies>>,
           NEW i \in UnderWay, i \in Came(r), UnderWay' = awaited', awaited' = UnderWay \ {i},
           awaited' \subseteq awaited,
           counted' = counted + 1, CloseReady(closing, awaited'),
           \A f \in Files : f # Entry(i).at => file'[f] = file[f] /\ part'[f] = part[f],
           ~copy.dry => /\ file'[Entry(i).at] = Entry(i).whole
                        /\ \/ part'[Entry(i).at] = None
                           \/ Unkept(Entry(i).at, r) /\ part'[Entry(i).at] = part[Entry(i).at],
           \A id : OldSame(id), Finished(Ahead, r)'
    PROVE  Agreed(Ahead, r)'
<1>1. Landed(r) /\ Same(Ahead, r) /\ Awaiting(r)
  BY DEF Agreed, LiveAt
<1>2. r \in Nat /\ r <= r /\ i \in Ids /\ IsFile(i) /\ 1..r \subseteq Ids /\ \A j \in Came(r) : j \in Ids /\ IsFile(j)
  <2>1. walked \in Nat /\ r \in Nat /\ r <= walked /\ walked <= Len(copy.walk) /\ Len(copy.walk) \in Nat
    BY Walk DEF Types
  <2> QED BY <2>1 DEF Came, IsFile, Ids
<1>3. /\ DirIds' = DirIds /\ Came(r)' = Came(r) /\ EndedBy(r)' = EndedBy(r)
      /\ \A p : Entered(p, r)' = Entered(p, r)
      /\ \A j : Entry(j)' = Entry(j) /\ Skipped(j)' = Skipped(j)
      /\ \A f : Brought(f)' = Brought(f)
  BY SameWalk, SameLanding, SameBrought
<1>4. \A j \in Ids : Entry(j).is \in {"file", "link"} /\ j # i =>
          Entry(j).at \in Files /\ Entry(j).at # Entry(i).at
  <2> SUFFICES ASSUME NEW j \in Ids, Entry(j).is \in {"file", "link"}, j # i
               PROVE  Entry(j).at \in Files /\ Entry(j).at # Entry(i).at
    OBVIOUS
  <2>1. Entry(i).is # "end"
    BY <1>2 DEF IsFile
  <2> QED BY <1>2, <2>1, OneFile, Walk
<1>5. Counts(r)'
  BY <1>1, <1>2, CountOne DEF Landed
<1>6. Placed(r)'
  <2> SUFFICES ASSUME ~copy.dry
               PROVE  \A j \in 1..r : Entry(j).is \in {"file", "link"} /\ ~Skipped(j) /\ j \notin UnderWay' =>
                          file'[Entry(j).at] = Entry(j).whole
    BY <1>1, <1>3 DEF Landed, Placed
  <2>1. ASSUME NEW j \in 1..r, Entry(j).is \in {"file", "link"}, ~Skipped(j), j \notin UnderWay', j # i
        PROVE  file'[Entry(j).at] = Entry(j).whole
    <3>1. file[Entry(j).at] = Entry(j).whole
      BY <1>1, <2>1 DEF Landed, Placed
    <3> QED BY <1>2, <1>4, <2>1, <3>1
  <2> QED BY <2>1
<1>7. Closes(r)'
  <2>1. closed \cup closing = IF copy.dry THEN {} ELSE EndedBy(r)
    BY <1>1 DEF Landed, Closes
  <2>2. Closes(r) /\ awaited' \subseteq UnderWay
    BY <1>1 DEF Landed
  <2> QED BY <2>1, <2>2, ClosesOn
<1>8. Cleared(r)'
  <2> SUFFICES ASSUME Deletes, NEW f \in Files, In[f] \in EndedBy(r)
               PROVE  /\ part'[f] = None \/ \E id \in UnderWay' : Entry(id).at = f
                      /\ Brought(f) = {} /\ f \notin copy.excluded => file'[f] = None
    BY <1>3 DEF Cleared, Deletes
  <2>1. /\ part[f] = None \/ \E id \in UnderWay : Entry(id).at = f
        /\ Brought(f) = {} /\ f \notin copy.excluded => file[f] = None
    BY <1>1 DEF Landed, Cleared
  <2>2. CASE f = Entry(i).at
    <3>1. Brought(f) # {}
      BY <1>2, <2>2, Brings DEF IsFile, Skipped
    <3>2. part'[f] = None
      BY <2>2 DEF Unkept, Deletes
    <3> QED BY <3>1, <3>2
  <2>3. CASE f # Entry(i).at
    BY <2>1, <2>3
  <2> QED BY <2>2, <2>3
<1>9. Frames(r)'
  <2> SUFFICES ASSUME NEW k \in 1..Len(open), ~copy.dry, NEW f \in open[k].parts
               PROVE  \E j \in Came(r) : Entry(j).at = f /\ (j \in UnderWay' \/ part'[f] = None)
    BY <1>1, <1>3 DEF Landed, Frames
  <2>1. PICK j \in Came(r) : Entry(j).at = f /\ (j \in UnderWay \/ part[f] = None)
    BY <1>1 DEF Landed, Frames
  <2>2. CASE f = Entry(i).at
    BY <2>2 DEF Unkept
  <2>3. CASE f # Entry(i).at
    <3>1. f \in Files
      BY <1>2, <2>1, Walk DEF IsFile
    <3> QED BY <2>1, <2>3, <3>1
  <2> QED BY <2>2, <2>3
<1>10. Same(Ahead, r)'
  <2>1. ASSUME NEW id \in awaited'
        PROVE  /\ id \in awaited /\ OldChecks(id)
               /\ file'[Entry(id).at] = file[Entry(id).at] /\ part'[Entry(id).at] = part[Entry(id).at]
    <3>1. id \in awaited /\ IsFile(id) /\ id # i
      BY <1>1, <2>1 DEF Awaiting
    <3>2. Entry(id).at \in Files /\ Entry(id).at # Entry(i).at
      BY <1>4, <3>1 DEF IsFile
    <3> QED BY <3>1, <3>2 DEF OldChecks
  <2> QED BY <1>1, <1>2, <2>1, SameStill
<1> QED BY <1>5, <1>6, <1>7, <1>8, <1>9, <1>10 DEF Agreed, Landed

(***************************************************************************)
(* The sender's steps, once more.                                          *)
(***************************************************************************)
\* Before its last item the sender has said nothing of being done.
LEMMA NoneDone ==
    ASSUME NEW r, Finished(Ahead, r), sender \notin {"flushing", "ending", "over"}
    PROVE  \A k \in 1..Len(Ahead) : Ahead[k].is # "done"
BY DEF Finished

LEMMA FinishedQuiet ==
    ASSUME Types, NEW r, Finished(Ahead, r), UNCHANGED copy, Ahead' = Ahead,
           \/ sender \notin {"flushing", "ending", "over"}
           \/ walked' = walked /\ sender' \in {"flushing", "ending", "over"},
           sender' = "closing" /\ ~gaveUp' => walked' = Len(copy.walk)
    PROVE  Finished(Ahead, r)'
<1>1. \A i : Skipped(i)' = Skipped(i) /\ Holds(Ahead, i)' = Holds(Ahead, i)
  BY SameWalk DEF Holds
<1>2. CASE sender \notin {"flushing", "ending", "over"}
  BY <1>2, NoneDone DEF Finished
<1>3. CASE walked' = walked /\ sender' \in {"flushing", "ending", "over"}
  BY <1>1, <1>3 DEF Finished
<1> QED BY <1>2, <1>3

\* An item put in the stream: done is said by one that sent everything.
LEMMA FinishedPut ==
    ASSUME Types, NEW r \in 0..walked, LiveAt(Ahead, r), Finished(Ahead, r), NEW x \in AnItem, Put(x),
           UNCHANGED <<copy, link, receiver, landing>>, sender \notin {"flushing", "ending", "over"},
           sender' # "closing",
           x.is = "done" => /\ sender = "closing" /\ sender' = "flushing" /\ ~gaveUp /\ walked' = walked
    PROVE  Finished(Ahead, r)'
<1>1. /\ link = "up" =>
                /\ Len(Ahead') = Len(Ahead) + 1 /\ Ahead'[Len(Ahead) + 1] = x
                /\ \A k \in 1..Len(Ahead) : Ahead'[k] = Ahead[k]
      /\ link # "up" => Ahead' = Ahead
  BY AheadPut
<1>2. Len(Ahead) \in Nat
  BY AheadIs, Elements DEF Types
<1>3. \A k \in 1..Len(Ahead) : Ahead[k].is # "done"
  BY NoneDone
<1>4. CASE link # "up"
  BY <1>1, <1>4, FinishedQuiet
<1>5. CASE link = "up"
  <2>1. ASSUME NEW k \in 1..Len(Ahead'), Ahead'[k].is = "done"
        PROVE  /\ k = Len(Ahead') /\ sender' = "flushing" /\ walked' = Len(copy'.walk)
               /\ \A i \in r + 1..walked' : Skipped(i)' \/ Holds(Ahead, i)'
    <3>1. k = Len(Ahead) + 1 /\ x.is = "done"
      BY <1>1, <1>2, <1>3, <1>5, <2>1
    <3>2. sender' = "flushing" /\ walked' = walked /\ walked = Len(copy.walk)
      BY <3>1 DEF Finished
    <3>3. \A i : Skipped(i)' = Skipped(i) /\ (Holds(Ahead, i) => Holds(Ahead, i)')
      <4>1. \A l \in 1..Len(Ahead) : l \in 1..Len(Ahead') /\ Ahead'[l] = Ahead[l]
        BY <1>1, <1>2, <1>5
      <4> QED BY <4>1, SameWalk DEF Holds
    <3>4. AllAhead(Ahead, r)
      BY <1>5 DEF LiveAt
    <3> QED BY <1>1, <1>5, <3>1, <3>2, <3>3, <3>4 DEF AllAhead
  <2> QED BY <2>1 DEF Finished
<1> QED BY <1>4, <1>5

LEMMA SenderAgrees ==
    ASSUME Types, SenderKeeps, NEW r \in 0..walked, LiveAt(Ahead, r), Agreed(Ahead, r),
           UNCHANGED <<closing, closed, counted, dirs>>, \A id : OldSame(id), Finished(Ahead, r)'
    PROVE  Agreed(Ahead, r)'
<1>1. Landed(r) /\ Same(Ahead, r) /\ Awaiting(r) /\ r \in Nat /\ r <= r
  BY DEF Agreed, LiveAt
<1>2. UNCHANGED <<copy, receiver, landing, open, awaited, file, part>> /\ UnderWay' = UnderWay
  BY DEF SenderKeeps, UnderWay
<1>3. Landed(r)'
  BY <1>1, <1>2, LandedKept
<1>4. EndedBy(r) = EndedBy(r)
  OBVIOUS
<1>5. \A id : OldChecks(id)
  BY RepliesTaken DEF OldChecks
<1>6. Same(Ahead, r)'
  BY <1>1, <1>2, <1>4, <1>5, SameStill
<1> QED BY <1>3, <1>6 DEF Agreed

\* The steps of the sender that put nothing in the stream, or an item but one that says the same.
LEMMA QuietAgrees ==
    ASSUME Types, SenderKeeps, NEW r \in 0..walked, LiveAt(Ahead, r), Agreed(Ahead, r),
           UNCHANGED <<closing, closed, counted, dirs>>, Ahead' = Ahead,
           \/ sender \notin {"flushing", "ending", "over"}
           \/ walked' = walked /\ sender' \in {"flushing", "ending", "over"},
           sender' = "closing" /\ ~gaveUp' => walked' = Len(copy.walk)
    PROVE  Agreed(Ahead, r)'
<1>1. UNCHANGED copy
  BY DEF SenderKeeps
<1>2. Finished(Ahead, r)'
  BY <1>1, FinishedQuiet DEF Agreed
<1>3. \A id : OldSame(id)
  BY DEF OldSame
<1> QED BY <1>2, <1>3, SenderAgrees

LEMMA PutAgrees ==
    ASSUME Types, SenderKeeps, NEW r \in 0..walked, LiveAt(Ahead, r), Agreed(Ahead, r),
           UNCHANGED <<closing, closed, counted, dirs>>, NEW x \in AnItem, Put(x),
           sender \notin {"flushing", "ending", "over"}, sender' # "closing",
           x.is = "done" => /\ sender = "closing" /\ sender' = "flushing" /\ ~gaveUp /\ walked' = walked,
           x.is = "same" => \E l \in 1..Len(replies) : /\ replies[l].is = "check" /\ replies[l].id = x.id
                                                       /\ replies[l].have = Entry(x.id).whole
    PROVE  Agreed(Ahead, r)'
<1>1. UNCHANGED <<copy, link, receiver, landing>>
  BY DEF SenderKeeps
<1>2. Finished(Ahead, r)'
  BY <1>1, FinishedPut DEF Agreed
<1>3. /\ link = "up" =>
                /\ Len(Ahead') = Len(Ahead) + 1 /\ Ahead'[Len(Ahead) + 1] = x
                /\ \A k \in 1..Len(Ahead) : Ahead'[k] = Ahead[k]
      /\ link # "up" => Ahead' = Ahead
  BY <1>1, AheadPut
<1>4. Len(Ahead) \in Nat
  BY AheadIs, Elements DEF Types
<1>5. ASSUME NEW id PROVE OldSame(id)
  <2>1. CASE link # "up"
    BY <1>3, <2>1 DEF OldSame
  <2>2. CASE link = "up"
    <3> SUFFICES ASSUME NEW k \in 1..Len(Ahead'), Ahead'[k].is = "same", Ahead'[k].id = id
                 PROVE  \/ \E l \in 1..Len(Ahead) : Ahead[l] = Ahead'[k]
                        \/ \E l \in 1..Len(replies) : /\ replies[l].is = "check" /\ replies[l].id = id
                                                      /\ replies[l].have = Entry(id).whole
      BY DEF OldSame
    <3>1. k \in 1..Len(Ahead) \/ k = Len(Ahead) + 1
      BY <1>3, <1>4, <2>2
    <3> QED BY <1>3, <2>2, <3>1
  <2> QED BY <2>1, <2>2
<1> QED BY <1>2, <1>5, SenderAgrees

\* The receiver is said to have the same where it was asked of what it has.
LEMMA FromNone ==
    ASSUME NEW a \in AnAnswer, a.is # "end", Sound(a), From(a) = None
    PROVE  a.is = "check" /\ a.have = Entry(a.id).whole
<1>1. a.have \in Seq(Nat) /\ Len(a.have) \in Nat
  BY Elements DEF Sound, Contents
<1> QED BY <1>1, SyncAssumption DEF From, AnAnswer

LEMMA SendEntryKeeps ==
    ASSUME Inv, SendEntry
    PROVE  Inv'
<1>1. Types /\ WholeFiles
  BY DEF Inv
<1>2. SenderKeeps /\ UNCHANGED <<was, file, part, dirs, closing, closed, counted, copy, bytes, gaveUp, link, receiver, landing>>
  BY DEF SendEntry, SenderKeeps, recvVars, landVars
<1>3. /\ walked' = walked + 1 /\ walked \in Nat /\ walked + 1 \in Ids /\ walked' \in 0..Len(copy.walk)
      /\ walked' \in walked..walked + 1
  BY <1>1, Walk DEF SendEntry, Types, Ids
<1>4. sender = "walking" /\ sender' \notin {"bytes", "closing"} /\ ~gaveUp
  BY <1>1 DEF SendEntry, Types
<1> DEFINE x == Item("entry", walked + 1, 0)
<1>5. x \in AnItem /\ x.is = "entry" /\ x.id = walked + 1
  BY <1>3, ItemType
<1>6. CASE Skipped(walked + 1) /\ UNCHANGED <<buf, pipe>>
  <2>1. Types'
    BY <1>1, <1>2, <1>3, <1>4, <1>6, SenderTypes DEF Types
  <2>2. Ahead' = Ahead
    BY <1>2, <1>6 DEF Ahead, Queued
  <2>3. ASSUME NEW r \in 0..walked, LiveAt(Ahead, r) PROVE LiveAt(Ahead, r)' /\ r \in 0..walked'
    BY <1>1, <1>2, <1>3, <1>4, <1>6, <2>2, <2>3, SenderQuiet
  <2>4. ASSUME NEW r \in 0..walked, LiveAt(Ahead, r), Agreed(Ahead, r) PROVE Agreed(Ahead, r)'
    BY <1>1, <1>2, <1>4, <2>2, <2>4, QuietAgrees
  <2> QED BY <1>1, <1>2, <2>1, <2>3, <2>4, WholeKept DEF Inv, Live
<1>7. CASE ~Skipped(walked + 1) /\ Put(x)
  <2>1. Types'
    BY <1>1, <1>2, <1>3, <1>4, <1>5, <1>7, AheadPut, SenderTypes DEF Types
  <2> HIDE DEF x
  <2>2. ASSUME NEW r \in 0..walked, LiveAt(Ahead, r) PROVE LiveAt(Ahead, r)' /\ r \in 0..walked'
    BY <1>1, <1>2, <1>3, <1>4, <1>5, <1>7, <2>2, SenderPuts
  <2>3. ASSUME NEW r \in 0..walked, LiveAt(Ahead, r), Agreed(Ahead, r) PROVE Agreed(Ahead, r)'
    BY <1>1, <1>2, <1>4, <1>5, <1>7, <2>3, PutAgrees
  <2> QED BY <1>1, <1>2, <2>1, <2>2, <2>3, WholeKept DEF Inv, Live
<1> QED BY <1>6, <1>7 DEF SendEntry, Skipped

LEMMA TakeAnswerKeeps ==
    ASSUME Inv, TakeAnswer
    PROVE  Inv'
<1> DEFINE a == Head(replies)
<1>1. Types /\ WholeFiles
  BY DEF Inv
<1>2. /\ SenderKeeps
      /\ UNCHANGED <<was, file, part, dirs, closing, closed, counted, copy, walked, gaveUp, link, receiver, landing>>
  BY DEF TakeAnswer, SenderKeeps, recvVars, landVars
<1>3. sender \in {"answers", "awaiting"} /\ sender # "bytes" /\ ~gaveUp
  BY <1>1 DEF TakeAnswer, MayTake, Types
<1>4. /\ a \in AnAnswer /\ a.is # "end" /\ Sound(a) /\ 1 \in 1..Len(replies) /\ a = replies[1]
  <2>1. a \in AnAnswer /\ a = replies[1] /\ Len(replies) \in Nat /\ Len(replies) >= 1 /\ a.is # "end"
    BY <1>1, Taken DEF TakeAnswer, Types
  <2> QED BY <1>1, <2>1 DEF Types
<1>5. a.id \in Nat /\ IsFile(a.id) /\ walked \in Nat
  BY <1>1, <1>4, Walk DEF Sound, IsFile, Ids, Types
<1>6. \A r \in 0..walked : LiveAt(Ahead, r) => a.id <= r
  BY <1>4 DEF LiveAt, Awaiting
<1> HIDE DEF a
<1>7. ASSUME NEW is \in {"same", "differs"}, NEW n \in Nat, Put(Item(is, a.id, n)),
             sender' = "answers", UNCHANGED bytes, is = "same" => From(a) = None
      PROVE  Inv'
  <2> DEFINE x == Item(is, a.id, n)
  <2>1. x \in AnItem /\ x.is = is /\ x.id = a.id
    BY <1>5, ItemType
  <2> HIDE DEF x
  <2>2. Put(x)
    BY <1>7 DEF x
  <2>3. Types'
    BY <1>1, <1>2, <1>3, <1>7, <2>1, <2>2, AheadPut, SenderTypes DEF Types
  <2>4. ASSUME NEW r \in 0..walked, LiveAt(Ahead, r) PROVE LiveAt(Ahead, r)'
    BY <1>1, <1>2, <1>3, <1>5, <1>7, <2>1, <2>2, <2>4, SenderPuts
  <2>5. ASSUME NEW r \in 0..walked, LiveAt(Ahead, r), Agreed(Ahead, r) PROVE Agreed(Ahead, r)'
    BY <1>1, <1>2, <1>3, <1>4, <1>7, <2>1, <2>2, <2>5, FromNone, PutAgrees
  <2> QED BY <1>1, <1>2, <2>3, <2>4, <2>5, WholeKept DEF Inv, Live
<1>8. ASSUME From(a) # None, Put(Item("data", a.id, From(a))), sender' = "bytes",
             bytes' = [id |-> a.id, at |-> From(a)]
      PROVE  Inv'
  <2> DEFINE x == Item("data", a.id, From(a))
  <2>1. /\ From(a) \in Nat /\ From(a) <= Len(Entry(a.id).whole)
        /\ From(a) = 0 \/ Asks(a, x)
    BY <1>1, <1>4, <1>8, FromIs
  <2>2. x \in AnItem /\ x.is = "data" /\ x.id = a.id /\ x.n = From(a)
    BY <1>5, <2>1, ItemType
  <2> HIDE DEF x
  <2>3. Put(x)
    BY <1>8 DEF x
  <2>4. bytes' \in [id : Nat, at : Nat] /\ bytes'.id = a.id /\ bytes'.at = From(a)
    BY <1>5, <1>8, <2>1
  <2>5. Types'
    BY <1>1, <1>2, <1>3, <1>5, <1>8, <2>1, <2>2, <2>3, <2>4, AheadPut, SenderTypes DEF Types
  <2>6. ASSUME NEW r \in 0..walked, LiveAt(Ahead, r) PROVE LiveAt(Ahead, r)'
    <3>1. /\ IsFile(x.id) /\ x.id <= r /\ x.n <= Len(Entry(x.id).whole)
          /\ x.n = 0 \/ \E l \in 1..Len(replies) : Asks(replies[l], x)
      BY <1>4, <1>5, <1>6, <2>1, <2>2, <2>6
    <3> QED BY <1>1, <1>2, <1>3, <1>5, <1>8, <2>2, <2>3, <2>6, <3>1, SenderPuts
  <2>7. ASSUME NEW r \in 0..walked, LiveAt(Ahead, r), Agreed(Ahead, r) PROVE Agreed(Ahead, r)'
    BY <1>1, <1>2, <1>3, <1>8, <2>2, <2>3, <2>7, PutAgrees
  <2> QED BY <1>1, <1>2, <2>5, <2>6, <2>7, WholeKept DEF Inv, Live
<1>9. CASE From(a) = None /\ Put(Item("same", a.id, 0)) /\ sender' = "answers" /\ UNCHANGED bytes
  BY <1>7, <1>9
<1>10. CASE From(a) # None /\ Put(Item("differs", a.id, From(a))) /\ sender' = "answers" /\ UNCHANGED bytes
  <2>1. From(a) \in Nat
    BY <1>1, <1>4, <1>10, FromIs
  <2> QED BY <1>7, <1>10, <2>1
<1> QED BY <1>8, <1>9, <1>10 DEF TakeAnswer, a

LEMMA SendBytesKeeps ==
    ASSUME Inv, SendBytes
    PROVE  Inv'
<1> DEFINE whole == Entry(bytes.id).whole
<1>1. Types /\ WholeFiles
  BY DEF Inv
<1>2. /\ SenderKeeps
      /\ UNCHANGED <<was, file, part, dirs, closing, closed, counted, copy, walked, gaveUp, link, receiver, landing>>
  BY DEF SendBytes, SenderKeeps, recvVars, landVars
<1>3. sender = "bytes" /\ ~gaveUp /\ IsFile(bytes.id) /\ bytes.id \in Nat /\ bytes.at \in Nat /\ walked \in Nat
  BY <1>1, Walk DEF SendBytes, Types
<1>4. whole \in Seq(Nat) /\ Len(whole) \in Nat /\ \A k \in 1..Len(whole) : whole[k] \in Nat
  BY <1>1, <1>3, Walk, Elements DEF IsFile
<1>5. CASE /\ bytes.at < Len(whole) /\ Put(Item("chunk", bytes.id, whole[bytes.at + 1]))
           /\ bytes' = [bytes EXCEPT !.at = @ + 1] /\ UNCHANGED sender
  <2> DEFINE x == Item("chunk", bytes.id, whole[bytes.at + 1])
  <2>1. whole[bytes.at + 1] \in Nat
    BY <1>3, <1>4, <1>5
  <2>2. x \in AnItem /\ x.is = "chunk" /\ x.n = whole[bytes.at + 1]
    <3>1. bytes.id \in Nat
      BY <1>3
    <3> QED BY ONLY <2>1, <3>1, ChunkType, Zenon
  <2>3. Put(x)
    BY <1>5
  <2> HIDE DEF x
  <2>4. bytes' \in [id : Nat, at : Nat] /\ bytes'.id = bytes.id /\ bytes'.at = bytes.at + 1
    <3>1. bytes \in [id : Nat, at : Nat]
      BY <1>1 DEF Types
    <3> QED BY <1>3, <1>5, <3>1
  <2>5. bytes'.at <= Len(Entry(bytes'.id).whole)
    BY <1>3, <1>4, <1>5, <2>4
  <2>6. Types'
    BY <1>1, <1>2, <1>3, <1>5, <2>2, <2>3, <2>4, <2>5, AheadPut, SenderTypes DEF Types
  <2>7. ASSUME NEW r \in 0..walked, LiveAt(Ahead, r) PROVE LiveAt(Ahead, r)'
    <3>1. /\ bytes.at < Len(Entry(bytes.id).whole) /\ x.n = Entry(bytes.id).whole[bytes.at + 1]
          /\ sender' = "bytes" /\ bytes' = [bytes EXCEPT !.at = @ + 1]
          /\ walked' \in walked..walked + 1 /\ walked' = walked
      BY <1>2, <1>3, <1>5, <2>2
    <3> QED BY <1>1, <1>2, <1>3, <2>2, <2>3, <2>7, <3>1, SenderPuts
  <2>8. ASSUME NEW r \in 0..walked, LiveAt(Ahead, r), Agreed(Ahead, r) PROVE Agreed(Ahead, r)'
    BY <1>1, <1>2, <1>3, <1>5, <2>2, <2>3, <2>8, PutAgrees
  <2> QED BY <1>1, <1>2, <2>6, <2>7, <2>8, WholeKept DEF Inv, Live
<1>6. CASE bytes.at = Len(whole) /\ Put(Item("sent", bytes.id, 0)) /\ bytes' = Nothing /\ sender' = "answers"
  <2> DEFINE x == Item("sent", bytes.id, 0)
  <2>1. x \in AnItem /\ x.is = "sent"
    BY <1>3, ItemType
  <2>2. Put(x)
    BY <1>6
  <2> HIDE DEF x
  <2>3. bytes' \in [id : Nat, at : Nat]
    BY <1>6 DEF Nothing
  <2>4. Types'
    BY <1>1, <1>2, <1>3, <1>6, <2>1, <2>2, <2>3, AheadPut, SenderTypes DEF Types
  <2>5. ASSUME NEW r \in 0..walked, LiveAt(Ahead, r) PROVE LiveAt(Ahead, r)'
    BY <1>1, <1>2, <1>3, <1>4, <1>6, <2>1, <2>2, <2>5, SenderPuts
  <2>6. ASSUME NEW r \in 0..walked, LiveAt(Ahead, r), Agreed(Ahead, r) PROVE Agreed(Ahead, r)'
    BY <1>1, <1>2, <1>3, <1>6, <2>1, <2>2, <2>6, PutAgrees
  <2> QED BY <1>1, <1>2, <2>4, <2>5, <2>6, WholeKept DEF Inv, Live
<1> QED BY <1>5, <1>6 DEF SendBytes

LEMMA SendLastKeeps ==
    ASSUME Inv, SendLast
    PROVE  Inv'
<1> DEFINE x == Item(IF gaveUp THEN "failed" ELSE "done", 0, 0)
<1>1. Types /\ WholeFiles
  BY DEF Inv
<1>2. /\ SenderKeeps
      /\ UNCHANGED <<was, file, part, dirs, closing, closed, counted, copy, walked, bytes, gaveUp, link, receiver, landing>>
  BY DEF SendLast, SenderKeeps, recvVars, landVars
<1>3. sender = "closing" /\ sender' = "flushing" /\ Put(x) /\ walked \in Nat
  BY <1>1, Walk DEF SendLast, Types
<1>4. x \in AnItem /\ x.is \in {"failed", "done"} /\ (gaveUp => x.is = "failed")
  BY ItemType
<1> HIDE DEF x
<1>5. Types'
  BY <1>1, <1>2, <1>3, <1>4, AheadPut, SenderTypes DEF Types
<1>6. ASSUME NEW r \in 0..walked, LiveAt(Ahead, r) PROVE LiveAt(Ahead, r)'
  BY <1>1, <1>2, <1>3, <1>4, <1>6, SenderPuts
<1>7. ASSUME NEW r \in 0..walked, LiveAt(Ahead, r), Agreed(Ahead, r) PROVE Agreed(Ahead, r)'
  BY <1>1, <1>2, <1>3, <1>4, <1>7, PutAgrees
<1> QED BY <1>1, <1>2, <1>5, <1>6, <1>7, WholeKept DEF Inv, Live

\* The steps of the sender that put nothing in the stream.
LEMMA SenderQuietKeeps ==
    ASSUME Inv, SentAll \/ FlushToWait \/ TakeEnd \/ GoOn \/ FlushLast \/ PassOver
    PROVE  Inv'
<1>1. Types /\ WholeFiles
  BY DEF Inv
<1>2. /\ SenderKeeps
      /\ UNCHANGED <<was, file, part, dirs, closing, closed, counted, copy, walked, bytes, gaveUp, link, receiver, landing>>
  BY DEF SentAll, FlushToWait, TakeEnd, GoOn, FlushLast, PassOver, SenderKeeps, sendVars, recvVars, landVars
<1>3. /\ sender # "bytes" /\ sender' # "bytes" /\ walked \in Nat
      /\ gaveUp => sender' \in {"closing", "flushing", "ending", "over"}
  BY <1>1, Walk DEF SentAll, FlushToWait, TakeEnd, GoOn, FlushLast, PassOver, MayTake, Types, sendVars
<1>4. pipe' \in Seq(AnItem) /\ buf' \in Seq(AnItem) /\ Ahead' = Ahead
  <2>1. CASE Flush
    BY <1>1, <1>2, <2>1, AheadFlushed
  <2>2. CASE UNCHANGED <<pipe, buf>>
    BY <1>1, <1>2, <2>2 DEF Types, Ahead, Queued
  <2> QED BY <2>1, <2>2 DEF SentAll, FlushToWait, TakeEnd, GoOn, FlushLast, PassOver
<1>5. Types'
  BY <1>1, <1>2, <1>3, <1>4, SenderTypes DEF Types
<1>6. ASSUME NEW r \in 0..walked, LiveAt(Ahead, r) PROVE LiveAt(Ahead, r)'
  BY <1>1, <1>2, <1>3, <1>4, <1>6, SenderQuiet
<1>7. /\ \/ sender \notin {"flushing", "ending", "over"}
         \/ sender' \in {"flushing", "ending", "over"}
      /\ sender' = "closing" /\ ~gaveUp' => walked' = Len(copy.walk)
  BY DEF SentAll, FlushToWait, TakeEnd, GoOn, FlushLast, PassOver, MayTake, sendVars
<1>8. ASSUME NEW r \in 0..walked, LiveAt(Ahead, r), Agreed(Ahead, r) PROVE Agreed(Ahead, r)'
  BY <1>1, <1>2, <1>4, <1>7, <1>8, QuietAgrees
<1> QED BY <1>1, <1>2, <1>5, <1>6, <1>8, WholeKept DEF Inv, Live

LEMMA SourceFailsKeeps ==
    ASSUME Inv, SourceFails
    PROVE  Inv'
<1>1. Types /\ WholeFiles
  BY DEF Inv
<1>2. /\ SenderKeeps
      /\ UNCHANGED <<was, file, part, dirs, closing, closed, counted, copy, walked, bytes, pipe, buf, link, receiver, landing>>
  BY DEF SourceFails, SenderKeeps, recvVars, landVars
<1>3. sender' = "closing" /\ gaveUp' /\ walked \in Nat
  BY <1>1, Walk DEF SourceFails, Types
<1>4. Ahead' = Ahead
  BY <1>2 DEF Ahead, Queued
<1>5. Types'
  BY <1>1, <1>2, <1>3, SenderTypes DEF Types
<1>6. ASSUME NEW r \in 0..walked, LiveAt(Ahead, r) PROVE LiveAt(Ahead, r)'
  <2>1. Stream(Ahead, r)' /\ (link = "up" => AllAhead(Ahead, r))'
    BY <1>1, <1>2, <1>3, <1>4, <1>6, StreamSkips DEF LiveAt
  <2>2. \A i : Entry(i)' = Entry(i)
    BY <1>2, SameWalk
  <2>3. Runs(Ahead)'
    BY <1>4, <1>6, <2>2 DEF LiveAt, Runs, RunsTo, Right
  <2>4. Hand(Ahead)'
    BY <1>3 DEF Hand
  <2>5. \A id : OldData(id)
    BY <1>4 DEF OldData
  <2> QED BY <1>1, <1>2, <1>6, <2>1, <2>3, <2>4, <2>5, SenderLive
<1>7. sender \notin {"flushing", "ending", "over"}
  BY DEF SourceFails
<1>8. ASSUME NEW r \in 0..walked, LiveAt(Ahead, r), Agreed(Ahead, r) PROVE Agreed(Ahead, r)'
  BY <1>1, <1>2, <1>3, <1>4, <1>7, <1>8, QuietAgrees
<1> QED BY <1>1, <1>2, <1>5, <1>6, <1>8, WholeKept DEF Inv, Live

LEMMA EnterAgrees ==
    ASSUME Types, NEW r \in 0..walked, LiveAt(Ahead, r), Agreed(Ahead, r), Enter, NEW q, q = Head(pipe).id
    PROVE  Agreed(Ahead, q)'
<1>1. /\ receiver = "reading" /\ receiver' = "reading" /\ pipe # <<>> /\ pipe' = Tail(pipe)
      /\ Head(pipe).is = "entry" /\ Entry(q).is = "dir" /\ sentUnchanged
      /\ UNCHANGED <<copy, awaited, landing, closing, closed, counted, file, part, replies>>
      /\ dirs' = IF copy.dry THEN dirs ELSE dirs \cup {Entry(q).at}
      /\ open' = Append(Saw({Entry(q).at}, {}), [dir |-> Entry(q).at, seen |-> {}, parts |-> {}])
  BY DEF Enter, AtEntry, At, Goes, Here, sentUnchanged
<1>2. Next2(r, q) /\ ~Skipped(q) /\ Finished(Ahead, q)' /\ \A id : OldSame(id)
  BY <1>1, ItemTaken, ItemAgrees DEF Agreed
<1>3. Landed(r) /\ Same(Ahead, r) /\ UnderWay' = UnderWay
  BY <1>1 DEF Agreed, UnderWay
<1>4. q \in Ids /\ q \in DirIds /\ Entry(q).at \in Dirs
  BY <1>1, <1>2, Walk DEF Next2, DirIds
<1>5. /\ Came(q)' = Came(r) /\ EndedBy(q) = EndedBy(r)
      /\ \A i \in 1..q : ~Skipped(i) => i \in 1..r \/ i = q
  <2>1. Came(q) = Came(r) /\ \A i \in 1..q : ~Skipped(i) => i \in 1..r \/ i = q
    BY <1>1, <1>2, CameOn
  <2>2. Came(q)' = Came(q)
    BY <1>1, SameLanding
  <2>3. EndedBy(q) = EndedBy(r)
    BY <1>1, <1>2, EndedOn
  <2> QED BY <2>1, <2>2, <2>3
<1>6. \A i : Entry(i)' = Entry(i) /\ Skipped(i)' = Skipped(i)
  BY <1>1, SameWalk
<1>7. Counts(q)'
  BY <1>1, <1>3, <1>5 DEF Landed, Counts
<1>8. Placed(q)'
  <2> SUFFICES ASSUME ~copy.dry
               PROVE  /\ \A i \in 1..q : Entry(i).is \in {"file", "link"} /\ ~Skipped(i) /\ i \notin UnderWay =>
                            file[Entry(i).at] = Entry(i).whole
                      /\ \A j \in DirIds : j <= q => Entry(j).at \in dirs'
    BY <1>1, <1>3, <1>6, SameWalk DEF Placed
  <2>1. ASSUME NEW i \in 1..q, Entry(i).is \in {"file", "link"}, ~Skipped(i), i \notin UnderWay
        PROVE  file[Entry(i).at] = Entry(i).whole
    <3>1. i \in 1..r
      BY <1>1, <1>5, <2>1
    <3> QED BY <1>3, <2>1, <3>1 DEF Landed, Placed
  <2>2. ASSUME NEW j \in DirIds, j <= q PROVE Entry(j).at \in dirs'
    <3>1. j <= r \/ j = q
      BY <1>2, <2>2, NoDirBetween
    <3> QED BY <1>1, <1>3, <3>1 DEF Landed, Placed
  <2> QED BY <2>1, <2>2
<1>9. Closes(q)'
  BY <1>1, <1>3, <1>5, ClosesStill DEF Landed
<1>10. Cleared(q)'
  BY <1>1, <1>3, <1>5, ClearedStill DEF Landed
<1>11. ASSUME NEW k \in 1..Len(open')
       PROVE  \/ /\ k \in 1..Len(open) /\ open'[k].seen \subseteq open[k].seen \cup {Entry(q).at}
                 /\ open'[k].parts \subseteq open[k].parts \cup {}
              \/ open'[k].seen = {} /\ open'[k].parts = {}
  <2> DEFINE s == Saw({Entry(q).at}, {})
             new == [dir |-> Entry(q).at, seen |-> {}, parts |-> {}]
  <2>1. {Entry(q).at} \in SUBSET (Files \cup Dirs) /\ {} \in SUBSET Files
    BY <1>4
  <2>2. s \in Seq(AFrame) /\ Len(s) = Len(open) /\ Len(open) \in Nat
    BY <2>1, SawIs
  <2>3. new \in AFrame /\ new.seen = {} /\ new.parts = {}
    BY <1>4 DEF AFrame
  <2>4. \A l \in 1..Len(open) : s[l].seen \subseteq open[l].seen \cup {Entry(q).at}
                                /\ s[l].parts \subseteq open[l].parts \cup {}
    BY <2>1, SawNoMore
  <2> HIDE DEF s, new
  <2>5. Len(open') = Len(open) + 1 /\ (\A l \in 1..Len(open) : open'[l] = s[l]) /\ open'[Len(open) + 1] = new
    <3>1. open' = Append(s, new)
      BY <1>1 DEF s, new
    <3> QED BY <2>2, <2>3, <3>1, Appended
  <2>6. k \in 1..Len(open) \/ k = Len(open) + 1
    BY <2>2, <2>5
  <2> QED BY <2>3, <2>4, <2>5, <2>6
<1>12. Frames(q)'
  <2>0. PICK parts : parts = {}
    OBVIOUS
  <2>1. \A k \in 1..Len(open') :
          \/ /\ k \in 1..Len(open) /\ open'[k].seen \subseteq open[k].seen \cup {Entry(q).at}
             /\ open'[k].parts \subseteq open[k].parts \cup parts
          \/ open'[k].seen = {} /\ open'[k].parts = {}
    BY <1>11, <2>0
  <2>2. /\ \A f \in parts : f = Entry(q).at /\ q \in Came(q) /\ q \in UnderWay'
        /\ UnderWay \subseteq UnderWay' /\ Entry(q).is # "end" /\ Frames(r) /\ UNCHANGED copy
        /\ ~copy.dry => \A i \in Came(r) : part[Entry(i).at] = None => part'[Entry(i).at] = None
    BY <1>1, <1>3, <2>0 DEF Landed
  <2> QED BY <1>2, <2>1, <2>2, FramesOn
<1>13. Same(Ahead, q)'
  <2>1. \A f : \A k \in 1..Len(open') : f \in open'[k].parts => \E l \in 1..Len(open) : f \in open[l].parts
    BY <1>11
  <2>2. r \in Nat /\ q \in Nat /\ r <= q /\ Awaiting(r)
    BY <1>2, CameOn DEF LiveAt
  <2> QED BY <1>1, <1>2, <1>3, <1>5, <2>1, <2>2, SameStill DEF OldChecks
<1> QED BY <1>2, <1>7, <1>8, <1>9, <1>10, <1>12, <1>13 DEF Agreed, Landed

LEMMA EnterKeeps ==
    ASSUME Inv, Enter
    PROVE  Inv'
<1>0. PICK q : q = Head(pipe).id
  OBVIOUS
<1>1. Types /\ WholeFiles /\ receiver = "reading" /\ receiver' = "reading" /\ pipe # <<>> /\ pipe' = Tail(pipe)
      /\ Head(pipe).is = "entry" /\ Entry(q).is = "dir" /\ sentUnchanged
  BY <1>0 DEF Inv, Enter, AtEntry, At, Goes
<1>2. UNCHANGED <<copy, was, walked, link, awaited, landing, file, part, replies>>
  BY DEF Enter, sentUnchanged, sendVars
<1>3. PICK r \in 0..walked : LiveAt(Ahead, r) /\ Agreed(Ahead, r)
  BY <1>1 DEF Inv, Live
<1>4. /\ q \in 0..walked /\ Stream(Ahead, q)' /\ Runs(Ahead)'
      /\ (link = "up" => AllAhead(Ahead, q) /\ Hand(Ahead))'
      /\ pipe' \in Seq(AnItem) /\ (\A id : OldData(id)) /\ Next2(r, q) /\ q > r /\ ~Skipped(q)
  BY <1>0, <1>1, <1>3, ItemTaken
<1>5. /\ Opened(r) /\ Awaiting(r) /\ Spared(Ahead) /\ q \in Ids /\ r \in Nat /\ q \in Nat
      /\ \A id \in awaited : IsFile(id) /\ id <= r
  BY <1>1, <1>3, <1>4, Walk DEF LiveAt, Next2, Ids, Awaiting
<1>6. q \in DirIds /\ Entry(q).at \in Dirs
  BY <1>1, <1>5, Walk DEF DirIds
<1> DEFINE here == Entry(q).at
           s == Saw({here}, {})
           new == [dir |-> here, seen |-> {}, parts |-> {}]
<1>7. /\ s \in Seq(AFrame) /\ Len(s) = Len(open) /\ Len(open) \in Nat
      /\ \A k \in 1..Len(open) :
            /\ s[k].dir = open[k].dir /\ open[k].seen \subseteq s[k].seen
            /\ open[k].parts \subseteq s[k].parts /\ (k = Len(open) => here \in s[k].seen)
  <2>1. {here} \in SUBSET (Files \cup Dirs) /\ {} \in SUBSET Files
    BY <1>6
  <2>2. /\ s \in Seq(AFrame) /\ Len(s) = Len(open) /\ Len(open) \in Nat
        /\ \A k \in 1..Len(open) :
              /\ s[k].dir = open[k].dir /\ open[k].seen \subseteq s[k].seen
              /\ open[k].parts \subseteq s[k].parts /\ (k = Len(open) => {here} \subseteq s[k].seen)
    BY <1>1, <2>1, SawIs, Zenon
  <2> QED BY <2>2
<1>8. new \in AFrame /\ new.dir = here
  BY <1>6 DEF AFrame
<1>9. open' = Append(s, new)
  BY <1>0 DEF Enter, Here
<1> HIDE DEF s, new
<1>10. /\ open' \in Seq(AFrame) /\ Len(open') = Len(open) + 1
       /\ (\A k \in 1..Len(open) : open'[k] = s[k]) /\ open'[Len(open) + 1].dir = here
  BY <1>7, <1>8, <1>9, Appended
<1>11. Opened(q)'
  BY <1>1, <1>2, <1>4, <1>5, <1>7, <1>10, OpenedOn
<1>12. ASSUME NEW id \in awaited PROVE FitsAt(Ahead, id)' /\ SparedAt(Ahead, id)'
  <2>1. OldReplies(id) /\ OldData(id)
    BY <1>2, <1>4 DEF OldReplies
  <2>2. ASSUME Spoken(Ahead, id), NEW k \in 1..Len(open'), open'[k].dir = In[Entry(id).at]
        PROVE  Entry(id).at \in open'[k].parts
    <3>1. CASE k \in 1..Len(open)
      <4>1. open[k].dir = In[Entry(id).at]
        BY <1>7, <1>10, <2>2, <3>1
      <4>2. Entry(id).at \in open[k].parts
        BY <1>5, <2>2, <3>1, <4>1 DEF Spared, SparedAt
      <4> QED BY <1>7, <1>10, <3>1, <4>2
    <3>2. CASE k = Len(open) + 1
      <4>1. In[Entry(id).at] = Entry(q).at /\ In[Entry(id).at] # Top
        BY <1>6, <1>10, <2>2, <3>2, SyncAssumption
      <4>2. id \in Ids /\ Entry(id).is # "end" /\ id <= r
        BY <1>5, <1>12 DEF IsFile
      <4>3. PICK j \in DirIds : Entry(j).at = In[Entry(id).at] /\ j < id
        BY <1>1, <4>1, <4>2, NestFacts
      <4>4. j = q
        BY <1>1, <1>6, <4>1, <4>3, NestFacts
      <4>5. id \in Nat
        BY <1>1, <4>2, Walk DEF Ids
      <4> QED BY <1>4, <1>5, <4>2, <4>3, <4>4, <4>5
    <3> QED BY <1>7, <1>10, <3>1, <3>2
  <2> QED BY <1>1, <1>2, <1>3, <1>12, <2>1, <2>2, StillFits
<1>13. Awaiting(q)'
  BY <1>1, <1>2, <1>4, <1>5, AwaitingOn
<1>14. Lands'
  BY <1>1 DEF Lands
<1>15. LiveAt(Ahead, q)'
  BY <1>2, <1>4, <1>11, <1>12, <1>13, <1>14 DEF LiveAt, Fits, Spared
<1>16. Types'
  BY <1>1, <1>2, <1>4, <1>10, ReceiverTypes DEF Types
<1>17. Agreed(Ahead, q)'
  BY <1>0, <1>1, <1>3, EnterAgrees
<1> QED BY <1>1, <1>2, <1>4, <1>15, <1>16, <1>17, WholeKept DEF Inv, Live

LEMMA SymlinkAgrees ==
    ASSUME Types, NEW r \in 0..walked, LiveAt(Ahead, r), Agreed(Ahead, r), Symlink, NEW q, q = Head(pipe).id
    PROVE  Agreed(Ahead, q)'
<1>0. PICK here : here = Entry(q).at
  OBVIOUS
<1>1. /\ receiver = "reading" /\ receiver' = "reading" /\ pipe # <<>> /\ pipe' = Tail(pipe)
      /\ Head(pipe).is = "entry" /\ Entry(q).is = "link" /\ sentUnchanged
      /\ UNCHANGED <<copy, awaited, landing, closing, closed, counted, dirs, replies>>
      /\ open' = Saw({here}, {})
  BY <1>0 DEF Symlink, AtEntry, At, Goes, Here, sentUnchanged
<1>2. Next2(r, q) /\ ~Skipped(q) /\ Finished(Ahead, q)' /\ \A id : OldSame(id)
  BY <1>1, ItemTaken, ItemAgrees DEF Agreed
<1>3. Landed(r) /\ Same(Ahead, r) /\ UnderWay' = UnderWay /\ Awaiting(r) /\ Frames(r)
  BY <1>1 DEF Agreed, UnderWay, LiveAt, Landed
<1>4. q \in Ids /\ here \in Files /\ Entry(q).whole = Link /\ r \in Nat /\ q \in Nat /\ r <= q
  BY <1>0, <1>1, <1>2, CameOn, Walk
<1>5. /\ Came(q)' = Came(r) /\ Came(q) = Came(r) /\ EndedBy(q) = EndedBy(r)
      /\ \A i \in 1..q : ~Skipped(i) => i \in 1..r \/ i = q
  <2>1. Came(q) = Came(r) /\ \A i \in 1..q : ~Skipped(i) => i \in 1..r \/ i = q
    BY <1>1, <1>2, CameOn
  <2>2. Came(q)' = Came(q)
    BY <1>1, SameLanding
  <2>3. EndedBy(q) = EndedBy(r)
    BY <1>1, <1>2, EndedOn
  <2> QED BY <2>1, <2>2, <2>3
<1>6. \A i : Entry(i)' = Entry(i) /\ Skipped(i)' = Skipped(i)
  BY <1>1, SameWalk
<1>7. \A i \in 1..r : Entry(i).is # "end" => Entry(i).at # here
  BY <1>0, <1>1, <1>2, <1>3, FreshFile
<1>8. /\ \A f \in Files : f # here => file'[f] = file[f] /\ part'[f] = part[f]
      /\ part'[here] \in {part[here], None} /\ (~copy.dry => file'[here] = Link)
  <2>1. \/ UNCHANGED <<file, part>> /\ (copy.dry \/ file[here] = Link)
        \/ /\ file' = [file EXCEPT ![here] = Link]
           /\ part' = part \/ part' = [part EXCEPT ![here] = None]
    BY <1>0, <1>1, <1>4 DEF Symlink, Here
  <2> QED BY <1>4, <2>1 DEF Types
<1>9. \A i \in 1..r : Entry(i).is \in {"file", "link"} =>
          file'[Entry(i).at] = file[Entry(i).at] /\ part'[Entry(i).at] = part[Entry(i).at]
  <2> SUFFICES ASSUME NEW i \in 1..r, Entry(i).is \in {"file", "link"}
               PROVE  file'[Entry(i).at] = file[Entry(i).at] /\ part'[Entry(i).at] = part[Entry(i).at]
    OBVIOUS
  <2>1. i \in Ids
    BY <1>2, <1>4, Walk DEF Next2, Ids
  <2>2. Entry(i).at \in Files
    BY <2>1, Walk
  <2> QED BY <1>7, <1>8, <2>2
<1>10. Counts(q)'
  BY <1>1, <1>3, <1>5 DEF Landed, Counts
<1>11. Placed(q)'
  <2> SUFFICES ASSUME ~copy.dry
               PROVE  /\ \A i \in 1..q : Entry(i).is \in {"file", "link"} /\ ~Skipped(i) /\ i \notin UnderWay =>
                            file'[Entry(i).at] = Entry(i).whole
                      /\ \A j \in DirIds : j <= q => Entry(j).at \in dirs
    BY <1>1, <1>3, <1>6, SameWalk DEF Placed
  <2>1. ASSUME NEW i \in 1..q, Entry(i).is \in {"file", "link"}, ~Skipped(i), i \notin UnderWay
        PROVE  file'[Entry(i).at] = Entry(i).whole
    <3>1. CASE i \in 1..r
      BY <1>3, <1>9, <2>1, <3>1 DEF Landed, Placed
    <3>2. CASE i = q
      BY <1>0, <1>4, <1>8, <3>2
    <3> QED BY <1>5, <2>1, <3>1, <3>2
  <2>2. ASSUME NEW j \in DirIds, j <= q PROVE Entry(j).at \in dirs
    <3>1. j <= r
      BY <1>1, <1>2, <2>2, NoDirBetween
    <3> QED BY <1>3, <3>1 DEF Landed, Placed
  <2> QED BY <2>1, <2>2
<1>12. Closes(q)'
  BY <1>1, <1>3, <1>5, ClosesStill DEF Landed
<1>13. Cleared(q)'
  <2>1. Brought(here) # {}
    BY <1>0, <1>1, <1>2, <1>4, Brings
  <2>2. \A f \in Files : /\ part[f] = None => part'[f] = None
                         /\ Brought(f) = {} => file'[f] = file[f]
    BY <1>8, <2>1
  <2> QED BY <1>1, <1>3, <1>5, <2>2, ClearedStill DEF Landed
<1>14. \A k \in 1..Len(open') :
          /\ k \in 1..Len(open) /\ open'[k].seen \subseteq open[k].seen \cup {here}
          /\ open'[k].parts \subseteq open[k].parts
  <2>1. {here} \in SUBSET (Files \cup Dirs) /\ {} \in SUBSET Files
    BY <1>4
  <2>2. Len(open') = Len(open)
    BY <1>1, <2>1, SawIs
  <2>3. \A k \in 1..Len(open) : /\ open'[k].seen \subseteq open[k].seen \cup {here}
                                /\ open'[k].parts \subseteq open[k].parts \cup {}
    BY <1>1, <2>1, SawNoMore
  <2> QED BY <2>2, <2>3
<1>15. Frames(q)'
  <2>0. PICK parts : parts = {}
    OBVIOUS
  <2>1. \A k \in 1..Len(open') :
          \/ /\ k \in 1..Len(open) /\ open'[k].seen \subseteq open[k].seen \cup {Entry(q).at}
             /\ open'[k].parts \subseteq open[k].parts \cup parts
          \/ open'[k].seen = {} /\ open'[k].parts = {}
    BY <1>0, <1>14
  <2>2. ~copy.dry => \A i \in Came(r) : part[Entry(i).at] = None => part'[Entry(i).at] = None
    BY <1>9 DEF Came, IsFile
  <2>3. /\ \A f \in parts : f = Entry(q).at /\ q \in Came(q) /\ q \in UnderWay'
        /\ UnderWay \subseteq UnderWay' /\ Entry(q).is # "end" /\ Frames(r) /\ UNCHANGED copy
    BY <1>1, <1>3, <2>0
  <2> QED BY <1>2, <2>1, <2>2, <2>3, FramesOn
<1>16. Same(Ahead, q)'
  <2>1. \A f : \A k \in 1..Len(open') : f \in open'[k].parts => \E l \in 1..Len(open) : f \in open[l].parts
    BY <1>14
  <2>2. \A id \in awaited : id \in 1..r /\ Entry(id).is = "file"
    BY <1>3, <1>4, Walk DEF Awaiting, IsFile, Ids
  <2>3. \A id \in awaited : /\ OldChecks(id)
                            /\ file'[Entry(id).at] = file[Entry(id).at]
                            /\ part'[Entry(id).at] = part[Entry(id).at]
    BY <1>1, <1>9, <2>2 DEF OldChecks
  <2> QED BY <1>1, <1>2, <1>3, <1>4, <1>5, <2>1, <2>3, SameStill
<1> QED BY <1>2, <1>10, <1>11, <1>12, <1>13, <1>15, <1>16 DEF Agreed, Landed

LEMMA SymlinkKeeps ==
    ASSUME Inv, Symlink
    PROVE  Inv'
<1>0. PICK q : q = Head(pipe).id
  OBVIOUS
<1>1. Types /\ WholeFiles /\ receiver = "reading" /\ receiver' = "reading" /\ pipe # <<>> /\ pipe' = Tail(pipe)
      /\ Head(pipe).is = "entry" /\ Entry(q).is = "link" /\ sentUnchanged
  BY <1>0 DEF Inv, Symlink, AtEntry, At, Goes
<1>2. UNCHANGED <<copy, was, walked, link, awaited, landing, replies>>
  BY DEF Symlink, sentUnchanged, sendVars
<1>3. PICK r \in 0..walked : LiveAt(Ahead, r) /\ Agreed(Ahead, r)
  BY <1>1 DEF Inv, Live
<1>4. /\ q \in 0..walked /\ Stream(Ahead, q)' /\ Runs(Ahead)'
      /\ (link = "up" => AllAhead(Ahead, q) /\ Hand(Ahead))'
      /\ pipe' \in Seq(AnItem) /\ (\A id : OldData(id)) /\ Next2(r, q) /\ q > r /\ ~Skipped(q)
  BY <1>0, <1>1, <1>3, ItemTaken
<1>5. /\ Opened(r) /\ Awaiting(r) /\ Spared(Ahead) /\ q \in Ids /\ r \in Nat /\ q \in Nat
      /\ \A id \in awaited : IsFile(id) /\ id <= r
  BY <1>1, <1>3, <1>4, Walk DEF LiveAt, Next2, Ids, Awaiting
<1> DEFINE here == Entry(q).at
<1>6. here \in Files /\ Entry(q).whole = Link
  BY <1>1, <1>5, Walk
<1>7. /\ open' \in Seq(AFrame) /\ Len(open') = Len(open) /\ Len(open) \in Nat
      /\ \A k \in 1..Len(open) :
            /\ open'[k].dir = open[k].dir /\ open[k].seen \subseteq open'[k].seen
            /\ open[k].parts \subseteq open'[k].parts /\ (k = Len(open) => here \in open'[k].seen)
  <2>1. {here} \in SUBSET (Files \cup Dirs) /\ {} \in SUBSET Files
    BY <1>6
  <2>2. open' = Saw({here}, {})
    BY <1>0 DEF Symlink, Here
  <2>3. /\ open' \in Seq(AFrame) /\ Len(open') = Len(open) /\ Len(open) \in Nat
        /\ \A k \in 1..Len(open) :
              /\ open'[k].dir = open[k].dir /\ open[k].seen \subseteq open'[k].seen
              /\ open[k].parts \subseteq open'[k].parts /\ (k = Len(open) => {here} \subseteq open'[k].seen)
    BY <1>1, <2>1, <2>2, SawIs, Zenon
  <2> QED BY <2>3
<1>8. /\ \A f \in Files : f # here => file'[f] = file[f] /\ part'[f] = part[f]
      /\ file'[here] \in {file[here], Link} /\ part'[here] \in {part[here], None}
      /\ copy.dry => UNCHANGED <<file, part>>
      /\ file' \in [Files -> Contents \cup {None, Link}] /\ part' \in [Files -> Contents \cup {None}]
  <2>1. \/ UNCHANGED <<file, part>>
        \/ /\ ~copy.dry /\ file' = [file EXCEPT ![here] = Link]
           /\ part' = part \/ part' = [part EXCEPT ![here] = None]
    BY <1>0, <1>6 DEF Symlink, Here
  <2> QED BY <1>1, <1>6, <2>1 DEF Types
<1>9. Opened(q)'
  BY <1>1, <1>2, <1>4, <1>5, <1>7, OpenedOn
<1>10. ASSUME NEW id \in awaited PROVE FitsAt(Ahead, id)' /\ SparedAt(Ahead, id)'
  <2>1. OldReplies(id) /\ OldData(id)
    BY <1>2, <1>4 DEF OldReplies
  <2>2. id \in Ids /\ Entry(id).is = "file" /\ id <= r /\ id \in Nat
    BY <1>1, <1>5, <1>10, Walk DEF IsFile, Ids
  <2>3. Entry(id).at # here
    <3>1. id # q
      BY <1>4, <1>5, <2>2
    <3> QED BY <1>1, <1>5, <2>2, <3>1, OneFile
  <2>4. part'[Entry(id).at] = part[Entry(id).at]
    BY <1>1, <1>8, <2>2, <2>3, Walk
  <2>5. ASSUME Spoken(Ahead, id), NEW k \in 1..Len(open'), open'[k].dir = In[Entry(id).at]
        PROVE  Entry(id).at \in open'[k].parts
    BY <1>5, <1>7, <1>10, <2>5 DEF Spared, SparedAt
  <2> QED BY <1>1, <1>2, <1>3, <1>10, <2>1, <2>4, <2>5, StillFits
<1>11. Awaiting(q)'
  BY <1>1, <1>2, <1>4, <1>5, AwaitingOn
<1>12. Lands'
  BY <1>1 DEF Lands
<1>13. LiveAt(Ahead, q)'
  BY <1>2, <1>4, <1>9, <1>10, <1>11, <1>12 DEF LiveAt, Fits, Spared
<1>14. Types'
  BY <1>1, <1>2, <1>4, <1>7, <1>8, ReceiverTypes DEF Types
<1>15. WholeFiles'
  <2> SUFFICES ASSUME NEW f \in Files
               PROVE  /\ \/ file'[f] = was.file[f] \/ file'[f] \in Brought(f)
                         \/ file'[f] = None /\ copy.delete /\ Brought(f) = {} /\ MayGo(f)
                      /\ part'[f] \in {was.part[f], None} \cup Starting(f)
                      /\ copy.dry => file'[f] = was.file[f] /\ part'[f] = was.part[f]
    BY <1>2, SameBrought DEF WholeFiles
  <2>1. Link \in Brought(here)
    BY <1>1, <1>4, <1>5, <1>6, Brings
  <2> QED BY <1>1, <1>8, <2>1 DEF WholeFiles
<1>16. Agreed(Ahead, q)'
  BY <1>0, <1>1, <1>3, SymlinkAgrees
<1> QED BY <1>1, <1>2, <1>4, <1>13, <1>14, <1>15, <1>16 DEF Inv, Live

LEMMA SettledAgrees ==
    ASSUME Types, Settled, receiver' = "reading", NEW r \in 0..walked, LiveAt(Ahead, r), Agreed(Ahead, r)
    PROVE  Agreed(Ahead, r)'
<1>0. PICK i : i = Head(pipe).id
  OBVIOUS
<1>1. /\ receiver = "reading" /\ pipe # <<>> /\ pipe' = Tail(pipe) /\ sentUnchanged
      /\ (Head(pipe).is = "same" \/ (copy.dry /\ Head(pipe).is = "differs"))
      /\ UNCHANGED <<open, file, part, dirs, replies>>
      /\ i \in awaited /\ awaited' = awaited \ {i} /\ counted' = counted + 1 /\ CloseReady(closing, awaited')
  BY <1>0 DEF Settled, At, Ends, landVars
<1>2. UNCHANGED copy
  BY <1>1 DEF sentUnchanged
<1>3. Finished(Ahead, r)' /\ \A id : OldSame(id)
  BY <1>1, ItemAgrees DEF Agreed
<1>4. UnderWay = awaited /\ UnderWay' = awaited'
  BY <1>1 DEF UnderWay
<1>5. i \in Came(r)
  <2>1. IsFile(i) /\ i <= r
    BY <1>1 DEF LiveAt, Awaiting
  <2>2. r \in Nat /\ i \in Nat /\ i >= 1
    BY <2>1, Walk DEF IsFile, Ids
  <2> QED BY <2>1, <2>2 DEF Came
<1>6. ASSUME ~copy.dry PROVE file[Entry(i).at] = Entry(i).whole /\ Unkept(Entry(i).at, r)
  <2>1. Ahead[1] = Head(pipe) /\ 1 \in 1..Len(Ahead)
    BY <1>1, ItemTaken
  <2>2. SameAt(Ahead, i, r)
    BY <1>1 DEF Agreed, Same
  <2>3. Ahead[1].is = "same" /\ Ahead[1].id = i
    BY <1>0, <1>1, <1>6, <2>1
  <2>4. Compared(Ahead, i)
    BY <2>1, <2>3 DEF Compared
  <2> QED BY <1>6, <2>1, <2>2, <2>3, <2>4 DEF SameAt
<1>7. awaited' = UnderWay \ {i} /\ awaited' \subseteq awaited /\ i \in UnderWay
  BY <1>1, <1>4
<1> QED BY <1>1, <1>2, <1>3, <1>4, <1>5, <1>6, <1>7, FileLands

\* The same here, or one that would be written.
LEMMA SettledKeeps ==
    ASSUME Inv, Settled
    PROVE  Inv'
<1>1. Types /\ WholeFiles /\ receiver = "reading" /\ pipe # <<>> /\ pipe' = Tail(pipe)
      /\ Head(pipe).is # "entry" /\ sentUnchanged /\ UNCHANGED <<open, landing, file, part, replies>>
  BY DEF Inv, Settled, At, landVars
<1>2. UNCHANGED <<copy, was, walked, link>>
  BY <1>1 DEF sentUnchanged, sendVars
<1>3. pipe' \in Seq(AnItem) /\ WholeFiles'
  BY <1>1, <1>2, Taken, WholeKept DEF Types
<1>4. receiver' \in {"reading", "ended"} /\ (receiver' = "reading" => awaited' \subseteq awaited)
  BY <1>1 DEF Settled, Ends, Goes
<1>5. Types'
  BY <1>1, <1>3, <1>4, ReceiverTypes DEF Types
<1>6. CASE receiver' = "reading"
  <2>1. PICK r \in 0..walked : LiveAt(Ahead, r) /\ Agreed(Ahead, r)
    BY <1>1 DEF Inv, Live
  <2>2. /\ Stream(Ahead, r)' /\ Runs(Ahead)'
        /\ (link = "up" => AllAhead(Ahead, r) /\ Hand(Ahead))' /\ (\A id : OldData(id))
    BY <1>1, <1>6, <2>1, ItemTaken
  <2>3. Opened(r)' /\ Lands'
    BY <1>1, <1>2, <1>6, <2>1, OpenedKept DEF LiveAt, Lands
  <2>4. ASSUME NEW id \in awaited' PROVE FitsAt(Ahead, id)' /\ SparedAt(Ahead, id)'
    <3>1. id \in awaited /\ OldReplies(id) /\ OldData(id) /\ Spared(Ahead)
      BY <1>1, <1>4, <1>6, <2>1, <2>2, <2>4 DEF OldReplies, LiveAt
    <3>2. Spoken(Ahead, id) =>
            \A k \in 1..Len(open') : open'[k].dir = In[Entry(id).at] => Entry(id).at \in open'[k].parts
      BY <1>1, <3>1 DEF Spared, SparedAt
    <3> QED BY <1>1, <1>2, <2>1, <3>1, <3>2, StillFits
  <2>5. Awaiting(r)'
    <3>1. r \in Nat /\ r <= r /\ Awaiting(r)
      BY <2>1 DEF LiveAt
    <3> QED BY <1>1, <1>2, <1>4, <1>6, <3>1, AwaitingOn
  <2>6. LiveAt(Ahead, r)'
    BY <2>2, <2>3, <2>4, <2>5 DEF LiveAt, Fits, Spared
  <2>7. Agreed(Ahead, r)'
    BY <1>1, <1>6, <2>1, SettledAgrees
  <2> QED BY <1>2, <1>3, <1>5, <2>6, <2>7 DEF Inv, Live
<1>7. CASE receiver' = "ended"
  BY <1>3, <1>5, <1>7, EndedKeeps
<1> QED BY <1>4, <1>6, <1>7

\* The end of the copy, and an entry that cannot be landed.
LEMMA EndsKeep ==
    ASSUME Inv, Finish \/ LandFails
    PROVE  Inv'
<1>1. /\ Types /\ WholeFiles /\ receiver' = "ended" /\ sentUnchanged
      /\ UNCHANGED <<open, landing, file, part, replies>>
      /\ pipe' = pipe \/ (pipe # <<>> /\ pipe' = Tail(pipe))
  <2>1. CASE Finish
    BY <2>1 DEF Inv, Finish, At, Arrived, Ends, landVars
  <2>2. CASE LandFails
    BY <2>2 DEF Inv, LandFails, Ends, landVars, sentUnchanged
  <2> QED BY <2>1, <2>2
<1>2. UNCHANGED <<copy, was>>
  BY <1>1 DEF sentUnchanged
<1>3. pipe' \in Seq(AnItem) /\ WholeFiles'
  <2>1. pipe' \in Seq(AnItem)
    <3>1. pipe \in Seq(AnItem)
      BY <1>1 DEF Types
    <3> QED BY <1>1, <3>1, Taken
  <2> QED BY <1>1, <1>2, <2>1, WholeKept
<1>4. Types'
  BY <1>1, <1>3, ReceiverTypes DEF Types
<1> QED BY <1>1, <1>3, <1>4, EndedKeeps

(***************************************************************************)
(* What takes nothing from the stream but its end.                         *)
(***************************************************************************)
LEMMA SayEndAgrees ==
    ASSUME Types, SayEnd, NEW r \in 0..walked, LiveAt(Ahead, r), Agreed(Ahead, r)
    PROVE  Agreed(Ahead, r)'
<1> DEFINE a == Answer("end", 0, IF outcome = "ok" THEN "ok" ELSE "failed")
<1>1. /\ UNCHANGED <<copy, sender, walked, gaveUp, buf, link, pipe, receiver, open, awaited, landing, closing,
                     closed, counted, file, part, dirs>>
      /\ Reply(a)
  BY DEF SayEnd, recvVars, landVars, sentUnchanged, sendVars
<1>2. a \in AnAnswer /\ a.is = "end"
  BY DEF Answer, AnAnswer
<1> HIDE DEF a
<1>3. Ahead' = Ahead /\ UnderWay' = UnderWay
  BY <1>1 DEF Ahead, Queued, UnderWay
<1>4. \A id : OldSame(id) /\ OldChecks(id)
  <2>1. \A k \in 1..Len(replies') : replies'[k] = a \/ \E l \in 1..Len(replies) : replies[l] = replies'[k]
    BY <1>1, <1>2, RepliesGrow
  <2> QED BY <1>2, <1>3, <2>1 DEF OldSame, OldChecks
<1>5. Landed(r) /\ Same(Ahead, r) /\ Awaiting(r) /\ r \in Nat /\ r <= r /\ Finished(Ahead, r)
  BY DEF Agreed, LiveAt
<1>6. Landed(r)'
  BY <1>1, <1>3, <1>5, LandedKept
<1>7. EndedBy(r) = EndedBy(r)
  OBVIOUS
<1>8. Same(Ahead, r)'
  BY <1>1, <1>4, <1>5, <1>7, SameStill
<1>9. Finished(Ahead, r)'
  <2>1. walked \in Nat
    BY Walk DEF Types
  <2>2. \A i : Skipped(i)' = Skipped(i) /\ Holds(Ahead, i)' = Holds(Ahead, i)
    BY <1>1, <1>3, SameWalk DEF Holds
  <2> QED BY <1>1, <1>3, <1>5, <2>2 DEF Finished
<1> QED BY <1>6, <1>8, <1>9 DEF Agreed

\* A step of the receiver that takes nothing from the stream.
LEMMA SayEndKeeps ==
    ASSUME Inv, SayEnd
    PROVE  Inv'
<1> DEFINE a == Answer("end", 0, IF outcome = "ok" THEN "ok" ELSE "failed")
<1>1. /\ Types /\ WholeFiles /\ sentUnchanged /\ Reply(a)
      /\ UNCHANGED <<pipe, receiver, open, awaited, landing, file, part>>
  BY DEF Inv, SayEnd, recvVars, landVars
<1>2. UNCHANGED <<copy, was, walked, link, buf, sender, bytes, gaveUp>>
  BY <1>1 DEF sentUnchanged, sendVars
<1>3. a \in AnAnswer /\ a.is = "end"
  BY DEF Answer, AnAnswer
<1> HIDE DEF a
<1>4. /\ replies' \in Seq(AnAnswer)
      /\ \A k \in 1..Len(replies') : replies'[k] = a \/ \E l \in 1..Len(replies) : replies[l] = replies'[k]
      /\ \A k \in 1..Len(replies') : replies'[k].is # "end" => Sound(replies'[k])
  BY <1>1, <1>3, RepliesGrow
<1>5. Types'
  BY <1>1, <1>4, ReceiverTypes DEF Types
<1>6. WholeFiles'
  BY <1>1, <1>2, WholeKept
<1>7. Ahead' = Ahead
  BY <1>1, <1>2 DEF Ahead, Queued
<1>8. ASSUME NEW r \in 0..walked, LiveAt(Ahead, r) PROVE LiveAt(Ahead, r)'
  <2>1. \A id : OldReplies(id) /\ OldData(id)
    BY <1>3, <1>4, <1>7 DEF OldReplies, OldData
  <2>2. Stream(Ahead, r)' /\ (link = "up" => AllAhead(Ahead, r))'
    <3>1. walked \in Nat /\ walked' \in walked..walked + 1 /\ walked' # walked + 1
      BY <1>1, <1>2, Walk DEF Types
    <3> QED BY <1>1, <1>2, <1>7, <1>8, <3>1, StreamSkips DEF LiveAt
  <2>3. \A i : Entry(i)' = Entry(i) /\ IsFile(i)' = IsFile(i)
    BY <1>2, SameWalk
  <2>4. Runs(Ahead)'
    BY <1>7, <1>8, <2>3 DEF LiveAt, Runs, RunsTo, Right
  <2>5. (link = "up" => Hand(Ahead))'
    BY <1>2, <1>7, <1>8 DEF LiveAt, Hand, RunsTo
  <2>6. Opened(r)'
    BY <1>1, <1>2, <1>8, OpenedKept DEF LiveAt
  <2>7. ASSUME NEW id \in awaited PROVE FitsAt(Ahead, id)' /\ SparedAt(Ahead, id)'
    <3>1. Spoken(Ahead, id) =>
            \A k \in 1..Len(open') : open'[k].dir = In[Entry(id).at] => Entry(id).at \in open'[k].parts
      BY <1>1, <1>8, <2>7 DEF LiveAt, Spared, SparedAt
    <3> QED BY <1>1, <1>2, <1>8, <2>1, <2>7, <3>1, StillFits
  <2>8. Awaiting(r)'
    <3>1. r \in Nat /\ r <= r /\ Awaiting(r)
      BY <1>8 DEF LiveAt
    <3>2. \A k \in 1..Len(replies') : replies'[k].is # "end" =>
                \E l \in 1..Len(replies) : replies[l] = replies'[k]
      BY <1>3, <1>4
    <3> QED BY <1>1, <1>2, <3>1, <3>2, AwaitingOn
  <2>9. Lands'
    BY <1>1, <1>2, <1>8, <2>3 DEF LiveAt, Lands
  <2> QED BY <1>1, <2>2, <2>4, <2>5, <2>6, <2>7, <2>8, <2>9 DEF LiveAt, Fits, Spared
<1>9. ASSUME NEW r \in 0..walked, LiveAt(Ahead, r), Agreed(Ahead, r) PROVE Agreed(Ahead, r)'
  BY <1>1, <1>9, SayEndAgrees
<1> QED BY <1>1, <1>2, <1>5, <1>6, <1>8, <1>9 DEF Inv, Live

LEMMA CutAgrees ==
    ASSUME Types, Cut, receiver' = receiver, NEW r \in 0..walked, LiveAt(Ahead, r), Agreed(Ahead, r)
    PROVE  Agreed(Ahead, r)'
<1>1. /\ link' = "cut"
      /\ UNCHANGED <<copy, sender, walked, gaveUp, receiver, open, awaited, landing, closing, closed, counted,
                     file, part, dirs>>
  BY DEF Cut, sendVars, landVars
<1>2. PICK n \in 0..Len(pipe), m \in 0..Len(replies) :
        pipe' = SubSeq(pipe, 1, n) /\ replies' = SubSeq(replies, 1, m)
  BY DEF Cut
<1>3. Len(Ahead) \in Nat /\ Len(Ahead') \in Nat /\ Len(Ahead') <= Len(Ahead)
      /\ \A k \in 1..Len(Ahead') : Ahead'[k] = Ahead[k] /\ k \in 1..Len(Ahead)
  <2>1. /\ Ahead' \in Seq(AnItem) /\ Len(Ahead') <= Len(Ahead)
        /\ \A k \in 1..Len(Ahead') : Ahead'[k] = Ahead[k]
    BY <1>1, <1>2, AheadCut
  <2>2. Len(Ahead) \in Nat /\ Len(Ahead') \in Nat
    BY <2>1, AheadIs, Elements DEF Types
  <2> QED BY <2>1, <2>2
<1>4. \A id : OldSame(id) /\ OldChecks(id)
  <2>1. \A k \in 1..Len(replies') : replies'[k] = replies[k] /\ k \in 1..Len(replies)
    <3>1. replies \in Seq(AnAnswer) /\ Len(replies) \in Nat
      BY Elements DEF Types
    <3>2. Len(replies') = m /\ \A k \in 1..m : replies'[k] = replies[k]
      BY <1>2, <3>1, Started
    <3> QED BY <3>1, <3>2
  <2> QED BY <1>3, <2>1 DEF OldSame, OldChecks
<1>5. Landed(r) /\ Same(Ahead, r) /\ Awaiting(r) /\ r \in Nat /\ r <= r /\ Finished(Ahead, r)
  BY DEF Agreed, LiveAt
<1>6. Landed(r)'
  BY <1>1, <1>5, LandedKept DEF UnderWay
<1>7. EndedBy(r) = EndedBy(r)
  OBVIOUS
<1>8. Same(Ahead, r)'
  BY <1>1, <1>4, <1>5, <1>7, SameStill
<1>9. Finished(Ahead, r)'
  <2>1. \A i : Skipped(i)' = Skipped(i)
    BY <1>1, SameWalk
  <2>2. ASSUME NEW k \in 1..Len(Ahead'), Ahead'[k].is = "done"
        PROVE  /\ k = Len(Ahead') /\ sender \in {"flushing", "ending", "over"} /\ walked = Len(copy.walk)
               /\ \A i \in r + 1..walked : Skipped(i) \/ Holds(Ahead, i)'
    <3>1. /\ k = Len(Ahead) /\ sender \in {"flushing", "ending", "over"} /\ walked = Len(copy.walk)
          /\ \A i \in r + 1..walked : Skipped(i) \/ Holds(Ahead, i)
      BY <1>3, <1>5, <2>2 DEF Finished
    <3>2. Len(Ahead') = Len(Ahead)
      BY <1>3, <3>1
    <3>3. \A i : Holds(Ahead, i) => Holds(Ahead, i)'
      BY <1>3, <3>2 DEF Holds
    <3> QED BY <3>1, <3>2, <3>3
  <2> QED BY <1>1, <1>5, <2>1, <2>2 DEF Finished
<1> QED BY <1>6, <1>8, <1>9 DEF Agreed

LEMMA CutKeeps ==
    ASSUME Inv, Cut
    PROVE  Inv'
<1>1. /\ Types /\ WholeFiles /\ link' = "cut"
      /\ UNCHANGED <<copy, was, walked, buf, sender, bytes, gaveUp, open, awaited, landing, file, part>>
  BY DEF Inv, Cut, sendVars, landVars
<1>2. PICK n \in 0..Len(pipe), m \in 0..Len(replies) :
        pipe' = SubSeq(pipe, 1, n) /\ replies' = SubSeq(replies, 1, m)
  BY DEF Cut
<1>3. receiver' = receiver \/ receiver' = "ended"
  BY DEF Cut, Ends
<1>4. /\ replies' \in Seq(AnAnswer)
      /\ \A k \in 1..Len(replies') : \E l \in 1..Len(replies) : replies[l] = replies'[k]
  <2>1. replies \in Seq(AnAnswer) /\ Len(replies) \in Nat
    BY <1>1, Elements DEF Types
  <2>2. replies' \in Seq(AnAnswer) /\ Len(replies') = m /\ \A k \in 1..m : replies'[k] = replies[k]
    BY <1>2, <2>1, Started
  <2> QED BY <2>1, <2>2
<1>5. pipe' \in Seq(AnItem)
  BY <1>1, <1>2, Started DEF Types
<1>6. /\ OneOfAName' = OneOfAName
      /\ \A i : Entry(i)' = Entry(i) /\ IsFile(i)' = IsFile(i)
  BY <1>1, SameWalk
<1>7. Types'
  <2>1. \A k \in 1..Len(replies') : replies'[k].is # "end" => Sound(replies'[k])
    BY <1>1, <1>4 DEF Types
  <2>2. (\A k \in 1..Len(replies) : replies[k].is # "end" => Sound(replies[k]))'
    BY <1>6, <2>1 DEF Sound
  <2> QED BY <1>1, <1>3, <1>4, <1>5, <1>6, <2>2 DEF Types
<1>8. WholeFiles'
  BY <1>1, WholeKept
<1>9. CASE receiver' = "ended"
  BY <1>7, <1>8, <1>9, EndedKeeps
<1>10. CASE receiver' = receiver
  <2>1. /\ Ahead' \in Seq(AnItem) /\ Len(Ahead') <= Len(Ahead)
        /\ \A k \in 1..Len(Ahead') : Ahead'[k] = Ahead[k]
    BY <1>1, <1>2, <1>10, AheadCut
  <2>2. Len(Ahead) \in Nat /\ Len(Ahead') \in Nat
    BY <1>1, <2>1, AheadIs, Elements DEF Types
  <2>3. \A id : OldReplies(id) /\ OldData(id)
    BY <1>4, <2>1, <2>2 DEF OldReplies, OldData
  <2>4. ASSUME NEW r \in 0..walked, LiveAt(Ahead, r) PROVE LiveAt(Ahead, r)'
    <3>1. Stream(Ahead, r)'
      BY <1>1, <2>1, <2>4, StreamCut DEF LiveAt
    <3>2. Runs(Ahead)'
      BY <1>1, <2>1, <2>4, RunsCut DEF LiveAt
    <3>3. Opened(r)'
      BY <1>1, <2>4, OpenedKept DEF LiveAt
    <3>4. ASSUME NEW id \in awaited PROVE FitsAt(Ahead, id)' /\ SparedAt(Ahead, id)'
      <4>1. Spoken(Ahead, id) =>
              \A k \in 1..Len(open') : open'[k].dir = In[Entry(id).at] => Entry(id).at \in open'[k].parts
        BY <1>1, <2>4, <3>4 DEF LiveAt, Spared, SparedAt
      <4> QED BY <1>1, <2>3, <2>4, <3>4, <4>1, StillFits
    <3>5. Awaiting(r)'
      <4>1. r \in Nat /\ r <= r /\ Awaiting(r)
        BY <2>4 DEF LiveAt
      <4> QED BY <1>1, <1>4, <4>1, AwaitingOn
    <3>6. Lands'
      BY <1>1, <1>6, <1>10, <2>4 DEF LiveAt, Lands
    <3> QED BY <1>1, <3>1, <3>2, <3>3, <3>4, <3>5, <3>6 DEF LiveAt, Fits, Spared
  <2>5. ASSUME NEW r \in 0..walked, LiveAt(Ahead, r), Agreed(Ahead, r) PROVE Agreed(Ahead, r)'
    BY <1>1, <1>10, <2>5, CutAgrees
  <2> QED BY <1>1, <1>7, <1>8, <1>10, <2>4, <2>5 DEF Inv, Live
<1> QED BY <1>3, <1>9, <1>10

LEMMA DataAgrees ==
    ASSUME Types, Data, receiver' = "landing", NEW r \in 0..walked, LiveAt(Ahead, r), Agreed(Ahead, r)
    PROVE  Agreed(Ahead, r)'
<1>0. PICK q : q = Head(pipe).id
  OBVIOUS
<1>1. /\ receiver = "reading" /\ pipe # <<>> /\ pipe' = Tail(pipe) /\ Head(pipe).is = "data" /\ sentUnchanged
      /\ UNCHANGED <<open, closing, closed, counted, file, dirs, replies>>
      /\ q \in awaited /\ awaited' = awaited \ {q} /\ landing' = [id |-> q, at |-> Head(pipe).n]
      /\ part' = [part EXCEPT ![Entry(q).at] = Sized(Kept(Entry(q).at), Head(pipe).n)]
  BY <1>0 DEF Data, At, Ends
<1>2. UNCHANGED <<copy, link, walked, buf, sender, gaveUp>>
  BY <1>1 DEF sentUnchanged, sendVars
<1>3. UnderWay = awaited /\ UnderWay' = awaited
  <2>1. landing'.id = q
    BY <1>1
  <2>2. UnderWay' = awaited' \cup {q}
    BY <2>1 DEF UnderWay
  <2> QED BY <1>1, <2>2 DEF UnderWay
<1>4. q \in Came(r)
  <2>1. IsFile(q) /\ q <= r
    BY <1>1 DEF LiveAt, Awaiting
  <2>2. r \in Nat /\ q \in Nat /\ q >= 1
    BY <2>1, Walk DEF IsFile, Ids
  <2> QED BY <2>1, <2>2 DEF Came
<1>5. Ahead' = Ahead
  BY <1>0, <1>1, <1>2, AheadBegun
<1>6. Finished(Ahead, r)'
  <2>1. \A i : Skipped(i)' = Skipped(i) /\ Holds(Ahead, i)' = Holds(Ahead, i)
    BY <1>2, <1>5, SameWalk DEF Holds
  <2> QED BY <1>2, <1>5, <2>1 DEF Agreed, Finished
<1>7. \A id : OldSame(id)
  BY <1>5 DEF OldSame
<1>8. \A f \in Files : f # Entry(q).at => part'[f] = part[f]
  BY <1>1 DEF Types
<1>9. awaited' \subseteq awaited /\ q \in UnderWay /\ q \notin awaited'
  BY <1>1, <1>3
<1> QED BY <1>1, <1>2, <1>3, <1>4, <1>6, <1>7, <1>8, <1>9, PartGrows

LEMMA DataKeeps ==
    ASSUME Inv, Data
    PROVE  Inv'
<1>0. PICK q : q = Head(pipe).id
  OBVIOUS
<1> DEFINE n == Head(pipe).n
           f == Entry(q).at
           whole == Entry(q).whole
<1>1. /\ Types /\ WholeFiles /\ receiver = "reading" /\ pipe # <<>> /\ pipe' = Tail(pipe)
      /\ Head(pipe).is = "data" /\ ~copy.dry /\ sentUnchanged /\ UNCHANGED <<open, file, replies>>
  BY DEF Inv, Data, At
<1>2. UNCHANGED <<copy, was, walked, link, buf, sender, bytes, gaveUp>>
  BY <1>1 DEF sentUnchanged, sendVars
<1>3. pipe' \in Seq(AnItem)
  BY <1>1, Taken DEF Types
<1>4. CASE receiver' = "ended" /\ UNCHANGED <<landing, awaited, part>>
  <2>1. Types'
    BY <1>1, <1>3, <1>4, ReceiverTypes DEF Types
  <2> QED BY <1>1, <1>2, <1>4, <2>1, WholeKept, EndedKeeps
<1>5. CASE /\ q \in awaited /\ awaited' = awaited \ {q} /\ receiver' = "landing"
           /\ part' = [part EXCEPT ![f] = Sized(Kept(f), n)] /\ landing' = [id |-> q, at |-> n]
  <2>1. PICK r \in 0..walked : LiveAt(Ahead, r) /\ Agreed(Ahead, r)
    BY <1>1 DEF Inv, Live
  <2>2. /\ landing' \in [id : Nat, at : Nat] /\ Ahead[1] = Head(pipe) /\ Head(pipe) \in AnItem
        /\ Len(Ahead) >= 1 /\ Ahead' = Ahead
    BY <1>0, <1>1, <1>2, <1>5, AheadBegun
  <2>3. Len(Ahead) \in Nat /\ 1 \in 1..Len(Ahead)
    BY <1>1, <2>2, AheadIs, Elements DEF Types
  <2>4. IsFile(q) /\ n <= Len(whole) /\ n \in Nat
    BY <1>0, <1>1, <2>1, <2>2, <2>3 DEF LiveAt, Stream, AnItem
  <2>5. n = 0 \/ part[f] = SubSeq(whole, 1, n)
    BY <1>0, <1>1, <1>5, <2>1, <2>2, <2>3 DEF LiveAt, Fits, FitsAt
  <2>6. whole \in Seq(Nat) /\ f \in Files /\ Len(whole) \in Nat
    BY <1>1, <2>4, Walk, Elements DEF IsFile
  <2>7. n \in 0..Len(whole)
    BY <2>4, <2>6
  <2>8. Sized(Kept(f), n) = SubSeq(whole, 1, n)
    <3>1. part[f] \in Seq(Nat) \cup {None} /\ <<>> \in Seq(Nat)
      BY <1>1, <2>6 DEF Types, Contents
    <3>2. SubSeq(whole, 1, n) \in Seq(Nat)
      BY <2>6, <2>7, Started
    <3>3. Kept(f) \in Seq(Nat) /\ (n = 0 \/ Kept(f) = SubSeq(whole, 1, n))
      BY <2>5, <3>1, <3>2, SyncAssumption DEF Kept
    <3> QED BY <2>6, <2>7, <3>3, SizedIs
  <2> HIDE DEF n, f, whole
  <2>9. /\ WholeFiles' /\ part' \in [Files -> Contents \cup {None}]
        /\ \A id \in Ids : Entry(id).is = "file" /\ id # q => part'[Entry(id).at] = part[Entry(id).at]
    BY <1>1, <1>2, <1>5, <2>4, <2>7, <2>8, LandsPart DEF f, whole
  <2>10. Types'
    BY <1>1, <1>3, <1>5, <2>2, <2>9, ReceiverTypes DEF Types
  <2>11. \A id : OldData(id)
    BY <2>2 DEF OldData
  <2>12. Fits(Ahead)' /\ Spared(Ahead)' /\ Awaiting(r)' /\ Opened(r)'
    <3>1. awaited' \subseteq awaited /\ q \notin awaited'
      BY <1>5
    <3> QED BY <1>1, <1>2, <2>1, <2>9, <2>11, <3>1, OthersFit
  <2>13. Stream(Ahead, r)' /\ (link = "up" => AllAhead(Ahead, r))'
    <3>1. walked \in Nat /\ walked' \in walked..walked + 1 /\ walked' # walked + 1
      BY <1>1, <1>2, Walk DEF Types
    <3> QED BY <1>1, <1>2, <2>1, <2>2, <3>1, StreamSkips DEF LiveAt
  <2>14. \A i : Entry(i)' = Entry(i) /\ IsFile(i)' = IsFile(i)
    BY <1>2, SameWalk
  <2>15. Runs(Ahead)'
    <3>1. Runs(Ahead) /\ Ahead' = Ahead
      BY <2>1, <2>2 DEF LiveAt
    <3>2. \A i : Entry(i)' = Entry(i)
      BY <2>14
    <3> QED BY ONLY <3>1, <3>2 DEF Runs, RunsTo, Right
  <2>16. (link = "up" => Hand(Ahead))'
    BY <1>2, <2>1, <2>2 DEF LiveAt, Hand, RunsTo
  <2>17. Lands'
    <3>1. landing'.id = q /\ landing'.at = n /\ q \notin awaited' /\ ~copy'.dry
      BY <1>1, <1>2, <1>5
    <3>2. part'[f] = SubSeq(whole, 1, n)
      BY <1>1, <1>5, <2>6, <2>8 DEF Types
    <3>3. IsFile(landing.id)'
      BY <2>4, <2>14, <3>1
    <3>4. Entry(landing.id)' = Entry(q)
      BY <1>2, <3>1 DEF Entry
    <3> QED BY <2>4, <3>1, <3>2, <3>3, <3>4 DEF Lands, f, whole
  <2>18. LiveAt(Ahead, r)'
    BY <2>12, <2>13, <2>15, <2>16, <2>17 DEF LiveAt
  <2>19. Agreed(Ahead, r)'
    BY <1>1, <1>5, <2>1, DataAgrees
  <2> QED BY <1>2, <2>9, <2>10, <2>18, <2>19 DEF Inv, Live
<1> QED BY <1>0, <1>4, <1>5 DEF Data, Ends

LEMMA ChunkAgrees ==
    ASSUME Types, Chunk, NEW r \in 0..walked, LiveAt(Ahead, r), Agreed(Ahead, r)
    PROVE  Agreed(Ahead, r)'
<1>0. PICK i : i = landing.id
  OBVIOUS
<1>1. /\ receiver = "landing" /\ receiver' = "landing" /\ pipe # <<>> /\ pipe' = Tail(pipe)
      /\ Head(pipe).is = "chunk" /\ sentUnchanged /\ landing' = [landing EXCEPT !.at = @ + 1]
      /\ UNCHANGED <<open, awaited, closing, closed, counted, file, dirs, replies>>
      /\ part' = [part EXCEPT ![Entry(i).at] = Append(SubSeq(@, 1, landing.at), Head(pipe).n)]
  BY <1>0 DEF Chunk, Arrived
<1>2. UNCHANGED <<copy, link, walked, buf, sender, gaveUp>>
  BY <1>1 DEF sentUnchanged, sendVars
<1>3. landing' \in [id : Nat, at : Nat] /\ landing'.id = i /\ landing.at \in Nat /\ i \in Nat
  <2>1. landing \in [id : Nat, at : Nat]
    BY DEF Types
  <2> QED BY <1>0, <1>1, <2>1
<1>4. /\ IsFile(i) /\ i \notin awaited /\ i <= r
      /\ Ahead[1] = Item("data", i, landing.at) /\ Ahead[2] = Head(pipe) /\ Len(Ahead) >= 2 /\ Len(Ahead) \in Nat
  BY <1>0, <1>1, <1>3, LandsNext
<1>5. UnderWay' = UnderWay /\ i \in UnderWay
  BY <1>0, <1>1, <1>3 DEF UnderWay
<1>6. i \in Came(r)
  <2>1. r \in Nat /\ i \in Nat /\ i >= 1
    BY <1>4, Walk DEF IsFile, Ids
  <2> QED BY <1>4, <2>1 DEF Came
<1>7. /\ Len(Ahead') = Len(Ahead) - 1 /\ Ahead'[1] = Item("data", i, landing'.at)
      /\ \A k \in 2..Len(Ahead) - 1 : Ahead'[k] = Ahead[k + 1]
  BY <1>1, <1>2, <1>3, AheadLanding
<1>8. Ahead'[1].is = "data" /\ Ahead[1].is = "data" /\ Ahead[2].is = "chunk"
  BY <1>1, <1>4, <1>7 DEF Item
<1>9. \A k \in 1..Len(Ahead') : k = 1 \/ (k \in 2..Len(Ahead) - 1 /\ k + 1 \in 1..Len(Ahead))
  BY <1>4, <1>7
<1>10. Finished(Ahead, r)'
  <2>1. \A k \in 1..Len(Ahead') : Ahead'[k] = Ahead[k + 1] \/ Ahead'[k].is # "done"
    BY <1>7, <1>8, <1>9
  <2>2. ASSUME NEW j \in r + 1..walked, Holds(Ahead, j) PROVE Holds(Ahead, j)'
    <3>1. PICK k \in 1..Len(Ahead) : Ahead[k].is = "entry" /\ Ahead[k].id = j
      BY <2>2 DEF Holds
    <3>2. k # 1 /\ k # 2
      BY <1>8, <3>1
    <3>3. k - 1 \in 2..Len(Ahead) - 1 /\ (k - 1) + 1 = k /\ k - 1 \in 1..Len(Ahead')
      BY <1>4, <1>7, <3>2
    <3>4. Ahead'[k - 1] = Ahead[k]
      BY <1>7, <3>3
    <3> QED BY <3>1, <3>3, <3>4 DEF Holds
  <2>3. r \in Nat /\ r <= r /\ 1 \in Nat /\ Len(Ahead') \in Nat /\ Finished(Ahead, r)
    BY <1>4, <1>7 DEF Agreed
  <2> QED BY <1>2, <1>7, <2>1, <2>2, <2>3, FinishedTaken
<1>11. \A id : OldSame(id)
  <2> SUFFICES ASSUME NEW k \in 1..Len(Ahead'), Ahead'[k].is = "same"
               PROVE  \E l \in 1..Len(Ahead) : Ahead[l] = Ahead'[k]
    BY DEF OldSame
  <2>1. k \in 2..Len(Ahead) - 1 /\ k + 1 \in 1..Len(Ahead)
    BY <1>8, <1>9
  <2> QED BY <1>7, <2>1
<1>12. \A f \in Files : f # Entry(i).at => part'[f] = part[f]
  BY <1>1 DEF Types
<1>13. awaited' \subseteq awaited /\ i \notin awaited'
  BY <1>1, <1>4
<1> QED BY <1>1, <1>2, <1>5, <1>6, <1>10, <1>11, <1>12, <1>13, PartGrows

LEMMA ChunkKeeps ==
    ASSUME Inv, Chunk
    PROVE  Inv'
<1>0. PICK i, n : i = landing.id /\ n = landing.at
  OBVIOUS
<1>1. /\ Types /\ WholeFiles /\ receiver = "landing" /\ receiver' = "landing" /\ pipe # <<>> /\ pipe' = Tail(pipe)
      /\ Head(pipe).is = "chunk" /\ sentUnchanged /\ UNCHANGED <<open, awaited, file, replies>>
      /\ part' = [part EXCEPT ![Entry(i).at] = Append(SubSeq(@, 1, n), Head(pipe).n)]
      /\ landing' = [landing EXCEPT !.at = @ + 1]
  BY <1>0 DEF Inv, Chunk, Arrived
<1>2. UNCHANGED <<copy, was, walked, link, buf, sender, bytes, gaveUp>>
  BY <1>1 DEF sentUnchanged, sendVars
<1>3. landing' \in [id : Nat, at : Nat] /\ landing'.id = i /\ landing'.at = n + 1 /\ i \in Nat /\ n \in Nat
  <2>1. landing \in [id : Nat, at : Nat]
    BY <1>1 DEF Types
  <2> QED BY <1>0, <1>1, <2>1
<1>4. PICK r \in 0..walked : LiveAt(Ahead, r) /\ Agreed(Ahead, r)
  BY <1>1 DEF Inv, Live
<1> DEFINE f == Entry(i).at
           whole == Entry(i).whole
<1>5. /\ IsFile(i) /\ i \notin awaited /\ i <= r /\ ~copy.dry
      /\ whole \in Seq(Nat) /\ n \in 0..Len(whole) /\ f \in Files
      /\ part[f] = SubSeq(whole, 1, n)
      /\ n < Len(whole) /\ Head(pipe).n = whole[n + 1]
      /\ Ahead[1] = Item("data", i, n) /\ Ahead[2] = Head(pipe) /\ Len(Ahead) >= 2 /\ Len(Ahead) \in Nat
  BY <1>0, <1>1, <1>3, <1>4, LandsNext
<1>6. /\ pipe' \in Seq(AnItem)
      /\ Len(Ahead') = Len(Ahead) - 1 /\ Ahead'[1] = Item("data", i, n + 1)
      /\ \A k \in 2..Len(Ahead) - 1 : Ahead'[k] = Ahead[k + 1]
  BY <1>1, <1>2, <1>3, AheadLanding
<1>7. /\ Ahead[1].is = "data" /\ Ahead[1].id = i /\ Ahead[1].n = n
      /\ Ahead'[1].is = "data" /\ Ahead'[1].id = i /\ Ahead'[1].n = n + 1
  BY <1>5, <1>6 DEF Item
<1>8. n + 1 \in 0..Len(whole) /\ n + 1 <= Len(whole) /\ 1 \in 1..Len(Ahead')
  BY <1>3, <1>5, <1>6, Elements
<1>9. part' = [part EXCEPT ![f] = SubSeq(whole, 1, n + 1)]
  <2>1. SubSeq(part[f], 1, n) = part[f] /\ Append(part[f], whole[n + 1]) = SubSeq(whole, 1, n + 1)
    BY <1>5, NextStart
  <2> QED BY <1>1, <1>5, <2>1
<1>10. /\ WholeFiles' /\ part' \in [Files -> Contents \cup {None}]
       /\ \A id \in Ids : Entry(id).is = "file" /\ id # i => part'[Entry(id).at] = part[Entry(id).at]
  BY <1>1, <1>2, <1>5, <1>8, <1>9, LandsPart
<1>11. Types'
  BY <1>1, <1>3, <1>6, <1>10, ReceiverTypes DEF Types
<1>12. Stream(Ahead, r)' /\ (link = "up" => AllAhead(Ahead, r))'
  <2>1. \A k \in 1..Len(Ahead') : Ahead'[k] = Ahead[k + 1] \/ k = 1
    BY <1>5, <1>6
  <2>2. Ahead[1].is # "entry" /\ Ahead[2].is # "entry"
    BY <1>1, <1>5, <1>7
  <2> QED BY <1>1, <1>2, <1>4, <1>5, <1>6, <1>7, <1>8, <2>1, <2>2, StreamLands DEF LiveAt
<1>13. Runs(Ahead)' /\ (link = "up" => Hand(Ahead))'
  <2>1. /\ Ahead[2].is = "chunk" /\ Ahead[1].n \in Nat
        /\ Ahead'[1] = Item("data", Ahead[1].id, Ahead[1].n + 1)
        /\ \A k \in 2..Len(Ahead') : Ahead'[k] = Ahead[k + 1]
    BY <1>1, <1>3, <1>5, <1>6, <1>7
  <2>2. Runs(Ahead)'
    BY <1>1, <1>2, <1>4, <1>5, <1>6, <1>7, <2>1, RunsLand DEF LiveAt
  <2>3. (link = "up" => Hand(Ahead))'
    BY <1>1, <1>2, <1>4, <1>5, <1>6, <1>7, <2>1, HandLands DEF LiveAt
  <2> QED BY <2>2, <2>3
<1>14. Fits(Ahead)' /\ Spared(Ahead)' /\ Awaiting(r)' /\ Opened(r)'
  <2>1. ASSUME NEW id \in awaited' PROVE OldData(id)
    <3> SUFFICES ASSUME NEW k \in 1..Len(Ahead'), Ahead'[k].id = id
                 PROVE  \E l \in 1..Len(Ahead) : Ahead[l] = Ahead'[k]
      BY DEF OldData
    <3>1. k # 1
      BY <1>1, <1>5, <1>7, <2>1
    <3>2. k \in 2..Len(Ahead) - 1 /\ k + 1 \in 1..Len(Ahead)
      BY <1>5, <1>6, <3>1
    <3> QED BY <1>6, <3>2
  <2>2. awaited' \subseteq awaited /\ i \notin awaited'
    BY <1>1, <1>5
  <2> QED BY <1>1, <1>2, <1>4, <1>10, <2>1, <2>2, OthersFit
<1>15. Lands'
  <2>1. part'[f] = SubSeq(whole, 1, n + 1)
    BY <1>1, <1>5, <1>9 DEF Types
  <2>2. IsFile(landing.id)' /\ Entry(landing.id)' = Entry(i)
    <3>1. IsFile(i)' /\ Entry(i)' = Entry(i)
      BY <1>2, <1>5, SameWalk
    <3> QED BY <1>3, <3>1
  <2> QED BY <1>1, <1>2, <1>3, <1>5, <1>8, <2>1, <2>2 DEF Lands
<1>16. LiveAt(Ahead, r)'
  BY <1>12, <1>13, <1>14, <1>15 DEF LiveAt
<1>17. Agreed(Ahead, r)'
  BY <1>1, <1>4, ChunkAgrees
<1> QED BY <1>2, <1>10, <1>11, <1>16, <1>17 DEF Inv, Live

LEMMA RenameAgrees ==
    ASSUME Types, Rename, NEW r \in 0..walked, LiveAt(Ahead, r), Agreed(Ahead, r)
    PROVE  Agreed(Ahead, r)'
<1>0. PICK i : i = landing.id
  OBVIOUS
<1>1. /\ receiver = "landing" /\ receiver' = "reading" /\ pipe # <<>> /\ pipe' = Tail(pipe)
      /\ Head(pipe).is = "sent" /\ sentUnchanged /\ landing' = Nothing /\ counted' = counted + 1
      /\ UNCHANGED <<open, awaited, dirs, replies>> /\ CloseReady(closing, awaited)
      /\ file' = [file EXCEPT ![Entry(i).at] = part[Entry(i).at]]
      /\ part' = [part EXCEPT ![Entry(i).at] = None]
  BY <1>0 DEF Rename, Arrived
<1>2. UNCHANGED <<copy, link, walked, buf, sender, gaveUp>>
  BY <1>1 DEF sentUnchanged, sendVars
<1>3. landing' \in [id : Nat, at : Nat] /\ landing.at \in Nat /\ i \in Nat
  BY <1>0, <1>1 DEF Types, Nothing
<1>4. /\ IsFile(i) /\ i \notin awaited /\ i <= r /\ Entry(i).at \in Files
      /\ Entry(i).whole \in Seq(Nat) /\ landing.at \in 0..Len(Entry(i).whole)
      /\ part[Entry(i).at] = SubSeq(Entry(i).whole, 1, landing.at) /\ landing.at = Len(Entry(i).whole)
      /\ Ahead[1] = Item("data", i, landing.at) /\ Ahead[2] = Head(pipe) /\ Len(Ahead) >= 2 /\ Len(Ahead) \in Nat
  BY <1>0, <1>1, <1>3, LandsNext
<1>5. UnderWay = awaited \cup {i} /\ i \in UnderWay /\ UnderWay' = awaited'
  BY <1>0, <1>1 DEF UnderWay
<1>6. i \in Came(r)
  <2>1. r \in Nat /\ i \in Nat /\ i >= 1
    BY <1>4, Walk DEF IsFile, Ids
  <2> QED BY <1>4, <2>1 DEF Came
<1>7. /\ Len(Ahead') = Len(Ahead) - 2
      /\ \A k \in 1..Len(Ahead) - 2 : Ahead'[k] = Ahead[k + 2]
  BY <1>1, <1>2, <1>3, AheadLanding
<1>8. \A k \in 1..Len(Ahead') : Ahead'[k] = Ahead[k + 2] /\ k + 2 \in 1..Len(Ahead)
  BY <1>4, <1>7
<1>9. Ahead[1].is = "data" /\ Ahead[2].is = "sent"
  BY <1>1, <1>4 DEF Item
<1>10. Finished(Ahead, r)'
  <2>2. ASSUME NEW j \in r + 1..walked, Holds(Ahead, j) PROVE Holds(Ahead, j)'
    <3>1. PICK k \in 1..Len(Ahead) : Ahead[k].is = "entry" /\ Ahead[k].id = j
      BY <2>2 DEF Holds
    <3>2. k # 1 /\ k # 2
      BY <1>9, <3>1
    <3>3. (k - 2) + 2 = k /\ k - 2 \in 1..Len(Ahead')
      BY <1>4, <1>7, <3>2
    <3>4. Ahead'[k - 2] = Ahead[k]
      BY <1>8, <3>3
    <3> QED BY <3>1, <3>3, <3>4 DEF Holds
  <2>3. r \in Nat /\ r <= r /\ 2 \in Nat /\ Len(Ahead') \in Nat /\ Finished(Ahead, r)
    BY <1>4, <1>7 DEF Agreed
  <2> QED BY <1>2, <1>7, <1>8, <2>2, <2>3, FinishedTaken
<1>11. \A id : OldSame(id)
  BY <1>8 DEF OldSame
<1>12. file'[Entry(i).at] = Entry(i).whole /\ part'[Entry(i).at] = None
  <2>1. part[Entry(i).at] = Entry(i).whole
    BY <1>4, NextStart
  <2> QED BY <1>1, <1>4, <2>1 DEF Types
<1>13. \A f \in Files : f # Entry(i).at => file'[f] = file[f] /\ part'[f] = part[f]
  BY <1>1 DEF Types
<1>14. awaited' = UnderWay \ {i} /\ awaited' \subseteq awaited /\ CloseReady(closing, awaited')
  BY <1>1, <1>4, <1>5
<1> QED BY <1>1, <1>2, <1>5, <1>6, <1>10, <1>11, <1>12, <1>13, <1>14, FileLands

LEMMA RenameKeeps ==
    ASSUME Inv, Rename
    PROVE  Inv'
<1>0. PICK i, n : i = landing.id /\ n = landing.at
  OBVIOUS
<1>1. /\ Types /\ WholeFiles /\ receiver = "landing" /\ receiver' = "reading" /\ pipe # <<>> /\ pipe' = Tail(pipe)
      /\ Head(pipe).is = "sent" /\ sentUnchanged /\ UNCHANGED <<open, awaited, replies>>
      /\ file' = [file EXCEPT ![Entry(i).at] = part[Entry(i).at]]
      /\ part' = [part EXCEPT ![Entry(i).at] = None] /\ landing' = Nothing
  BY <1>0 DEF Inv, Rename, Arrived
<1>2. UNCHANGED <<copy, was, walked, link, buf, sender, bytes, gaveUp>>
  BY <1>1 DEF sentUnchanged, sendVars
<1>3. landing' \in [id : Nat, at : Nat] /\ i \in Nat /\ n \in Nat
  BY <1>0, <1>1 DEF Types, Nothing
<1>4. PICK r \in 0..walked : LiveAt(Ahead, r) /\ Agreed(Ahead, r)
  BY <1>1 DEF Inv, Live
<1> DEFINE f == Entry(i).at
           whole == Entry(i).whole
<1>5. /\ IsFile(i) /\ i \notin awaited /\ ~copy.dry
      /\ whole \in Seq(Nat) /\ n \in 0..Len(whole) /\ f \in Files
      /\ part[f] = SubSeq(whole, 1, n) /\ n = Len(whole)
      /\ Ahead[1] = Item("data", i, n) /\ Ahead[2] = Head(pipe) /\ Len(Ahead) >= 2 /\ Len(Ahead) \in Nat
  BY <1>0, <1>1, <1>3, <1>4, LandsNext
<1>6. /\ pipe' \in Seq(AnItem) /\ Len(Ahead') = Len(Ahead) - 2
      /\ \A k \in 1..Len(Ahead) - 2 : Ahead'[k] = Ahead[k + 2]
  BY <1>1, <1>2, <1>3, AheadLanding
<1>7. \A k \in 1..Len(Ahead') : Ahead'[k] = Ahead[k + 2] /\ k + 2 \in 1..Len(Ahead)
  BY <1>5, <1>6
<1>8. part[f] = whole
  BY <1>5, NextStart
<1>9. /\ WholeFiles' /\ part' \in [Files -> Contents \cup {None}]
      /\ file' \in [Files -> Contents \cup {None, Link}]
      /\ \A id \in Ids : Entry(id).is = "file" /\ id # i => part'[Entry(id).at] = part[Entry(id).at]
  BY <1>1, <1>2, <1>5, <1>8, LandsPart
<1>10. Types'
  BY <1>1, <1>3, <1>6, <1>9, ReceiverTypes DEF Types
<1>11. Stream(Ahead, r)' /\ (link = "up" => AllAhead(Ahead, r))'
  <2>1. Ahead[1].is # "entry" /\ Ahead[2].is # "entry"
    BY <1>1, <1>5 DEF Item
  <2> QED BY <1>1, <1>2, <1>4, <1>5, <1>6, <1>7, <2>1, StreamLands DEF LiveAt
<1>12. Runs(Ahead)' /\ (link = "up" => Hand(Ahead))'
  <2>1. Runs(Ahead)'
    BY <1>1, <1>2, <1>4, <1>5, <1>6, <1>7, RunsTaken DEF LiveAt
  <2>2. (link = "up" => Hand(Ahead))'
    BY <1>1, <1>2, <1>4, <1>5, <1>6, <1>7, HandTaken DEF LiveAt
  <2> QED BY <2>1, <2>2
<1>13. Fits(Ahead)' /\ Spared(Ahead)' /\ Awaiting(r)' /\ Opened(r)'
  <2>1. \A id : OldData(id)
    BY <1>7 DEF OldData
  <2>2. awaited' \subseteq awaited /\ i \notin awaited'
    BY <1>1, <1>5
  <2> QED BY <1>1, <1>2, <1>4, <1>9, <2>1, <2>2, OthersFit
<1>14. Lands'
  BY <1>1 DEF Lands
<1>15. LiveAt(Ahead, r)'
  BY <1>11, <1>12, <1>13, <1>14 DEF LiveAt
<1>16. Agreed(Ahead, r)'
  BY <1>1, <1>4, RenameAgrees
<1> QED BY <1>2, <1>9, <1>10, <1>15, <1>16 DEF Inv, Live

LEMMA HeaderAgrees ==
    ASSUME Types, NEW r \in 0..walked, LiveAt(Ahead, r), Agreed(Ahead, r), NEW q, q = Head(pipe).id,
           receiver = "reading", receiver' = "reading", pipe # <<>>, pipe' = Tail(pipe),
           Head(pipe).is = "entry", Entry(q).is = "file", sentUnchanged,
           UNCHANGED <<landing, closing, closed, counted, file, part, dirs>>,
           awaited' = awaited \cup {q}, NEW f, f = Entry(q).at,
           NEW parts \in SUBSET Files, parts \subseteq {f}, open' = Saw({f}, parts),
           NEW a, a.id = q, Reply(a), a \in AnAnswer, a.is # "end", Sound(a),
           a.is = "check" => a.have = file[f] /\ parts = {}
    PROVE  Agreed(Ahead, q)'
<1>1. UNCHANGED copy
  BY DEF sentUnchanged
<1>2. Next2(r, q) /\ ~Skipped(q) /\ Finished(Ahead, q)' /\ \A id : OldSame(id)
  BY ItemTaken, ItemAgrees DEF Agreed
<1>3. Landed(r) /\ Same(Ahead, r) /\ UnderWay' = UnderWay \cup {q} /\ Awaiting(r) /\ Frames(r)
  BY DEF Agreed, UnderWay, LiveAt, Landed
<1>4. q \in Ids /\ f \in Files /\ r \in Nat /\ q \in Nat /\ r < q /\ q \notin Came(r)
  BY <1>2, CameOn, Walk
<1>5. /\ Came(q)' = Came(r) \cup {q} /\ Came(q) = Came(r) \cup {q} /\ EndedBy(q) = EndedBy(r)
      /\ \A i \in 1..q : ~Skipped(i) => i \in 1..r \/ i = q
  <2>1. Came(q) = Came(r) \cup {q} /\ \A i \in 1..q : ~Skipped(i) => i \in 1..r \/ i = q
    BY <1>2, CameOn
  <2>2. Came(q)' = Came(q)
    BY <1>1, SameLanding
  <2>3. EndedBy(q) = EndedBy(r)
    BY <1>2, EndedOn
  <2> QED BY <2>1, <2>2, <2>3
<1>6. \A i : Entry(i)' = Entry(i) /\ Skipped(i)' = Skipped(i)
  BY <1>1, SameWalk
<1>7. /\ In[f] \notin EndedBy(r) /\ (\A d \in Above[f] : d \notin EndedBy(r))
      /\ ~copy.dry => \A k \in 1..Len(open) : f \notin open[k].parts
      /\ \A i \in 1..r : Entry(i).is # "end" => Entry(i).at # f
  BY <1>2, <1>3, FreshFile
<1>8. Counts(q)'
  <2>1. Came(q)' \ UnderWay' = Came(r) \ UnderWay
    BY <1>3, <1>4, <1>5
  <2> QED BY <1>3, <2>1 DEF Landed, Counts
<1>9. Placed(q)'
  <2> SUFFICES ASSUME ~copy.dry
               PROVE  /\ \A i \in 1..q : Entry(i).is \in {"file", "link"} /\ ~Skipped(i) /\ i \notin UnderWay' =>
                            file[Entry(i).at] = Entry(i).whole
                      /\ \A j \in DirIds : j <= q => Entry(j).at \in dirs
    BY <1>1, <1>6, SameWalk DEF Placed
  <2>1. ASSUME NEW i \in 1..q, Entry(i).is \in {"file", "link"}, ~Skipped(i), i \notin UnderWay'
        PROVE  file[Entry(i).at] = Entry(i).whole
    <3>1. i \in 1..r /\ i \notin UnderWay
      BY <1>3, <1>5, <2>1
    <3> QED BY <1>3, <2>1, <3>1 DEF Landed, Placed
  <2>2. ASSUME NEW j \in DirIds, j <= q PROVE Entry(j).at \in dirs
    <3>1. j <= r
      BY <1>2, <2>2, NoDirBetween
    <3> QED BY <1>3, <3>1 DEF Landed, Placed
  <2> QED BY <2>1, <2>2
<1>10. Closes(q)'
  <2>1. \A d \in closed : d \in EndedBy(r)
    BY <1>3 DEF Landed, Closes
  <2>2. \A id \in UnderWay' : id \notin UnderWay => \A d \in closed : d \notin Above[Entry(id).at]
    BY <1>3, <1>7, <2>1
  <2> QED BY <1>1, <1>3, <1>5, <2>2, ClosesStill DEF Landed
<1>11. Cleared(q)'
  BY <1>1, <1>3, <1>5, ClearedStill DEF Landed
<1>12. \A k \in 1..Len(open') :
          /\ k \in 1..Len(open) /\ open'[k].seen \subseteq open[k].seen \cup {f}
          /\ open'[k].parts \subseteq open[k].parts \cup parts
  <2>1. {f} \in SUBSET (Files \cup Dirs)
    BY <1>4
  <2>2. Len(open') = Len(open)
    BY <2>1, SawIs
  <2> QED BY <2>1, <2>2, SawNoMore
<1>13. Frames(q)'
  <2>1. \A k \in 1..Len(open') :
          \/ /\ k \in 1..Len(open) /\ open'[k].seen \subseteq open[k].seen \cup {Entry(q).at}
             /\ open'[k].parts \subseteq open[k].parts \cup parts
          \/ open'[k].seen = {} /\ open'[k].parts = {}
    BY <1>12
  <2>2. /\ \A g \in parts : g = Entry(q).at /\ q \in Came(q) /\ q \in UnderWay'
        /\ UnderWay \subseteq UnderWay' /\ Entry(q).is # "end" /\ Frames(r)
        /\ ~copy.dry => \A i \in Came(r) : part[Entry(i).at] = None => part'[Entry(i).at] = None
    BY <1>3, <1>5
  <2> QED BY <1>1, <1>2, <2>1, <2>2, FramesOn
<1>14. /\ \A k \in 1..Len(replies') : replies'[k] = a \/ \E l \in 1..Len(replies) : replies[l] = replies'[k]
       /\ \A k \in 1..Len(replies) : replies[k].is # "end" => replies[k].id \in Nat /\ replies[k].id <= r
  <2>1. \A k \in 1..Len(replies) : replies[k] \in AnAnswer
    BY Elements DEF Types
  <2> QED BY <1>3, <2>1, RepliesGrow DEF Awaiting, AnAnswer
<1>15. ASSUME NEW id \in awaited PROVE SameAt(Ahead, id, q)'
  <2>1. id \in 1..r /\ Entry(id).is = "file" /\ id # q
    BY <1>3, <1>4, Walk DEF Awaiting, IsFile, Ids
  <2>2. OldChecks(id)
    BY <1>14, <2>1 DEF OldChecks
  <2>3. \A k \in 1..Len(open') :
            Entry(id).at \in open'[k].parts => \E l \in 1..Len(open) : Entry(id).at \in open[l].parts
    BY <1>7, <1>12, <2>1
  <2> QED BY <1>1, <1>2, <1>3, <1>5, <2>2, <2>3, SameAtStill
<1>16. SameAt(Ahead, q, q)'
  <2>1. \A k \in 1..Len(Ahead') : Ahead'[k].is = "same" => Ahead'[k].id <= r
    <3>1. r <= r
      BY <1>4
    <3> QED BY <1>2, <1>3, <1>4, <3>1, SameCame
  <2>2. \A k \in 1..Len(Ahead') : Ahead'[k].is = "same" => Ahead'[k].id # q
    BY <1>4, <2>1
  <2>3. ASSUME NEW k \in 1..Len(replies'), replies'[k].is = "check", replies'[k].id = q PROVE replies'[k] = a
    <3>1. \A l \in 1..Len(replies) : replies[l].is = "check" => replies[l].id # q
      BY <1>4, <1>14
    <3> QED BY <1>14, <2>3, <3>1
  <2>4. Compared(Ahead, q)' => a.is = "check"
    BY <2>2, <2>3 DEF Compared
  <2>5. ASSUME a.is = "check", ~copy.dry PROVE Unkept(f, q)'
    <3>1. \A k \in 1..Len(open') : f \notin open'[k].parts
      BY <1>7, <1>12, <2>5
    <3>2. EndedBy(q)' = EndedBy(r)
      BY <1>1, <1>5, SameLanding
    <3> QED BY <1>7, <3>1, <3>2 DEF Unkept
  <2>6. (Unkept(Entry(q).at, q))' <=> Unkept(f, q)'
    BY <1>6
  <2> QED BY <1>1, <1>6, <2>2, <2>3, <2>4, <2>5, <2>6 DEF SameAt
<1>17. Same(Ahead, q)'
  <2>1. \A k \in 1..Len(Ahead') : Ahead'[k].is = "same" => Ahead'[k].id <= q
    <3>1. r <= q
      BY <1>4
    <3> QED BY <1>2, <1>3, <1>4, <3>1, SameCame
  <2> QED BY <1>15, <1>16, <2>1 DEF Same
<1> QED BY <1>2, <1>8, <1>9, <1>10, <1>11, <1>13, <1>17 DEF Agreed, Landed

LEMMA HeaderKeeps ==
    ASSUME Inv, Header
    PROVE  Inv'
<1>0. PICK q : q = Head(pipe).id
  OBVIOUS
<1> DEFINE f == Entry(q).at
           size == Len(Entry(q).whole)
<1>1. Types /\ WholeFiles /\ receiver = "reading" /\ pipe # <<>> /\ pipe' = Tail(pipe)
      /\ Head(pipe).is = "entry" /\ Entry(q).is = "file" /\ sentUnchanged
  BY <1>0 DEF Inv, Header, AtEntry, At
<1>2. UNCHANGED <<copy, was, walked, link, landing, closing, closed, counted, file, part, dirs>>
  BY DEF Header, sentUnchanged, sendVars, landVars
<1>3. pipe' \in Seq(AnItem) /\ WholeFiles'
  <2>1. pipe \in Seq(AnItem)
    BY <1>1 DEF Types
  <2> QED BY <1>1, <1>2, <2>1, Taken, WholeKept
<1>4. CASE receiver' = "ended" /\ UNCHANGED <<open, awaited, replies>>
  <2>1. Types'
    BY <1>1, <1>2, <1>3, <1>4, ReceiverTypes DEF Types
  <2> QED BY <1>3, <1>4, <2>1, EndedKeeps
<1>5. ASSUME NEW a, Reply(a), receiver' = "reading", awaited' = awaited \cup {q},
             NEW parts \in SUBSET Files, parts \subseteq {f}, open' = Saw({f}, parts),
             \/ SameSize(f, size) /\ a = Answer("check", q, file[f]) /\ parts = {}
             \/ /\ a = Answer("want", q, IF Resumable(f, size) THEN part[f] ELSE <<>>)
                /\ f \in parts
      PROVE  Inv'
  <2>1. PICK r \in 0..walked : LiveAt(Ahead, r) /\ Agreed(Ahead, r)
    BY <1>1 DEF Inv, Live
  <2>2. /\ q \in 0..walked /\ Stream(Ahead, q)' /\ Runs(Ahead)'
        /\ (link = "up" => AllAhead(Ahead, q) /\ Hand(Ahead))'
        /\ (\A id : OldData(id)) /\ Next2(r, q) /\ q > r /\ ~Skipped(q)
        /\ \A k \in 1..Len(Ahead') : \E l \in 1..Len(Ahead) : Ahead'[k] = Ahead[l]
    BY <1>0, <1>1, <1>5, <2>1, ItemTaken
  <2>3. /\ Opened(r) /\ Awaiting(r) /\ Spared(Ahead) /\ Stream(Ahead, r) /\ q \in Ids /\ r \in Nat /\ q \in Nat
        /\ \A id \in awaited : IsFile(id) /\ id <= r
    BY <1>1, <2>1, <2>2, Walk DEF LiveAt, Next2, Ids, Awaiting
  <2>4. IsFile(q) /\ f \in Files
    BY <1>1, <2>2, <2>3, Walk DEF IsFile, Skipped
  <2>5. /\ a \in AnAnswer /\ a.is # "end" /\ a.id = q /\ Sound(a)
        /\ a.is = "want" => a.have = <<>> \/ part[f] = a.have
        /\ a.is = "want" => f \in parts
    <3>1. a.is = "want" => f \in parts
      BY <1>5 DEF Answer
    <3>2. \/ SameSize(f, size) /\ a = Answer("check", q, file[f])
          \/ a = Answer("want", q, IF Resumable(f, size) THEN part[f] ELSE <<>>)
      BY <1>5
    <3>3. Types /\ IsFile(q) /\ q \in Nat
      BY <1>1, <2>3, <2>4
    <3> QED BY <3>1, <3>2, <3>3, AnswersHeader
  <2>6. /\ replies' \in Seq(AnAnswer)
        /\ \A k \in 1..Len(replies') : replies'[k] = a \/ \E l \in 1..Len(replies) : replies[l] = replies'[k]
        /\ \A k \in 1..Len(replies') : replies'[k].is # "end" => Sound(replies'[k])
    BY <1>1, <1>5, <2>5, RepliesGrow
  <2>7. /\ open' \in Seq(AFrame) /\ Len(open') = Len(open) /\ Len(open) \in Nat
        /\ \A k \in 1..Len(open) :
              /\ open'[k].dir = open[k].dir /\ open[k].seen \subseteq open'[k].seen
              /\ open[k].parts \subseteq open'[k].parts
              /\ k = Len(open) => f \in open'[k].seen /\ parts \subseteq open'[k].parts
    <3>1. {f} \in SUBSET (Files \cup Dirs)
      BY <2>4
    <3>2. /\ open' \in Seq(AFrame) /\ Len(open') = Len(open) /\ Len(open) \in Nat
          /\ \A k \in 1..Len(open) :
                /\ open'[k].dir = open[k].dir /\ open[k].seen \subseteq open'[k].seen
                /\ open[k].parts \subseteq open'[k].parts
                /\ k = Len(open) => {f} \subseteq open'[k].seen /\ parts \subseteq open'[k].parts
      BY <1>1, <1>5, <3>1, SawIs, Zenon
    <3> QED BY <3>2
  <2>8. Types'
    BY <1>1, <1>2, <1>3, <1>5, <2>6, <2>7, ReceiverTypes DEF Types
  <2>9. Opened(q)'
    BY <1>1, <1>2, <2>2, <2>3, <2>7, OpenedOn
  <2>10. \A i \in Ids : i \in Nat
    BY <1>1, Walk DEF Ids
  <2>11. \A k \in 1..Len(replies) : replies[k].is # "end" => replies[k].id \in Nat /\ replies[k].id <= r
    BY <1>1, <2>3, <2>10 DEF Awaiting, Types, Sound, IsFile
  <2>12. ASSUME NEW id \in awaited PROVE FitsAt(Ahead, id)' /\ SparedAt(Ahead, id)'
    <3>1. id # q
      BY <2>2, <2>3, <2>10, <2>12 DEF IsFile
    <3>2. OldReplies(id) /\ OldData(id)
      BY <2>2, <2>5, <2>6, <3>1 DEF OldReplies
    <3>3. Spoken(Ahead, id) =>
            \A k \in 1..Len(open') : open'[k].dir = In[Entry(id).at] => Entry(id).at \in open'[k].parts
      BY <2>3, <2>7, <2>12 DEF Spared, SparedAt
    <3> QED BY <1>1, <1>2, <2>1, <2>12, <3>2, <3>3, StillFits
  <2>13. Entry(q)' = Entry(q)
    BY <1>2, SameWalk
  <2>14. ASSUME NEW k \in 1..Len(Ahead'), Ahead'[k].is = "data" PROVE Ahead'[k].id # q
    <3>1. PICK l \in 1..Len(Ahead) : Ahead'[k] = Ahead[l]
      BY <2>2
    <3>2. Ahead[l].id <= r
      BY <2>3, <2>14, <3>1 DEF Stream
    <3> QED BY <2>2, <2>3, <3>1, <3>2
  <2>15. ASSUME NEW k \in 1..Len(replies'), replies'[k].is = "want", replies'[k].id = q PROVE replies'[k] = a
    <3>1. ASSUME NEW l \in 1..Len(replies), replies[l] = replies'[k] PROVE FALSE
      BY <2>2, <2>3, <2>11, <2>15, <3>1
    <3> QED BY <2>6, <3>1
  <2>16. FitsAt(Ahead, q)' /\ SparedAt(Ahead, q)'
    <3>1. FitsAt(Ahead, q)'
      BY <1>2, <2>5, <2>13, <2>14, <2>15 DEF FitsAt
    <3>2. ASSUME Spoken(Ahead, q)', NEW k \in 1..Len(open'), open'[k].dir = In[f] PROVE f \in open'[k].parts
      <4>1. f \in parts
        BY <2>5, <2>14, <2>15, <3>2 DEF Spoken
      <4>2. k = Len(open)
        BY <1>1, <2>2, <2>3, <2>7, <3>2, Innermost
      <4> QED BY <2>7, <3>2, <4>1, <4>2
    <3> QED BY <2>13, <3>1, <3>2 DEF SparedAt
  <2>17. Awaiting(q)'
    <3>1. \A i : IsFile(i)' = IsFile(i)
      BY <1>2, SameWalk
    <3>2. \A id \in awaited' : IsFile(id) /\ id <= q
      <4>1. \A id \in awaited : IsFile(id) /\ id <= r /\ id \in Nat
        BY <2>3, <2>10 DEF IsFile
      <4>2. \A id \in awaited : id <= q
        BY <2>2, <2>3, <4>1
      <4> QED BY <1>5, <2>3, <2>4, <4>1, <4>2
    <3>3. ASSUME NEW k \in 1..Len(replies'), replies'[k].is # "end" PROVE replies'[k].id <= q
      <4>1. CASE replies'[k] = a
        BY <2>3, <2>5, <4>1
      <4>2. ASSUME NEW l \in 1..Len(replies), replies[l] = replies'[k] PROVE replies'[k].id <= q
        BY <2>2, <2>3, <2>11, <3>3, <4>2
      <4> QED BY <2>6, <4>1, <4>2
    <3> QED BY <3>1, <3>2, <3>3 DEF Awaiting
  <2>18. Lands'
    BY <1>5 DEF Lands
  <2>19. LiveAt(Ahead, q)'
    BY <1>5, <2>2, <2>9, <2>12, <2>16, <2>17, <2>18 DEF LiveAt, Fits, Spared
  <2>20. a.is = "check" => a.have = file[f] /\ parts = {}
    BY <1>5 DEF Answer
  <2>21. Agreed(Ahead, q)'
    BY <1>0, <1>1, <1>2, <1>5, <2>1, <2>5, <2>20, HeaderAgrees
  <2> QED BY <1>2, <1>3, <2>2, <2>8, <2>19, <2>21 DEF Inv, Live
<1>6. CASE /\ SameSize(f, size) /\ Reply(Answer("check", q, file[f]))
           /\ open' = Saw({f}, {}) /\ awaited' = awaited \cup {q} /\ receiver' = "reading"
  BY <1>5, <1>6
<1>7. CASE /\ Reply(Answer("want", q, IF Resumable(f, size) THEN part[f] ELSE <<>>))
           /\ open' = Saw({f}, {f}) /\ awaited' = awaited \cup {q} /\ receiver' = "reading" /\ {f} \subseteq Files
  BY <1>5, <1>7
<1>8. f \in Files
  <2>1. PICK r \in 0..walked : LiveAt(Ahead, r) /\ Agreed(Ahead, r)
    BY <1>1 DEF Inv, Live
  <2>2. q \in Ids
    <3>1. Ahead = Queued /\ Queued[1] = Head(pipe) /\ 1 \in 1..Len(Queued)
      <4>1. UNCHANGED <<buf, link>> /\ Ahead = Queued /\ Queued \in Seq(AnItem)
        BY <1>1, AheadIs DEF sentUnchanged, Types
      <4>2. Queued[1] = Head(pipe) /\ Len(Queued) >= 1
        BY <1>1, <4>1, QueuedTaken DEF Types
      <4> QED BY <4>1, <4>2, Elements
    <3>2. q \in r + 1..walked
      BY <1>0, <1>1, <2>1, <3>1 DEF LiveAt, Stream
    <3> QED BY <1>1, <3>2, Walk DEF Types, Ids
  <2> QED BY <1>1, <2>2, Walk
<1> QED BY <1>0, <1>1, <1>4, <1>6, <1>7, <1>8 DEF Header, Here, SawPart, Goes, Ends

LEMMA LeaveAgrees ==
    ASSUME Types, NEW r \in 0..walked, LiveAt(Ahead, r), Agreed(Ahead, r), Leave, NEW q, q = Head(pipe).id
    PROVE  Agreed(Ahead, q)'
<1>0. PICK last : last = open[Len(open)]
  OBVIOUS
<1>1. /\ receiver = "reading" /\ receiver' = "reading" /\ pipe # <<>> /\ pipe' = Tail(pipe)
      /\ Head(pipe).is = "entry" /\ Entry(q).is = "end" /\ open # <<>> /\ sentUnchanged
      /\ UNCHANGED <<copy, awaited, landing, counted, replies>>
      /\ file' = [f \in Files |-> IF Deletes /\ f \in Lost(last) THEN None ELSE file[f]]
      /\ part' = [f \in Files |-> IF Deletes /\ f \in LostParts(last) THEN None ELSE part[f]]
      /\ dirs' = IF Deletes THEN dirs \ Lost(last) ELSE dirs
      /\ CloseReady(IF copy.dry THEN closing ELSE closing \cup {last.dir}, awaited)
      /\ open' = SubSeq(open, 1, Len(open) - 1)
  BY <1>0 DEF Leave, AtEntry, At, Goes, Deletes, sentUnchanged
<1>2. Next2(r, q) /\ ~Skipped(q) /\ Finished(Ahead, q)' /\ \A id : OldSame(id)
  BY <1>1, ItemTaken, ItemAgrees DEF Agreed
<1>3. /\ Landed(r) /\ Same(Ahead, r) /\ UnderWay' = awaited /\ UnderWay = awaited
      /\ Awaiting(r) /\ Frames(r) /\ Opened(r)
  BY <1>1 DEF Agreed, UnderWay, LiveAt, Landed
<1>4. q \in Ids /\ r \in Nat /\ q \in Nat /\ r < q /\ r <= q /\ 1..r \subseteq Ids
  <2>1. q \in Ids /\ r \in Nat /\ q \in Nat /\ r < q
    BY <1>2, CameOn
  <2> QED BY <2>1, Walk DEF Ids
<1>5. /\ Came(q)' = Came(r) /\ Came(q) = Came(r) /\ EndedBy(q) = EndedBy(r) \cup {last.dir}
      /\ \A i \in 1..q : ~Skipped(i) => i \in 1..r \/ i = q
      /\ \A p : Entered(p, r) => Entered(p, q)'
  <2>1. /\ Came(q) = Came(r) /\ (\A i \in 1..q : ~Skipped(i) => i \in 1..r \/ i = q)
        /\ \A p : Entered(p, r) => Entered(p, q)
    BY <1>1, <1>2, CameOn
  <2>2. Came(q)' = Came(q) /\ \A p : Entered(p, q)' = Entered(p, q)
    BY <1>1, SameLanding
  <2>3. EndedBy(q) = EndedBy(r) \cup {last.dir}
    BY <1>0, <1>1, <1>2, <1>3, EndedOn
  <2> QED BY <2>1, <2>2, <2>3
<1>6. \A i : Entry(i)' = Entry(i) /\ Skipped(i)' = Skipped(i)
  BY <1>1, SameWalk
<1>7. \A p \in Sent : p \notin Lost(last)
  BY <1>0, <1>1, <1>2, <1>3, SentStays
<1>8. \A i \in Ids : Entry(i).is # "end" /\ ~Skipped(i) => Entry(i).at \in Sent
  BY Walk DEF Sent, Entry, Skipped
<1>9. \A i \in Ids : Entry(i).is \in {"file", "link"} /\ ~Skipped(i) =>
          Entry(i).at \in Files /\ file'[Entry(i).at] = file[Entry(i).at]
  <2> SUFFICES ASSUME NEW i \in Ids, Entry(i).is \in {"file", "link"}, ~Skipped(i)
               PROVE  Entry(i).at \in Files /\ file'[Entry(i).at] = file[Entry(i).at]
    OBVIOUS
  <2>1. Entry(i).at \in Files
    BY Walk
  <2> QED BY <1>1, <1>7, <1>8, <2>1
<1>10. Counts(q)'
  BY <1>1, <1>3, <1>5 DEF Landed, Counts
<1>11. Placed(q)'
  <2> SUFFICES ASSUME ~copy.dry
               PROVE  /\ \A i \in 1..q : Entry(i).is \in {"file", "link"} /\ ~Skipped(i) /\ i \notin UnderWay =>
                            file'[Entry(i).at] = Entry(i).whole
                      /\ \A j \in DirIds : j <= q => Entry(j).at \in dirs'
    BY <1>1, <1>3, <1>6, SameWalk DEF Placed
  <2>1. ASSUME NEW i \in 1..q, Entry(i).is \in {"file", "link"}, ~Skipped(i), i \notin UnderWay
        PROVE  file'[Entry(i).at] = Entry(i).whole
    <3>1. i \in 1..r /\ i \in Ids
      BY <1>1, <1>4, <1>5, <2>1
    <3> QED BY <1>3, <1>9, <2>1, <3>1 DEF Landed, Placed
  <2>2. ASSUME NEW j \in DirIds, j <= q PROVE Entry(j).at \in dirs'
    <3>1. j <= r
      BY <1>1, <1>2, <2>2, NoDirBetween
    <3>2. j \in Ids /\ Entry(j).is # "end" /\ ~Skipped(j)
      BY NestFacts, Walk DEF Skipped
    <3>3. Entry(j).at \notin Lost(last)
      BY <1>7, <1>8, <3>2
    <3> QED BY <1>1, <1>3, <3>1, <3>3 DEF Landed, Placed
  <2> QED BY <2>1, <2>2
<1>12. Closes(q)'
  <2>0. PICK ended : ended = IF copy.dry THEN closing ELSE closing \cup {last.dir}
    OBVIOUS
  <2>1. closed \cup ended = IF copy.dry THEN {} ELSE EndedBy(q)
    BY <1>3, <1>5, <2>0 DEF Landed, Closes
  <2>2. /\ Closes(r) /\ UNCHANGED copy /\ UnderWay' = awaited' /\ awaited' \subseteq UnderWay
        /\ CloseReady(ended, awaited')
    BY <1>1, <1>3, <2>0 DEF Landed
  <2> QED BY <2>1, <2>2, ClosesOn
<1>13. \A f \in Files : part[f] = None => part'[f] = None
  BY <1>1
<1>14. last \in AFrame /\ Len(open) \in 1..Len(open) /\ Len(open) \in Nat
  BY <1>0, <1>1, Elements DEF Types
<1>15. Cleared(q)'
  <2>0. \A f : Brought(f)' = Brought(f)
    BY <1>1, SameBrought
  <2>1. EndedBy(q)' = EndedBy(r) \cup {last.dir}
    BY <1>1, <1>5, SameLanding
  <2> SUFFICES ASSUME Deletes, NEW f \in Files, In[f] \in EndedBy(r) \cup {last.dir}
               PROVE  /\ part'[f] = None \/ \E id \in UnderWay : Entry(id).at = f
                      /\ Brought(f) = {} /\ f \notin copy.excluded => file'[f] = None
    BY <1>1, <1>3, <1>6, <2>0, <2>1 DEF Cleared, Deletes
  <2>2. CASE In[f] \in EndedBy(r)
    BY <1>1, <1>3, <2>2 DEF Landed, Cleared
  <2>3. CASE In[f] = last.dir
    <3>3. ASSUME Brought(f) = {}, f \notin copy.excluded PROVE file'[f] = None
      <4>1. ASSUME f \in last.seen PROVE FALSE
        <5>1. PICK i \in 1..r : Entry(i).is # "end" /\ ~Skipped(i) /\ Entry(i).at = f
          BY <1>0, <1>3, <1>14, <4>1 DEF Frames, Entered
        <5>2. i \in Ids
          BY <1>4
        <5>3. Entry(i).is \in {"file", "link"}
          BY <5>1, <5>2, Walk, SyncAssumption
        <5> QED BY <3>3, <5>1, <5>2, <5>3, Brings
      <4>2. Goner(f, last)
        BY <2>3, <3>3, <4>1 DEF Goner
      <4> QED BY <1>1, <4>2 DEF Lost
    <3>4. part'[f] = None \/ \E id \in UnderWay : Entry(id).at = f
      <4>1. CASE f \in last.parts
        <5>1. PICK i \in Came(r) : Entry(i).at = f /\ (i \in UnderWay \/ part[f] = None)
          BY <1>0, <1>3, <1>14, <4>1 DEF Frames, Deletes
        <5> QED BY <1>13, <5>1
      <4>2. CASE f \notin last.parts
        BY <1>1, <2>3, <4>2 DEF LostParts
      <4> QED BY <4>1, <4>2
    <3> QED BY <3>3, <3>4
  <2> QED BY <2>2, <2>3
<1>16. \A k \in 1..Len(open') : k \in 1..Len(open) /\ open'[k] = open[k]
  <2>1. open \in Seq(AFrame) /\ Len(open) - 1 \in 0..Len(open)
    BY <1>14 DEF Types
  <2>2. Len(open') = Len(open) - 1 /\ \A k \in 1..Len(open) - 1 : open'[k] = open[k]
    BY <1>1, <2>1, Started
  <2> QED BY <1>14, <2>2
<1>17. Frames(q)'
  <2> SUFFICES ASSUME NEW k \in 1..Len(open')
               PROVE  /\ \A p \in open'[k].seen : Entered(p, q)'
                      /\ ~copy.dry => \A f \in open'[k].parts :
                            \E i \in Came(r) : Entry(i).at = f /\ (i \in UnderWay \/ part'[f] = None)
    <3>1. UnderWay' = UnderWay /\ copy' = copy
      BY <1>1, <1>3
    <3> QED BY <1>5, <1>6, <3>1 DEF Frames
  <2>1. \A p \in open'[k].seen : Entered(p, q)'
    BY <1>3, <1>5, <1>16 DEF Frames
  <2>2. ASSUME ~copy.dry, NEW f \in open'[k].parts
        PROVE  \E i \in Came(r) : Entry(i).at = f /\ (i \in UnderWay \/ part'[f] = None)
    <3>1. PICK i \in Came(r) : Entry(i).at = f /\ (i \in UnderWay \/ part[f] = None)
      BY <1>3, <1>16, <2>2 DEF Frames
    <3>2. f \in Files
      BY <1>4, <3>1, Walk DEF Came, IsFile
    <3> QED BY <1>13, <3>1, <3>2
  <2> QED BY <2>1, <2>2
<1>18. ASSUME NEW id \in awaited PROVE SameAt(Ahead, id, q)'
  <2>1. IsFile(id) /\ SameAt(Ahead, id, r)
    BY <1>3 DEF Awaiting, Same
  <2>2. PICK f \in Files : f = Entry(id).at
    BY <2>1, Walk DEF IsFile
  <2>3. file'[Entry(id).at] = file[Entry(id).at]
    BY <1>9, <2>1 DEF IsFile, Skipped
  <2>4. OldChecks(id) /\ OldSame(id)
    BY <1>1, <1>2 DEF OldChecks
  <2>5. ASSUME Unkept(f, r) PROVE Unkept(f, q)'
    <3>1. \A k \in 1..Len(open') : f \notin open'[k].parts
      BY <1>16, <2>5 DEF Unkept
    <3>2. ASSUME Deletes, In[f] \in EndedBy(q) PROVE part'[f] = None
      <4>1. CASE In[f] \in EndedBy(r)
        BY <1>13, <2>5, <3>2, <4>1 DEF Unkept
      <4>2. CASE In[f] = last.dir
        <5>1. f \notin last.parts
          BY <1>0, <1>14, <2>5 DEF Unkept
        <5> QED BY <1>1, <3>2, <4>2, <5>1 DEF LostParts
      <4> QED BY <1>5, <3>2, <4>1, <4>2
    <3>3. EndedBy(q)' = EndedBy(q)
      BY <1>1, SameLanding
    <3> QED BY <1>1, <3>1, <3>2, <3>3 DEF Unkept, Deletes
  <2>6. (Unkept(Entry(id).at, q))' <=> Unkept(f, q)'
    BY <1>6, <2>2
  <2> QED BY <1>1, <2>1, <2>2, <2>3, <2>4, <2>5, <2>6, SameKept
<1>19. Same(Ahead, q)'
  BY <1>1, <1>2, <1>3, <1>4, <1>18, SameCame DEF Same
<1> QED BY <1>2, <1>10, <1>11, <1>12, <1>15, <1>17, <1>19 DEF Agreed, Landed

LEMMA LeaveKeeps ==
    ASSUME Inv, Leave
    PROVE  Inv'
<1>0. PICK q : q = Head(pipe).id
  OBVIOUS
<1> DEFINE last == open[Len(open)]
           deletes == copy.delete /\ ~copy.dry
<1>1. Types /\ WholeFiles /\ receiver = "reading" /\ receiver' = "reading" /\ pipe # <<>> /\ pipe' = Tail(pipe)
      /\ Head(pipe).is = "entry" /\ Entry(q).is = "end" /\ open # <<>> /\ sentUnchanged
  BY <1>0 DEF Inv, Leave, AtEntry, At, Goes
<1>2. UNCHANGED <<copy, was, walked, link, awaited, landing, replies>>
  BY DEF Leave, sentUnchanged, sendVars
<1>3. PICK r \in 0..walked : LiveAt(Ahead, r) /\ Agreed(Ahead, r)
  BY <1>1 DEF Inv, Live
<1>4. /\ q \in 0..walked /\ Stream(Ahead, q)' /\ Runs(Ahead)'
      /\ (link = "up" => AllAhead(Ahead, q) /\ Hand(Ahead))'
      /\ pipe' \in Seq(AnItem) /\ (\A id : OldData(id)) /\ Next2(r, q) /\ q > r /\ ~Skipped(q)
  BY <1>0, <1>1, <1>3, ItemTaken
<1>5. /\ Opened(r) /\ Awaiting(r) /\ Spared(Ahead) /\ r \in Nat /\ q \in Nat
      /\ \A id \in awaited : IsFile(id) /\ id <= r
  BY <1>1, <1>3, <1>4, Walk DEF LiveAt, Next2, Ids, Awaiting
<1>6. /\ open' \in Seq(AFrame) /\ Len(open') = Len(open) - 1 /\ Len(open) \in Nat
      /\ \A k \in 1..Len(open) - 1 : open'[k] = open[k]
  <2>1. open \in Seq(AFrame) /\ Len(open) \in Nat /\ Len(open) - 1 \in 0..Len(open)
    BY <1>1, Elements DEF Types
  <2>2. open' = SubSeq(open, 1, Len(open) - 1)
    BY DEF Leave
  <2> QED BY <2>1, <2>2, Started
<1>7. /\ file' = [f \in Files |-> IF deletes /\ f \in Lost(last) THEN None ELSE file[f]]
      /\ part' = [f \in Files |-> IF deletes /\ f \in LostParts(last) THEN None ELSE part[f]]
  BY DEF Leave
<1>8. /\ file' \in [Files -> Contents \cup {None, Link}] /\ part' \in [Files -> Contents \cup {None}]
      /\ \A f \in Files : file'[f] = IF deletes /\ f \in Lost(last) THEN None ELSE file[f]
      /\ \A f \in Files : part'[f] = IF deletes /\ f \in LostParts(last) THEN None ELSE part[f]
  BY <1>1, <1>7 DEF Types
<1>9. Opened(q)'
  BY <1>1, <1>2, <1>4, <1>5, <1>6, OpenedLeft
<1>10. ASSUME NEW id \in awaited PROVE FitsAt(Ahead, id)' /\ SparedAt(Ahead, id)'
  <2>1. OldReplies(id) /\ OldData(id) /\ IsFile(id) /\ SparedAt(Ahead, id)
    BY <1>2, <1>4, <1>5, <1>10 DEF OldReplies, Spared
  <2>2. Entry(id).at \in Files
    BY <1>1, <2>1, Walk DEF IsFile
  <2>3. Spoken(Ahead, id) => part'[Entry(id).at] = part[Entry(id).at]
    BY <1>1, <1>4, <1>5, <1>8, <2>1, <2>2, SparedStay
  <2>4. Spoken(Ahead, id) =>
            \A k \in 1..Len(open') : open'[k].dir = In[Entry(id).at] => Entry(id).at \in open'[k].parts
    <3>1. \A k \in 1..Len(open') : k \in 1..Len(open) /\ open'[k] = open[k]
      BY <1>6
    <3> QED BY <2>1, <3>1 DEF SparedAt
  <2> QED BY <1>1, <1>2, <1>3, <1>10, <2>1, <2>3, <2>4, StillFits
<1>11. Awaiting(q)'
  BY <1>1, <1>2, <1>4, <1>5, AwaitingOn
<1>12. Lands'
  BY <1>1 DEF Lands
<1>13. LiveAt(Ahead, q)'
  BY <1>2, <1>4, <1>9, <1>10, <1>11, <1>12 DEF LiveAt, Fits, Spared
<1>14. Types'
  BY <1>1, <1>2, <1>4, <1>6, <1>8, ReceiverTypes DEF Types
<1>15. WholeFiles'
  <2> SUFFICES ASSUME NEW f \in Files
               PROVE  /\ \/ file'[f] = was.file[f] \/ file'[f] \in Brought(f)
                         \/ file'[f] = None /\ copy.delete /\ Brought(f) = {} /\ MayGo(f)
                      /\ part'[f] \in {was.part[f], None} \cup Starting(f)
                      /\ copy.dry => file'[f] = was.file[f] /\ part'[f] = was.part[f]
    BY <1>2, SameBrought DEF WholeFiles
  <2>1. f \in Lost(last) => Brought(f) = {} /\ MayGo(f)
    BY <1>1, <1>4, <1>5, LostMayGo
  <2>2. \/ file'[f] = file[f]
        \/ file'[f] = None /\ copy.delete /\ ~copy.dry /\ f \in Lost(last)
    BY <1>8
  <2>3. part'[f] = part[f] \/ (part'[f] = None /\ ~copy.dry)
    BY <1>8
  <2> HIDE DEF last
  <2> QED BY <1>1, <2>1, <2>2, <2>3 DEF WholeFiles
<1>16. Agreed(Ahead, q)'
  BY <1>0, <1>1, <1>3, LeaveAgrees
<1> QED BY <1>1, <1>2, <1>4, <1>13, <1>14, <1>15, <1>16 DEF Inv, Live

LEMMA StartsAgree ==
    ASSUME Types, Init
    PROVE  Agreed(Ahead, 0)
<1>1. /\ walked = 0 /\ pipe = <<>> /\ buf = <<>> /\ replies = <<>> /\ link = "up" /\ receiver = "reading"
      /\ open = <<>> /\ awaited = {} /\ sender = "walking" /\ closing = {} /\ closed = {} /\ counted = 0
  BY DEF Init
<1>2. Ahead = <<>> /\ Len(Ahead) = 0 /\ UnderWay = {} /\ Len(replies) = 0 /\ Len(open) = 0
  BY <1>1 DEF Ahead, Queued, UnderWay
<1>3. \A j \in DirIds : j \in Nat /\ j >= 1 /\ EndOf[j] \in Nat /\ EndOf[j] >= 1
  BY NestFacts, Walk DEF Ids
<1>4. Came(0) = {} /\ EndedBy(0) = {}
  BY <1>3 DEF Came, EndedBy
<1>5. Counts(0)
  BY <1>1, <1>2, <1>4, FS_EmptySet DEF Counts
<1>6. Placed(0)
  BY <1>3 DEF Placed
<1>7. Closes(0) /\ Cleared(0) /\ Frames(0)
  BY <1>1, <1>2, <1>4 DEF Closes, Cleared, Frames
<1>8. Same(Ahead, 0) /\ Finished(Ahead, 0)
  BY <1>1, <1>2 DEF Same, Finished
<1> QED BY <1>5, <1>6, <1>7, <1>8 DEF Agreed, Landed

(***************************************************************************)
(* The specification.                                                      *)
(***************************************************************************)
LEMMA StartsLive ==
    ASSUME Init, OneOfAName
    PROVE  Inv
<1>1. /\ copy \in Copies /\ was \in Starts /\ walked = 0 /\ pipe = <<>> /\ buf = <<>> /\ replies = <<>>
      /\ link = "up" /\ receiver = "reading" /\ open = <<>> /\ awaited = {} /\ sender = "walking"
      /\ bytes = Nothing /\ landing = Nothing /\ gaveUp = FALSE /\ file = was.file /\ part = was.part
  BY DEF Init
<1>2. /\ file \in [Files -> Contents \cup {None, Link}] /\ part \in [Files -> Contents \cup {None}]
      /\ IsWalk(copy.walk)
  BY <1>1, CopiesAssumption
<1>3. Nothing \in [id : Nat, at : Nat]
  BY DEF Nothing
<1>4. copy.walk \in Seq(AnEntry) /\ Len(copy.walk) \in Nat
  BY <1>2, Elements DEF IsWalk
<1>5. Types
  BY <1>1, <1>2, <1>3, <1>4 DEF Types
<1>6. Ahead = <<>> /\ Len(Ahead) = 0
  BY <1>1 DEF Ahead, Queued
<1>7. Stream(Ahead, 0) /\ Runs(Ahead) /\ AllAhead(Ahead, 0) /\ Hand(Ahead)
  BY <1>1, <1>6 DEF Stream, Runs, AllAhead, Hand
<1>8. Fits(Ahead) /\ Spared(Ahead) /\ Awaiting(0) /\ Lands
  BY <1>1 DEF Fits, Spared, Awaiting, Lands
<1>9. Opened(0)
  <2>1. Begun(0) /\ InOrder /\ Noted(0)
    BY <1>1 DEF Begun, InOrder, Noted
  <2>2. NotEnded(0)
    <3>1. \A j \in DirIds : j \in Nat /\ j >= 1
      BY <1>5, NestFacts, Walk DEF Ids
    <3> QED BY <3>1 DEF NotEnded
  <2> QED BY <2>1, <2>2 DEF Opened
<1>10. Live
  <2>1. LiveAt(Ahead, 0) /\ 0 \in 0..walked
    BY <1>1, <1>7, <1>8, <1>9 DEF LiveAt
  <2>2. Agreed(Ahead, 0)
    BY <1>5, StartsAgree
  <2> QED BY <2>1, <2>2 DEF Live
<1>11. WholeFiles
  BY <1>1 DEF WholeFiles
<1> QED BY <1>5, <1>10, <1>11 DEF Inv

LEMMA StutterAgrees ==
    ASSUME Types, UNCHANGED vars, NEW r \in 0..walked, LiveAt(Ahead, r), Agreed(Ahead, r)
    PROVE  Agreed(Ahead, r)'
<1>1. /\ SenderKeeps
      /\ UNCHANGED <<closing, closed, counted, dirs, pipe, buf, link, receiver, landing, sender, walked, gaveUp, copy>>
  BY DEF vars, sendVars, recvVars, landVars, SenderKeeps
<1>2. Ahead' = Ahead
  BY <1>1 DEF Ahead, Queued
<1>3. Finished(Ahead, r)'
  <2>1. \A i : Skipped(i)' = Skipped(i) /\ Holds(Ahead, i)' = Holds(Ahead, i)
    BY <1>1, <1>2, SameWalk DEF Holds
  <2> QED BY <1>1, <1>2, <2>1 DEF Agreed, Finished
<1>4. \A id : OldSame(id)
  BY <1>2 DEF OldSame
<1> QED BY <1>1, <1>3, <1>4, SenderAgrees

LEMMA StutterKeeps ==
    ASSUME Inv, UNCHANGED vars
    PROVE  Inv'
<1>1. /\ SenderKeeps
      /\ UNCHANGED <<sender, walked, bytes, gaveUp, buf, pipe, copy, was, file, part, link, receiver, landing>>
  BY DEF vars, sendVars, recvVars, landVars, SenderKeeps
<1>2. Types /\ WholeFiles
  BY DEF Inv
<1>3. Types'
  BY <1>1, <1>2, SenderTypes DEF Types, SenderKeeps, Sound
<1>4. Ahead' = Ahead
  BY <1>1 DEF Ahead, Queued
<1>5. ASSUME NEW r \in 0..walked, LiveAt(Ahead, r) PROVE LiveAt(Ahead, r)'
  <2>1. Stream(Ahead, r)' /\ (link = "up" => AllAhead(Ahead, r))'
    <3>1. walked \in Nat /\ walked' \in walked..walked + 1 /\ walked' # walked + 1
      BY <1>1, <1>2, Walk DEF Types
    <3> QED BY <1>1, <1>2, <1>4, <1>5, <3>1, StreamSkips DEF LiveAt
  <2>2. \A i : Entry(i)' = Entry(i)
    BY <1>1, SameWalk
  <2>3. Runs(Ahead)'
    BY <1>4, <1>5, <2>2 DEF LiveAt, Runs, RunsTo, Right
  <2>4. (link = "up" => Hand(Ahead))'
    BY <1>1, <1>4, <1>5 DEF LiveAt, Hand, RunsTo
  <2>5. \A id : OldData(id)
    BY <1>4 DEF OldData
  <2> QED BY <1>1, <1>2, <1>5, <2>1, <2>3, <2>4, <2>5, SenderLive
<1>6. ASSUME NEW r \in 0..walked, LiveAt(Ahead, r), Agreed(Ahead, r) PROVE Agreed(Ahead, r)'
  BY <1>2, <1>6, StutterAgrees
<1> QED BY <1>1, <1>2, <1>3, <1>5, <1>6, WholeKept DEF Inv, Live

LEMMA NextKeeps ==
    ASSUME Inv, [Next]_vars
    PROVE  Inv'
<1>1. CASE SenderStep
  BY <1>1, SendEntryKeeps, TakeAnswerKeeps, SendBytesKeeps, SendLastKeeps, SenderQuietKeeps DEF SenderStep
<1>2. CASE ReceiverStep
  BY <1>2, EnterKeeps, LeaveKeeps, HeaderKeeps, DataKeeps, ChunkKeeps, RenameKeeps, SettledKeeps,
     SymlinkKeeps, EndsKeep, SayEndKeeps DEF ReceiverStep
<1>3. CASE SourceFails
  BY <1>3, SourceFailsKeeps
<1>4. CASE LandFails \/ Cut
  BY <1>4, EndsKeep, CutKeeps
<1>5. CASE UNCHANGED vars
  BY <1>5, StutterKeeps
<1> QED BY <1>1, <1>2, <1>3, <1>4, <1>5 DEF Next

\* Wherever a copy is cut, of any tree and over anything an earlier copy left, each file is as it was
\* or whole, what is kept of one under way is its start, and nothing goes but what --delete takes
\* (receive.rs data and leave, send.rs answer), if no two entries land as one path.
THEOREM WholeFilesAlways == Spec /\ OneOfAName => []WholeFiles
<1>1. Init /\ OneOfAName => Inv
  BY StartsLive
<1>2. Inv /\ [Next]_vars => Inv'
  BY NextKeeps
<1>3. Inv => WholeFiles
  BY DEF Inv
<1> QED BY <1>1, <1>2, <1>3, PTL DEF Spec

(***************************************************************************)
(* The end of a copy.                                                      *)
(***************************************************************************)
\* The last item read and nothing under way, what came is the copy.
LEMMA FinishDone ==
    ASSUME Types, NEW r \in 0..walked, LiveAt(Ahead, r), Agreed(Ahead, r), Finish, At("done"), AllLanded
    PROVE  IsDone
<1>1. receiver = "reading" /\ pipe # <<>> /\ Head(pipe).is = "done" /\ open = <<>> /\ awaited = {}
      /\ UNCHANGED <<buf, link>>
  BY DEF At, AllLanded, Finish, sentUnchanged
<1>2. Ahead[1] = Head(pipe) /\ 1 \in 1..Len(Ahead) /\ Len(Ahead) \in Nat
  <2>1. pipe \in Seq(AnItem) /\ buf \in Seq(AnItem) /\ pipe' = Tail(pipe)
    BY <1>1 DEF Types, Finish, At, Arrived
  <2>2. Queued[1] = Head(pipe) /\ Len(Queued) >= 1
    BY <1>1, <2>1, QueuedTaken
  <2>3. Ahead = Queued /\ Len(Queued) \in Nat
    BY <1>1, AheadIs, Elements DEF Types
  <2> QED BY <2>2, <2>3
<1>3. /\ Len(Ahead) = 1 /\ walked = Len(copy.walk)
      /\ \A i \in r + 1..walked : Skipped(i) \/ Holds(Ahead, i)
  BY <1>1, <1>2 DEF Agreed, Finished
<1>4. \A i : ~Holds(Ahead, i)
  <2> SUFFICES ASSUME NEW k \in 1..Len(Ahead), Ahead[k].is = "entry" PROVE FALSE
    BY DEF Holds
  <2>1. k = 1
    BY <1>3
  <2> QED BY <1>1, <1>2, <2>1
<1>5. /\ r \in Nat /\ Len(copy.walk) \in Nat /\ 1..r \subseteq Ids /\ DOMAIN copy.walk = Ids
      /\ \A i \in Ids : ~Skipped(i) => i \in 1..r
  <2>1. r \in Nat /\ Len(copy.walk) \in Nat /\ DOMAIN copy.walk = Ids /\ r <= walked
    BY Walk DEF Types
  <2> QED BY <1>3, <1>4, <2>1 DEF Ids
<1>6. UnderWay = {} /\ \A d : ~Under(d)
  BY <1>1 DEF UnderWay, Under
<1>7. \A j \in DirIds : j \in Ids /\ j \in 1..r /\ j <= r /\ EndOf[j] <= r
  <2> SUFFICES ASSUME NEW j \in DirIds PROVE j \in Ids /\ j \in 1..r /\ j <= r /\ EndOf[j] <= r
    OBVIOUS
  <2>1. j \in Ids /\ ~Skipped(j) /\ EndOf[j] \in Ids
    BY NestFacts, Walk
  <2>2. j \in 1..r /\ EndOf[j] \in Nat
    BY <1>5, <2>1 DEF Ids
  <2>3. ~(j <= r /\ r < EndOf[j])
    BY <1>1 DEF LiveAt, Opened, NotEnded
  <2> QED BY <1>5, <2>1, <2>2, <2>3
<1>8. EndedBy(r) = Walked
  BY <1>5, <1>7 DEF EndedBy, Walked, DirIds, Entry
<1>9. Landed(r)
  BY DEF Agreed
<1>10. counted = Cardinality({i \in DOMAIN copy.walk :
            copy.walk[i].is = "file" /\ copy.walk[i].at \notin copy.excluded})
  <2>1. Came(r) = {i \in DOMAIN copy.walk : copy.walk[i].is = "file" /\ copy.walk[i].at \notin copy.excluded}
    BY <1>5 DEF Came, IsFile, Skipped, Entry
  <2>2. Came(r) \ UnderWay = Came(r)
    BY <1>6
  <2> QED BY <1>9, <2>1, <2>2 DEF Landed, Counts
<1>11. ASSUME ~copy.dry PROVE Walked \subseteq dirs /\ closed = Walked
  <2>1. \A j \in DirIds : Entry(j).at \in dirs
    BY <1>7, <1>9, <1>11 DEF Landed, Placed
  <2>2. Walked \subseteq dirs
    BY <2>1 DEF Walked, DirIds, Entry
  <2>3. closing = {} /\ closing \cup closed = EndedBy(r)
    BY <1>6, <1>9, <1>11 DEF Landed, Closes
  <2> QED BY <1>8, <2>2, <2>3
<1>12. ASSUME ~copy.dry, NEW f \in Files, Brought(f) # {} PROVE file[f] \in Brought(f)
  <2>1. PICK i \in DOMAIN copy.walk : /\ copy.walk[i].is \in {"file", "link"} /\ copy.walk[i].at = f
                                      /\ f \notin copy.excluded
    BY <1>12 DEF Brought
  <2>2. i \in Ids /\ Entry(i).is \in {"file", "link"} /\ Entry(i).at = f /\ ~Skipped(i)
    BY <1>5, <2>1 DEF Entry, Skipped
  <2>3. i \in 1..r
    BY <1>5, <2>2
  <2>4. file[f] = Entry(i).whole
    BY <1>6, <1>9, <1>12, <2>2, <2>3 DEF Landed, Placed
  <2> QED BY <2>2, <2>4, Brings
<1>13. ASSUME ~copy.dry, copy.delete, NEW f \in Files, In[f] \in Walked
       PROVE  part[f] = None /\ (Brought(f) = {} /\ f \notin copy.excluded => file[f] = None)
  BY <1>6, <1>8, <1>9, <1>13 DEF Landed, Cleared, Deletes
<1> QED BY <1>10, <1>11, <1>12, <1>13 DEF IsDone

\* Ended, the receiver does no more than say how.
LEMMA EndedStays ==
    ASSUME receiver = "ended", [Next]_vars
    PROVE  /\ receiver' = "ended" /\ UNCHANGED <<copy, counted, closed, file, part, dirs>>
           /\ outcome' = outcome \/ (outcome = None /\ outcome' = "died")
<1>1. CASE SenderStep
  BY <1>1 DEF SenderStep, SendEntry, SentAll, FlushToWait, TakeAnswer, TakeEnd, GoOn, SendBytes, SendLast,
     FlushLast, PassOver, sendVars, recvVars, landVars
<1>2. CASE ReceiverStep
  <2>1. SayEnd
    BY <1>2 DEF ReceiverStep, Enter, Leave, Header, Data, Chunk, Rename, Settled, Symlink, Finish, AtEntry, At, Arrived
  <2> QED BY <2>1 DEF SayEnd, recvVars, landVars, sentUnchanged
<1>3. CASE SourceFails
  BY <1>3 DEF SourceFails, recvVars, landVars
<1>4. CASE LandFails
  BY <1>4 DEF LandFails
<1>5. CASE Cut
  BY <1>5 DEF Cut, Ends, landVars
<1>6. CASE UNCHANGED vars
  BY <1>6 DEF vars, recvVars, landVars
<1> QED BY <1>1, <1>2, <1>3, <1>4, <1>5, <1>6 DEF Next

\* How each step leaves the replies and the words of both ends.
LEMMA SaysOn ==
    ASSUME Types, [Next]_vars
    PROVE  /\ \A k \in 1..Len(replies') :
                \/ \E l \in 1..Len(replies) : replies[l] = replies'[k]
                \/ replies'[k].is # "end"
                \/ replies'[k].have = "ok" => outcome = "ok"
           /\ said' = said \/ (1 \in 1..Len(replies) /\ replies[1].is = "end" /\ said' = replies[1].have)
           /\ outcome' = outcome \/ receiver' = "ended"
           /\ receiver' = "ended" \/ outcome' = outcome
<1>0. replies \in Seq(AnAnswer) /\ Len(replies) \in Nat
  BY Elements DEF Types
<1>1. CASE SenderStep
  <2>1. UNCHANGED outcome /\ SenderKeeps
    BY <1>1 DEF SenderStep, SendEntry, SentAll, FlushToWait, TakeAnswer, TakeEnd, GoOn, SendBytes, SendLast,
       FlushLast, PassOver, SenderKeeps, sendVars, recvVars, landVars
  <2>2. \A k \in 1..Len(replies') : \E l \in 1..Len(replies) : replies[l] = replies'[k]
    BY <2>1, RepliesTaken
  <2>3. CASE TakeEnd
    <3>1. 1 \in 1..Len(replies) /\ replies[1] = Head(replies)
      <4>1. replies # <<>>
        BY <2>3 DEF TakeEnd
      <4> QED BY <1>0, <4>1, Taken
    <3> QED BY <2>1, <2>2, <2>3, <3>1 DEF TakeEnd
  <2>4. CASE ~TakeEnd
    <3>1. said' = said
      BY <1>1, <2>4 DEF SenderStep, SendEntry, SentAll, FlushToWait, TakeAnswer, GoOn, SendBytes, SendLast,
         FlushLast, PassOver, sendVars
    <3> QED BY <2>1, <2>2, <3>1
  <2> QED BY <2>3, <2>4
<1>2. CASE ReceiverStep
  <2>1. said' = said
    BY <1>2 DEF ReceiverStep, Enter, Leave, Header, Data, Chunk, Rename, Settled, Symlink, Finish, SayEnd,
       sentUnchanged, sendVars
  <2>2. outcome' = outcome \/ receiver' = "ended"
    BY <1>2 DEF ReceiverStep, Enter, Leave, Header, Data, Chunk, Rename, Settled, Symlink, Finish, SayEnd, Ends, Goes
  <2>3. CASE Header \/ SayEnd
    <3>1. \/ UNCHANGED replies
          \/ \E a : /\ replies' = Append(replies, a)
                    /\ a.is # "end" \/ (a.have = "ok" => outcome = "ok")
      <4>1. CASE SayEnd
        <5> DEFINE a == Answer("end", 0, IF outcome = "ok" THEN "ok" ELSE "failed")
        <5>1. (a.have = "ok" => outcome = "ok")
          BY DEF Answer
        <5>2. UNCHANGED replies \/ replies' = Append(replies, a)
          BY <4>1 DEF SayEnd, Reply
        <5> QED BY <5>1, <5>2
      <4>2. CASE Header
        <5> DEFINE id == Head(pipe).id
                   c == Answer("check", id, file[Here])
                   w == Answer("want", id, IF Resumable(Here, Len(Entry(id).whole)) THEN part[Here] ELSE <<>>)
        <5>1. \/ UNCHANGED replies
              \/ SameSize(Here, Len(Entry(id).whole)) /\ replies' = Append(replies, c)
              \/ replies' = Append(replies, w)
          BY <4>2 DEF Header, Reply
        <5>2. c.is # "end" /\ w.is # "end"
          BY DEF Answer
        <5> QED BY <5>1, <5>2
      <4> QED BY <2>3, <4>1, <4>2
    <3>2. ASSUME NEW a, replies' = Append(replies, a), a.is # "end" \/ (a.have = "ok" => outcome = "ok")
          PROVE  \A k \in 1..Len(replies') :
                    \/ \E l \in 1..Len(replies) : replies[l] = replies'[k]
                    \/ replies'[k].is # "end"
                    \/ replies'[k].have = "ok" => outcome = "ok"
      <4>1. /\ Len(replies') = Len(replies) + 1 /\ replies'[Len(replies) + 1] = a
            /\ \A k \in 1..Len(replies) : replies'[k] = replies[k]
        <5>1. replies \in Seq(AnAnswer \cup {a}) /\ a \in AnAnswer \cup {a}
          BY <1>0
        <5> QED BY <3>2, <5>1, Appended
      <4>2. \A k \in 1..Len(replies') : k \in 1..Len(replies) \/ k = Len(replies) + 1
        BY <1>0, <4>1
      <4> QED BY <3>2, <4>1, <4>2
    <3> QED BY <2>1, <2>2, <3>1, <3>2
  <2>4. CASE ~Header /\ ~SayEnd
    <3>1. UNCHANGED replies
      BY <1>2, <2>4 DEF ReceiverStep, Enter, Leave, Data, Chunk, Rename, Settled, Symlink, Finish
    <3> QED BY <2>1, <2>2, <3>1
  <2> QED BY <2>3, <2>4
<1>3. CASE SourceFails \/ LandFails \/ UNCHANGED vars
  BY <1>3 DEF SourceFails, LandFails, Ends, vars, sendVars, recvVars
<1>4. CASE Cut
  <2>1. said' = said /\ (outcome' = outcome \/ receiver' = "ended")
    BY <1>4 DEF Cut, Ends, sendVars
  <2>2. PICK m \in 0..Len(replies) : replies' = SubSeq(replies, 1, m)
    BY <1>4 DEF Cut
  <2>3. Len(replies') = m /\ \A k \in 1..m : replies'[k] = replies[k] /\ k \in 1..Len(replies)
    BY <1>0, <2>2, Started
  <2> QED BY <2>1, <2>3
<1> QED BY <1>1, <1>2, <1>3, <1>4 DEF Next

LEMMA SaysKeeps ==
    ASSUME Types, Says, [Next]_vars
    PROVE  Says'
<1>1. outcome = "ok" => outcome' = "ok"
  <2> SUFFICES ASSUME outcome = "ok" PROVE outcome' = "ok"
    OBVIOUS
  <2>1. outcome # None
    BY SyncAssumption
  <2> QED BY <2>1, EndedStays DEF Says
<1>2. (outcome = None \/ receiver = "ended")'
  <2>1. CASE receiver = "ended"
    BY <2>1, EndedStays
  <2>2. CASE receiver # "ended"
    BY <2>2, SaysOn DEF Says
  <2> QED BY <2>1, <2>2
<1>3. \A k \in 1..Len(replies') : replies'[k].is = "end" /\ replies'[k].have = "ok" => outcome' = "ok"
  BY <1>1, SaysOn DEF Says
<1>4. said' = "ok" => outcome' = "ok"
  BY <1>1, SaysOn DEF Says
<1> QED BY <1>2, <1>3, <1>4 DEF Says

\* Only the last item, with nothing under way, ends a copy well.
LEMMA OkByFinish ==
    ASSUME [Next]_vars, receiver # "ended", outcome = None, outcome' = "ok"
    PROVE  Finish /\ At("done") /\ AllLanded
<1>1. outcome' # outcome
  BY SyncAssumption
<1>2. ~SenderStep
  BY <1>1 DEF SenderStep, SendEntry, SentAll, FlushToWait, TakeAnswer, TakeEnd, GoOn, SendBytes, SendLast,
     FlushLast, PassOver
<1>3. ~SourceFails /\ ~LandFails /\ ~Cut /\ ~UNCHANGED vars
  BY <1>1 DEF SourceFails, LandFails, Cut, Ends, vars
<1>4. ~Enter /\ ~Leave /\ ~Chunk /\ ~Rename /\ ~Symlink /\ ~SayEnd
  BY <1>1 DEF Enter, Leave, Chunk, Rename, Symlink, SayEnd, Goes
<1>5. ~Header
  BY <1>1 DEF Header, Ends, Goes
<1>6. ~Data
  BY <1>1 DEF Data, Ends, Goes
<1>7. ~Settled
  BY <1>1 DEF Settled, Ends, Goes
<1>8. Finish
  BY <1>2, <1>3, <1>4, <1>5, <1>6, <1>7 DEF Next, ReceiverStep
<1> QED BY <1>8 DEF Finish, Ends

LEMMA SameDone ==
    ASSUME IsDone, UNCHANGED <<copy, counted, closed, file, part, dirs>>
    PROVE  IsDone'
BY DEF IsDone, Walked, Brought

\* A copy ended well is done, and stays so.
DoneInv == Inv /\ Says /\ (outcome = "ok" => IsDone)

LEMMA DoneKeeps ==
    ASSUME DoneInv, [Next]_vars
    PROVE  DoneInv'
<1>1. Types /\ Says /\ Inv' /\ Says'
  BY NextKeeps, SaysKeeps DEF DoneInv, Inv
<1>2. ASSUME outcome' = "ok" PROVE IsDone'
  <2>1. CASE receiver = "ended"
    <3>1. UNCHANGED <<copy, counted, closed, file, part, dirs>> /\ outcome = "ok"
      BY <1>2, <2>1, EndedStays
    <3> QED BY <3>1, SameDone DEF DoneInv
  <2>2. CASE receiver # "ended"
    <3>1. Finish /\ At("done") /\ AllLanded
      BY <1>1, <1>2, <2>2, OkByFinish DEF Says
    <3>2. PICK r \in 0..walked : LiveAt(Ahead, r) /\ Agreed(Ahead, r)
      BY <2>2 DEF DoneInv, Inv, Live
    <3>3. IsDone
      BY <1>1, <3>1, <3>2, FinishDone
    <3>4. UNCHANGED <<copy, counted, closed, file, part, dirs>>
      BY <3>1 DEF Finish, landVars, sentUnchanged
    <3> QED BY <3>3, <3>4, SameDone
  <2> QED BY <2>1, <2>2
<1> QED BY <1>1, <1>2 DEF DoneInv

\* A copy that is said done landed every entry, closed every directory, counted every file once and,
\* with --delete, left nothing else, and the sender says so only then (receive.rs run and
\* close_ready, send.rs send_on).
THEOREM DoneIsDoneAlways == Spec /\ OneOfAName => []DoneIsDone
<1>1. Init /\ OneOfAName => DoneInv
  <2> SUFFICES ASSUME Init, OneOfAName PROVE DoneInv
    OBVIOUS
  <2>1. Inv
    BY StartsLive
  <2>2. replies = <<>> /\ said = None /\ outcome = None
    BY DEF Init
  <2>3. None # "ok"
    BY SyncAssumption
  <2>4. Says
    BY <2>2, <2>3 DEF Says
  <2> QED BY <2>1, <2>2, <2>3, <2>4 DEF DoneInv
<1>2. DoneInv /\ [Next]_vars => DoneInv'
  BY DoneKeeps
<1>3. DoneInv => DoneIsDone
  BY DEF DoneInv, Says, DoneIsDone
<1> QED BY <1>1, <1>2, <1>3, PTL DEF Spec

(***************************************************************************)
(* A directory closed is left alone.                                       *)
(***************************************************************************)
\* What is beneath a directory is beneath those it is beneath.
LEMMA AboveOn ==
    ASSUME NEW p \in Files \cup Dirs, In[p] # Top, NEW d \in Above[p]
    PROVE  In[p] \in Dirs /\ (d = In[p] \/ d \in Above[In[p]])
<1> DEFINE s == {In[p]} \cup Above[In[p]]
<1>1. In[p] \in Dirs
  BY SyncAssumption
<1>2. /\ Above[In[p]] = {x \in Dirs \cup {Top} : \A t \in SUBSET (Dirs \cup {Top}) : In[In[p]] \in t /\ Upward(t) => x \in t}
      /\ Above[p] = {x \in Dirs \cup {Top} : \A t \in SUBSET (Dirs \cup {Top}) : In[p] \in t /\ Upward(t) => x \in t}
  BY <1>1 DEF Above
<1>3. s \in SUBSET (Dirs \cup {Top}) /\ In[p] \in s
  BY <1>1, <1>2
<1>4. Upward(s)
  <2> SUFFICES ASSUME NEW x \in s, x # Top PROVE In[x] \in s
    BY DEF Upward
  <2>1. CASE x = In[p]
    BY <1>1, <2>1, InAbove
  <2>2. CASE x \in Above[In[p]]
    <3>1. In[x] \in Dirs \cup {Top}
      BY <1>2, <2>2, SyncAssumption
    <3>2. \A t \in SUBSET (Dirs \cup {Top}) : In[In[p]] \in t /\ Upward(t) => In[x] \in t
      BY <1>2, <2>2 DEF Upward
    <3> QED BY <1>2, <3>1, <3>2
  <2> QED BY <2>1, <2>2
<1> QED BY <1>1, <1>2, <1>3, <1>4

\* What a directory that ended holds does not go with another.
LEMMA EndedHolds ==
    ASSUME Types, NEW r, NEW q, Next2(r, q), Opened(r), Entry(q).is = "end", open # <<>>,
           NEW f \in Files, In[f] \in EndedBy(r)
    PROVE  f \notin Lost(open[Len(open)]) /\ f \notin LostParts(open[Len(open)])
<1>0. PICK last : last = open[Len(open)]
  OBVIOUS
<1>1. PICK j \in DirIds : EndOf[j] <= r /\ Entry(j).at = In[f]
  BY DEF EndedBy
<1>2. In[f] \in Dirs /\ In[f] # Top /\ r \in Nat
  BY <1>1, NestFacts, SyncAssumption DEF Next2
<1>3. In[f] # last.dir
  <2>1. Len(open) \in 1..Len(open)
    BY Elements DEF Types
  <2>2. PICK k \in DirIds : Entry(k).at = last.dir /\ r < EndOf[k]
    BY <1>0, <2>1 DEF Opened, Begun
  <2>3. EndOf[j] \in Nat
    BY NestFacts, Walk DEF Ids
  <2>4. In[f] = last.dir => j = k
    BY <1>1, <2>2, NestFacts
  <2> QED BY <1>1, <1>2, <2>2, <2>3, <2>4
<1>4. In[f] \notin Lost(last)
  <2>1. In[f] \in Sent
    <3>1. j \in DOMAIN copy.walk /\ Entry(j).is = "dir" /\ ~Skipped(j)
      BY NestFacts, Walk
    <3> QED BY <1>1, <3>1 DEF Sent, Entry, Skipped
  <2> QED BY <1>0, <2>1, SentStays
<1>5. f \notin Lost(last)
  <2> SUFFICES ASSUME NEW d \in {f} \cup (Above[f] \ {Top}), Goner(d, last) PROVE FALSE
    BY DEF Lost
  <2>1. d # f
    BY <1>3 DEF Goner
  <2>2. d \in {In[f]} \cup (Above[In[f]] \ {Top})
    BY <1>2, <2>1, AboveOn
  <2> QED BY <1>2, <1>4, <2>2 DEF Lost
<1> QED BY <1>0, <1>3, <1>4, <1>5 DEF LostParts

LEMMA UnderIn ==
    ASSUME Types, NEW id \in UnderWay, IsFile(id)
    PROVE  Entry(id).at \in Files /\ Under(In[Entry(id).at])
<1>1. Entry(id).at \in Files
  BY Walk DEF IsFile
<1> QED BY <1>1, InAbove DEF Under

LEMMA ClosedStays ==
    ASSUME Types, NEW r \in 0..walked, LiveAt(Ahead, r), Agreed(Ahead, r), ReceiverStep,
           NEW f \in Files, In[f] \in closed
    PROVE  file'[f] = file[f] /\ part'[f] = part[f]
<1>1. In[f] \in EndedBy(r) /\ ~Under(In[f]) /\ Frames(r) /\ Opened(r) /\ r \in Nat
  BY DEF Agreed, Landed, Closes, LiveAt
<1>2. CASE Enter \/ Header \/ Settled \/ Finish \/ SayEnd
  BY <1>2 DEF Enter, Header, Settled, Finish, SayEnd, landVars
<1>3. CASE Leave
  <2>1. Next2(r, Head(pipe).id) /\ Entry(Head(pipe).id).is = "end" /\ open # <<>>
    BY <1>3, ItemTaken DEF Leave, AtEntry, At, Goes
  <2>2. f \notin Lost(open[Len(open)]) /\ f \notin LostParts(open[Len(open)])
    BY <1>1, <2>1, EndedHolds
  <2> QED BY <1>3, <2>2 DEF Leave
<1>4. CASE Symlink
  <2>1. Next2(r, Head(pipe).id) /\ Entry(Head(pipe).id).is = "link"
    BY <1>4, ItemTaken DEF Symlink, AtEntry, At, Goes
  <2>2. f # Here
    BY <1>1, <2>1, FreshFile DEF Here
  <2> QED BY <1>4, <2>2 DEF Symlink, Types
<1>5. ASSUME NEW id \in UnderWay, IsFile(id) PROVE f # Entry(id).at
  BY <1>1, <1>5, UnderIn
<1>6. CASE Data
  <2>0. PICK id : id = Head(pipe).id
    OBVIOUS
  <2>1. UNCHANGED file
    BY <1>6 DEF Data
  <2>2. CASE id \notin awaited
    BY <1>6, <2>0, <2>1, <2>2 DEF Data
  <2>3. CASE id \in awaited
    <3>1. f # Entry(id).at
      BY <1>5, <2>3 DEF UnderWay, LiveAt, Awaiting
    <3>2. part' = [part EXCEPT ![Entry(id).at] = Sized(Kept(Entry(id).at), Head(pipe).n)]
      BY <1>6, <2>0, <2>3 DEF Data
    <3> QED BY <2>1, <3>1, <3>2 DEF Types
  <2> QED BY <2>2, <2>3
<1>7. CASE Chunk \/ Rename
  <2>0. PICK id : id = landing.id
    OBVIOUS
  <2>1. receiver = "landing"
    BY <1>7 DEF Chunk, Rename, Arrived
  <2>2. f # Entry(id).at
    BY <1>5, <2>0, <2>1 DEF UnderWay, LiveAt, Lands
  <2>3. CASE Chunk
    BY <2>0, <2>2, <2>3 DEF Chunk, Types
  <2>4. CASE Rename
    BY <2>0, <2>2, <2>4 DEF Rename, Types
  <2> QED BY <1>7, <2>3, <2>4
<1> QED BY <1>2, <1>3, <1>4, <1>6, <1>7 DEF ReceiverStep

\* Once a directory has its mode and time nothing lands in it or goes from it: it may be read-only
\* (receive.rs close_ready).
THEOREM ClosedIsQuietAlways == Spec /\ OneOfAName => ClosedIsQuiet
<1>1. Init /\ OneOfAName => Inv
  BY StartsLive
<1>2. Inv /\ [Next]_vars => Inv'
  BY NextKeeps
<1>3. Inv /\ [Next]_vars =>
        [\A f \in Files : In[f] \in closed => file'[f] = file[f] /\ part'[f] = part[f]]_vars
  <2> SUFFICES ASSUME Inv, [Next]_vars, NEW f \in Files, In[f] \in closed
               PROVE  file'[f] = file[f] /\ part'[f] = part[f]
    OBVIOUS
  <2>1. CASE SenderStep
    BY <2>1 DEF SenderStep, SendEntry, SentAll, FlushToWait, TakeAnswer, TakeEnd, GoOn, SendBytes, SendLast,
       FlushLast, PassOver, landVars
  <2>2. CASE ReceiverStep
    <3>1. CASE receiver = "ended"
      BY <3>1, EndedStays
    <3>2. CASE receiver # "ended"
      <4>1. PICK r \in 0..walked : LiveAt(Ahead, r) /\ Agreed(Ahead, r)
        BY <3>2 DEF Inv, Live
      <4> QED BY <2>2, <4>1, ClosedStays DEF Inv
    <3> QED BY <3>1, <3>2
  <2>3. CASE SourceFails \/ LandFails \/ Cut \/ UNCHANGED vars
    BY <2>3 DEF SourceFails, LandFails, Cut, vars, landVars
  <2> QED BY <2>1, <2>2, <2>3 DEF Next
<1> QED BY <1>1, <1>2, <1>3, PTL DEF Spec, ClosedIsQuiet

(***************************************************************************)
(* A copy fails by a fault alone.                                          *)
(***************************************************************************)
\* Of what is queued, the answers take a file from those awaited, and the headers of files add one.
IsAnswer(x) == x.is \in {"same", "differs", "data"}
IsHeader(x) == x.is = "entry" /\ Entry(x.id).is = "file"
Answered(s, k) == {s[j].id : j \in {i \in 1..k - 1 : IsAnswer(s[i])}}
Headed(s, k) == {s[j].id : j \in {i \in 1..k - 1 : IsHeader(s[i])}}

\* The files that will be awaited when the receiver reads the item k.
Out(s, k) == (awaited \ Answered(s, k)) \cup Headed(s, k)

\* Each answer is of a file that will be awaited, each header of one more, within the window.
Accounts(s) ==
    /\ \A k \in 1..Len(s) : IsAnswer(s[k]) => s[k].id \in awaited
    /\ \A j, k \in 1..Len(s) : j # k /\ IsAnswer(s[j]) /\ IsAnswer(s[k]) => s[j].id # s[k].id
    /\ \A k \in 1..Len(s) : IsHeader(s[k]) =>
          s[k].id \notin awaited /\ s[k].id \in 1..walked /\ Cardinality(Out(s, k)) < Window
    /\ \A j, k \in 1..Len(s) : j # k /\ IsHeader(s[j]) /\ IsHeader(s[k]) => s[j].id # s[k].id
    /\ pending = Out(s, Len(s) + 1)
    /\ \A l \in 1..Len(replies) : replies[l].is # "end" =>
          replies[l].id \in 1..walked /\ \A k \in 1..Len(s) : IsHeader(s[k]) => s[k].id # replies[l].id

\* Without a fault, and until the receiver ends, the sender has all answers due when it closes, and
\* neither end has given up.
Honest ==
    ~faulted /\ receiver # "ended" =>
        /\ Accounts(Queued) /\ link = "up" /\ ~gaveUp
        /\ \A k \in 1..Len(Queued) : Queued[k].is # "failed"
        /\ sender \in {"closing", "flushing", "ending"} => pending = {}
        /\ sender # "over" /\ \A l \in 1..Len(replies) : replies[l].is # "end"

\* The bounds of the sender, of what is between the two, and of the receiver.
SenderBounds ==
    /\ sender \in {"walking", "answers", "awaiting", "bytes", "closing", "flushing", "ending", "over"}
    /\ pending \subseteq 1..walked /\ Cardinality(pending) <= Window
    /\ sender \in {"walking", "answers", "bytes"} => Cardinality(pending) < Window
    /\ said \in {None, "ok", "failed"}
    /\ \A l \in 1..Len(replies) : replies[l].is = "end" => replies[l].have \in {"ok", "failed"}
QueueBounds == Len(buf) <= Gather /\ Len(pipe) <= PipeDepth /\ Len(replies) <= ReplyDepth
ReceiverBounds ==
    /\ awaited \subseteq 1..walked /\ Cardinality(awaited) <= Window /\ dirs \subseteq Dirs
    /\ closing \cap closed = {} /\ closing \cup closed \subseteq Dirs
    /\ outcome \in {None, "ok", "failed", "malformed", "cut", "died"}

LEMMA InOut ==
    ASSUME NEW s, NEW k
    PROVE  /\ \A x : x \in Answered(s, k) <=> \E j \in 1..k - 1 : IsAnswer(s[j]) /\ s[j].id = x
           /\ \A x : x \in Headed(s, k) <=> \E j \in 1..k - 1 : IsHeader(s[j]) /\ s[j].id = x
           /\ \A x : x \in Out(s, k) <=> (x \in awaited /\ x \notin Answered(s, k)) \/ x \in Headed(s, k)
BY DEF Answered, Headed, Out

LEMMA SameItems ==
    ASSUME UNCHANGED copy
    PROVE  \A x : IsHeader(x)' = IsHeader(x)
BY SameWalk DEF IsHeader

\* The first item read, what was awaited of the rest is as it was.
LEMMA AccountsTaken ==
    ASSUME Types, Accounts(Queued), pipe # <<>>, pipe' = Tail(pipe),
           UNCHANGED <<copy, buf, link, walked, pending>>, awaited' = Out(Queued, 2),
           \A l \in 1..Len(replies') : replies'[l].is # "end" =>
              \/ \E m \in 1..Len(replies) : replies[m] = replies'[l]
              \/ replies'[l].id = Queued[1].id /\ IsHeader(Queued[1])
    PROVE  Accounts(Queued)'
<1> DEFINE x == Queued[1]
<1>1. /\ Len(Queued) \in Nat /\ Len(Queued) >= 1 /\ Len(Queued') = Len(Queued) - 1
      /\ \A k \in 1..Len(Queued) - 1 : Queued'[k] = Queued[k + 1]
  BY QueuedTaken, AheadIs, Elements DEF Types
<1>2. /\ \A k \in 1..Len(Queued') : Queued'[k] = Queued[k + 1] /\ k + 1 \in 1..Len(Queued) /\ k + 1 # 1
      /\ 1 \in 1..Len(Queued) /\ Len(Queued') \in Nat /\ Len(Queued') + 1 = Len(Queued)
  BY ONLY <1>1
<1>3. \A y : IsHeader(y)' = IsHeader(y)
  BY SameItems
<1>4. \A y : y \in awaited' <=> (y \in awaited /\ ~(IsAnswer(x) /\ x.id = y)) \/ (IsHeader(x) /\ x.id = y)
  <2>1. 1..2 - 1 = {1}
    OBVIOUS
  <2>2. \A y : (y \in Answered(Queued, 2) <=> IsAnswer(x) /\ x.id = y)
               /\ (y \in Headed(Queued, 2) <=> IsHeader(x) /\ x.id = y)
    BY ONLY <2>1, InOut
  <2> QED BY ONLY <2>2, InOut, awaited' = Out(Queued, 2)
<1>5. ASSUME NEW k \in 1..Len(Queued)
      PROVE  Out(Queued, k)' = Out(Queued, k + 1)
  <2>0. k \in Nat /\ \A j \in 1..k - 1 : j \in 1..Len(Queued') /\ j + 1 \in 1..(k + 1) - 1
    BY ONLY <1>1, <1>2, k \in 1..Len(Queued)
  <2>1. ASSUME NEW y PROVE
          /\ y \in Answered(Queued, k + 1) <=> (IsAnswer(x) /\ x.id = y) \/ y \in Answered(Queued, k)'
          /\ y \in Headed(Queued, k + 1) <=> (IsHeader(x) /\ x.id = y) \/ y \in Headed(Queued, k)'
    <3>1. ASSUME NEW j \in 1..(k + 1) - 1, j # 1
          PROVE  j - 1 \in 1..k - 1 /\ Queued'[j - 1] = Queued[j]
      <4>1. j - 1 \in 1..k - 1 /\ (j - 1) + 1 = j
        BY ONLY <2>0, <3>1
      <4> QED BY ONLY <4>1, <2>0, <1>2
    <3>2. \A j \in 1..k - 1 : Queued'[j] = Queued[j + 1]
      BY ONLY <2>0, <1>2
    <3>3. 1 \in 1..(k + 1) - 1
      BY ONLY <2>0, k \in 1..Len(Queued)
    <3>4. /\ y \in Answered(Queued, k)' <=> \E j \in 1..k - 1 : IsAnswer(Queued'[j]) /\ Queued'[j].id = y
          /\ y \in Headed(Queued, k)' <=> \E j \in 1..k - 1 : IsHeader(Queued'[j]) /\ Queued'[j].id = y
      BY <1>3 DEF Answered, Headed, IsAnswer
    <3>5. y \in Answered(Queued, k + 1) <=> (IsAnswer(x) /\ x.id = y) \/ y \in Answered(Queued, k)'
      <4>1. y \in Answered(Queued, k + 1) <=> \E j \in 1..(k + 1) - 1 : IsAnswer(Queued[j]) /\ Queued[j].id = y
        BY InOut
      <4>2. ASSUME NEW j \in 1..(k + 1) - 1, IsAnswer(Queued[j]), Queued[j].id = y
            PROVE  (IsAnswer(x) /\ x.id = y) \/ y \in Answered(Queued, k)'
        <5>1. CASE j = 1
          BY <4>2, <5>1
        <5>2. CASE j # 1
          <6>1. j - 1 \in 1..k - 1 /\ Queued'[j - 1] = Queued[j]
            BY <3>1, <5>2
          <6> QED BY <3>4, <4>2, <6>1
        <5> QED BY <5>1, <5>2
      <4>3. ASSUME NEW j \in 1..k - 1, IsAnswer(Queued'[j]), Queued'[j].id = y
            PROVE  y \in Answered(Queued, k + 1)
        <5>1. j + 1 \in 1..(k + 1) - 1 /\ Queued'[j] = Queued[j + 1]
          BY <2>0, <3>2
        <5> QED BY <4>1, <4>3, <5>1
      <4>4. IsAnswer(x) /\ x.id = y => y \in Answered(Queued, k + 1)
        BY <3>3, <4>1
      <4> QED BY <3>4, <4>1, <4>2, <4>3, <4>4
    <3>6. y \in Headed(Queued, k + 1) <=> (IsHeader(x) /\ x.id = y) \/ y \in Headed(Queued, k)'
      <4>1. y \in Headed(Queued, k + 1) <=> \E j \in 1..(k + 1) - 1 : IsHeader(Queued[j]) /\ Queued[j].id = y
        BY InOut
      <4>2. ASSUME NEW j \in 1..(k + 1) - 1, IsHeader(Queued[j]), Queued[j].id = y
            PROVE  (IsHeader(x) /\ x.id = y) \/ y \in Headed(Queued, k)'
        <5>1. CASE j = 1
          BY <4>2, <5>1
        <5>2. CASE j # 1
          <6>1. j - 1 \in 1..k - 1 /\ Queued'[j - 1] = Queued[j]
            BY <3>1, <5>2
          <6> QED BY <3>4, <4>2, <6>1
        <5> QED BY <5>1, <5>2
      <4>3. ASSUME NEW j \in 1..k - 1, IsHeader(Queued'[j]), Queued'[j].id = y
            PROVE  y \in Headed(Queued, k + 1)
        <5>1. j + 1 \in 1..(k + 1) - 1 /\ Queued'[j] = Queued[j + 1]
          BY <2>0, <3>2
        <5> QED BY <4>1, <4>3, <5>1
      <4>4. IsHeader(x) /\ x.id = y => y \in Headed(Queued, k + 1)
        BY <3>3, <4>1
      <4> QED BY <3>4, <4>1, <4>2, <4>3, <4>4
    <3> QED BY <3>5, <3>6
  <2>2. \A y : y \in Answered(Queued, k)' => y \in awaited /\ (IsHeader(x) => x.id # y)
    <3>1. ASSUME NEW j \in 1..k - 1, IsAnswer(Queued'[j])
          PROVE  Queued'[j].id \in awaited /\ (IsHeader(x) => x.id # Queued'[j].id)
      BY <1>2, <2>0, <3>1 DEF Accounts
    <3>2. \A y : y \in Answered(Queued, k)' => \E j \in 1..k - 1 : IsAnswer(Queued'[j]) /\ Queued'[j].id = y
      BY DEF Answered, IsAnswer
    <3> QED BY ONLY <3>1, <3>2
  <2>3. \A y : y \in Out(Queued, k)' <=> (y \in awaited' /\ y \notin Answered(Queued, k)') \/ y \in Headed(Queued, k)'
    BY DEF Out
  <2>4. \A y : y \in Out(Queued, k)' <=> y \in Out(Queued, k + 1)
    BY ONLY <1>4, <2>1, <2>2, <2>3, InOut
  <2> QED BY <2>4 DEF Out
<1>6. ASSUME NEW k \in 1..Len(Queued')
      PROVE  /\ IsAnswer(Queued[k])' => Queued'[k].id \in awaited'
             /\ IsHeader(Queued[k])' => /\ Queued'[k].id \notin awaited' /\ Queued'[k].id \in 1..walked'
                                        /\ Cardinality(Out(Queued, k))' < Window
  <2>1. /\ Queued'[k] = Queued[k + 1] /\ k + 1 \in 1..Len(Queued) /\ k + 1 # 1 /\ 1 \in 1..Len(Queued)
        /\ IsAnswer(Queued[k])' = IsAnswer(Queued[k + 1]) /\ IsHeader(Queued[k])' = IsHeader(Queued[k + 1])
    BY <1>2, <1>3 DEF IsAnswer
  <2>2. IsAnswer(Queued[k + 1]) => /\ Queued[k + 1].id \in awaited
                                   /\ IsAnswer(x) => x.id # Queued[k + 1].id
    BY <2>1 DEF Accounts
  <2>3. IsHeader(Queued[k + 1]) => /\ Queued[k + 1].id \notin awaited /\ Queued[k + 1].id \in 1..walked
                                   /\ Cardinality(Out(Queued, k + 1)) < Window
                                   /\ IsHeader(x) => x.id # Queued[k + 1].id
    BY <2>1 DEF Accounts
  <2>4. k \in 1..Len(Queued)
    BY ONLY <1>1, k \in 1..Len(Queued')
  <2>5. Out(Queued, k)' = Out(Queued, k + 1) /\ walked' = walked
    BY <1>5, <2>4
  <2> QED BY ONLY <1>4, <2>1, <2>2, <2>3, <2>5
<1>7. ASSUME NEW j \in 1..Len(Queued'), NEW k \in 1..Len(Queued'), j # k
      PROVE  /\ IsAnswer(Queued[j])' /\ IsAnswer(Queued[k])' => Queued'[j].id # Queued'[k].id
             /\ IsHeader(Queued[j])' /\ IsHeader(Queued[k])' => Queued'[j].id # Queued'[k].id
  <2>1. j + 1 # k + 1 /\ Queued'[j] = Queued[j + 1] /\ Queued'[k] = Queued[k + 1]
        /\ j + 1 \in 1..Len(Queued) /\ k + 1 \in 1..Len(Queued)
    BY ONLY <1>1, <1>2, <1>7
  <2>2. /\ IsAnswer(Queued[j])' = IsAnswer(Queued[j + 1]) /\ IsHeader(Queued[j])' = IsHeader(Queued[j + 1])
        /\ IsAnswer(Queued[k])' = IsAnswer(Queued[k + 1]) /\ IsHeader(Queued[k])' = IsHeader(Queued[k + 1])
    BY <1>3, <2>1 DEF IsAnswer
  <2> QED BY <2>1, <2>2 DEF Accounts
<1>8. (pending = Out(Queued, Len(Queued) + 1))'
  <2>1. Len(Queued) \in 1..Len(Queued)
    BY ONLY <1>1
  <2>2. \A k : k = Len(Queued) => Out(Queued, k)' = Out(Queued, Len(Queued) + 1)
    BY <1>5, <2>1
  <2>3. pending' = Out(Queued, Len(Queued) + 1)
    BY DEF Accounts
  <2>4. \A k : k = Len(Queued') + 1 => Out(Queued, k)' = pending'
    BY <1>2, <2>2, <2>3
  <2> QED BY <2>4 DEF Out
<1>9. ASSUME NEW l \in 1..Len(replies'), replies'[l].is # "end"
      PROVE  /\ replies'[l].id \in 1..walked'
             /\ \A k \in 1..Len(Queued') : IsHeader(Queued[k])' => Queued'[k].id # replies'[l].id
  <2>1. \A k \in 1..Len(Queued') : IsHeader(Queued[k])' = IsHeader(Queued[k + 1])
    BY <1>2, <1>3
  <2>2. CASE \E m \in 1..Len(replies) : replies[m] = replies'[l]
    <3>1. PICK m \in 1..Len(replies) : replies[m] = replies'[l]
      BY <2>2
    <3>2. replies[m].id \in 1..walked /\ \A k \in 1..Len(Queued) : IsHeader(Queued[k]) => Queued[k].id # replies[m].id
      BY <1>9, <3>1 DEF Accounts
    <3> QED BY <1>2, <2>1, <3>1, <3>2
  <2>3. CASE replies'[l].id = Queued[1].id /\ IsHeader(Queued[1])
    BY <1>2, <2>1, <2>3 DEF Accounts
  <2> QED BY <1>9, <2>2, <2>3
<1> HIDE DEF x
<1> QED BY <1>6, <1>7, <1>8, <1>9 DEF Accounts

\* An item put, what will be awaited after it is what is pending.
LEMMA AccountsPut ==
    ASSUME Types, Accounts(Queued), link = "up", NEW x \in AnItem, Put(x), UNCHANGED <<copy, awaited, link>>,
           walked' \in Nat, walked' >= walked,
           \A l \in 1..Len(replies') : replies'[l].is # "end" => \E m \in 1..Len(replies) : replies[m] = replies'[l],
           \A y : y \in pending' <=> (y \in pending /\ ~(IsAnswer(x) /\ x.id = y)) \/ (IsHeader(x) /\ x.id = y),
           IsAnswer(x) => x.id \in pending /\ x.id \in awaited,
           IsHeader(x) => /\ Cardinality(pending) < Window /\ x.id \notin awaited /\ x.id \in 1..walked'
                          /\ \A k \in 1..Len(Queued) : IsHeader(Queued[k]) => Queued[k].id # x.id
                          /\ \A m \in 1..Len(replies) : replies[m].is # "end" => replies[m].id # x.id
    PROVE  Accounts(Queued)'
<1> DEFINE n == Len(Queued) + 1
<1>1. /\ Len(Queued) \in Nat /\ Len(Queued') = n /\ Queued'[n] = x
      /\ \A k \in 1..Len(Queued) : Queued'[k] = Queued[k]
  BY QueuedPut, AheadIs, Elements DEF Types
<1>2. /\ n \in Nat /\ n \in 1..Len(Queued') /\ walked \in Nat
      /\ \A k \in 1..Len(Queued') : k \in 1..Len(Queued) \/ k = n
      /\ \A i \in 1..walked : i \in 1..walked'
      /\ n \notin 1..Len(Queued) /\ n - 1 = Len(Queued) /\ (n + 1) - 1 = n
  <2>1. walked \in Nat
    BY Walk DEF Types
  <2> QED BY ONLY <1>1, <2>1, walked' \in Nat, walked' >= walked
<1>3. \A y : IsHeader(y)' = IsHeader(y)
  BY SameItems
<1> HIDE DEF n
<1>4. ASSUME NEW k \in 1..n
      PROVE  Answered(Queued, k)' = Answered(Queued, k) /\ Headed(Queued, k)' = Headed(Queued, k)
             /\ Out(Queued, k)' = Out(Queued, k)
  <2>1. \A j \in 1..k - 1 : Queued'[j] = Queued[j]
    <3>1. \A j \in 1..k - 1 : j \in 1..Len(Queued)
      BY ONLY <1>1, <1>2, k \in 1..n
    <3> QED BY ONLY <1>1, <3>1
  <2>2. Answered(Queued, k)' = Answered(Queued, k)
    BY <2>1 DEF Answered, IsAnswer
  <2>3. Headed(Queued, k)' = Headed(Queued, k)
    BY <1>3, <2>1 DEF Headed
  <2> QED BY <2>2, <2>3 DEF Out
<1>5. \A k \in 1..Len(Queued) : k \in 1..n
  BY ONLY <1>1, <1>2
<1>6. (pending = Out(Queued, Len(Queued) + 1))'
  <2>1. pending = Out(Queued, n) /\ \A y \in Headed(Queued, n) : y \notin awaited
    <3>1. \A j \in 1..n - 1 : IsHeader(Queued[j]) => Queued[j].id \notin awaited
      BY <1>2 DEF Accounts
    <3>2. pending = Out(Queued, n)
      BY DEF Accounts, n
    <3> QED BY <3>1, <3>2, InOut
  <2>2. ASSUME NEW k, k = n + 1
        PROVE  Out(Queued, k)' = pending'
    <3>1. \A j : j \in 1..k - 1 <=> j \in 1..n - 1 \/ j = n
      BY ONLY <1>2, k = n + 1
    <3>2. \A j \in 1..n - 1 : Queued'[j] = Queued[j]
      BY ONLY <1>1, <1>2
    <3>3. \A y : y \in Answered(Queued, k)' <=> \E j \in 1..k - 1 : IsAnswer(Queued'[j]) /\ Queued'[j].id = y
      BY DEF Answered, IsAnswer
    <3>4. \A y : y \in Headed(Queued, k)' <=> \E j \in 1..k - 1 : IsHeader(Queued'[j]) /\ Queued'[j].id = y
      BY <1>3 DEF Headed
    <3>5. \A y : y \in Answered(Queued, k)' <=> y \in Answered(Queued, n) \/ (IsAnswer(x) /\ x.id = y)
      <4>1. Queued'[n] = x
        BY <1>1
      <4>2. \A y : y \in Answered(Queued, n) <=> \E j \in 1..n - 1 : IsAnswer(Queued'[j]) /\ Queued'[j].id = y
        BY ONLY <3>2, InOut
      <4> HIDE DEF n
      <4> QED BY ONLY <3>1, <3>3, <4>1, <4>2
    <3>6. \A y : y \in Headed(Queued, k)' <=> y \in Headed(Queued, n) \/ (IsHeader(x) /\ x.id = y)
      <4>1. Queued'[n] = x
        BY <1>1
      <4>2. \A y : y \in Headed(Queued, n) <=> \E j \in 1..n - 1 : IsHeader(Queued'[j]) /\ Queued'[j].id = y
        BY ONLY <3>2, InOut
      <4> HIDE DEF n
      <4> QED BY ONLY <3>1, <3>4, <4>1, <4>2
    <3>7. \A y : y \in Out(Queued, k)' <=>
                    (y \in awaited /\ y \notin Answered(Queued, k)') \/ y \in Headed(Queued, k)'
      BY DEF Out
    <3>8. \A y : y \in Out(Queued, n) <=> (y \in awaited /\ y \notin Answered(Queued, n)) \/ y \in Headed(Queued, n)
      BY InOut
    <3>9. \A y : y \in pending' <=> y \in Out(Queued, k)'
      BY ONLY <2>1, <3>5, <3>6, <3>7, <3>8, IsAnswer(x) => x.id \in pending /\ x.id \in awaited,
         \A y : y \in pending' <=> (y \in pending /\ ~(IsAnswer(x) /\ x.id = y)) \/ (IsHeader(x) /\ x.id = y)
    <3>10. pending' \subseteq Out(Queued, k)' /\ Out(Queued, k)' \subseteq pending'
      BY <3>9
    <3> QED BY <3>10
  <2>3. \A k : k = Len(Queued') + 1 => Out(Queued, k)' = pending'
    BY <1>1, <2>2
  <2> QED BY <2>3 DEF Out
<1>7. IsAnswer(x) => \A k \in 1..Len(Queued) : IsAnswer(Queued[k]) => Queued[k].id # x.id
  <2>1. \A k \in 1..n - 1 : IsAnswer(Queued[k]) => Queued[k].id \in Answered(Queued, n)
    BY InOut
  <2>2. \A k \in 1..n - 1 : IsHeader(Queued[k]) => Queued[k].id \notin awaited
    BY <1>2 DEF Accounts
  <2>3. pending = Out(Queued, n)
    BY DEF Accounts, n
  <2>4. IsAnswer(x) => x.id \notin Answered(Queued, n)
    BY <2>2, <2>3, InOut
  <2> QED BY <1>2, <2>1, <2>4
<1>8. ASSUME NEW k \in 1..Len(Queued')
      PROVE  /\ IsAnswer(Queued[k])' => Queued'[k].id \in awaited'
             /\ IsHeader(Queued[k])' => /\ Queued'[k].id \notin awaited' /\ Queued'[k].id \in 1..walked'
                                        /\ Cardinality(Out(Queued, k))' < Window
  <2>1. IsAnswer(Queued[k])' = IsAnswer(Queued'[k]) /\ IsHeader(Queued[k])' = IsHeader(Queued'[k])
    BY <1>3 DEF IsAnswer
  <2>2. CASE k \in 1..Len(Queued)
    <3>1. Queued'[k] = Queued[k] /\ Out(Queued, k)' = Out(Queued, k)
      BY <1>1, <1>4, <1>5, <2>2
    <3> QED BY <1>2, <2>1, <2>2, <3>1 DEF Accounts
  <2>3. CASE k = n
    <3>1. Queued'[k] = x /\ Out(Queued, k)' = pending
      BY <1>1, <1>2, <1>4, <2>3 DEF Accounts, n
    <3> QED BY <2>1, <3>1
  <2> QED BY <1>2, <2>2, <2>3
<1>9. ASSUME NEW j \in 1..Len(Queued'), NEW k \in 1..Len(Queued'), j # k
      PROVE  /\ IsAnswer(Queued[j])' /\ IsAnswer(Queued[k])' => Queued'[j].id # Queued'[k].id
             /\ IsHeader(Queued[j])' /\ IsHeader(Queued[k])' => Queued'[j].id # Queued'[k].id
  <2>1. /\ IsAnswer(Queued[j])' = IsAnswer(Queued'[j]) /\ IsHeader(Queued[j])' = IsHeader(Queued'[j])
        /\ IsAnswer(Queued[k])' = IsAnswer(Queued'[k]) /\ IsHeader(Queued[k])' = IsHeader(Queued'[k])
    BY <1>3 DEF IsAnswer
  <2>2. CASE j \in 1..Len(Queued) /\ k \in 1..Len(Queued)
    BY <1>1, <1>9, <2>1, <2>2 DEF Accounts
  <2>3. CASE j \in 1..Len(Queued) /\ k = n
    BY <1>1, <1>7, <2>1, <2>3
  <2>4. CASE k \in 1..Len(Queued) /\ j = n
    BY <1>1, <1>7, <2>1, <2>4
  <2> QED BY <1>2, <1>9, <2>2, <2>3, <2>4
<1>10. ASSUME NEW l \in 1..Len(replies'), replies'[l].is # "end"
       PROVE  /\ replies'[l].id \in 1..walked'
              /\ \A k \in 1..Len(Queued') : IsHeader(Queued[k])' => Queued'[k].id # replies'[l].id
  <2>1. PICK m \in 1..Len(replies) : replies[m] = replies'[l]
    BY <1>10
  <2>2. \A k \in 1..Len(Queued') : IsHeader(Queued[k])' = IsHeader(Queued'[k])
    BY <1>3
  <2>3. replies[m].id \in 1..walked /\ \A k \in 1..Len(Queued) : IsHeader(Queued[k]) => Queued[k].id # replies[m].id
    BY <1>10, <2>1 DEF Accounts
  <2>4. IsHeader(x) => x.id # replies[m].id
    BY <1>10, <2>1
  <2> QED BY <1>1, <1>2, <2>1, <2>2, <2>3, <2>4
<1> QED BY <1>6, <1>8, <1>9, <1>10 DEF Accounts

\* Nothing put or read, and some answers taken.
LEMMA AccountsSame ==
    ASSUME Types, Accounts(Queued), Queued' = Queued, UNCHANGED <<copy, awaited, pending>>,
           walked' \in Nat, walked' >= walked,
           \A l \in 1..Len(replies') : replies'[l].is # "end" => \E m \in 1..Len(replies) : replies[m] = replies'[l]
    PROVE  Accounts(Queued)'
<1>1. \A i \in 1..walked : i \in 1..walked'
  <2>1. walked \in Nat
    BY Walk DEF Types
  <2> QED BY ONLY <2>1, walked' \in Nat, walked' >= walked
<1>2. \A y : IsHeader(y)' = IsHeader(y)
  BY SameItems
<1>3. \A k : IsHeader(Queued[k])' = IsHeader(Queued[k]) /\ IsAnswer(Queued[k])' = IsAnswer(Queued[k])
  BY <1>2 DEF IsAnswer
<1>4. ASSUME NEW k PROVE Out(Queued, k)' = Out(Queued, k)
  <2>1. Answered(Queued, k)' = Answered(Queued, k)
    BY DEF Answered, IsAnswer
  <2>2. Headed(Queued, k)' = Headed(Queued, k)
    BY <1>2 DEF Headed
  <2> QED BY <2>1, <2>2 DEF Out
<1>5. ASSUME NEW l \in 1..Len(replies'), replies'[l].is # "end"
      PROVE  /\ replies'[l].id \in 1..walked'
             /\ \A k \in 1..Len(Queued') : IsHeader(Queued[k])' => Queued'[k].id # replies'[l].id
  <2>1. PICK m \in 1..Len(replies) : replies[m] = replies'[l]
    BY <1>5
  <2> QED BY <1>1, <1>3, <1>5, <2>1 DEF Accounts
<1>6. \A k \in 1..Len(Queued') : IsHeader(Queued[k])' =>
          Queued'[k].id \notin awaited' /\ Queued'[k].id \in 1..walked' /\ Cardinality(Out(Queued, k))' < Window
  BY <1>1, <1>3, <1>4 DEF Accounts
<1>7. (pending = Out(Queued, Len(Queued) + 1))'
  BY <1>4 DEF Accounts
<1> QED BY <1>3, <1>5, <1>6, <1>7 DEF Accounts

\* What the sender does, honest as it is.
LEMMA QuietHonest ==
    ASSUME Types, ~faulted, receiver # "ended", Honest, SenderKeeps, Queued' = Queued, UNCHANGED <<pending, gaveUp>>,
           walked' \in Nat, walked' >= walked, sender' # "over",
           sender' \in {"closing", "flushing", "ending"} => pending = {}
    PROVE  Honest'
<1>1. /\ Accounts(Queued) /\ link = "up" /\ ~gaveUp
      /\ \A k \in 1..Len(Queued) : Queued[k].is # "failed"
      /\ \A l \in 1..Len(replies) : replies[l].is # "end"
  BY DEF Honest
<1>2. UNCHANGED <<copy, awaited, link>> /\ \A l \in 1..Len(replies') : \E m \in 1..Len(replies) : replies[m] = replies'[l]
  BY RepliesTaken DEF SenderKeeps
<1>3. Accounts(Queued)'
  BY <1>1, <1>2, AccountsSame
<1>4. \A l \in 1..Len(replies') : replies'[l].is # "end"
  BY <1>1, <1>2
<1> QED BY <1>1, <1>2, <1>3, <1>4 DEF Honest

LEMMA PutHonest ==
    ASSUME Types, ~faulted, receiver # "ended", Honest, SenderKeeps, NEW x \in AnItem, Put(x), x.is # "failed",
           UNCHANGED gaveUp, walked' \in Nat, walked' >= walked, sender' # "over",
           sender' \in {"closing", "flushing", "ending"} => pending' = {},
           \A y : y \in pending' <=> (y \in pending /\ ~(IsAnswer(x) /\ x.id = y)) \/ (IsHeader(x) /\ x.id = y),
           IsAnswer(x) => x.id \in pending /\ x.id \in awaited,
           IsHeader(x) => /\ Cardinality(pending) < Window /\ x.id \notin awaited /\ x.id \in 1..walked'
                          /\ \A k \in 1..Len(Queued) : IsHeader(Queued[k]) => Queued[k].id # x.id
                          /\ \A m \in 1..Len(replies) : replies[m].is # "end" => replies[m].id # x.id
    PROVE  Honest'
<1>1. /\ Accounts(Queued) /\ link = "up" /\ ~gaveUp
      /\ \A k \in 1..Len(Queued) : Queued[k].is # "failed"
      /\ \A l \in 1..Len(replies) : replies[l].is # "end"
  BY DEF Honest
<1>2. UNCHANGED <<copy, awaited, link>> /\ \A l \in 1..Len(replies') : \E m \in 1..Len(replies) : replies[m] = replies'[l]
  BY RepliesTaken DEF SenderKeeps
<1>3. Accounts(Queued)'
  BY <1>1, <1>2, AccountsPut
<1>4. \A l \in 1..Len(replies') : replies'[l].is # "end"
  BY <1>1, <1>2
<1>5. \A k \in 1..Len(Queued') : Queued'[k].is # "failed"
  <2>1. /\ Len(Queued) \in Nat /\ Len(Queued') = Len(Queued) + 1 /\ Queued'[Len(Queued) + 1] = x
        /\ \A k \in 1..Len(Queued) : Queued'[k] = Queued[k]
    <3>1. Queued \in Seq(AnItem) /\ Len(Queued) \in Nat
      BY AheadIs, Elements DEF Types
    <3>2. Queued' = Append(Queued, x)
      BY <1>1, <1>2, QueuedPut DEF Types
    <3> QED BY ONLY <3>1, <3>2, Appended, x \in AnItem
  <2>2. \A k \in 1..Len(Queued') : k \in 1..Len(Queued) \/ k = Len(Queued) + 1
    BY ONLY <2>1
  <2> QED BY <1>1, <2>1, <2>2
<1> QED BY <1>1, <1>2, <1>3, <1>4, <1>5 DEF Honest

LEMMA QueuedFlushed ==
    ASSUME Types, Flush, UNCHANGED link
    PROVE  Queued' = Queued
<1>1. CASE link = "up"
  <2>1. (pipe \o buf) \o <<>> = pipe \o buf
    BY DEF Types
  <2> QED BY <1>1, <2>1 DEF Flush, Flushed, Queued
<1>2. CASE link # "up"
  BY <1>2 DEF Types, Flush, Flushed, Queued
<1> QED BY <1>1, <1>2

LEMMA SendEntryHonest ==
    ASSUME Types, ~faulted, receiver # "ended", Honest, SenderBounds, ReceiverBounds, SendEntry
    PROVE  Honest'
<1> DEFINE i == walked + 1
           here == Entry(i)
           x == Item("entry", i, 0)
<1>1. SenderKeeps /\ UNCHANGED gaveUp /\ sender = "walking" /\ walked' = i
  BY DEF SendEntry, SenderKeeps, recvVars, landVars
<1>2. walked \in Nat /\ i \in Nat /\ i >= walked /\ i \in 1..i /\ i \notin 1..walked
  BY Walk DEF Types
<1>3. CASE UNCHANGED <<sender, pending, buf, pipe>>
  <2>1. Queued' = Queued
    BY <1>1, <1>3 DEF Queued, SenderKeeps
  <2> QED BY <1>1, <1>2, <1>3, <2>1, QuietHonest
<1>4. CASE /\ Put(x) /\ pending' = IF here.is = "file" THEN pending \cup {i} ELSE pending
           /\ sender' = IF here.is = "file" /\ AtWindow(pending') THEN "awaiting"
                        ELSE IF here.is \in {"file", "link"} THEN "answers"
                        ELSE "walking"
  <2>1. x \in AnItem /\ x.is = "entry" /\ x.id = i
    BY <1>2, ItemType
  <2>2. ~IsAnswer(x) /\ (IsHeader(x) <=> here.is = "file")
    BY <2>1 DEF IsAnswer, IsHeader
  <2>3. sender' \in {"awaiting", "answers", "walking"}
    BY <1>4
  <2>4. Cardinality(pending) < Window /\ i \notin awaited
    BY <1>1, <1>2 DEF SenderBounds, ReceiverBounds
  <2>5. /\ \A k \in 1..Len(Queued) : IsHeader(Queued[k]) => Queued[k].id # i
        /\ \A m \in 1..Len(replies) : replies[m].is # "end" => replies[m].id # i
    BY <1>2 DEF Honest, Accounts
  <2>6. \A y : y \in pending' <=> (y \in pending /\ ~(IsAnswer(x) /\ x.id = y)) \/ (IsHeader(x) /\ x.id = y)
    BY <1>4, <2>1, <2>2
  <2> HIDE DEF x
  <2> QED BY <1>1, <1>2, <1>4, <2>1, <2>2, <2>3, <2>4, <2>5, <2>6, PutHonest
<1> QED BY <1>3, <1>4 DEF SendEntry

LEMMA TakeAnswerHonest ==
    ASSUME Types, ~faulted, receiver # "ended", Honest, SenderBounds, ReceiverBounds, TakeAnswer
    PROVE  Honest'
<1> DEFINE a == Head(replies)
           from == From(a)
<1>1. /\ SenderKeeps /\ UNCHANGED <<gaveUp, walked>> /\ replies # <<>> /\ a.is # "end"
      /\ a.id \in pending /\ pending' = pending \ {a.id} /\ sender' \in {"answers", "bytes"}
  BY DEF TakeAnswer, SenderKeeps, recvVars, landVars
<1>2. a = replies[1] /\ 1 \in 1..Len(replies) /\ Sound(a) /\ a \in AnAnswer /\ a.id \in Nat /\ walked \in Nat
  <2>1. replies \in Seq(AnAnswer) /\ walked \in Nat
    BY Walk DEF Types
  <2>2. a = replies[1] /\ a \in AnAnswer /\ 1 \in 1..Len(replies)
    BY <1>1, <2>1, Taken
  <2>3. Sound(a)
    BY <1>1, <2>2 DEF Types
  <2> QED BY <2>1, <2>2, <2>3 DEF AnAnswer
<1>3. a.id \in awaited
  <2>1. \A k \in 1..Len(Queued) : IsHeader(Queued[k]) => Queued[k].id # a.id
    BY <1>1, <1>2 DEF Honest, Accounts
  <2>2. pending = Out(Queued, Len(Queued) + 1)
    BY DEF Honest, Accounts
  <2>3. Len(Queued) \in Nat
    BY AheadIs, Elements DEF Types
  <2>4. (Len(Queued) + 1) - 1 = Len(Queued)
    BY ONLY <2>3
  <2> QED BY ONLY <1>1, <2>1, <2>2, <2>4, InOut
<1>4. from = None \/ from \in Nat
  BY <1>1, <1>2, FromIs
<1>5. ASSUME NEW x \in AnItem, Put(x), x.id = a.id, IsAnswer(x), x.is # "failed"
      PROVE  Honest'
  <2>1. ~IsHeader(x)
    BY <1>5 DEF IsAnswer, IsHeader
  <2>2. \A y : y \in pending' <=> (y \in pending /\ ~(IsAnswer(x) /\ x.id = y)) \/ (IsHeader(x) /\ x.id = y)
    BY <1>1, <1>5, <2>1
  <2> QED BY <1>1, <1>2, <1>3, <1>5, <2>1, <2>2, PutHonest
<1>6. ASSUME NEW is \in {"same", "differs", "data"}, NEW n \in Nat, Put(Item(is, a.id, n))
      PROVE  Honest'
  <2>1. Item(is, a.id, n) \in AnItem /\ Item(is, a.id, n).is = is /\ Item(is, a.id, n).id = a.id
    BY <1>2, ItemType
  <2> QED BY <1>5, <1>6, <2>1 DEF IsAnswer
<1>7. \/ Put(Item("same", a.id, 0))
      \/ from # None /\ Put(Item("differs", a.id, from))
      \/ from # None /\ Put(Item("data", a.id, from))
  BY DEF TakeAnswer
<1> QED BY <1>4, <1>6, <1>7

LEMMA SenderHonest ==
    ASSUME Types, Honest, SenderBounds, ReceiverBounds, SenderStep
    PROVE  Honest'
<1>1. UNCHANGED <<faulted, receiver, link>>
  BY DEF SenderStep, SendEntry, SentAll, FlushToWait, TakeAnswer, TakeEnd, GoOn, SendBytes, SendLast, FlushLast,
     PassOver, recvVars
<1> SUFFICES ASSUME ~faulted, receiver # "ended" PROVE Honest'
  BY <1>1 DEF Honest
<1>2. /\ ~gaveUp /\ walked \in Nat /\ walked >= walked
      /\ sender \in {"closing", "flushing", "ending"} => pending = {}
      /\ sender # "over" /\ \A l \in 1..Len(replies) : replies[l].is # "end"
  BY Walk DEF Honest, Types
<1>3. CASE SentAll \/ GoOn
  <2>1. /\ SenderKeeps /\ UNCHANGED <<pending, gaveUp, walked, buf, pipe>> /\ sender' # "over"
        /\ sender' \in {"closing", "flushing", "ending"} => pending = {}
    BY <1>3 DEF SentAll, GoOn, SenderKeeps, recvVars, landVars
  <2>2. Queued' = Queued
    BY <1>1, <2>1 DEF Queued
  <2> QED BY <1>2, <2>1, <2>2, QuietHonest
<1>4. CASE FlushToWait \/ FlushLast
  <2>1. /\ SenderKeeps /\ UNCHANGED <<pending, gaveUp, walked>> /\ sender' # "over"
        /\ sender' \in {"closing", "flushing", "ending"} => pending = {}
    BY <1>2, <1>4 DEF FlushToWait, FlushLast, SenderKeeps, sendVars, recvVars, landVars
  <2>2. Queued' = Queued
    BY <1>1, <1>4, QueuedFlushed DEF FlushToWait, FlushLast
  <2> QED BY <1>2, <2>1, <2>2, QuietHonest
<1>5. CASE PassOver
  <2>1. /\ SenderKeeps /\ UNCHANGED <<pending, gaveUp, walked, buf, pipe, sender>>
    BY <1>5 DEF PassOver, SenderKeeps, sendVars, recvVars, landVars
  <2>2. Queued' = Queued
    BY <1>1, <2>1 DEF Queued
  <2> QED BY <1>2, <2>1, <2>2, QuietHonest
<1>6. ~TakeEnd
  <2>1. replies # <<>> => Head(replies) = replies[1] /\ 1 \in 1..Len(replies)
    BY Taken DEF Types
  <2> QED BY <1>2, <2>1 DEF TakeEnd
<1>7. ASSUME NEW x \in AnItem, Put(x), x.is \in {"chunk", "sent", "done"}, SenderKeeps,
             UNCHANGED <<pending, gaveUp, walked>>, sender' # "over",
             sender' \in {"closing", "flushing", "ending"} => pending = {}
      PROVE  Honest'
  <2>1. ~IsAnswer(x) /\ ~IsHeader(x) /\ x.is # "failed"
    BY <1>7 DEF IsAnswer, IsHeader
  <2> QED BY <1>2, <1>7, <2>1, PutHonest
<1>8. CASE SendBytes
  <2>1. /\ SenderKeeps /\ UNCHANGED <<pending, gaveUp, walked>> /\ sender' \in {"bytes", "answers"}
        /\ \/ /\ bytes.at < Len(Entry(bytes.id).whole)
              /\ Put(Item("chunk", bytes.id, Entry(bytes.id).whole[bytes.at + 1]))
           \/ Put(Item("sent", bytes.id, 0))
    BY <1>8 DEF SendBytes, SenderKeeps, recvVars, landVars
  <2>2. bytes.id \in Nat /\ IsFile(bytes.id) /\ bytes.at \in Nat
    BY <1>8 DEF SendBytes, Types
  <2>3. CASE Put(Item("sent", bytes.id, 0))
    <3>1. Item("sent", bytes.id, 0) \in AnItem /\ Item("sent", bytes.id, 0).is = "sent"
      BY <2>2, ItemType
    <3> QED BY <1>7, <2>1, <2>3, <3>1
  <2>4. CASE /\ bytes.at < Len(Entry(bytes.id).whole)
             /\ Put(Item("chunk", bytes.id, Entry(bytes.id).whole[bytes.at + 1]))
    <3>1. Entry(bytes.id).whole[bytes.at + 1] \in Nat
      <4>1. Entry(bytes.id).whole \in Seq(Nat)
        BY <2>2, Walk DEF IsFile
      <4>2. Len(Entry(bytes.id).whole) \in Nat
            /\ \A k \in 1..Len(Entry(bytes.id).whole) : Entry(bytes.id).whole[k] \in Nat
        BY <4>1, Elements
      <4>3. bytes.at + 1 \in 1..Len(Entry(bytes.id).whole)
        BY ONLY <2>2, <2>4, <4>2
      <4> QED BY <4>2, <4>3
    <3>2. /\ Item("chunk", bytes.id, Entry(bytes.id).whole[bytes.at + 1]) \in AnItem
          /\ Item("chunk", bytes.id, Entry(bytes.id).whole[bytes.at + 1]).is = "chunk"
      BY ONLY <2>2, <3>1, ChunkType
    <3> QED BY <1>7, <2>1, <2>4, <3>2
  <2> QED BY <2>1, <2>3, <2>4
<1>9. CASE SendLast
  <2>1. Item("done", 0, 0) \in AnItem /\ Item("done", 0, 0).is = "done"
    BY ItemType
  <2>2. /\ SenderKeeps /\ UNCHANGED <<pending, gaveUp, walked>> /\ sender' = "flushing" /\ sender = "closing"
        /\ Put(Item("done", 0, 0))
    BY <1>2, <1>9 DEF SendLast, SenderKeeps, recvVars, landVars
  <2> QED BY <1>2, <1>7, <2>1, <2>2
<1>10. CASE SendEntry \/ TakeAnswer
  BY <1>10, SendEntryHonest, TakeAnswerHonest
<1> QED BY <1>3, <1>4, <1>5, <1>6, <1>8, <1>9, <1>10 DEF SenderStep

\* What the receiver reads, honest as the sender is.
LEMMA HeadQueued ==
    ASSUME Types, pipe # <<>>
    PROVE  Queued[1] = Head(pipe) /\ 1 \in 1..Len(Queued) /\ Len(Queued) \in Nat
<1>1. Len(pipe) \in Nat /\ Len(pipe) >= 1 /\ Head(pipe) = pipe[1]
  BY Taken DEF Types
<1>2. Len(pipe \o buf) = Len(pipe) + Len(buf) /\ Len(buf) \in Nat
      /\ \A k \in 1..Len(pipe) : (pipe \o buf)[k] = pipe[k]
  BY Joined DEF Types
<1>3. CASE Queued = pipe
  BY ONLY <1>1, <1>3
<1>4. CASE Queued = pipe \o buf
  BY ONLY <1>1, <1>2, <1>4
<1> QED BY <1>3, <1>4 DEF Queued

LEMMA TakenHonest ==
    ASSUME Types, ~faulted, receiver # "ended", Honest, pipe # <<>>, pipe' = Tail(pipe), sentUnchanged,
           \A y : y \in awaited' <=> (y \in awaited /\ ~(IsAnswer(Head(pipe)) /\ Head(pipe).id = y))
                                     \/ (IsHeader(Head(pipe)) /\ Head(pipe).id = y),
           \A l \in 1..Len(replies') :
              \/ \E m \in 1..Len(replies) : replies[m] = replies'[l]
              \/ replies'[l].id = Head(pipe).id /\ IsHeader(Head(pipe)) /\ replies'[l].is # "end"
    PROVE  Honest'
<1>1. /\ Accounts(Queued) /\ link = "up" /\ ~gaveUp
      /\ \A k \in 1..Len(Queued) : Queued[k].is # "failed"
      /\ sender \in {"closing", "flushing", "ending"} => pending = {}
      /\ sender # "over" /\ \A l \in 1..Len(replies) : replies[l].is # "end"
  BY DEF Honest
<1>2. UNCHANGED <<copy, buf, link, walked, pending, gaveUp, sender>>
  BY DEF sentUnchanged, sendVars
<1>3. Queued[1] = Head(pipe) /\ 1 \in 1..Len(Queued)
  BY HeadQueued
<1>4. awaited' = Out(Queued, 2)
  <2>1. 1..2 - 1 = {1}
    OBVIOUS
  <2>2. \A y : (y \in Answered(Queued, 2) <=> IsAnswer(Queued[1]) /\ Queued[1].id = y)
               /\ (y \in Headed(Queued, 2) <=> IsHeader(Queued[1]) /\ Queued[1].id = y)
    BY ONLY <2>1, InOut
  <2>3. \A y : y \in Out(Queued, 2) <=> y \in awaited'
    BY ONLY <1>3, <2>2, InOut,
       \A y : y \in awaited' <=> (y \in awaited /\ ~(IsAnswer(Head(pipe)) /\ Head(pipe).id = y))
                                 \/ (IsHeader(Head(pipe)) /\ Head(pipe).id = y)
  <2>4. \A y : y \in Out(Queued, 2) => y \in awaited \/ y = Queued[1].id
    BY <2>2, InOut
  <2>5. awaited' \subseteq Out(Queued, 2) /\ Out(Queued, 2) \subseteq awaited'
    BY <2>3
  <2> QED BY <2>5
<1>5. Accounts(Queued)'
  BY <1>1, <1>2, <1>3, <1>4, AccountsTaken
<1>6. \A k \in 1..Len(Queued') : Queued'[k].is # "failed"
  <2>1. /\ Len(Queued) \in Nat /\ Len(Queued') = Len(Queued) - 1
        /\ \A k \in 1..Len(Queued) - 1 : Queued'[k] = Queued[k + 1]
    BY <1>2, QueuedTaken, AheadIs, Elements DEF Types
  <2>2. \A k \in 1..Len(Queued') : k \in 1..Len(Queued) - 1 /\ k + 1 \in 1..Len(Queued)
    BY ONLY <2>1
  <2> QED BY <1>1, <2>1, <2>2
<1>7. \A l \in 1..Len(replies') : replies'[l].is # "end"
  BY <1>1
<1> QED BY <1>1, <1>2, <1>5, <1>6, <1>7 DEF Honest

LEMMA RepliesAdd ==
    ASSUME Types, NEW a, Reply(a)
    PROVE  \A l \in 1..Len(replies') : replies'[l] = a \/ \E m \in 1..Len(replies) : replies[m] = replies'[l]
<1>1. CASE replies' = replies
  BY <1>1
<1>2. CASE replies' = Append(replies, a)
  <2>1. replies \in Seq(AnAnswer \cup {a}) /\ Len(replies) \in Nat
    BY Elements DEF Types
  <2>2. /\ Len(replies') = Len(replies) + 1 /\ replies'[Len(replies) + 1] = a
        /\ \A k \in 1..Len(replies) : replies'[k] = replies[k]
    BY <1>2, <2>1, Appended
  <2>3. \A l \in 1..Len(replies') : l \in 1..Len(replies) \/ l = Len(replies) + 1
    BY ONLY <2>1, <2>2
  <2> QED BY <2>2, <2>3
<1> QED BY <1>1, <1>2 DEF Reply

LEMMA AwaitedFinite ==
    ASSUME Types, ReceiverBounds
    PROVE  IsFiniteSet(awaited) /\ Cardinality(awaited) \in Nat
<1>1. walked \in Nat
  BY Walk DEF Types
<1>2. IsFiniteSet(1..walked)
  BY <1>1, FS_Interval
<1>3. IsFiniteSet(awaited)
  BY <1>2, FS_Subset DEF ReceiverBounds
<1> QED BY <1>3, FS_CardinalityType

\* A header is of a file not awaited, and within the window.
LEMMA HeaderHonest ==
    ASSUME Types, ~faulted, receiver # "ended", Honest, ReceiverBounds, Header
    PROVE  Honest' /\ Goes
<1> DEFINE id == Head(pipe).id
           f == Here
           size == Len(Entry(id).whole)
<1>1. pipe # <<>> /\ pipe' = Tail(pipe) /\ Head(pipe).is = "entry" /\ Entry(id).is = "file" /\ sentUnchanged
  BY DEF Header, AtEntry, At
<1>2. Queued[1] = Head(pipe) /\ 1 \in 1..Len(Queued) /\ IsHeader(Head(pipe)) /\ ~IsAnswer(Head(pipe))
  BY <1>1, HeadQueued DEF IsHeader, IsAnswer
<1>3. id \notin awaited /\ Cardinality(awaited) < Window
  <2>1. id \notin awaited /\ Cardinality(Out(Queued, 1)) < Window
    BY <1>2 DEF Honest, Accounts
  <2>2. 1..1 - 1 = {}
    OBVIOUS
  <2>3. Out(Queued, 1) = awaited
    BY ONLY <2>2 DEF Out, Answered, Headed
  <2> QED BY <2>1, <2>3
<1>4. ~Malformed
  <2>1. Cardinality(awaited) \in Nat
    BY AwaitedFinite
  <2>2. ~(Cardinality(awaited) >= Window)
    BY ONLY <1>3, <2>1, SyncAssumption
  <2> QED BY <1>3, <2>2 DEF Malformed
<1>5. PICK a : Reply(a) /\ a.id = id /\ a.is # "end" /\ awaited' = awaited \cup {id} /\ Goes
  <2> DEFINE c == Answer("check", id, file[f])
             w == Answer("want", id, IF Resumable(f, size) THEN part[f] ELSE <<>>)
  <2>1. c.id = id /\ c.is # "end" /\ w.id = id /\ w.is # "end"
    BY DEF Answer
  <2>2. (Reply(c) \/ Reply(w)) /\ awaited' = awaited \cup {id} /\ Goes
    BY <1>4 DEF Header
  <2> QED BY <2>1, <2>2
<1>6. \A l \in 1..Len(replies') :
          \/ \E m \in 1..Len(replies) : replies[m] = replies'[l]
          \/ replies'[l].id = id /\ IsHeader(Head(pipe)) /\ replies'[l].is # "end"
  BY <1>2, <1>5, RepliesAdd
<1>7. \A y : y \in awaited' <=> (y \in awaited /\ ~(IsAnswer(Head(pipe)) /\ Head(pipe).id = y))
                                \/ (IsHeader(Head(pipe)) /\ Head(pipe).id = y)
  BY <1>2, <1>5
<1>8. Honest'
  BY <1>1, <1>6, <1>7, TakenHonest
<1> QED BY <1>5, <1>8

LEMMA PlainHonest ==
    ASSUME Types, ~faulted, receiver # "ended", Honest, pipe # <<>>, pipe' = Tail(pipe), sentUnchanged,
           UNCHANGED <<awaited, replies>>, ~IsAnswer(Head(pipe)), ~IsHeader(Head(pipe))
    PROVE  Honest'
<1>1. \A y : y \in awaited' <=> (y \in awaited /\ ~(IsAnswer(Head(pipe)) /\ Head(pipe).id = y))
                                \/ (IsHeader(Head(pipe)) /\ Head(pipe).id = y)
  OBVIOUS
<1>2. \A l \in 1..Len(replies') : \E m \in 1..Len(replies) : replies[m] = replies'[l]
  OBVIOUS
<1> QED BY <1>1, <1>2, TakenHonest

\* An answer is of a file awaited.
LEMMA AnswerHonest ==
    ASSUME Types, ~faulted, receiver # "ended", Honest, Data \/ Settled
    PROVE  Honest' /\ UNCHANGED outcome
<1> DEFINE id == Head(pipe).id
<1>1. pipe # <<>> /\ pipe' = Tail(pipe) /\ Head(pipe).is \in {"same", "differs", "data"} /\ sentUnchanged
      /\ UNCHANGED replies
  BY DEF Data, Settled, At
<1>2. Queued[1] = Head(pipe) /\ 1 \in 1..Len(Queued) /\ ~IsHeader(Head(pipe)) /\ IsAnswer(Head(pipe))
  BY <1>1, HeadQueued DEF IsHeader, IsAnswer
<1>3. id \in awaited
  BY <1>2 DEF Honest, Accounts
<1>4. awaited' = awaited \ {id} /\ UNCHANGED outcome
  <2>1. CASE Data
    BY <1>3, <2>1 DEF Data
  <2>2. CASE Settled
    BY <1>3, <2>2 DEF Settled, Goes
  <2> QED BY <2>1, <2>2
<1>5. \A y : y \in awaited' <=> (y \in awaited /\ ~(IsAnswer(Head(pipe)) /\ Head(pipe).id = y))
                                \/ (IsHeader(Head(pipe)) /\ Head(pipe).id = y)
  BY <1>2, <1>4
<1>6. \A l \in 1..Len(replies') : \E m \in 1..Len(replies) : replies[m] = replies'[l]
  BY <1>1
<1> QED BY <1>1, <1>4, <1>5, <1>6, TakenHonest

\* The sender's last word has all before it, so every directory that began has ended.
LEMMA AllEnded ==
    ASSUME Types, NEW r \in 0..walked, LiveAt(Ahead, r), Agreed(Ahead, r), At("done")
    PROVE  open = <<>> /\ Len(Queued) = 1
<1>1. receiver = "reading" /\ pipe # <<>> /\ Head(pipe).is = "done"
  BY DEF At
<1>2. Ahead[1] = Head(pipe) /\ 1 \in 1..Len(Ahead) /\ Ahead = Queued
  BY <1>1, HeadQueued DEF Ahead
<1>3. /\ Len(Ahead) = 1 /\ walked = Len(copy.walk)
      /\ \A i \in r + 1..walked : Skipped(i) \/ Holds(Ahead, i)
  BY <1>1, <1>2 DEF Agreed, Finished
<1>4. \A i : ~Holds(Ahead, i)
  <2> SUFFICES ASSUME NEW k \in 1..Len(Ahead), Ahead[k].is = "entry" PROVE FALSE
    BY DEF Holds
  <2>1. k = 1
    BY <1>3
  <2> QED BY <1>1, <1>2, <2>1
<1>5. \A j \in DirIds : EndOf[j] <= r /\ EndOf[j] \in Nat /\ r \in Nat
  <2> SUFFICES ASSUME NEW j \in DirIds PROVE EndOf[j] <= r /\ EndOf[j] \in Nat /\ r \in Nat
    OBVIOUS
  <2>1. EndOf[j] \in Ids /\ ~Skipped(EndOf[j])
    BY NestFacts DEF Skipped
  <2>2. r \in Nat /\ walked \in Nat /\ EndOf[j] \in 1..walked
    BY <1>3, <2>1, Walk DEF Ids
  <2>3. EndOf[j] \notin r + 1..walked
    BY <1>3, <1>4, <2>1
  <2> QED BY ONLY <2>2, <2>3
<1>6. \A k \in 1..Len(open) : FALSE
  <2> SUFFICES ASSUME NEW k \in 1..Len(open) PROVE FALSE
    OBVIOUS
  <2>1. PICK j \in DirIds : r < EndOf[j]
    BY DEF LiveAt, Opened, Begun
  <2> QED BY <1>5, <2>1
<1>7. open = <<>>
  <2>1. Len(open) \in Nat /\ open \in Seq(AFrame)
    BY Elements DEF Types
  <2>2. Len(open) = 0
    BY ONLY <1>6, <2>1
  <2> QED BY ONLY <2>1, <2>2
<1> QED BY <1>2, <1>3, <1>7

\* Nothing is taken for malformed, and the sender's last word comes with nothing awaited.
LEMMA FinishHonest ==
    ASSUME Types, NEW r \in 0..walked, LiveAt(Ahead, r), Agreed(Ahead, r), ~faulted, receiver # "ended", Honest, Finish
    PROVE  outcome' = "ok"
<1>1. link = "up" /\ \A k \in 1..Len(Queued) : Queued[k].is # "failed"
  BY DEF Honest
<1>2. pipe # <<>> => Head(pipe).is # "failed"
  BY <1>1, HeadQueued
<1>3. CASE At("done")
  <2>1. open = <<>> /\ Len(Queued) = 1 /\ pipe # <<>> /\ Head(pipe).is = "done" /\ Queued[1] = Head(pipe)
    BY <1>3, AllEnded, HeadQueued DEF At
  <2>2. pending = {}
    <3>1. Ahead[1].is = "done" /\ 1 \in 1..Len(Ahead)
      BY <1>3, <2>1, HeadQueued DEF At, Ahead
    <3>2. sender \in {"flushing", "ending", "over"}
      BY <3>1 DEF Agreed, Finished
    <3> QED BY <3>2 DEF Honest
  <2>3. pending = Out(Queued, 2)
    <3>1. 1 + 1 = 2
      OBVIOUS
    <3> QED BY <2>1, <3>1 DEF Honest, Accounts
  <2>4. \A j \in 1..2 - 1 : j = 1
    OBVIOUS
  <2>5. ~IsAnswer(Queued[1])
    BY <2>1 DEF IsAnswer
  <2>6. \A y : y \notin Answered(Queued, 2)
    BY ONLY <2>4, <2>5, InOut
  <2>7. awaited = {}
    BY ONLY <2>2, <2>3, <2>6, InOut
  <2>8. AllLanded
    BY <2>1, <2>7 DEF AllLanded
  <2> QED BY <1>2, <1>3, <2>1, <2>8 DEF Finish, At, Arrived, Ends
<1>4. CASE ~At("done")
  BY <1>1, <1>2, <1>4 DEF Finish, At, Arrived
<1> QED BY <1>3, <1>4

LEMMA ReceiverHonest ==
    ASSUME Inv, Says, Honest, ReceiverBounds, ReceiverStep
    PROVE  Honest' /\ (~faulted /\ receiver # "ended" => outcome' \in {None, "ok"})
<1>1. UNCHANGED faulted
  BY DEF ReceiverStep, Enter, Leave, Header, Data, Chunk, Rename, Settled, Symlink, Finish, SayEnd, CloseReady
<1>2. CASE faulted \/ receiver = "ended"
  <2>1. receiver = "ended" => receiver' = "ended"
    BY EndedStays DEF Next
  <2> QED BY <1>1, <1>2, <2>1 DEF Honest
<1>3. CASE ~faulted /\ receiver # "ended"
  <2>0. Types /\ outcome = None
    BY <1>3 DEF Inv, Says
  <2>1. CASE Enter \/ Symlink \/ Leave
    <3>1. /\ pipe # <<>> /\ pipe' = Tail(pipe) /\ sentUnchanged /\ UNCHANGED <<awaited, replies, outcome>>
          /\ Head(pipe).is = "entry" /\ Entry(Head(pipe).id).is # "file"
      BY <2>1 DEF Enter, Symlink, Leave, CloseReady, AtEntry, At, Goes
    <3>2. ~IsAnswer(Head(pipe)) /\ ~IsHeader(Head(pipe))
      BY <3>1 DEF IsAnswer, IsHeader
    <3> QED BY <1>3, <2>0, <3>1, <3>2, PlainHonest
  <2>2. CASE Chunk \/ Rename
    <3>1. /\ pipe # <<>> /\ pipe' = Tail(pipe) /\ sentUnchanged /\ UNCHANGED <<awaited, replies, outcome>>
          /\ Head(pipe).is \in {"chunk", "sent"}
      BY <2>2 DEF Chunk, Rename, CloseReady, Arrived
    <3>2. ~IsAnswer(Head(pipe)) /\ ~IsHeader(Head(pipe))
      BY <3>1 DEF IsAnswer, IsHeader
    <3> QED BY <1>3, <2>0, <3>1, <3>2, PlainHonest
  <2>3. CASE Header
    BY <1>3, <2>0, <2>3, HeaderHonest DEF Goes
  <2>4. CASE Data \/ Settled
    BY <1>3, <2>0, <2>4, AnswerHonest
  <2>5. CASE Finish
    <3>1. PICK r \in 0..walked : LiveAt(Ahead, r) /\ Agreed(Ahead, r)
      BY <1>3 DEF Inv, Live
    <3>2. outcome' = "ok"
      BY <1>3, <2>0, <2>5, <3>1, FinishHonest
    <3>3. receiver' = "ended"
      BY <2>5 DEF Finish, Ends
    <3> QED BY <3>2, <3>3 DEF Honest
  <2>6. ~SayEnd
    BY <2>0 DEF SayEnd
  <2> QED BY <2>1, <2>2, <2>3, <2>4, <2>5, <2>6 DEF ReceiverStep
<1> QED BY <1>2, <1>3

LEMMA HonestKeeps ==
    ASSUME Inv, Says, Honest, SenderBounds, ReceiverBounds, [Next]_vars
    PROVE  Honest'
<1>1. CASE SenderStep
  BY <1>1, SenderHonest DEF Inv
<1>2. CASE ReceiverStep
  BY <1>2, ReceiverHonest
<1>3. CASE SourceFails \/ LandFails \/ Cut
  BY <1>3 DEF SourceFails, LandFails, Cut, Honest
<1>4. CASE UNCHANGED vars
  <2>1. /\ SenderKeeps /\ UNCHANGED <<pending, gaveUp, walked, buf, pipe, link, sender, faulted, receiver>>
    BY <1>4 DEF vars, SenderKeeps, sendVars, recvVars, landVars
  <2>2. Queued' = Queued
    BY <2>1 DEF Queued
  <2>3. Types /\ walked \in Nat /\ walked >= walked
    BY Walk DEF Inv, Types
  <2>4. CASE ~faulted /\ receiver # "ended"
    BY <2>1, <2>2, <2>3, <2>4, QuietHonest DEF Honest
  <2> QED BY <2>1, <2>4 DEF Honest
<1> QED BY <1>1, <1>2, <1>3, <1>4 DEF Next

LEMMA FaultKeeps ==
    ASSUME Inv, Says, Honest, ReceiverBounds, FailsByFault, [Next]_vars
    PROVE  FailsByFault'
<1>1. faulted => faulted'
  BY DEF Next, SenderStep, SendEntry, SentAll, FlushToWait, TakeAnswer, TakeEnd, GoOn, SendBytes, SendLast,
     FlushLast, PassOver, ReceiverStep, Enter, Leave, Header, Data, Chunk, Rename, Settled, Symlink, Finish,
     SayEnd, CloseReady, SourceFails, LandFails, Cut, vars
<1>2. CASE SenderStep \/ UNCHANGED vars
  <2>1. UNCHANGED outcome
    BY <1>2 DEF SenderStep, SendEntry, SentAll, FlushToWait, TakeAnswer, TakeEnd, GoOn, SendBytes, SendLast,
       FlushLast, PassOver, vars
  <2> QED BY <1>1, <2>1 DEF FailsByFault
<1>3. CASE SourceFails \/ LandFails \/ Cut
  BY <1>3 DEF SourceFails, LandFails, Cut, FailsByFault
<1>4. CASE ReceiverStep
  <2>1. CASE receiver = "ended"
    <3>1. SayEnd
      BY <1>4, <2>1 DEF ReceiverStep, Enter, Leave, Header, Data, Chunk, Rename, Settled, Symlink, Finish,
         AtEntry, At, Arrived
    <3> QED BY <1>1, <3>1 DEF SayEnd, FailsByFault
  <2>2. CASE receiver # "ended"
    BY <1>1, <1>4, <2>2, ReceiverHonest DEF FailsByFault
  <2> QED BY <2>1, <2>2
<1> QED BY <1>2, <1>3, <1>4 DEF Next

(***************************************************************************)
(* Bounds.                                                                 *)
(***************************************************************************)
LEMMA RepliesOn ==
    ASSUME Types, [Next]_vars
    PROVE  /\ \A l \in 1..Len(replies') :
                \/ \E m \in 1..Len(replies) : replies[m] = replies'[l]
                \/ replies'[l].is = "end" => replies'[l].have \in {"ok", "failed"}
           /\ Len(replies) <= ReplyDepth => Len(replies') <= ReplyDepth
<1>1. replies \in Seq(AnAnswer) /\ Len(replies) \in Nat /\ ReplyDepth \in Nat
  BY Elements, SyncAssumption DEF Types
<1>2. CASE UNCHANGED replies
  BY <1>2
<1>3. CASE replies # <<>> /\ replies' = Tail(replies)
  <2>1. Len(replies') = Len(replies) - 1 /\ \A k \in 1..Len(replies) - 1 : replies'[k] = replies[k + 1]
    BY <1>1, <1>3, Taken
  <2>2. \A k \in 1..Len(replies') : k \in 1..Len(replies) - 1 /\ k + 1 \in 1..Len(replies)
    BY ONLY <1>1, <2>1
  <2>3. Len(replies) <= ReplyDepth => Len(replies') <= ReplyDepth
    BY ONLY <1>1, <2>1
  <2> QED BY <2>1, <2>2, <2>3
<1>4. ASSUME NEW a, Reply(a), a.is = "end" => a.have \in {"ok", "failed"}
      PROVE  /\ \A l \in 1..Len(replies') :
                \/ \E m \in 1..Len(replies) : replies[m] = replies'[l]
                \/ replies'[l].is = "end" => replies'[l].have \in {"ok", "failed"}
             /\ Len(replies) <= ReplyDepth => Len(replies') <= ReplyDepth
  <2>1. CASE Len(replies) < ReplyDepth /\ replies' = Append(replies, a)
    <3>1. replies \in Seq(AnAnswer \cup {a})
      BY <1>1
    <3>2. Len(replies') = Len(replies) + 1
      BY <2>1, <3>1, Appended
    <3>3. Len(replies') <= ReplyDepth
      BY ONLY <1>1, <2>1, <3>2
    <3> QED BY <1>4, <3>3, RepliesAdd
  <2>2. CASE UNCHANGED replies
    BY <1>2, <2>2
  <2> QED BY <1>4, <2>1, <2>2 DEF Reply
<1>5. CASE Header
  <2>1. PICK a : (Reply(a) \/ UNCHANGED replies) /\ a.is # "end"
    <3> DEFINE f == Here
               id == Head(pipe).id
               size == Len(Entry(id).whole)
               c == Answer("check", id, file[f])
               w == Answer("want", id, IF Resumable(f, size) THEN part[f] ELSE <<>>)
    <3>1. c.is # "end" /\ w.is # "end"
      BY DEF Answer
    <3>2. Reply(c) \/ Reply(w) \/ UNCHANGED replies
      BY <1>5 DEF Header
    <3> QED BY <3>1, <3>2
  <2> QED BY <1>2, <1>4, <2>1
<1>6. CASE SayEnd
  <2> DEFINE a == Answer("end", 0, IF outcome = "ok" THEN "ok" ELSE "failed")
  <2>1. Reply(a) /\ a.have \in {"ok", "failed"}
    BY <1>6 DEF SayEnd, Answer
  <2> QED BY <1>4, <2>1
<1>7. CASE Cut
  <2>1. PICK m \in 0..Len(replies) : replies' = SubSeq(replies, 1, m)
    BY <1>7 DEF Cut
  <2>2. Len(replies') = m /\ \A k \in 1..m : replies'[k] = replies[k] /\ k \in 1..Len(replies)
    BY <1>1, <2>1, Started
  <2>3. Len(replies) <= ReplyDepth => Len(replies') <= ReplyDepth
    BY ONLY <1>1, <2>2, m \in 0..Len(replies)
  <2> QED BY <2>2, <2>3
<1>8. CASE SenderStep
  <2>1. UNCHANGED replies \/ (replies # <<>> /\ replies' = Tail(replies))
    BY <1>8 DEF SenderStep, SendEntry, SentAll, FlushToWait, TakeAnswer, TakeEnd, GoOn, SendBytes, SendLast,
       FlushLast, PassOver
  <2> QED BY <1>2, <1>3, <2>1
<1>9. CASE ReceiverStep /\ ~Header /\ ~SayEnd
  <2>1. UNCHANGED replies
    BY <1>9 DEF ReceiverStep, Enter, Leave, Data, Chunk, Rename, Settled, Symlink, Finish, CloseReady
  <2> QED BY <1>2, <2>1
<1>10. CASE SourceFails \/ LandFails \/ UNCHANGED vars
  BY <1>2, <1>10 DEF SourceFails, LandFails, vars
<1> QED BY <1>5, <1>6, <1>7, <1>8, <1>9, <1>10 DEF Next

LEMMA PutBounds ==
    ASSUME Types, QueueBounds, NEW x, Put(x)
    PROVE  Len(buf') <= Gather /\ Len(pipe') <= PipeDepth
<1>1. /\ Gather \in Nat \ {0} /\ PipeDepth \in Nat /\ buf \in Seq(AnItem \cup {x}) /\ pipe \in Seq(AnItem)
      /\ Len(buf) \in Nat /\ Len(pipe) \in Nat /\ buf \in Seq(AnItem)
  BY SyncAssumption, Elements DEF Types
<1>2. CASE Len(buf) < Gather /\ buf' = Append(buf, x) /\ UNCHANGED pipe
  <2>1. Len(buf') = Len(buf) + 1
    BY <1>1, <1>2, Appended
  <2> QED BY <1>1, <1>2, <2>1 DEF QueueBounds
<1>3. CASE CanFlush /\ pipe' = Flushed /\ buf' = <<x>>
  <2>1. Len(buf') = 1 /\ 1 <= Gather
    BY <1>1, <1>3
  <2>2. Len(pipe') <= PipeDepth
    <3>1. CASE link = "cut"
      BY <1>3, <3>1 DEF Flushed, QueueBounds
    <3>2. CASE link # "cut"
      <4>1. Len(pipe \o buf) = Len(pipe) + Len(buf)
        BY <1>1, Joined
      <4> QED BY <1>3, <3>2, <4>1 DEF Flushed, CanFlush
    <3> QED BY <3>1, <3>2
  <2> QED BY <2>1, <2>2
<1> QED BY <1>2, <1>3 DEF Put

LEMMA QueueBounded ==
    ASSUME Types, QueueBounds, [Next]_vars
    PROVE  QueueBounds'
<1>1. /\ Gather \in Nat \ {0} /\ PipeDepth \in Nat /\ buf \in Seq(AnItem) /\ pipe \in Seq(AnItem)
      /\ Len(buf) \in Nat /\ Len(pipe) \in Nat
  BY SyncAssumption, Elements DEF Types
<1>2. Len(replies') <= ReplyDepth
  BY RepliesOn DEF QueueBounds
<1>3. ASSUME NEW x, Put(x) PROVE Len(buf') <= Gather /\ Len(pipe') <= PipeDepth
  BY <1>3, PutBounds
<1>4. CASE UNCHANGED <<buf, pipe>>
  BY <1>2, <1>4 DEF QueueBounds
<1>5. CASE Flush
  <2>1. Len(buf') = 0 /\ 0 <= Gather
    BY <1>1, <1>5 DEF Flush
  <2>2. Len(pipe') <= PipeDepth
    <3>1. CASE link = "cut"
      BY <1>5, <3>1 DEF Flush, Flushed, QueueBounds
    <3>2. CASE link # "cut"
      <4>1. Len(pipe \o buf) = Len(pipe) + Len(buf)
        BY <1>1, Joined
      <4> QED BY <1>5, <3>2, <4>1 DEF Flush, Flushed, CanFlush
    <3> QED BY <3>1, <3>2
  <2> QED BY <1>2, <2>1, <2>2 DEF QueueBounds
<1>6. CASE \E x : Put(x)
  BY <1>2, <1>3, <1>6 DEF QueueBounds
<1>7. CASE pipe # <<>> /\ pipe' = Tail(pipe) /\ UNCHANGED buf
  <2>1. Len(pipe') = Len(pipe) - 1
    BY <1>1, <1>7, Taken
  <2>2. Len(pipe') <= PipeDepth
    BY <1>1, <2>1 DEF QueueBounds
  <2> QED BY <1>2, <1>7, <2>2 DEF QueueBounds
<1>8. CASE SenderStep
  BY <1>4, <1>5, <1>6, <1>8 DEF SenderStep, SendEntry, SentAll, FlushToWait, TakeAnswer, TakeEnd, GoOn,
     SendBytes, SendLast, FlushLast, PassOver
<1>9. CASE ReceiverStep
  <2>1. UNCHANGED buf
    BY <1>9 DEF ReceiverStep, Enter, Leave, Header, Data, Chunk, Rename, Settled, Symlink, Finish, SayEnd,
       CloseReady, sentUnchanged
  <2>2. UNCHANGED pipe \/ (pipe # <<>> /\ pipe' = Tail(pipe))
    BY <1>9 DEF ReceiverStep, Enter, Leave, Header, Data, Chunk, Rename, Settled, Symlink, Finish, SayEnd,
       AtEntry, At, Arrived
  <2> QED BY <1>4, <1>7, <2>1, <2>2
<1>10. CASE Cut
  <2>1. PICK n \in 0..Len(pipe) : pipe' = SubSeq(pipe, 1, n)
    BY <1>10 DEF Cut
  <2>2. Len(pipe') = n
    BY <1>1, <2>1, Started
  <2>3. Len(pipe') <= PipeDepth
    BY <1>1, <2>2 DEF QueueBounds
  <2> QED BY <1>2, <1>10, <2>3 DEF Cut, QueueBounds
<1>11. CASE SourceFails \/ LandFails \/ UNCHANGED vars
  BY <1>4, <1>11 DEF SourceFails, LandFails, vars
<1> QED BY <1>8, <1>9, <1>10, <1>11 DEF Next

LEMMA SenderBounded ==
    ASSUME Types, SenderBounds, [Next]_vars
    PROVE  SenderBounds'
<1>1. walked \in Nat /\ Window \in Nat \ {0}
  BY Walk, SyncAssumption DEF Types
<1>2. IsFiniteSet(pending) /\ Cardinality(pending) \in Nat
  <2>1. IsFiniteSet(1..walked)
    BY <1>1, FS_Interval
  <2>2. IsFiniteSet(pending)
    BY <2>1, FS_Subset DEF SenderBounds
  <2> QED BY <2>2, FS_CardinalityType
<1>3. \A l \in 1..Len(replies') : replies'[l].is = "end" => replies'[l].have \in {"ok", "failed"}
  BY RepliesOn DEF SenderBounds
<1>4. CASE SendEntry
  <2> DEFINE i == walked + 1
             here == Entry(i)
  <2>1. walked' = i /\ UNCHANGED said /\ sender = "walking" /\ Cardinality(pending) < Window
        /\ sender' \in {"walking", "answers", "awaiting"}
    BY <1>4 DEF SendEntry, SenderBounds
  <2>2. i \in 1..i /\ i \notin 1..walked /\ \A k \in 1..walked : k \in 1..i
    BY ONLY <1>1
  <2>3. CASE UNCHANGED <<sender, pending>>
    BY <1>3, <2>1, <2>2, <2>3 DEF SenderBounds
  <2>4. CASE pending' = pending
    BY <1>3, <2>1, <2>2, <2>4 DEF SenderBounds
  <2>5. CASE pending' = pending \cup {i} /\ sender' = IF AtWindow(pending') THEN "awaiting" ELSE "answers"
    <3>1. i \notin pending
      BY <2>2 DEF SenderBounds
    <3>2. Cardinality(pending') = Cardinality(pending) + 1
      BY <1>2, <2>5, <3>1, FS_AddElement
    <3>3. Cardinality(pending') <= Window /\ (sender' # "awaiting" => Cardinality(pending') < Window)
      BY <1>1, <1>2, <2>1, <2>5, <3>2 DEF AtWindow
    <3> QED BY <1>3, <2>1, <2>2, <2>5, <3>3 DEF SenderBounds
  <2>6. \/ pending' = pending
        \/ pending' = pending \cup {i} /\ sender' = IF AtWindow(pending') THEN "awaiting" ELSE "answers"
    <3>1. CASE UNCHANGED pending
      BY <3>1
    <3>2. CASE /\ pending' = IF here.is = "file" THEN pending \cup {i} ELSE pending
               /\ sender' = IF here.is = "file" /\ AtWindow(pending') THEN "awaiting"
                            ELSE IF here.is \in {"file", "link"} THEN "answers"
                            ELSE "walking"
      <4>1. CASE here.is # "file"
        BY <3>2, <4>1
      <4>2. CASE here.is = "file"
        BY <3>2, <4>2
      <4> QED BY <4>1, <4>2
    <3> QED BY <1>4, <3>1, <3>2 DEF SendEntry
  <2> HIDE DEF i
  <2> QED BY <2>4, <2>5, <2>6
<1>5. CASE TakeAnswer
  <2> DEFINE a == Head(replies)
  <2>1. a.id \in pending /\ pending' = pending \ {a.id} /\ UNCHANGED <<walked, said>> /\ sender' \in {"answers", "bytes"}
    BY <1>5 DEF TakeAnswer
  <2>2. Cardinality(pending') = Cardinality(pending) - 1
    BY <1>2, <2>1, FS_RemoveElement
  <2>3. Cardinality(pending') <= Window /\ Cardinality(pending') < Window
    BY <1>1, <1>2, <2>2 DEF SenderBounds
  <2> QED BY <1>3, <2>1, <2>3 DEF SenderBounds
<1>6. CASE TakeEnd
  <2>1. Head(replies) = replies[1] /\ 1 \in 1..Len(replies)
    BY <1>6, Taken DEF TakeEnd, Types
  <2>2. UNCHANGED <<walked, pending>> /\ sender' = "over" /\ said' \in {"ok", "failed"}
    BY <1>6, <2>1 DEF TakeEnd, SenderBounds
  <2> QED BY <1>3, <2>2 DEF SenderBounds
<1>7. CASE /\ UNCHANGED <<walked, pending, said>>
           /\ sender' \in {"awaiting", "closing", "flushing", "ending"} \/ sender' = sender
              \/ (sender = "answers" /\ sender' = "walking") \/ (sender = "bytes" /\ sender' = "answers")
  BY <1>3, <1>7 DEF SenderBounds
<1>8. CASE SentAll \/ FlushToWait \/ GoOn \/ SendLast \/ FlushLast \/ PassOver \/ SourceFails
  BY <1>7, <1>8 DEF SentAll, FlushToWait, GoOn, SendLast, FlushLast, PassOver, SourceFails, sendVars
<1>9. CASE SendBytes
  BY <1>7, <1>9 DEF SendBytes
<1>10. CASE ReceiverStep \/ LandFails \/ Cut \/ UNCHANGED vars
  <2>1. UNCHANGED <<walked, pending, said, sender>>
    BY <1>10 DEF ReceiverStep, Enter, Leave, Header, Data, Chunk, Rename, Settled, Symlink, Finish, SayEnd,
       CloseReady, sentUnchanged, sendVars, LandFails, Cut, vars
  <2> QED BY <1>7, <2>1
<1> QED BY <1>4, <1>5, <1>6, <1>8, <1>9, <1>10 DEF Next, SenderStep

\* A directory that ends was not closed.
LEMMA LeavesOpen ==
    ASSUME Types, NEW r \in 0..walked, LiveAt(Ahead, r), Agreed(Ahead, r), open # <<>>
    PROVE  open[Len(open)].dir \in Dirs \ (closing \cup closed)
<1>1. open \in Seq(AFrame) /\ Len(open) \in 1..Len(open) /\ open[Len(open)] \in AFrame
  BY Elements DEF Types
<1>2. open[Len(open)].dir \in Dirs
  BY <1>1 DEF AFrame
<1>3. PICK j \in DirIds : Entry(j).at = open[Len(open)].dir /\ r < EndOf[j]
  BY <1>1 DEF LiveAt, Opened, Begun
<1>4. Entry(j).at \notin EndedBy(r)
  <2> SUFFICES ASSUME NEW i \in DirIds, EndOf[i] <= r, Entry(i).at = Entry(j).at PROVE FALSE
    BY DEF EndedBy
  <2>1. i = j
    BY NestFacts
  <2>2. EndOf[j] \in Nat /\ r \in Nat
    BY NestFacts, Walk DEF Ids, Types
  <2> QED BY ONLY <1>3, <2>1, <2>2, EndOf[i] <= r
<1>5. closing \cup closed \subseteq EndedBy(r)
  BY DEF Agreed, Landed, Closes
<1> QED BY <1>2, <1>3, <1>4, <1>5

LEMMA ReadyApart ==
    ASSUME NEW ended, NEW ids, CloseReady(ended, ids), ended \cap closed = {}, ended \cup closed \subseteq Dirs
    PROVE  closing' \cap closed' = {} /\ closing' \cup closed' \subseteq Dirs
BY DEF CloseReady, Ready

LEMMA ReceiverBounded ==
    ASSUME Inv, Says, ReceiverBounds, [Next]_vars
    PROVE  ReceiverBounds'
<1>1. Types /\ walked \in Nat /\ Window \in Nat \ {0} /\ IsFiniteSet(awaited) /\ Cardinality(awaited) \in Nat
  BY Walk, AwaitedFinite, SyncAssumption DEF Inv, Types
<1>2. ASSUME walked' = walked \/ walked' = walked + 1, UNCHANGED <<awaited, dirs, closing, closed>>,
             outcome' \in {outcome, "failed", "malformed", "cut", "died", "ok"}
      PROVE  ReceiverBounds'
  <2>1. \A i \in 1..walked : i \in 1..walked'
    BY ONLY <1>1, <1>2
  <2> QED BY <1>2, <2>1 DEF ReceiverBounds
<1>3. CASE SenderStep
  BY <1>2, <1>3 DEF SenderStep, SendEntry, SentAll, FlushToWait, TakeAnswer, TakeEnd, GoOn, SendBytes,
     SendLast, FlushLast, PassOver, sendVars, recvVars, landVars
<1>4. CASE SourceFails \/ LandFails \/ Cut \/ UNCHANGED vars
  BY <1>2, <1>4 DEF SourceFails, LandFails, Cut, Ends, vars, sendVars, recvVars, landVars
<1>5. CASE Finish \/ SayEnd
  BY <1>2, <1>5 DEF Finish, SayEnd, Ends, sentUnchanged, sendVars, recvVars, landVars
<1>6. CASE ReceiverStep /\ ~Finish /\ ~SayEnd
  <2>1. receiver # "ended"
    BY <1>6 DEF ReceiverStep, Enter, Leave, Header, Data, Chunk, Rename, Settled, Symlink, AtEntry, At, Arrived
  <2>2. PICK r \in 0..walked : LiveAt(Ahead, r) /\ Agreed(Ahead, r)
    BY <2>1 DEF Inv, Live
  <2>3. UNCHANGED walked /\ outcome' \in {outcome, "malformed"}
    BY <1>6 DEF ReceiverStep, Enter, Leave, Header, Data, Chunk, Rename, Settled, Symlink, CloseReady,
       sentUnchanged, sendVars, Ends, Goes
  <2>4. CASE Chunk \/ Symlink
    BY <1>2, <2>3, <2>4 DEF Chunk, Symlink
  <2>5. ASSUME NEW is, AtEntry(is), pipe' = Tail(pipe), sentUnchanged, receiver' = "reading"
        PROVE  Head(pipe).id \in 1..walked /\ Head(pipe).id \in Ids /\ Entry(Head(pipe).id).is = is
    <3>1. receiver = "reading" /\ pipe # <<>> /\ Head(pipe).is = "entry" /\ Entry(Head(pipe).id).is = is
      BY <2>5 DEF AtEntry, At
    <3>2. Head(pipe).id \in 0..walked /\ Next2(r, Head(pipe).id) /\ Head(pipe).id > r
      BY <1>1, <2>2, <2>5, <3>1, ItemTaken
    <3>3. Head(pipe).id \in Ids /\ r \in Nat
      BY <1>1, <3>2, CameOn, Walk DEF Next2, Ids, Types
    <3> QED BY ONLY <1>1, <3>1, <3>2, <3>3
  <2>6. CASE Enter
    <3>1. Head(pipe).id \in Ids /\ Entry(Head(pipe).id).is = "dir"
      BY <2>5, <2>6 DEF Enter, Goes, AtEntry, At
    <3>2. Here \in Dirs
      BY <1>1, <3>1, Walk DEF Here
    <3>3. UNCHANGED <<awaited, closing, closed>> /\ dirs' \subseteq dirs \cup {Here}
      BY <2>6 DEF Enter
    <3> QED BY <2>3, <3>2, <3>3 DEF ReceiverBounds
  <2>7. CASE Leave
    <3>1. open[Len(open)].dir \in Dirs \ (closing \cup closed) /\ open # <<>>
      BY <1>1, <2>2, <2>7, LeavesOpen DEF Leave
    <3>2. dirs' \subseteq dirs /\ UNCHANGED awaited
          /\ CloseReady(IF copy.dry THEN closing ELSE closing \cup {open[Len(open)].dir}, awaited)
      BY <2>7 DEF Leave
    <3>3. closing' \cap closed' = {} /\ closing' \cup closed' \subseteq Dirs
      <4>1. CASE copy.dry
        BY <3>2, <4>1, ReadyApart DEF ReceiverBounds
      <4>2. CASE ~copy.dry
        <5>1. CloseReady(closing \cup {open[Len(open)].dir}, awaited)
          BY <3>2, <4>2
        <5>2. (closing \cup {open[Len(open)].dir}) \cap closed = {}
              /\ (closing \cup {open[Len(open)].dir}) \cup closed \subseteq Dirs
          BY <3>1 DEF ReceiverBounds
        <5> QED BY <5>1, <5>2, ReadyApart
      <4> QED BY <4>1, <4>2
    <3> QED BY <2>3, <3>2, <3>3 DEF ReceiverBounds
  <2>8. CASE Rename
    <3>1. UNCHANGED <<awaited, dirs>> /\ CloseReady(closing, awaited)
      BY <2>8 DEF Rename
    <3>2. closing' \cap closed' = {} /\ closing' \cup closed' \subseteq Dirs
      BY <3>1, ReadyApart DEF ReceiverBounds
    <3> QED BY <2>3, <3>1, <3>2 DEF ReceiverBounds
  <2>9. ASSUME awaited' = awaited \/ \E id \in awaited : awaited' = awaited \ {id}
        PROVE  awaited' \subseteq 1..walked' /\ Cardinality(awaited') <= Window
    <3>1. CASE awaited' = awaited
      BY <2>3, <3>1 DEF ReceiverBounds
    <3>2. CASE \E id \in awaited : awaited' = awaited \ {id}
      <4>1. PICK id \in awaited : awaited' = awaited \ {id}
        BY <3>2
      <4>2. Cardinality(awaited') = Cardinality(awaited) - 1
        BY <1>1, <4>1, FS_RemoveElement
      <4>3. Cardinality(awaited') <= Window
        BY <1>1, <4>2 DEF ReceiverBounds
      <4> QED BY <2>3, <4>1, <4>3 DEF ReceiverBounds
    <3> QED BY <2>9, <3>1, <3>2
  <2>10. CASE Data
    <3>1. awaited' = awaited \/ \E id \in awaited : awaited' = awaited \ {id}
      BY <2>10 DEF Data
    <3>2. UNCHANGED <<dirs, closing, closed>>
      BY <2>10 DEF Data
    <3> QED BY <2>3, <2>9, <3>1, <3>2 DEF ReceiverBounds
  <2>11. CASE Settled
    <3>1. awaited' = awaited \/ \E id \in awaited : awaited' = awaited \ {id}
      BY <2>11 DEF Settled
    <3>2. UNCHANGED dirs /\ (UNCHANGED <<closing, closed>> \/ CloseReady(closing, awaited'))
      BY <2>11 DEF Settled, landVars
    <3>3. closing' \cap closed' = {} /\ closing' \cup closed' \subseteq Dirs
      BY <3>2, ReadyApart DEF ReceiverBounds
    <3> QED BY <2>3, <2>9, <3>1, <3>2, <3>3 DEF ReceiverBounds
  <2>12. CASE Header
    <3>1. UNCHANGED <<dirs, closing, closed>>
      BY <2>12 DEF Header, landVars
    <3>2. CASE UNCHANGED awaited
      BY <2>3, <2>9, <3>1, <3>2 DEF ReceiverBounds
    <3>3. CASE ~Malformed /\ awaited' = awaited \cup {Head(pipe).id} /\ Goes
      <4>1. Head(pipe).id \in 1..walked
        BY <2>5, <2>12, <3>3 DEF Header, Goes, AtEntry, At
      <4>2. Head(pipe).id \notin awaited /\ ~(Cardinality(awaited) >= Window)
        BY <3>3 DEF Malformed
      <4>3. Cardinality(awaited') = Cardinality(awaited) + 1
        BY <1>1, <3>3, <4>2, FS_AddElement
      <4>4. Cardinality(awaited') <= Window
        BY ONLY <1>1, <4>2, <4>3
      <4> QED BY <2>3, <3>1, <3>3, <4>1, <4>4 DEF ReceiverBounds
    <3> QED BY <2>12, <3>2, <3>3 DEF Header
  <2> QED BY <1>6, <2>4, <2>6, <2>7, <2>8, <2>10, <2>11, <2>12 DEF ReceiverStep
<1> QED BY <1>3, <1>4, <1>5, <1>6 DEF Next

\* A copy fails by a fault alone, and within its bounds.
FaultInv == Inv /\ Says /\ Honest /\ SenderBounds /\ QueueBounds /\ ReceiverBounds /\ FailsByFault

LEMMA StartsHonest ==
    ASSUME Init, OneOfAName
    PROVE  FaultInv
<1>1. Inv
  BY StartsLive
<1>2. /\ replies = <<>> /\ said = None /\ outcome = None /\ pipe = <<>> /\ buf = <<>> /\ link = "up"
      /\ ~gaveUp /\ sender = "walking" /\ pending = {} /\ awaited = {} /\ walked = 0 /\ closing = {} /\ closed = {}
      /\ was \in Starts /\ dirs = was.dirs
  BY DEF Init
<1>3. Cardinality({}) = 0 /\ Window \in Nat \ {0} /\ Gather \in Nat /\ PipeDepth \in Nat /\ ReplyDepth \in Nat
  BY FS_EmptySet, SyncAssumption
<1>4. Says
  BY <1>2, SyncAssumption DEF Says
<1>5. Queued = <<>> /\ Len(Queued) = 0
  BY <1>2 DEF Queued
<1>6. Accounts(Queued)
  <2>1. \A k \in 1..Len(Queued) : FALSE
    BY <1>5
  <2>2. Out(Queued, Len(Queued) + 1) = {}
    <3>1. Len(Queued) + 1 = 1 /\ 1..1 - 1 = {}
      BY <1>5
    <3>2. Out(Queued, 1) = {}
      BY <1>2, <3>1 DEF Out, Headed
    <3> QED BY <3>1, <3>2
  <2> QED BY <1>2, <2>1, <2>2 DEF Accounts
<1>7. Honest
  BY <1>2, <1>5, <1>6 DEF Honest
<1>8. dirs \subseteq Dirs
  BY <1>2, CopiesAssumption
<1>9. SenderBounds /\ QueueBounds /\ ReceiverBounds
  BY <1>2, <1>3, <1>8 DEF SenderBounds, QueueBounds, ReceiverBounds
<1> QED BY <1>1, <1>2, <1>4, <1>7, <1>9 DEF FaultInv, FailsByFault

LEMMA FaultInvKeeps ==
    ASSUME FaultInv, [Next]_vars
    PROVE  FaultInv'
<1>1. Inv' /\ Types /\ Says'
  BY NextKeeps, SaysKeeps DEF FaultInv, Inv
<1>2. Honest' /\ FailsByFault'
  BY HonestKeeps, FaultKeeps DEF FaultInv
<1>3. SenderBounds' /\ QueueBounds' /\ ReceiverBounds'
  BY <1>1, SenderBounded, QueueBounded, ReceiverBounded DEF FaultInv
<1> QED BY <1>1, <1>2, <1>3 DEF FaultInv

\* A copy fails by a fault alone: honest ends never take each other's items for malformed, whatever
\* runs ahead of what (send.rs file and answers, receive.rs file).
THEOREM FailsByFaultAlways == Spec /\ OneOfAName => []FailsByFault
<1>1. Init /\ OneOfAName => FaultInv
  BY StartsHonest
<1>2. FaultInv /\ [Next]_vars => FaultInv'
  BY FaultInvKeeps
<1>3. FaultInv => FailsByFault
  BY DEF FaultInv
<1> QED BY <1>1, <1>2, <1>3, PTL DEF Spec

\* Every queue keeps its bound, no more headers wait than a window, and no directory is closed twice
\* (send.rs file, mod.rs send_on and receive_on, receive.rs close_ready).
THEOREM TypeOKAlways == Spec /\ OneOfAName => []TypeOK
<1>1. Init /\ OneOfAName => FaultInv
  BY StartsHonest
<1>2. FaultInv /\ [Next]_vars => FaultInv'
  BY FaultInvKeeps
<1>3. FaultInv => TypeOK
  <2> SUFFICES ASSUME FaultInv PROVE TypeOK
    OBVIOUS
  <2>1. Types /\ walked \in 0..Len(copy.walk) /\ Len(copy.walk) \in Nat
    BY Walk DEF FaultInv, Inv, Types
  <2>2. \A i \in 1..walked : i \in 1..Len(copy.walk)
    BY ONLY <2>1
  <2>3. receiver \in {"reading", "landing", "ended"} /\ link \in {"up", "cut"}
    BY <2>1 DEF Types
  <2> QED BY <2>1, <2>2, <2>3 DEF FaultInv, SenderBounds, QueueBounds, ReceiverBounds, TypeOK
<1> QED BY <1>1, <1>2, <1>3, PTL DEF Spec

=============================================================================
