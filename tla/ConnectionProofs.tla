--------------------------- MODULE ConnectionProofs ---------------------------
(***************************************************************************)
(* Proofs about one connection: its own account is true (AccountIsTrue),   *)
(* and its client's terminal shows the output as View promises.            *)
(***************************************************************************)
EXTENDS Connection, SequenceTheorems, FiniteSetTheorems, TLAPS

(***************************************************************************)
(* The inductive invariant.                                                *)
(***************************************************************************)
\* Who has the end.
EndInv ==
    /\ at = "linger" => told
    /\ told \/ closed = "ended" => acked \/ client = "has_end"

\* What is said to have been read was.
ReadInv ==
    /\ paced <= got[epoch]
    /\ \A i \in 1..Len(control) : control[i].t = "read" => control[i].n <= got[control[i].epoch]

\* The bound on epochs holds, and the receiver is past no event there was not.
DueInv == next <= Total /\ WithinEpochs(Total)

\* An epoch's stream: the screen, then each chunk after it in turn, then the end, after all of them.
IsStream(q, shown, end) ==
    /\ q # <<>> /\ q[1].t = "snap"
    /\ \A i \in 2..Len(q) : q[i].t = "exit" \/ (q[i].t = "out" /\ q[i].n = q[1].n + i - 1)
    /\ \A i \in 1..Len(q) :
          IF q[i].t = "exit" THEN i = Len(q) /\ end /\ shown = q[1].n + i - 2
          ELSE q[1].n + i - 1 <= shown
StreamInv(e) == IF e <= epoch THEN IsStream(stream[e], published, over) ELSE stream[e] = <<>>
Screen(e) == stream[e][1].n
\* Each starts with a screen that shows all the one before had.
AfterInv ==
    \A e, f \in 1..epoch : e < f =>
        \A i \in 1..Len(stream[e]) : stream[e][i].t # "exit" => Screen(e) + i - 1 <= Screen(f)
\* What is written next follows what was.
NextInv ==
    ~redraw /\ ~exited =>
        IF stream[epoch][Len(stream[epoch])].t = "exit" THEN next = published + 1
        ELSE next = Screen(epoch) + Len(stream[epoch]) - 1

StreamsInv == (\A e \in Epochs : StreamInv(e)) /\ AfterInv /\ NextInv

\* What the client's loop heard of each epoch, and what waits for it: the rest of what was read.
QueueInv(heard) ==
    /\ \A e \in Epochs : got[e] <= Len(stream[e]) /\ (got[e] > 0 => e <= epoch)
    /\ \A i \in 1..Len(rx) :
          /\ heard[rx[i].epoch] < rx[i].n /\ rx[i].n <= got[rx[i].epoch]
          /\ rx[i].msg = stream[rx[i].epoch][rx[i].n]
    /\ \A e \in Epochs : \A n \in heard[e] + 1..got[e] : \E i \in 1..Len(rx) : rx[i].epoch = e /\ rx[i].n = n
    /\ \A i, j \in 1..Len(rx) : i < j /\ rx[i].epoch = rx[j].epoch => rx[i].n < rx[j].n
\* What it shows: as much of the newest it heard of.
HeardInv(heard) ==
    /\ \A e \in Epochs : heard[e] <= got[e] /\ (e > wireEpoch => heard[e] = 0)
    /\ client = "up" =>
          IF wireEpoch = 0 THEN display = 0
          ELSE /\ heard[wireEpoch] > 0 /\ stream[wireEpoch][heard[wireEpoch]].t # "exit"
               /\ display = Screen(wireEpoch) + heard[wireEpoch] - 1
ClientInv == \E heard \in [Epochs -> Nat] : QueueInv(heard) /\ HeardInv(heard)

ConnInv ==
    TypeOK /\ EndInv /\ ReadInv /\ InFlightBounded /\ DueInv /\ StreamsInv /\ ClientInv

LEMMA Types ==
  ASSUME TypeOK
  PROVE  /\ published \in 0..MaxOut /\ over \in BOOLEAN /\ gone \in BOOLEAN
         /\ at \in {"run", "linger", "done"} /\ epoch \in 1..MaxEpoch /\ next \in 0..(MaxOut + 1)
         /\ redraw \in BOOLEAN /\ exited \in BOOLEAN /\ told \in BOOLEAN /\ paced \in Nat
         /\ stream \in [Epochs -> Seq(Message)] /\ finished \in BOOLEAN /\ acked \in BOOLEAN
         /\ control \in Seq(Control) /\ Len(control) <= ControlQueue
         /\ closed \in {"no", "ended", "plain"} /\ accepted \subseteq Epochs
         /\ got \in [Epochs -> Nat] /\ rx \in Seq([epoch : Epochs, n : Nat, msg : Message])
         /\ Len(rx) <= ReaderQueue
         /\ wireEpoch \in 0..MaxEpoch /\ display \in Nat \cup {Garbled}
         /\ client \in {"up", "has_end", "ended", "redials"} /\ dropped \in [Epochs -> Nat]
         /\ Total \in Nat /\ published <= Total /\ Total <= MaxOut + 1
<1>1. published \in 0..MaxOut /\ over \in BOOLEAN
  BY DEF TypeOK
<1>2. Total \in Nat /\ published <= Total /\ Total <= MaxOut + 1
  BY <1>1, ConnectionAssumption DEF Total
<1> QED
  BY <1>1, <1>2 DEF TypeOK, Epochs

LEMMA Numbers ==
  ASSUME TypeOK
  PROVE  /\ published \in Nat /\ published <= MaxOut /\ MaxOut \in Nat
         /\ epoch \in Nat /\ 1 <= epoch /\ epoch <= MaxEpoch /\ MaxEpoch \in Nat /\ epoch \in Epochs
         /\ next \in Nat /\ next <= MaxOut + 1 /\ paced \in Nat
         /\ Total \in Nat /\ Total <= MaxOut + 1
         /\ Total = (IF over THEN published + 1 ELSE published)
         /\ wireEpoch \in Nat /\ wireEpoch <= MaxEpoch /\ Events \in Nat /\ Events > 0
<1>1. /\ published \in 0..MaxOut /\ epoch \in 1..MaxEpoch /\ next \in 0..(MaxOut + 1) /\ paced \in Nat
      /\ wireEpoch \in 0..MaxEpoch
  BY DEF TypeOK, Epochs
<1> QED
  BY <1>1, ConnectionAssumption DEF Epochs, Total

LEMMA Appended ==
  ASSUME NEW S, NEW q \in Seq(S), NEW x \in S
  PROVE  /\ Append(q, x) \in Seq(S) /\ Len(q) \in Nat /\ Len(Append(q, x)) = Len(q) + 1
         /\ \A i \in 1..Len(q) : Append(q, x)[i] = q[i]
         /\ Append(q, x)[Len(q) + 1] = x
OBVIOUS

LEMMA Taken ==
  ASSUME NEW S, NEW q \in Seq(S), q # <<>>
  PROVE  /\ Tail(q) \in Seq(S) /\ Len(q) \in Nat \ {0} /\ Len(Tail(q)) = Len(q) - 1
         /\ Head(q) = q[1] /\ q[1] \in S
         /\ \A i \in 1..Len(q) - 1 : Tail(q)[i] = q[i + 1]
OBVIOUS

\* The first of what was read and waits for the client's loop.
LEMMA FirstWaiting ==
  ASSUME TypeOK, rx # <<>>
  PROVE  /\ Head(rx) = rx[1] /\ Head(rx).epoch \in Epochs /\ Head(rx).n \in Nat /\ Head(rx).msg \in Message
         /\ Tail(rx) \in Seq([epoch : Epochs, n : Nat, msg : Message])
         /\ Len(rx) \in Nat \ {0} /\ Len(Tail(rx)) = Len(rx) - 1
         /\ \A i \in 1..Len(rx) - 1 : Tail(rx)[i] = rx[i + 1]
<1> DEFINE Read == [epoch : Epochs, n : Nat, msg : Message]
<1>1. rx \in Seq(Read)
  BY Types
<1> HIDE DEF Read
<1>2. /\ Tail(rx) \in Seq(Read) /\ Len(Tail(rx)) = Len(rx) - 1 /\ Len(rx) \in Nat \ {0}
      /\ Head(rx) = rx[1] /\ Head(rx) \in Read
      /\ \A i \in 1..Len(rx) - 1 : Tail(rx)[i] = rx[i + 1]
  BY <1>1, Taken
<1> USE DEF Read
<1> QED
  BY <1>2

LEMMA StreamAppended ==
  ASSUME TypeOK, NEW m \in Message
  PROVE  LET after == [stream EXCEPT ![epoch] = Append(@, m)]
         IN  /\ after \in [Epochs -> Seq(Message)]
             /\ \A e \in Epochs : e # epoch => after[e] = stream[e]
             /\ after[epoch] = Append(stream[epoch], m)
<1>1. stream \in [Epochs -> Seq(Message)] /\ epoch \in Epochs
  BY Types DEF Epochs
<1>2. Append(stream[epoch], m) \in Seq(Message)
  BY <1>1, AppendProperties
<1> QED
  BY <1>1, <1>2

LEMMA AppendedToOne ==
  ASSUME NEW S, NEW a \in S, NEW b \in S
  PROVE  /\ Append(<<a>>, b) \in Seq(S) /\ Len(Append(<<a>>, b)) = 2
         /\ Append(<<a>>, b)[1] = a /\ Append(<<a>>, b)[2] = b
<1>1. <<a>> \in Seq(S) /\ Len(<<a>>) = 1 /\ <<a>>[1] = a
  OBVIOUS
<1> DEFINE q == <<a>>
<1> HIDE DEF q
<1>2. \A i \in 1..Len(q) : Append(q, b)[i] = q[i]
  BY <1>1, AppendProperties DEF q
<1> QED
  BY <1>1, <1>2, AppendProperties DEF q

\* The screen, and the program's end if it exited.
LEMMA Starts ==
  ASSUME TypeOK
  PROVE  /\ Start \in Seq(Message) /\ Start # <<>>
         /\ Len(Start) = IF over THEN 2 ELSE 1
         /\ Start[1] = [t |-> "snap", n |-> published]
         /\ over => Start[2] = [t |-> "exit"]
<1> DEFINE screen == [t |-> "snap", n |-> published]
           end == [t |-> "exit"]
<1>1. published \in 0..MaxOut
  BY DEF TypeOK
<1>2. screen \in Message /\ end \in Message
  BY <1>1 DEF Message
<1>3. Start = IF over THEN Append(<<screen>>, end) ELSE <<screen>>
  BY DEF Start
<1> HIDE DEF screen, end
<1>4. CASE over
  <2>1. /\ Append(<<screen>>, end) \in Seq(Message) /\ Len(Append(<<screen>>, end)) = 2
        /\ Append(<<screen>>, end)[1] = screen /\ Append(<<screen>>, end)[2] = end
    BY <1>2, AppendedToOne
  <2>2. Start \in Seq(Message) /\ Len(Start) = 2 /\ Start[1] = screen /\ Start[2] = end
    BY <1>3, <1>4, <2>1, Zenon
  <2> QED
    BY <1>4, <2>2 DEF screen, end
<1>5. CASE ~over
  <2>1. Start = <<screen>>
    BY <1>3, <1>5
  <2>2. Start \in Seq(Message) /\ Start # <<>> /\ Len(Start) = 1 /\ Start[1] = screen
    BY <1>2, <2>1
  <2> QED
    BY <1>5, <2>2 DEF screen
<1> QED
  BY <1>4, <1>5

(***************************************************************************)
(* The redraws that are on their way.                                      *)
(***************************************************************************)
RedrawsAt(c) == {k \in 1..Len(c) : c[k].t = "redraw"}
Redraws(c) == Cardinality(RedrawsAt(c))
IsRedraw(m) == IF m.t = "redraw" THEN 1 ELSE 0

LEMMA RedrawsFinite ==
  ASSUME NEW c \in Seq(Control)
  PROVE  IsFiniteSet(RedrawsAt(c)) /\ Redraws(c) \in Nat
<1>1. RedrawsAt(c) \in SUBSET (1..Len(c)) /\ Len(c) \in Int
  BY DEF RedrawsAt
<1>2. IsFiniteSet(1..Len(c))
  BY <1>1, FS_Interval
<1> QED
  BY <1>1, <1>2, FS_Subset, FS_CardinalityType DEF Redraws

LEMMA RedrawsAppended ==
  ASSUME NEW c \in Seq(Control), NEW m \in Control
  PROVE  Redraws(Append(c, m)) = Redraws(c) + IsRedraw(m)
<1>1. /\ Len(c) \in Nat /\ Len(Append(c, m)) = Len(c) + 1
      /\ \A i \in 1..Len(c) : Append(c, m)[i] = c[i]
      /\ Append(c, m)[Len(c) + 1] = m
  BY Appended
<1>2. IsFiniteSet(RedrawsAt(c)) /\ Redraws(c) \in Nat
  BY RedrawsFinite
<1>3. Len(c) + 1 \notin RedrawsAt(c)
  BY <1>1 DEF RedrawsAt
<1>4. CASE m.t = "redraw"
  <2>1. RedrawsAt(Append(c, m)) = RedrawsAt(c) \cup {Len(c) + 1}
    BY <1>1, <1>4 DEF RedrawsAt
  <2> QED
    BY <1>2, <1>3, <1>4, <2>1, FS_AddElement DEF Redraws, IsRedraw
<1>5. CASE m.t # "redraw"
  <2>1. RedrawsAt(Append(c, m)) = RedrawsAt(c)
    BY <1>1, <1>5 DEF RedrawsAt
  <2> QED
    BY <1>2, <1>5, <2>1 DEF Redraws, IsRedraw
<1> QED
  BY <1>4, <1>5

LEMMA RedrawsTaken ==
  ASSUME NEW c \in Seq(Control), c # <<>>
  PROVE  Redraws(c) = Redraws(Tail(c)) + IsRedraw(Head(c))
<1>1. /\ Tail(c) \in Seq(Control) /\ Len(c) \in Nat \ {0} /\ Len(Tail(c)) = Len(c) - 1
      /\ Head(c) = c[1] /\ \A i \in 1..Len(c) - 1 : Tail(c)[i] = c[i + 1]
  BY Taken
<1>2. IsFiniteSet(RedrawsAt(c)) /\ Redraws(c) \in Nat
  BY RedrawsFinite
<1>3. IsFiniteSet(RedrawsAt(Tail(c))) /\ Redraws(Tail(c)) \in Nat
  BY <1>1, RedrawsFinite
<1> DEFINE later == RedrawsAt(c) \ {1}
           before == [k \in RedrawsAt(Tail(c)) |-> k + 1]
<1>4. before \in Bijection(RedrawsAt(Tail(c)), later)
  <2>1. \A k \in RedrawsAt(Tail(c)) : k + 1 \in later
    BY <1>1 DEF RedrawsAt
  <2>2. \A k \in later : k - 1 \in RedrawsAt(Tail(c)) /\ k = (k - 1) + 1
    BY <1>1 DEF RedrawsAt
  <2>3. RedrawsAt(Tail(c)) \subseteq Nat
    BY DEF RedrawsAt
  <2>4. before \in [RedrawsAt(Tail(c)) -> later]
    BY <2>1
  <2>5. \A j, k \in RedrawsAt(Tail(c)) : before[j] = before[k] => j = k
    BY <2>3
  <2>6. \A k \in later : \E j \in RedrawsAt(Tail(c)) : before[j] = k
    BY <2>2
  <2> HIDE DEF before, later
  <2> QED
    BY <2>4, <2>5, <2>6 DEF Bijection, Injection, Surjection, IsInjective
<1>5. Cardinality(later) = Redraws(Tail(c))
  <2>1. ExistsBijection(RedrawsAt(Tail(c)), later)
    BY <1>4 DEF ExistsBijection
  <2> QED
    BY <1>3, <2>1, FS_Bijection DEF Redraws
<1>6. CASE Head(c).t = "redraw"
  <2>1. 1 \in RedrawsAt(c)
    BY <1>1, <1>6 DEF RedrawsAt
  <2>2. Cardinality(later) = Redraws(c) - 1
    BY <1>2, <2>1, FS_RemoveElement DEF Redraws
  <2> QED
    BY <1>2, <1>3, <1>5, <1>6, <2>2 DEF IsRedraw
<1>7. CASE Head(c).t # "redraw"
  <2>1. 1 \notin RedrawsAt(c)
    BY <1>1, <1>7 DEF RedrawsAt
  <2>2. later = RedrawsAt(c)
    BY <2>1
  <2>3. Redraws(c) = Redraws(Tail(c))
    BY <1>5, <2>2, Zenon DEF Redraws
  <2> QED
    BY <1>2, <1>3, <1>7, <2>3 DEF IsRedraw
<1> QED
  BY <1>6, <1>7

\* What is due: an epoch for each redraw asked for, and for a lag.
Owed(total) == IF redraw \/ (~exited /\ Lags(total)) THEN 1 ELSE 0

LEMMA DueIs ==
  ASSUME TypeOK, NEW total
  PROVE  /\ EpochsDue(total) = epoch + Redraws(control) + Owed(total)
         /\ Redraws(control) \in Nat /\ Owed(total) \in {0, 1}
<1>1. Redraws(control) \in Nat
  BY Types, RedrawsFinite
<1> QED
  BY <1>1, Zenon DEF EpochsDue, Owed, Redraws, RedrawsAt

(***************************************************************************)
(* Types.                                                                  *)
(***************************************************************************)
LEMMA ReadType ==
  ASSUME NEW m \in Control, m.t # "redraw"
  PROVE  m.t = "read" /\ m.epoch \in Epochs /\ m.n \in Nat
BY DEF Control

LEMMA MessageType ==
  ASSUME NEW m \in Message
  PROVE  IF m.t = "exit" THEN m = [t |-> "exit"]
         ELSE m.t \in {"snap", "out"} /\ m.n \in 0..MaxOut /\ m.n \in Nat
BY ConnectionAssumption DEF Message

LEMMA TypeStep == ASSUME TypeOK, DueInv, Next PROVE TypeOK'
<1> USE ConnectionAssumption
<1>1. CASE Session
  <2>1. published' \in 0..MaxOut /\ over' \in BOOLEAN /\ gone' \in BOOLEAN
    <3>1. CASE SessionWrites
      BY <3>1, Types DEF SessionWrites
    <3>2. CASE SessionExits
      BY <3>2, Types DEF SessionExits
    <3>3. CASE SessionGoes
      BY <3>3, Types DEF SessionGoes
    <3> QED
      BY <1>1, <3>1, <3>2, <3>3 DEF Session
  <2>2. UNCHANGED <<serveVars, linkVars, clientVars>>
    BY <1>1 DEF Session, SessionWrites, SessionExits, SessionGoes
  <2> QED
    BY <2>1, <2>2, Types DEF TypeOK, serveVars, linkVars, clientVars
<1>2. CASE ServeRedraws
  <2>1. redraw /\ redraw' = FALSE /\ epoch' = epoch + 1 /\ stream' = [stream EXCEPT ![epoch + 1] = Start]
        /\ next' = Total /\ paced' = 0
    BY <1>2 DEF ServeRedraws
  <2>2. epoch + 1 \in Epochs
    <3>1. epoch + Redraws(control) + 1 <= MaxEpoch
      BY <2>1, DueIs DEF DueInv, WithinEpochs, Owed
    <3>2. Redraws(control) \in Nat
      BY Types, RedrawsFinite
    <3> QED
      BY <3>1, <3>2, Numbers DEF Epochs
  <2>3. stream' \in [Epochs -> Seq(Message)]
    BY <2>1, Types, Starts
  <2>4. UNCHANGED <<sessionVars, at, exited, told, finished, acked, control, closed, clientVars>>
    BY <1>2 DEF ServeRedraws
  <2>5. redraw' \in BOOLEAN /\ epoch' \in Epochs /\ next' \in 0..(MaxOut + 1) /\ paced' \in Nat
    <3>1. next' \in Nat /\ next' <= MaxOut + 1
      BY <2>1, Numbers
    <3>2. redraw' \in BOOLEAN /\ epoch' \in Epochs /\ paced' \in Nat
      BY <2>1, <2>2
    <3> QED
      BY <3>1, <3>2, Numbers
  <2> QED
    BY SMTT(40), <2>3, <2>4, <2>5, Types DEF TypeOK, sessionVars, clientVars
<1>3. ASSUME NEW how \in {"plain", "ended"}, Leave(how),
             UNCHANGED <<sessionVars, epoch, next, redraw, exited, paced, stream, finished, acked, control,
                         clientVars>>
      PROVE  TypeOK'
  <2>1. at' = "done" /\ closed' \in {"no", "ended", "plain"} /\ told' \in BOOLEAN
    BY <1>3, Types DEF Leave
  <2> QED
    BY <1>3, <2>1, Types DEF TypeOK, sessionVars, clientVars
<1>4. CASE ServeOutlives \/ ArmUndelivered \/ ArmClosed
  BY <1>3, <1>4 DEF ServeOutlives, ArmUndelivered, ArmClosed
<1>5. CASE Lingers
  BY <1>3, <1>5 DEF Lingers
<1>6. CASE ArmLagged
  <2>1. Total - next > Events /\ next' = Total - Events /\ redraw' = TRUE
    BY <1>6 DEF ArmLagged, Lags
  <2>2. next' \in 0..(MaxOut + 1)
    <3>1. next \in Nat /\ Total \in Nat /\ Total <= MaxOut + 1 /\ MaxOut \in Nat /\ Events \in Nat
      BY Numbers
    <3> QED
      BY ONLY <2>1, <3>1
  <2>3. UNCHANGED <<sessionVars, at, epoch, exited, told, paced, linkVars, clientVars>>
    BY <1>6 DEF ArmLagged
  <2> QED
    BY <2>1, <2>2, <2>3, Types DEF TypeOK, sessionVars, linkVars, clientVars
<1>7. CASE ArmOut
  <2>1. next < published /\ next' = next + 1
        /\ stream' = [stream EXCEPT ![epoch] = Append(@, [t |-> "out", n |-> next + 1])]
    BY <1>7 DEF ArmOut
  <2>2. next' \in 0..(MaxOut + 1) /\ [t |-> "out", n |-> next + 1] \in Message
    BY <2>1, Types DEF Message
  <2>3. stream' \in [Epochs -> Seq(Message)]
    BY <2>1, <2>2, Types, StreamAppended
  <2>4. UNCHANGED <<sessionVars, at, epoch, redraw, exited, told, paced, finished, acked, control,
                   closed, clientVars>>
    BY <1>7 DEF ArmOut
  <2> QED
    BY <2>2, <2>3, <2>4, Types DEF TypeOK, sessionVars, clientVars
<1>8. CASE ArmExit
  <2>1. next = published /\ next' = next + 1 /\ exited' = TRUE /\ finished' = TRUE
        /\ stream' = [stream EXCEPT ![epoch] = Append(@, [t |-> "exit"])]
    BY <1>8 DEF ArmExit
  <2>2. next' \in 0..(MaxOut + 1) /\ [t |-> "exit"] \in Message
    BY SMTT(40), <2>1, Types DEF Message
  <2>3. stream' \in [Epochs -> Seq(Message)]
    BY <2>1, <2>2, Types, StreamAppended
  <2>4. UNCHANGED <<sessionVars, at, epoch, redraw, told, paced, acked, control, closed, clientVars>>
    BY <1>8 DEF ArmExit
  <2> QED
    BY <2>1, <2>2, <2>3, <2>4, Types DEF TypeOK, sessionVars, clientVars
<1>9. CASE ArmDelivered
  BY <1>9, Types DEF ArmDelivered, TypeOK, sessionVars, linkVars, clientVars
<1>10. CASE ArmControl
  <2>1. control # <<>> /\ control' = Tail(control) /\ redraw' \in BOOLEAN
        /\ paced' = (IF Head(control).t = "redraw" THEN paced ELSE PacedAfter(Head(control)))
    BY <1>10, Types DEF ArmControl
  <2>2. control' \in Seq(Control) /\ Len(control') <= ControlQueue /\ Head(control) \in Control
    BY <2>1, Types
  <2>3. paced' \in Nat
    BY <2>1, <2>2, ReadType, Types DEF PacedAfter, Most
  <2>4. UNCHANGED <<sessionVars, at, epoch, next, exited, told, stream, finished, acked, closed,
                   clientVars>>
    BY <1>10 DEF ArmControl
  <2> QED
    BY <2>1, <2>2, <2>3, <2>4, Types DEF TypeOK, sessionVars, clientVars
<1>11. CASE Network
  BY ZenonT(60), <1>11, Types DEF Network, StreamAcked, LinkLost, TypeOK, sessionVars, serveVars, clientVars
<1>12. ASSUME NEW e \in Epochs, ReaderAccepts(e) PROVE TypeOK'
  <2>1. accepted' \subseteq Epochs
    BY <1>12, Types DEF ReaderAccepts
  <2>2. UNCHANGED <<sessionVars, serveVars, linkVars, got, rx, wireEpoch, display, dropped, client>>
    BY <1>12 DEF ReaderAccepts
  <2> QED
    BY <2>1, <2>2, Types DEF TypeOK, sessionVars, serveVars, linkVars
<1>13. ASSUME NEW e \in Epochs, ReaderReads(e) PROVE TypeOK'
  <2>1. got[e] < Len(stream[e]) /\ Len(rx) < ReaderQueue /\ got' = [got EXCEPT ![e] = @ + 1]
        /\ rx' = Append(rx, [epoch |-> e, n |-> got[e] + 1, msg |-> stream[e][got[e] + 1]])
    BY <1>13 DEF ReaderReads, ReaderRoom
  <2>2. stream[e] \in Seq(Message) /\ got[e] \in Nat
    BY Types
  <2>3. stream[e][got[e] + 1] \in Message
    BY <2>1, <2>2
  <2>4. [epoch |-> e, n |-> got[e] + 1, msg |-> stream[e][got[e] + 1]] \in [epoch : Epochs, n : Nat, msg : Message]
    BY <2>2, <2>3
  <2>5. rx' \in Seq([epoch : Epochs, n : Nat, msg : Message]) /\ Len(rx') <= ReaderQueue
    BY <2>1, <2>4, Types
  <2>6. got' \in [Epochs -> Nat]
    BY SMTT(40), <2>1, <2>2, Types
  <2>7. UNCHANGED <<sessionVars, serveVars, linkVars, accepted, wireEpoch, display, dropped, client>>
    BY <1>13 DEF ReaderReads
  <2> QED
    BY <2>5, <2>6, <2>7, Types DEF TypeOK, sessionVars, serveVars, linkVars
<1>14. CASE ClientHears
  <2> DEFINE m == Head(rx)
  <2>1. rx # <<>> /\ rx' = Tail(rx) /\ UNCHANGED <<sessionVars, serveVars, stream, finished, acked, accepted, got>>
    BY <1>14 DEF ClientHears
  <2>2. m.epoch \in Epochs /\ m.n \in Nat /\ m.msg \in Message /\ rx' \in Seq([epoch : Epochs, n : Nat, msg : Message])
        /\ Len(rx') <= ReaderQueue
    <3>1. Len(rx) <= ReaderQueue
      BY Types
    <3> QED
      BY <2>1, <3>1, FirstWaiting
  <2>3. wireEpoch' \in {wireEpoch, m.epoch} /\ display' \in {display, Shows(display, m.msg)}
        /\ client' \in {client, "has_end"} /\ closed' \in {closed, "ended"}
        /\ control' \in {control, Report([t |-> "read", epoch |-> m.epoch, n |-> m.n])}
    BY <1>14, Zenon DEF ClientHears
  <2>4. Shows(display, m.msg) \in Nat \cup {Garbled}
    BY <2>2, MessageType, Types DEF Shows
  <2>5. control' \in Seq(Control) /\ Len(control') <= ControlQueue
    <3>1. [t |-> "read", epoch |-> m.epoch, n |-> m.n] \in Control
      BY <2>2 DEF Control
    <3>2. /\ Append(control, [t |-> "read", epoch |-> m.epoch, n |-> m.n]) \in Seq(Control)
          /\ Len(Append(control, [t |-> "read", epoch |-> m.epoch, n |-> m.n])) = Len(control) + 1
          /\ Len(control) \in Nat
      BY <3>1, Types, AppendProperties
    <3>3. control \in Seq(Control) /\ Len(control) <= ControlQueue /\ ControlQueue \in Nat
      BY Types
    <3> QED
      BY <2>3, <3>2, <3>3 DEF Report, ControlRoom
  <2>7. dropped' \in [Epochs -> Nat]
    <3>1. dropped' \in {dropped, [dropped EXCEPT ![m.epoch] = m.n]}
      BY <1>14, Zenon DEF ClientHears
    <3> QED
      BY <2>2, <3>1, Types
  <2> HIDE DEF m
  <2>6. /\ wireEpoch' \in 0..MaxEpoch /\ display' \in Nat \cup {Garbled}
        /\ client' \in {"up", "has_end", "ended", "redials"} /\ closed' \in {"no", "ended", "plain"}
    <3>1. /\ display \in Nat \cup {Garbled} /\ client \in {"up", "has_end", "ended", "redials"}
          /\ closed \in {"no", "ended", "plain"}
      BY Types
    <3>2. wireEpoch' \in 0..MaxEpoch
      BY <2>2, <2>3, Numbers DEF Epochs
    <3> QED
      BY <2>3, <2>4, <3>1, <3>2
  <2> QED
    BY <2>1, <2>2, <2>5, <2>6, <2>7, Types DEF TypeOK, sessionVars, serveVars
<1>15. CASE ClientLost
  BY <1>15, Types DEF ClientLost, TypeOK, sessionVars, serveVars, linkVars
<1>16. CASE ClientResumes
  <2>1. Len(control) < ControlQueue /\ control' = Append(control, [t |-> "redraw"])
        /\ UNCHANGED <<sessionVars, serveVars, stream, finished, acked, closed, clientVars>>
    BY <1>16 DEF ClientResumes, ControlRoom
  <2>2. control' \in Seq(Control) /\ Len(control') <= ControlQueue
    BY <2>1, Types DEF Control
  <2> QED
    BY <2>1, <2>2, Types DEF TypeOK, sessionVars, serveVars, clientVars
<1>17. CASE ClientLeaves
  BY <1>17, Types DEF ClientLeaves, TypeOK, sessionVars, serveVars
<1>18. CASE Stopped
  BY <1>18 DEF Stopped, TypeOK, vars, sessionVars, serveVars, linkVars, clientVars
<1> QED
  BY <1>1, <1>2, <1>4, <1>5, <1>6, <1>7, <1>8, <1>9, <1>10, <1>11, <1>12, <1>13, <1>14, <1>15, <1>16, <1>17,
     <1>18
     DEF Next, Serve, Client, Reader

(***************************************************************************)
(* The epochs due stay within the bound.                                   *)
(***************************************************************************)
LEMMA DueIsNext ==
  ASSUME TypeOK'
  PROVE  /\ EpochsDue(Total)' = epoch' + Redraws(control') + Owed(Total)'
         /\ Redraws(control') \in Nat /\ Owed(Total)' \in {0, 1}
<1>1. control' \in Seq(Control)
  BY DEF TypeOK
<1>2. Redraws(control') \in Nat
  BY <1>1, RedrawsFinite
<1> QED
  BY <1>2, Zenon DEF EpochsDue, Owed, Redraws, RedrawsAt

\* What changes nothing of the server's account but what is owed, and owes no more.
LEMMA DueKept ==
  ASSUME TypeOK, TypeOK', DueInv, next' <= Total', epoch' + Redraws(control') + Owed(Total)' <= MaxEpoch
  PROVE  DueInv'
BY DueIsNext DEF DueInv, WithinEpochs

LEMMA DueStep == ASSUME TypeOK, TypeOK', DueInv, Next PROVE DueInv'
<1> DEFINE owed == Owed(Total)
           due == Redraws(control)
<1>1. /\ next <= Total /\ epoch + due + owed <= MaxEpoch
      /\ due \in Nat /\ owed \in {0, 1}
  BY DueIs DEF DueInv, WithinEpochs
<1>2. owed = IF redraw \/ (~exited /\ Total - next > Events) THEN 1 ELSE 0
  BY DEF Owed, Lags
<1>3. Owed(Total)' = IF redraw' \/ (~exited' /\ Total' - next' > Events) THEN 1 ELSE 0
  BY DEF Owed, Lags
<1>4. /\ next \in Nat /\ Total \in Nat /\ epoch \in Nat /\ MaxEpoch \in Nat /\ Events \in Nat
      /\ Events > 0 /\ published \in Nat /\ Total = (IF over THEN published + 1 ELSE published)
      /\ control \in Seq(Control)
  BY Numbers, Types
<1>5. control' \in Seq(Control) /\ Redraws(control') \in Nat /\ Owed(Total)' \in {0, 1}
  BY DueIsNext DEF TypeOK
<1> HIDE DEF owed, due
<1>6. CASE SessionWrites \/ SessionExits
  <2>1. EpochsDue(Total + 1) <= MaxEpoch /\ UNCHANGED <<epoch, next, redraw, exited, control>>
    BY <1>6 DEF SessionWrites, SessionExits, WithinEpochs, serveVars, linkVars
  <2>2. Total' = Total + 1
    <3>1. CASE SessionWrites
      BY <1>4, <3>1 DEF SessionWrites, Total
    <3>2. CASE SessionExits
      BY <1>4, <3>2 DEF SessionExits, Total
    <3> QED
      BY <1>6, <3>1, <3>2
  <2>3. epoch + Redraws(control) + Owed(Total + 1) <= MaxEpoch
    BY <2>1, DueIs
  <2>4. Owed(Total)' = Owed(Total + 1) /\ Redraws(control') = Redraws(control)
    BY <2>1, <2>2 DEF Owed, Lags
  <2>5. next' <= Total'
    BY <1>1, <1>4, <2>1, <2>2
  <2> QED
    BY <2>1, <2>3, <2>4, <2>5, DueKept
<1>7. CASE ServeRedraws
  <2>1. redraw = TRUE /\ epoch' = epoch + 1 /\ next' = Total /\ redraw' = FALSE /\ control' = control
        /\ published' = published /\ over' = over
    BY <1>7, Types DEF ServeRedraws, sessionVars
  <2>2. Total' = Total /\ Redraws(control') = due
    BY <2>1 DEF Total, due
  <2>3. owed = 1 /\ Owed(Total)' = 0
    BY <1>2, <1>3, <1>4, <2>1, <2>2
  <2>4. next' <= Total' /\ epoch' + Redraws(control') + Owed(Total)' <= MaxEpoch
    BY <1>1, <1>4, <2>1, <2>2, <2>3
  <2> QED
    BY <2>4, DueKept
<1>8. CASE ArmLagged
  <2>1. ~exited /\ Total - next > Events /\ next' = Total - Events /\ epoch' = epoch /\ control' = control
        /\ published' = published /\ over' = over
    BY <1>8 DEF ArmLagged, Lags, sessionVars, linkVars
  <2>2. Total' = Total /\ Redraws(control') = due
    BY <2>1 DEF Total, due
  <2>3. owed = 1
    BY <1>2, <2>1
  <2>4. next' <= Total' /\ epoch' + Redraws(control') + Owed(Total)' <= MaxEpoch
    BY <1>1, <1>4, <1>5, <2>1, <2>2, <2>3
  <2> QED
    BY <2>4, DueKept
<1>9. CASE ArmOut
  <2>1. next < published /\ next' = next + 1 /\ epoch' = epoch /\ control' = control
        /\ redraw' = redraw /\ exited' = exited /\ published' = published /\ over' = over
    BY <1>9 DEF ArmOut, sessionVars
  <2>2. Total' = Total /\ Redraws(control') = due
    BY <2>1 DEF Total, due
  <2>3. next' <= Total' /\ (Total' - next' > Events => Total - next > Events)
    BY <1>4, <2>1, <2>2
  <2>4. Owed(Total)' <= owed
    BY <1>2, <1>3, <2>1, <2>3
  <2>5. epoch' + Redraws(control') + Owed(Total)' <= MaxEpoch
    <3>1. Owed(Total)' \in Nat /\ epoch' = epoch
      BY <1>5, <2>1
    <3> QED
      BY ONLY <1>1, <1>4, <2>2, <2>4, <3>1
  <2> QED
    BY <2>3, <2>5, DueKept
<1>10. CASE ArmExit
  <2>1. over /\ next = published /\ next' = next + 1 /\ epoch' = epoch /\ control' = control
        /\ redraw' = redraw /\ exited' = TRUE /\ published' = published /\ over' = over
    BY <1>10 DEF ArmExit, sessionVars
  <2>2. Total' = Total /\ Redraws(control') = due
    BY <2>1 DEF Total, due
  <2>3. next' <= Total'
    BY <1>4, <2>1, <2>2
  <2>4. Owed(Total)' <= owed
    BY <1>2, <1>3, <2>1
  <2>5. epoch' + Redraws(control') + Owed(Total)' <= MaxEpoch
    <3>1. Owed(Total)' \in Nat /\ epoch' = epoch
      BY <1>5, <2>1
    <3> QED
      BY ONLY <1>1, <1>4, <2>2, <2>4, <3>1
  <2> QED
    BY <2>3, <2>5, DueKept
<1>11. CASE ArmControl
  <2>1. control # <<>> /\ control' = Tail(control) /\ (Head(control).t # "redraw" => redraw' = redraw)
        /\ UNCHANGED <<epoch, next, exited, published, over>>
    BY <1>11 DEF ArmControl, sessionVars
  <2>2. Total' = Total /\ due = Redraws(control') + IsRedraw(Head(control))
    BY <1>4, <2>1, RedrawsTaken DEF Total, due
  <2>3. next' <= Total'
    BY <1>1, <2>1, <2>2
  <2>4. Owed(Total)' <= owed + IsRedraw(Head(control))
    BY <1>1, <1>2, <1>3, <1>5, <2>1, <2>2 DEF IsRedraw
  <2>5. IsRedraw(Head(control)) \in {0, 1}
    BY DEF IsRedraw
  <2>6. epoch' + Redraws(control') + Owed(Total)' <= MaxEpoch
    <3>1. Redraws(control') \in Nat /\ Owed(Total)' \in Nat /\ epoch' = epoch
      BY <1>5, <2>1
    <3>2. Redraws(control') + Owed(Total)' <= due + owed
      BY ONLY <1>1, <2>2, <2>4, <2>5, <3>1
    <3> QED
      BY ONLY <1>1, <1>4, <3>1, <3>2
  <2> QED
    BY <2>3, <2>6, DueKept
<1>12. ASSUME UNCHANGED <<epoch, next, redraw, exited, published, over>>, Redraws(control') = due
       PROVE  DueInv'
  <2>1. Total' = Total /\ Owed(Total)' = owed
    BY <1>12 DEF Total, Owed, Lags, owed
  <2> QED
    BY <1>1, <1>12, <2>1, DueKept
<1>13. CASE ClientHears
  <2> DEFINE m == [t |-> "read", epoch |-> Head(rx).epoch, n |-> Head(rx).n]
  <2>1. /\ UNCHANGED <<epoch, next, redraw, exited, published, over>>
        /\ control' \in {control, Report(m)} /\ rx # <<>>
    BY <1>13, Zenon DEF ClientHears, serveVars, sessionVars
  <2>2. m \in Control /\ m.t # "redraw"
    <3>1. Head(rx).epoch \in Epochs /\ Head(rx).n \in Nat
      BY <2>1, FirstWaiting
    <3> QED
      BY <3>1 DEF Control
  <2> HIDE DEF m
  <2>3. control' \in {control, Append(control, m)}
    BY <2>1 DEF Report, ControlRoom
  <2>4. Redraws(Append(control, m)) = due
    <3>1. Redraws(Append(control, m)) = Redraws(control) + IsRedraw(m)
      BY <1>4, <2>2, RedrawsAppended
    <3>2. IsRedraw(m) = 0
      BY <2>2 DEF IsRedraw
    <3> QED
      BY <1>1, <3>1, <3>2 DEF due
  <2>5. Redraws(control') = due
    BY <2>3, <2>4 DEF due
  <2> QED
    BY <1>12, <2>1, <2>5
<1>14. CASE ClientResumes
  <2> DEFINE m == [t |-> "redraw"]
  <2>1. /\ UNCHANGED <<epoch, next, redraw, exited, published, over>>
        /\ EpochsDue(Total) < MaxEpoch /\ control' = Append(control, m)
    BY <1>14 DEF ClientResumes, serveVars, sessionVars
  <2>2. m \in Control /\ IsRedraw(m) = 1
    BY DEF Control, IsRedraw
  <2> HIDE DEF m
  <2>3. Redraws(control') = due + 1
    BY <1>4, <2>1, <2>2, RedrawsAppended DEF due
  <2>4. epoch + due + owed < MaxEpoch
    BY <2>1, DueIs DEF due, owed
  <2>5. Total' = Total /\ Owed(Total)' = owed
    BY <2>1 DEF Total, Owed, Lags, owed
  <2>6. next' <= Total' /\ epoch' + Redraws(control') + Owed(Total)' <= MaxEpoch
    BY <1>1, <1>4, <2>1, <2>3, <2>4, <2>5
  <2> QED
    BY <2>6, DueKept
<1>15. ASSUME UNCHANGED <<epoch, next, redraw, exited, published, over, control>> PROVE DueInv'
  BY <1>12, <1>15 DEF due
<1>16. CASE SessionGoes \/ Stopped \/ StreamAcked \/ LinkLost \/ Reader \/ ClientLost \/ ClientLeaves
  BY <1>15, <1>16
     DEF SessionGoes, Stopped, StreamAcked, LinkLost, Reader, ReaderAccepts, ReaderReads, ClientLost,
         ClientLeaves, vars, sessionVars, serveVars, linkVars
<1>17. CASE ServeOutlives \/ ArmDelivered \/ ArmUndelivered \/ ArmClosed \/ Lingers
  BY <1>15, <1>17 DEF ServeOutlives, ArmDelivered, ArmUndelivered, ArmClosed, Lingers, sessionVars, linkVars
<1> QED
  BY <1>6, <1>7, <1>8, <1>9, <1>10, <1>11, <1>13, <1>14, <1>16, <1>17 DEF Next, Session, Serve, Network, Client

(***************************************************************************)
(* The end: the session is told of it once the client has it, or had all   *)
(* of its stream.                                                          *)
(***************************************************************************)
LEMMA EndStep == ASSUME TypeOK, EndInv, Next PROVE EndInv'
<1>a. told \in BOOLEAN /\ exited \in BOOLEAN /\ acked \in BOOLEAN
  BY DEF TypeOK
<1>1. CASE UNCHANGED <<at, told, closed, acked, client>>
  BY <1>1 DEF EndInv
<1>2. ASSUME Leave("plain"), UNCHANGED <<acked, client>> PROVE EndInv'
  <2>1. at' = "done" /\ (closed' = "ended" => closed = "ended") /\ (told' => told \/ closed' = "ended")
    BY <1>2 DEF Leave
  <2> QED
    BY <1>2, <2>1 DEF EndInv
<1>3. CASE ArmDelivered
  <2>1. at' = "linger" /\ told' = TRUE /\ (acked \/ closed = "ended") /\ UNCHANGED <<acked, closed, client>>
    BY <1>3 DEF ArmDelivered, Delivered, linkVars, clientVars
  <2> QED
    BY <2>1 DEF EndInv
<1>4. CASE Lingers
  <2>1. at = "linger" /\ at' = "done" /\ UNCHANGED <<acked, client>>
    BY <1>4 DEF Lingers, Leave, clientVars
  <2> QED
    BY <2>1 DEF EndInv
<1>5. CASE StreamAcked
  <2>1. acked' = TRUE /\ UNCHANGED <<at, told, closed, client>>
    BY <1>5 DEF StreamAcked, serveVars, clientVars
  <2> QED
    BY <2>1 DEF EndInv
<1>6. CASE LinkLost
  <2>1. closed = "no" /\ closed' = "plain" /\ UNCHANGED <<at, told, acked, client>>
    BY <1>6 DEF LinkLost, serveVars, clientVars
  <2> QED
    BY <2>1 DEF EndInv
<1>7. CASE ClientHears
  <2>1. /\ client = "up" /\ UNCHANGED <<at, told, acked>>
        /\ (closed' = closed /\ client' = client) \/ client' = "has_end"
    BY <1>7 DEF ClientHears, serveVars
  <2> QED
    BY <2>1 DEF EndInv
<1>8. CASE ClientLost
  <2>1. client = "up" /\ UNCHANGED <<at, told, acked, closed>>
    BY <1>8 DEF ClientLost, serveVars, linkVars
  <2> QED
    BY <2>1 DEF EndInv
<1>9. CASE ClientLeaves
  <2>1. client = "up" /\ closed = "no" /\ closed' = "plain" /\ UNCHANGED <<at, told, acked>>
    BY <1>9 DEF ClientLeaves, serveVars
  <2> QED
    BY <2>1 DEF EndInv
<1>10. CASE ServeOutlives \/ ArmUndelivered \/ ArmClosed
  BY <1>2, <1>10 DEF ServeOutlives, ArmUndelivered, ArmClosed, clientVars
<1>11. CASE Session \/ ServeRedraws \/ ArmLagged \/ ArmOut \/ ArmExit \/ ArmControl \/ Reader \/ ClientResumes
            \/ Stopped
  BY <1>1, <1>11
     DEF Session, SessionWrites, SessionExits, SessionGoes, ServeRedraws, ArmLagged, ArmOut, ArmExit,
         ArmControl, Reader, ReaderAccepts, ReaderReads, ClientResumes, Stopped, vars, serveVars, linkVars,
         clientVars
<1> QED
  BY <1>3, <1>4, <1>5, <1>6, <1>7, <1>8, <1>9, <1>10, <1>11 DEF Next, Serve, Network, Client

(***************************************************************************)
(* What the pace counts as read was read, and bounds what is in flight.    *)
(***************************************************************************)
LEMMA ReadStep == ASSUME TypeOK, TypeOK', ReadInv, ClientInv, Next PROVE ReadInv'
<1>1. /\ epoch \in Epochs /\ paced \in Nat /\ got \in [Epochs -> Nat] /\ control \in Seq(Control)
      /\ paced <= got[epoch]
      /\ \A i \in 1..Len(control) : control[i].t = "read" => control[i].n <= got[control[i].epoch]
  BY Types, Numbers DEF ReadInv
<1>2. \A i \in 1..Len(control) : control[i] \in Control
  BY <1>1
<1>3. CASE ServeRedraws
  <2>1. paced' = 0 /\ got' = got /\ control' = control
    BY <1>3 DEF ServeRedraws, clientVars
  <2>2. epoch' \in Epochs
    BY DEF TypeOK
  <2> QED
    BY <1>1, <2>1, <2>2 DEF ReadInv
<1>4. CASE ArmControl
  <2>1. control # <<>> /\ control' = Tail(control) /\ got' = got /\ epoch' = epoch
        /\ paced' = (IF Head(control).t = "redraw" THEN paced ELSE PacedAfter(Head(control)))
    BY <1>4 DEF ArmControl, clientVars
  <2>2. /\ Len(control) \in Nat \ {0} /\ Len(control') = Len(control) - 1 /\ Head(control) = control[1]
        /\ \A i \in 1..Len(control) - 1 : control'[i] = control[i + 1]
    BY <1>1, <2>1, Taken
  <2>3. \A i \in 1..Len(control') : control'[i].t = "read" => control'[i].n <= got'[control'[i].epoch]
    BY <1>1, <2>1, <2>2
  <2>4. paced' <= got'[epoch']
    <3>1. CASE Head(control).t = "redraw"
      BY <1>1, <2>1, <3>1
    <3>2. CASE Head(control).t # "redraw"
      <4>1. control[1].t = "read" /\ control[1].n \in Nat /\ control[1].n <= got[control[1].epoch]
        BY <1>1, <1>2, <2>2, <3>2, ReadType
      <4>2. paced' = IF control[1].epoch = epoch THEN Most(paced, control[1].n) ELSE paced
        BY <2>1, <2>2, <3>2 DEF PacedAfter
      <4> QED
        BY <1>1, <2>1, <4>1, <4>2 DEF Most
    <3> QED
      BY <3>1, <3>2
  <2> QED
    BY <2>3, <2>4 DEF ReadInv
<1>5. ASSUME NEW e \in Epochs, ReaderReads(e) PROVE ReadInv'
  <2>1. got' = [got EXCEPT ![e] = @ + 1] /\ UNCHANGED <<epoch, paced, control>>
    BY <1>5 DEF ReaderReads, serveVars, linkVars
  <2>2. \A f \in Epochs : got'[f] \in Nat /\ got[f] \in Nat /\ got[f] <= got'[f]
    BY <1>1, <2>1
  <2>3. \A i \in 1..Len(control) : control[i].t = "read" =>
            control[i].epoch \in Epochs /\ control[i].n \in Nat /\ control[i].n <= got'[control[i].epoch]
    <3> TAKE i \in 1..Len(control)
    <3> HAVE control[i].t = "read"
    <3>1. control[i].epoch \in Epochs /\ control[i].n \in Nat
      BY <1>2, ReadType
    <3> QED
      BY <1>1, <2>2, <3>1
  <2> QED
    BY <1>1, <2>1, <2>2, <2>3 DEF ReadInv
<1>6. CASE ClientHears
  <2> DEFINE m == [t |-> "read", epoch |-> Head(rx).epoch, n |-> Head(rx).n]
  <2>1. /\ UNCHANGED <<epoch, paced, got>> /\ control' \in {control, Report(m)} /\ rx # <<>>
    BY <1>6, Zenon DEF ClientHears, serveVars
  <2>2. m \in Control /\ m.n <= got[m.epoch]
    <3>1. Head(rx).epoch \in Epochs /\ Head(rx).n \in Nat /\ Head(rx) = rx[1] /\ 1 \in 1..Len(rx)
      BY <2>1, FirstWaiting
    <3>2. rx[1].n <= got[rx[1].epoch]
      BY <3>1 DEF ClientInv, QueueInv
    <3> QED
      BY <3>1, <3>2 DEF Control
  <2> HIDE DEF m
  <2>3. control' \in {control, Append(control, m)}
    BY <2>1 DEF Report, ControlRoom
  <2>4. /\ Len(control) \in Nat /\ Len(Append(control, m)) = Len(control) + 1
        /\ \A i \in 1..Len(control) : Append(control, m)[i] = control[i]
        /\ Append(control, m)[Len(control) + 1] = m
    BY <1>1, <2>2, Appended
  <2>5. \A i \in 1..Len(control') : control'[i].t = "read" => control'[i].n <= got[control'[i].epoch]
    <3>1. CASE control' = control
      BY <1>1, <3>1
    <3>2. CASE control' = Append(control, m)
      BY <1>1, <2>2, <2>4, <3>2
    <3> QED
      BY <2>3, <3>1, <3>2
  <2> QED
    BY <1>1, <2>1, <2>5 DEF ReadInv
<1>7. CASE ClientResumes
  <2> DEFINE m == [t |-> "redraw"]
  <2>1. UNCHANGED <<epoch, paced, got>> /\ control' = Append(control, m)
    BY <1>7 DEF ClientResumes, serveVars, clientVars
  <2>2. m \in Control /\ m.t # "read"
    BY DEF Control
  <2> HIDE DEF m
  <2>3. /\ Len(control) \in Nat /\ Len(control') = Len(control) + 1
        /\ \A i \in 1..Len(control) : control'[i] = control[i]
        /\ control'[Len(control) + 1] = m
    BY <1>1, <2>1, <2>2, Appended
  <2>4. \A i \in 1..Len(control') : control'[i].t = "read" => control'[i].n <= got[control'[i].epoch]
    BY <1>1, <2>2, <2>3
  <2> QED
    BY <1>1, <2>1, <2>4 DEF ReadInv
<1>8. ASSUME UNCHANGED <<epoch, paced, got, control>> PROVE ReadInv'
  BY <1>1, <1>8 DEF ReadInv
<1>9. CASE Session \/ ArmLagged \/ ArmOut \/ ArmExit \/ ArmDelivered \/ ServeOutlives \/ ArmUndelivered
           \/ ArmClosed \/ Lingers
  BY <1>8, <1>9
     DEF Session, SessionWrites, SessionExits, SessionGoes, ArmLagged, ArmOut, ArmExit, ArmDelivered,
         ServeOutlives, ArmUndelivered, ArmClosed, Lingers, serveVars, linkVars, clientVars
<1>10. CASE Network \/ ClientLost \/ ClientLeaves \/ Stopped
  BY <1>8, <1>10
     DEF Network, StreamAcked, LinkLost, ClientLost, ClientLeaves, Stopped, vars, serveVars, linkVars, clientVars
<1>11. ASSUME NEW e \in Epochs, ReaderAccepts(e) PROVE ReadInv'
  BY <1>8, <1>11 DEF ReaderAccepts, serveVars, linkVars
<1> QED
  BY <1>3, <1>4, <1>5, <1>6, <1>7, <1>9, <1>10, <1>11 DEF Next, Serve, Client, Reader

LEMMA InFlightStep == ASSUME TypeOK, TypeOK', InFlightBounded, Next PROVE InFlightBounded'
<1>1. /\ Len(stream[epoch]) \in Nat /\ paced \in Nat /\ Budget \in Nat
      /\ Len(stream[epoch]) - paced <= Budget \/ Len(stream[epoch]) - paced <= 2
  BY SMTT(40), Types, Numbers, ConnectionAssumption DEF InFlightBounded, Most
<1>2. ASSUME Len(stream[epoch])' \in Nat, paced' \in Nat,
             \/ Len(stream[epoch])' - paced' <= Budget
             \/ Len(stream[epoch])' - paced' <= 2
      PROVE  InFlightBounded'
  BY <1>1, <1>2 DEF InFlightBounded, Most
<1>3. CASE ServeRedraws
  <2>1. stream' = [stream EXCEPT ![epoch + 1] = Start] /\ paced' = 0 /\ epoch' = epoch + 1
    BY <1>3 DEF ServeRedraws
  <2>2. epoch + 1 \in Epochs
    BY <2>1 DEF TypeOK
  <2>3. stream'[epoch'] = Start
    BY <2>1, <2>2, Types
  <2>4. Len(Start) \in Nat /\ Len(Start) <= 2
    <3> DEFINE len == Len(Start)
    <3>1. len = 1 \/ len = 2
      BY Starts, Zenon
    <3> HIDE DEF len
    <3>2. len \in Nat /\ len <= 2
      BY <3>1
    <3> QED
      BY <3>2 DEF len
  <2> QED
    BY <1>2, <2>1, <2>3, <2>4
<1>4. ASSUME NEW m \in Message, Room, stream' = [stream EXCEPT ![epoch] = Append(@, m)],
             UNCHANGED <<epoch, paced>>
      PROVE  InFlightBounded'
  <2>1. stream[epoch] \in Seq(Message) /\ stream'[epoch'] = Append(stream[epoch], m)
    BY <1>4, Types, Numbers
  <2>2. Len(stream[epoch])' = Len(stream[epoch]) + 1
    BY <1>4, <2>1, AppendProperties
  <2>3. Len(stream[epoch]) - paced < Budget
    BY <1>4 DEF Room
  <2> QED
    BY <1>1, <1>2, <1>4, <2>2, <2>3
<1>5. CASE ArmOut
  <2>1. [t |-> "out", n |-> next + 1] \in Message
    <3>1. next < published
      BY <1>5 DEF ArmOut
    <3> QED
      BY <3>1, Numbers DEF Message
  <2> QED
    BY <1>4, <1>5, <2>1 DEF ArmOut
<1>6. CASE ArmExit
  <2>1. [t |-> "exit"] \in Message
    BY DEF Message
  <2> QED
    BY <1>4, <1>6, <2>1 DEF ArmExit
<1>7. CASE ArmControl
  <2>1. UNCHANGED <<stream, epoch>> /\ control # <<>>
        /\ paced' = (IF Head(control).t = "redraw" THEN paced ELSE PacedAfter(Head(control)))
    BY <1>7 DEF ArmControl
  <2>2. paced' \in Nat
    BY DEF TypeOK
  <2>3. paced' >= paced
    <3>1. Head(control) \in Control
      BY <2>1, Types
    <3>2. CASE Head(control).t = "redraw"
      BY <1>1, <2>1, <3>2
    <3>3. CASE Head(control).t # "redraw"
      <4>1. Head(control).n \in Nat
        BY <3>1, <3>3, ReadType
      <4> QED
        BY <1>1, <2>1, <3>3, <4>1 DEF PacedAfter, Most
    <3> QED
      BY <3>2, <3>3
  <2> QED
    BY <1>1, <1>2, <2>1, <2>2, <2>3
<1>8. ASSUME UNCHANGED <<stream, epoch, paced>> PROVE InFlightBounded'
  BY <1>8 DEF InFlightBounded
<1>9. CASE Session \/ ArmLagged \/ ArmDelivered \/ ServeOutlives \/ ArmUndelivered \/ ArmClosed \/ Lingers
  BY <1>8, <1>9
     DEF Session, SessionWrites, SessionExits, SessionGoes, ArmLagged, ArmDelivered, ServeOutlives,
         ArmUndelivered, ArmClosed, Lingers, serveVars, linkVars
<1>10. CASE Network \/ Client \/ Stopped
  BY <1>8, <1>10
     DEF Network, StreamAcked, LinkLost, Client, Reader, ReaderAccepts, ReaderReads, ClientHears, ClientLost,
         ClientResumes, ClientLeaves, Stopped, vars, serveVars, linkVars
<1> QED
  BY <1>3, <1>5, <1>6, <1>7, <1>9, <1>10 DEF Next, Serve

(***************************************************************************)
(* The streams: each epoch's starts with the screen, and goes on from it   *)
(* without a gap; what is written stays.                                   *)
(***************************************************************************)
StreamsGrow ==
    /\ epoch <= epoch'
    /\ \A e \in Epochs : /\ Len(stream[e]) <= Len(stream'[e])
                         /\ \A i \in 1..Len(stream[e]) : stream'[e][i] = stream[e][i]

LEMMA StreamTypes ==
  ASSUME NEW q \in Seq(Message), NEW shown, NEW end, IsStream(q, shown, end)
  PROVE  /\ Len(q) \in Nat /\ Len(q) >= 1 /\ q[1].t = "snap" /\ q[1].n \in Nat
         /\ \A i \in 1..Len(q) : q[i] \in Message
<1>1. q # <<>> /\ q[1].t = "snap"
  BY DEF IsStream
<1>2. Len(q) \in Nat /\ Len(q) >= 1 /\ \A i \in 1..Len(q) : q[i] \in Message
  BY <1>1
<1>3. q[1] \in Message
  BY <1>2
<1>4. q[1].n \in Nat
  BY <1>1, <1>3, MessageType
<1> QED
  BY <1>1, <1>2, <1>4

LEMMA StreamOfMore ==
  ASSUME NEW q \in Seq(Message), NEW shown \in Nat, IsStream(q, shown, FALSE)
  PROVE  /\ IsStream(q, shown + 1, FALSE) /\ IsStream(q, shown, TRUE)
         /\ \A i \in 1..Len(q) : q[i].t # "exit"
<1>1. Len(q) \in Nat /\ q[1].n \in Nat
  BY StreamTypes
<1>2. \A i \in 1..Len(q) : q[i].t # "exit" /\ q[1].n + i - 1 <= shown
  BY DEF IsStream
<1>3. \A i \in 1..Len(q) : q[1].n + i - 1 <= shown + 1
  BY <1>1, <1>2
<1> QED
  BY <1>2, <1>3 DEF IsStream

LEMMA StreamAppendedTo ==
  ASSUME NEW q \in Seq(Message), NEW shown \in Nat, NEW end, IsStream(q, shown, end),
         q[Len(q)].t # "exit", NEW m \in Message,
         \/ m.t = "exit" /\ end /\ shown = q[1].n + Len(q) - 1
         \/ m.t = "out" /\ m.n = q[1].n + Len(q) /\ m.n <= shown
  PROVE  IsStream(Append(q, m), shown, end)
<1> DEFINE r == Append(q, m)
<1>1. Len(q) \in Nat /\ Len(q) >= 1 /\ q[1].t = "snap" /\ q[1].n \in Nat
  BY StreamTypes
<1>2. /\ Len(r) = Len(q) + 1 /\ \A i \in 1..Len(q) : r[i] = q[i]
      /\ r[Len(q) + 1] = m /\ r # <<>>
  BY AppendProperties
<1> HIDE DEF r
<1>3. r[1] = q[1]
  BY <1>1, <1>2
<1>4. \A i \in 1..Len(q) : q[i].t # "exit" /\ q[1].n + i - 1 <= shown
  BY <1>1 DEF IsStream
<1>5. \A i \in 2..Len(r) : r[i].t = "exit" \/ (r[i].t = "out" /\ r[i].n = r[1].n + i - 1)
  <2> TAKE i \in 2..Len(r)
  <2>1. CASE i <= Len(q)
    <3>1. q[i].t = "out" /\ q[i].n = q[1].n + i - 1
      BY <1>1, <1>4, <2>1 DEF IsStream
    <3> QED
      BY <1>1, <1>2, <1>3, <2>1, <3>1
  <2>2. CASE i = Len(q) + 1
    BY <1>1, <1>2, <1>3, <2>2
  <2> QED
    BY <1>1, <1>2, <2>1, <2>2
<1>6. \A i \in 1..Len(r) :
          IF r[i].t = "exit" THEN i = Len(r) /\ end /\ shown = r[1].n + i - 2
          ELSE r[1].n + i - 1 <= shown
  <2> TAKE i \in 1..Len(r)
  <2>1. CASE i <= Len(q)
    BY <1>1, <1>2, <1>3, <1>4, <2>1
  <2>2. CASE i = Len(q) + 1
    BY <1>1, <1>2, <1>3, <2>2
  <2> QED
    BY <1>1, <1>2, <2>1, <2>2
<1>7. IsStream(r, shown, end)
  BY <1>1, <1>2, <1>3, <1>5, <1>6 DEF IsStream
<1> QED
  BY <1>7 DEF r

LEMMA StreamStarts == ASSUME TypeOK PROVE IsStream(Start, published, over)
<1>1. published \in Nat /\ over \in BOOLEAN
  BY Types, Numbers
<1>2. Start # <<>> /\ Start[1].t = "snap" /\ Start[1].n = published
  BY Starts
<1>3. CASE over = TRUE
  <2>1. Len(Start) = 2 /\ Start[2].t = "exit"
    BY <1>3, Starts
  <2> DEFINE q == Start
  <2> HIDE DEF q
  <2>2. q # <<>> /\ q[1].t = "snap" /\ q[1].n = published /\ Len(q) = 2 /\ q[2].t = "exit"
    BY <1>2, <2>1 DEF q
  <2>3. IsStream(q, published, over)
    BY <1>1, <1>3, <2>2 DEF IsStream
  <2> QED
    BY <2>3 DEF q
<1>4. CASE over = FALSE
  <2>1. Len(Start) = 1
    BY <1>4, Starts
  <2> DEFINE q == Start
  <2> HIDE DEF q
  <2>2. q # <<>> /\ q[1].t = "snap" /\ q[1].n = published /\ Len(q) = 1
    BY <1>2, <2>1 DEF q
  <2>3. IsStream(q, published, over)
    BY <1>1, <1>4, <2>2 DEF IsStream
  <2> QED
    BY <2>3 DEF q
<1> QED
  BY <1>1, <1>3, <1>4

LEMMA AppendsToStream ==
  ASSUME TypeOK, StreamsInv, NEW m \in Message,
         UNCHANGED <<epoch, published, over>>, stream' = [stream EXCEPT ![epoch] = Append(@, m)],
         LET q == stream[epoch] IN
         /\ q[Len(q)].t # "exit"
         /\ \/ m.t = "exit" /\ over /\ published = q[1].n + Len(q) - 1
            \/ m.t = "out" /\ m.n = q[1].n + Len(q) /\ m.n <= published
  PROVE  /\ \A e \in Epochs : StreamInv(e)'
         /\ AfterInv' /\ StreamsGrow
         /\ LET q == stream'[epoch'] IN
            q[Len(q)] = m /\ Len(q) = Len(stream[epoch]) + 1 /\ q[1].n = stream[epoch][1].n
<1> DEFINE q == stream[epoch]
<1>1. /\ \A e \in Epochs : e # epoch => stream'[e] = stream[e]
      /\ stream'[epoch] = Append(q, m) /\ epoch \in Epochs /\ epoch \in Nat /\ epoch' = epoch
      /\ q \in Seq(Message)
  BY StreamAppended, Numbers, Types
<1>2. published \in Nat /\ published' = published /\ over' = over
  BY Numbers
<1>3. IsStream(q, published, over)
  BY <1>1 DEF StreamsInv, StreamInv
<1>4. q[Len(q)].t # "exit"
  OBVIOUS
<1>5. \/ m.t = "exit" /\ over /\ published = q[1].n + Len(q) - 1
      \/ m.t = "out" /\ m.n = q[1].n + Len(q) /\ m.n <= published
  OBVIOUS
<1>6. Len(q) \in Nat /\ Len(q) >= 1
  BY <1>1, <1>3, StreamTypes
<1>7. /\ Len(Append(q, m)) = Len(q) + 1 /\ \A i \in 1..Len(q) : Append(q, m)[i] = q[i]
      /\ Append(q, m)[Len(q) + 1] = m
  BY <1>1, AppendProperties
<1> HIDE DEF q
<1>8. IsStream(Append(q, m), published, over)
  BY <1>1, <1>2, <1>3, <1>4, <1>5, StreamAppendedTo
<1>9. Append(q, m)[1] = q[1]
  BY <1>6, <1>7
<1>10. \A e \in Epochs : StreamInv(e)'
  <2> TAKE e \in Epochs
  <2>1. CASE e = epoch
    <3>1. stream'[e] = Append(q, m) /\ e <= epoch'
      BY <1>1, <2>1
    <3>2. IsStream(stream'[e], published', over')
      BY <1>2, <1>8, <3>1, Zenon
    <3> QED
      BY <3>1, <3>2 DEF StreamInv
  <2>2. CASE e # epoch
    <3>1. StreamInv(e) /\ stream'[e] = stream[e]
      BY <1>1, <2>2 DEF StreamsInv
    <3> QED
      BY <1>1, <1>2, <3>1 DEF StreamInv
  <2> QED
    BY <2>1, <2>2
<1>11. AfterInv'
  <2>1. SUFFICES ASSUME NEW e \in 1..epoch, NEW f \in 1..epoch, e < f,
                        NEW i \in 1..Len(stream'[e]), stream'[e][i].t # "exit"
                 PROVE  stream'[e][1].n + i - 1 <= stream'[f][1].n
    BY <1>1 DEF AfterInv, Screen
  <2>2. e \in Epochs /\ f \in Epochs /\ e # epoch
    BY SMTT(40), <1>1, <2>1, Numbers DEF Epochs
  <2>3. stream'[e] = stream[e] /\ stream'[f][1] = stream[f][1]
    BY <1>1, <1>9, <2>2 DEF q
  <2>4. stream[e][1].n + i - 1 <= stream[f][1].n
    BY <2>1, <2>3 DEF StreamsInv, AfterInv, Screen
  <2> QED
    BY <2>3, <2>4
<1>12. StreamsGrow
  <2>1. epoch <= epoch'
    BY <1>1
  <2>2. ASSUME NEW e \in Epochs
        PROVE  Len(stream[e]) <= Len(stream'[e]) /\ \A i \in 1..Len(stream[e]) : stream'[e][i] = stream[e][i]
    <3>1. CASE e = epoch
      BY <1>1, <1>6, <1>7, <3>1 DEF q
    <3>2. CASE e # epoch
      <4>1. stream'[e] = stream[e] /\ stream[e] \in Seq(Message)
        BY <1>1, <2>2, <3>2, Types
      <4>2. Len(stream[e]) \in Nat
        BY <4>1
      <4> QED
        BY <4>1, <4>2
    <3> QED
      BY <3>1, <3>2
  <2> QED
    BY <2>1, <2>2 DEF StreamsGrow
<1>13. LET r == stream'[epoch'] IN r[Len(r)] = m /\ Len(r) = Len(q) + 1 /\ r[1].n = q[1].n
  BY <1>1, <1>7, <1>9
<1> QED
  BY <1>10, <1>11, <1>12, <1>13 DEF q

LEMMA StreamsStep == ASSUME TypeOK, TypeOK', StreamsInv, Next PROVE StreamsInv' /\ StreamsGrow
<1>1. /\ epoch \in Epochs /\ epoch \in Nat /\ published \in Nat /\ over \in BOOLEAN /\ redraw \in BOOLEAN
      /\ exited \in BOOLEAN /\ stream \in [Epochs -> Seq(Message)] /\ next \in Nat
  BY Types, Numbers
<1>2. IsStream(stream[epoch], published, over)
  BY <1>1 DEF StreamsInv, StreamInv
<1>3. /\ stream[epoch] \in Seq(Message) /\ Len(stream[epoch]) \in Nat /\ Len(stream[epoch]) >= 1
      /\ Screen(epoch) \in Nat /\ Screen(epoch) = stream[epoch][1].n
      /\ Len(stream[epoch]) \in 1..Len(stream[epoch])
  <2>1. stream[epoch] \in Seq(Message)
    BY <1>1
  <2> DEFINE q == stream[epoch]
  <2> HIDE DEF q
  <2>2. q \in Seq(Message) /\ IsStream(q, published, over)
    BY <1>2, <2>1 DEF q
  <2>3. Len(q) \in Nat /\ Len(q) >= 1 /\ q[1].n \in Nat
    BY <2>2, StreamTypes
  <2>4. Len(q) \in 1..Len(q)
    BY <2>3
  <2> QED
    BY <2>1, <2>3, <2>4 DEF q, Screen
<1>4. ASSUME UNCHANGED <<stream, epoch>> PROVE StreamsGrow /\ AfterInv'
  <2>1. \A e \in Epochs : Len(stream[e]) \in Nat
    BY <1>1
  <2> QED
    BY <1>1, <1>4, <2>1 DEF StreamsGrow, StreamsInv, AfterInv, Screen
<1>5. ASSUME UNCHANGED <<stream, epoch, published, over>>, (redraw' \/ exited') \/ UNCHANGED <<redraw, exited, next>>
      PROVE  StreamsInv' /\ StreamsGrow
  <2>1. NextInv'
    BY <1>5 DEF StreamsInv, NextInv, Screen
  <2>2. \A e \in Epochs : StreamInv(e)'
    BY <1>5 DEF StreamsInv, StreamInv
  <2> QED
    BY <1>4, <1>5, <2>1, <2>2 DEF StreamsInv
<1>6. CASE SessionWrites \/ SessionExits
  <2>1. over = FALSE /\ UNCHANGED <<stream, epoch, redraw, exited, next>>
    BY <1>1, <1>6 DEF SessionWrites, SessionExits, serveVars, linkVars
  <2>2. \/ published' = published + 1 /\ over' = FALSE
        \/ published' = published /\ over' = TRUE
    <3>1. CASE SessionWrites
      BY <2>1, <3>1 DEF SessionWrites
    <3>2. CASE SessionExits
      BY <3>2 DEF SessionExits
    <3> QED
      BY <1>6, <3>1, <3>2
  <2>3. \A q \in Seq(Message) : IsStream(q, published, FALSE) =>
            IsStream(q, published', over') /\ \A i \in 1..Len(q) : q[i].t # "exit"
    BY <1>1, <2>2, StreamOfMore
  <2>4. \A e \in Epochs : StreamInv(e)'
    <3> TAKE e \in Epochs
    <3>1. StreamInv(e) /\ stream[e] \in Seq(Message)
      BY <1>1 DEF StreamsInv
    <3> QED
      BY <2>1, <2>3, <3>1 DEF StreamInv
  <2>5. stream[epoch][Len(stream[epoch])].t # "exit"
    BY <1>2, <1>3, <2>1, <2>3
  <2>6. NextInv'
    BY <2>1, <2>5 DEF StreamsInv, NextInv, Screen
  <2> QED
    BY <1>4, <2>1, <2>4, <2>6 DEF StreamsInv
<1>7. CASE ServeRedraws
  <2>1. /\ epoch' = epoch + 1 /\ stream' = [stream EXCEPT ![epoch + 1] = Start] /\ next' = Total
        /\ published' = published /\ over' = over
    BY <1>7 DEF ServeRedraws, sessionVars
  <2>2. epoch + 1 \in Epochs
    BY <2>1 DEF TypeOK
  <2>3. /\ stream'[epoch + 1] = Start /\ \A e \in Epochs : e # epoch + 1 => stream'[e] = stream[e]
    BY <1>1, <2>1, <2>2
  <2>4. IsStream(Start, published, over) /\ Start[1].n = published
    BY StreamStarts, Starts
  <2>5. stream[epoch + 1] = <<>>
    BY <1>1, <2>2 DEF StreamsInv, StreamInv
  <2>6. ASSUME NEW e \in Epochs PROVE StreamInv(e)'
    <3>1. CASE e = epoch + 1
      BY <1>1, <2>1, <2>3, <2>4, <3>1 DEF StreamInv
    <3>2. CASE e # epoch + 1
      <4>1. StreamInv(e) /\ stream'[e] = stream[e] /\ ((e <= epoch + 1) <=> (e <= epoch))
        <5>1. e \in Nat
          BY DEF Epochs
        <5> QED
          BY <1>1, <2>3, <3>2, <5>1 DEF StreamsInv
      <4> QED
        BY <2>1, <4>1 DEF StreamInv
    <3> QED
      BY <3>1, <3>2
  <2>7. AfterInv'
    <3>1. SUFFICES ASSUME NEW e \in 1..(epoch + 1), NEW f \in 1..(epoch + 1), e < f,
                          NEW i \in 1..Len(stream'[e]), stream'[e][i].t # "exit"
                   PROVE  stream'[e][1].n + i - 1 <= stream'[f][1].n
      BY <2>1 DEF AfterInv, Screen
    <3>2. e \in Epochs /\ f \in Epochs /\ e # epoch + 1 /\ e <= epoch /\ e \in 1..epoch
      <4>1. epoch + 1 <= MaxEpoch /\ MaxEpoch \in Nat /\ e \in Nat /\ f \in Nat
        BY <1>1, <2>2, Numbers DEF Epochs
      <4>2. 1 <= e /\ 1 <= f /\ e <= epoch + 1 /\ f <= epoch + 1 /\ e < f
        BY <1>1, <3>1
      <4> QED
        BY <1>1, <4>1, <4>2 DEF Epochs
    <3>3. stream'[e] = stream[e]
      BY <2>3, <3>2
    <3>4. CASE f = epoch + 1
      <4>1. IsStream(stream[e], published, over)
        BY <3>2 DEF StreamsInv, StreamInv
      <4>2. stream[e][1].n + i - 1 <= published
        BY <3>1, <3>3, <4>1 DEF IsStream
      <4> QED
        BY <2>3, <2>4, <3>3, <3>4, <4>2
    <3>5. CASE f # epoch + 1
      <4>1. f \in 1..epoch /\ stream'[f] = stream[f]
        BY <1>1, <2>3, <3>2, <3>5
      <4>2. stream[e][1].n + i - 1 <= stream[f][1].n
        BY <3>1, <3>2, <3>3, <4>1 DEF StreamsInv, AfterInv, Screen
      <4> QED
        BY <3>3, <4>1, <4>2
    <3> QED
      BY <3>4, <3>5
  <2>8. NextInv'
    <3>1. stream'[epoch'] = Start
      BY <2>1, <2>3
    <3>2. CASE over = TRUE
      <4>1. Len(Start) = 2 /\ Start[2].t = "exit"
        BY <3>2, Starts
      <4>2. Total = published + 1
        BY <1>1, <3>2 DEF Total
      <4> QED
        BY <2>1, <3>1, <4>1, <4>2 DEF NextInv
    <3>3. CASE over = FALSE
      <4>1. Len(Start) = 1 /\ Start[1].t # "exit"
        BY <3>3, Starts
      <4>2. Total = published
        BY <1>1, <3>3 DEF Total
      <4>3. next' = Screen(epoch)' + 1 - 1
        BY <1>1, <2>1, <2>4, <3>1, <4>2 DEF Screen
      <4> QED
        BY <3>1, <4>1, <4>3 DEF NextInv
    <3> QED
      BY <1>1, <3>2, <3>3
  <2>9. StreamsGrow
    <3>1. ASSUME NEW e \in Epochs
          PROVE  Len(stream[e]) <= Len(stream'[e]) /\ \A i \in 1..Len(stream[e]) : stream'[e][i] = stream[e][i]
      <4>0. stream[e] \in Seq(Message) /\ stream'[e] \in Seq(Message)
        BY <1>1 DEF TypeOK
      <4>1. Len(stream[e]) \in Nat /\ Len(stream'[e]) \in Nat
        BY <4>0
      <4>2. CASE e = epoch + 1
        <5>1. Len(stream[e]) = 0
          BY <2>5, <4>2
        <5> QED
          BY <4>1, <5>1
      <4>3. CASE e # epoch + 1
        BY <2>3, <4>1, <4>3
      <4> QED
        BY <4>2, <4>3
    <3> QED
      BY <1>1, <2>1, <3>1 DEF StreamsGrow
  <2> QED
    BY <2>6, <2>7, <2>8, <2>9 DEF StreamsInv
<1>8. CASE ArmOut
  <2> DEFINE m == [t |-> "out", n |-> next + 1]
  <2>1. /\ ~exited /\ ~redraw /\ next < published /\ next' = next + 1
        /\ UNCHANGED <<epoch, published, over>> /\ stream' = [stream EXCEPT ![epoch] = Append(@, m)]
    BY <1>8 DEF ArmOut, Serving, sessionVars
  <2>2. m \in Message /\ m.t = "out" /\ m.n = next + 1
    BY <2>1, Numbers DEF Message
  <2> HIDE DEF m
  <2>3. stream[epoch][Len(stream[epoch])].t # "exit" /\ next = Screen(epoch) + Len(stream[epoch]) - 1
    BY <1>1, <2>1 DEF StreamsInv, NextInv
  <2>4. m.n = stream[epoch][1].n + Len(stream[epoch]) /\ m.n <= published
    BY <1>1, <1>3, <2>1, <2>2, <2>3
  <2>5. /\ \A e \in Epochs : StreamInv(e)'
        /\ AfterInv' /\ StreamsGrow
        /\ LET q == stream'[epoch'] IN
           q[Len(q)] = m /\ Len(q) = Len(stream[epoch]) + 1 /\ q[1].n = stream[epoch][1].n
    BY <2>1, <2>2, <2>3, <2>4, AppendsToStream
  <2>6. NextInv'
    <3>1. Screen(epoch)' = Screen(epoch) /\ Len(stream[epoch])' = Len(stream[epoch]) + 1
          /\ stream'[epoch'][Len(stream'[epoch'])].t = "out"
      BY <1>3, <2>2, <2>5 DEF Screen
    <3>2. next' = Screen(epoch)' + Len(stream[epoch])' - 1
      <4> DEFINE screen == Screen(epoch)
                 len == Len(stream[epoch])
      <4>1. screen \in Nat /\ len \in Nat /\ next = screen + len - 1 /\ next' = next + 1 /\ next \in Nat
        BY <1>1, <1>3, <2>1, <2>3
      <4>2. Screen(epoch)' = screen /\ Len(stream[epoch])' = len + 1
        BY <3>1
      <4> HIDE DEF screen, len
      <4>3. next' = screen + (len + 1) - 1
        BY <4>1
      <4> QED
        BY <4>2, <4>3
    <3> QED
      BY <3>1, <3>2 DEF NextInv
  <2> QED
    BY <2>5, <2>6 DEF StreamsInv
<1>9. CASE ArmExit
  <2> DEFINE m == [t |-> "exit"]
  <2>1. /\ ~exited /\ ~redraw /\ next = published /\ over /\ exited' = TRUE
        /\ UNCHANGED <<epoch, published, over>> /\ stream' = [stream EXCEPT ![epoch] = Append(@, m)]
    BY <1>9 DEF ArmExit, Serving, sessionVars
  <2>2. m \in Message /\ m.t = "exit"
    BY DEF Message
  <2> HIDE DEF m
  <2>3. stream[epoch][Len(stream[epoch])].t # "exit" /\ next = Screen(epoch) + Len(stream[epoch]) - 1
    BY <1>1, <2>1 DEF StreamsInv, NextInv
  <2>4. published = stream[epoch][1].n + Len(stream[epoch]) - 1
    BY <1>3, <2>1, <2>3
  <2>5. (\A e \in Epochs : StreamInv(e)') /\ AfterInv' /\ StreamsGrow
    BY <2>1, <2>2, <2>3, <2>4, AppendsToStream
  <2>6. NextInv'
    BY <2>1 DEF NextInv
  <2> QED
    BY <2>5, <2>6 DEF StreamsInv
<1>10. CASE ArmLagged \/ ArmControl
  <2>1. UNCHANGED <<stream, epoch, published, over>> /\ ((redraw' \/ exited') \/ UNCHANGED <<redraw, exited, next>>)
    BY <1>10 DEF ArmLagged, ArmControl, sessionVars, linkVars
  <2> QED
    BY <1>5, <2>1
<1>11. ASSUME UNCHANGED <<stream, epoch, published, over, redraw, exited, next>> PROVE StreamsInv' /\ StreamsGrow
  BY <1>5, <1>11
<1>12. CASE SessionGoes \/ ArmDelivered \/ ServeOutlives \/ ArmUndelivered \/ ArmClosed \/ Lingers
  BY <1>11, <1>12
     DEF SessionGoes, ArmDelivered, ServeOutlives, ArmUndelivered, ArmClosed, Lingers, sessionVars, serveVars,
         linkVars
<1>13. CASE Network \/ Client \/ Stopped
  BY <1>11, <1>13
     DEF Network, StreamAcked, LinkLost, Client, Reader, ReaderAccepts, ReaderReads, ClientHears, ClientLost,
         ClientResumes, ClientLeaves, Stopped, vars, sessionVars, serveVars, linkVars
<1> QED
  BY <1>6, <1>7, <1>8, <1>9, <1>10, <1>12, <1>13 DEF Next, Session, Serve

(***************************************************************************)
(* The client: it hears each epoch's messages in turn.                     *)
(***************************************************************************)
LEMMA ClientTypes ==
  ASSUME TypeOK, NEW heard \in [Epochs -> Nat], QueueInv(heard)
  PROVE  /\ \A e \in Epochs : /\ got[e] \in Nat /\ heard[e] \in Nat /\ Len(stream[e]) \in Nat
                              /\ e \in Nat /\ e >= 1 /\ got[e] <= Len(stream[e])
         /\ Len(rx) \in Nat
         /\ \A i \in 1..Len(rx) : rx[i].epoch \in Epochs /\ rx[i].n \in Nat /\ rx[i].msg \in Message
<1>1. got \in [Epochs -> Nat] /\ stream \in [Epochs -> Seq(Message)]
  BY Types
<1>2. \A e \in Epochs : /\ got[e] \in Nat /\ heard[e] \in Nat /\ Len(stream[e]) \in Nat
                        /\ e \in Nat /\ e >= 1 /\ got[e] <= Len(stream[e])
  BY <1>1 DEF QueueInv, Epochs
<1>3. rx \in Seq([epoch : Epochs, n : Nat, msg : Message])
  BY Types
<1>4. \A i \in 1..Len(rx) : rx[i] \in [epoch : Epochs, n : Nat, msg : Message]
  BY <1>3, ElementOfSeq, Zenon
<1>5. Len(rx) \in Nat
  BY <1>3
<1> QED
  BY <1>2, <1>4, <1>5

\* What the server writes leaves what was read as it was.
LEMMA ClientKept ==
  ASSUME TypeOK, TypeOK', ClientInv, StreamsGrow, UNCHANGED <<got, rx, wireEpoch, display>>,
         client' = "up" => client = "up"
  PROVE  ClientInv'
<1>1. PICK heard \in [Epochs -> Nat] : QueueInv(heard) /\ HeardInv(heard)
  BY DEF ClientInv
<1>2. /\ \A e \in Epochs : /\ got[e] \in Nat /\ heard[e] \in Nat /\ Len(stream[e]) \in Nat
                           /\ e \in Nat /\ got[e] <= Len(stream[e])
      /\ Len(rx) \in Nat
      /\ \A i \in 1..Len(rx) : rx[i].epoch \in Epochs /\ rx[i].n \in Nat
  BY <1>1, ClientTypes
<1>3. \A e \in Epochs : Len(stream'[e]) \in Nat
  BY DEF TypeOK
<1>4. \A e \in Epochs : Len(stream[e]) <= Len(stream'[e]) /\ \A i \in 1..Len(stream[e]) : stream'[e][i] = stream[e][i]
  BY DEF StreamsGrow
<1>5. \A e \in Epochs : \A i \in 1..got[e] : stream'[e][i] = stream[e][i]
  <2> TAKE e \in Epochs
  <2> TAKE i \in 1..got[e]
  <2>1. i \in 1..Len(stream[e])
    BY <1>2
  <2> QED
    BY <1>4, <2>1
<1>6. QueueInv(heard)'
  <2>1. \A e \in Epochs : got'[e] <= Len(stream'[e]) /\ (got'[e] > 0 => e <= epoch')
    <3>1. epoch <= epoch' /\ epoch \in Nat /\ epoch' \in Nat
      BY DEF StreamsGrow, TypeOK, Epochs
    <3>2. \A e \in Epochs : got[e] > 0 => e <= epoch
      BY <1>1 DEF QueueInv
    <3> QED
      BY <1>2, <1>3, <1>4, <3>1, <3>2
  <2>2. \A i \in 1..Len(rx) : /\ heard[rx[i].epoch] < rx[i].n /\ rx[i].n <= got[rx[i].epoch]
                              /\ rx[i].msg = stream'[rx[i].epoch][rx[i].n]
    <3> TAKE i \in 1..Len(rx)
    <3>1. /\ heard[rx[i].epoch] < rx[i].n /\ rx[i].n <= got[rx[i].epoch]
          /\ rx[i].msg = stream[rx[i].epoch][rx[i].n]
      BY <1>1 DEF QueueInv
    <3>2. rx[i].n \in 1..got[rx[i].epoch] /\ rx[i].epoch \in Epochs
      BY <1>2, <3>1
    <3> QED
      BY <1>5, <3>1, <3>2
  <2>3. /\ \A e \in Epochs : \A n \in heard[e] + 1..got'[e] :
              \E i \in 1..Len(rx') : rx'[i].epoch = e /\ rx'[i].n = n
        /\ \A i, j \in 1..Len(rx') : i < j /\ rx'[i].epoch = rx'[j].epoch => rx'[i].n < rx'[j].n
    <3>1. /\ \A e \in Epochs : \A n \in heard[e] + 1..got[e] :
                \E i \in 1..Len(rx) : rx[i].epoch = e /\ rx[i].n = n
          /\ \A i, j \in 1..Len(rx) : i < j /\ rx[i].epoch = rx[j].epoch => rx[i].n < rx[j].n
      BY <1>1 DEF QueueInv
    <3>2. got' = got /\ rx' = rx
      OBVIOUS
    <3> QED
      BY ONLY <3>1, <3>2, SMTT(30)
  <2>4. rx' = rx
    OBVIOUS
  <2> QED
    BY <2>1, <2>2, <2>3, <2>4, SMTT(30) DEF QueueInv
<1>7. HeardInv(heard)'
  <2>1. \A e \in Epochs : heard[e] <= got[e] /\ (e > wireEpoch => heard[e] = 0)
    BY <1>1 DEF HeardInv
  <2>2. CASE client' = "up"
    <3>1. IF wireEpoch = 0 THEN display = 0
          ELSE /\ heard[wireEpoch] > 0 /\ stream[wireEpoch][heard[wireEpoch]].t # "exit"
               /\ display = Screen(wireEpoch) + heard[wireEpoch] - 1
      BY <1>1, <2>2 DEF HeardInv
    <3>2. CASE wireEpoch = 0
      BY <2>1, <3>1, <3>2 DEF HeardInv
    <3>3. CASE wireEpoch # 0
      <4>1. wireEpoch \in Epochs
        BY <3>3, Numbers DEF Epochs
      <4>2. heard[wireEpoch] \in 1..got[wireEpoch] /\ 1 \in 1..got[wireEpoch]
        BY <1>2, <2>1, <3>1, <3>3, <4>1
      <4>3. stream'[wireEpoch][heard[wireEpoch]] = stream[wireEpoch][heard[wireEpoch]] /\ Screen(wireEpoch)' = Screen(wireEpoch)
        BY <1>5, <4>1, <4>2 DEF Screen
      <4> QED
        BY <2>1, <3>1, <3>3, <4>3 DEF HeardInv
    <3> QED
      BY <3>2, <3>3
  <2>3. CASE client' # "up"
    BY <2>1, <2>3 DEF HeardInv
  <2> QED
    BY <2>2, <2>3
<1> QED
  BY <1>1, <1>6, <1>7 DEF ClientInv

\* The next message that is not stale continues what the client heard.
LEMMA HeadFollows ==
  ASSUME TypeOK, StreamsInv, NEW heard \in [Epochs -> Nat], QueueInv(heard), HeardInv(heard),
         rx # <<>>, NEW e, NEW k, e = Head(rx).epoch, k = Head(rx).n
  PROVE  /\ e \in Epochs /\ e \in Nat /\ e >= 1 /\ k \in Nat /\ k = heard[e] + 1 /\ k <= got[e]
         /\ k \in 1..Len(stream[e]) /\ Head(rx).msg = stream[e][k] /\ Head(rx).msg \in Message
         /\ e <= epoch /\ stream[e] \in Seq(Message) /\ IsStream(stream[e], published, over)
         /\ e >= wireEpoch /\ k > 1 => e = wireEpoch
<1>1. /\ Head(rx) = rx[1] /\ Head(rx).msg \in Message /\ Len(rx) \in Nat \ {0}
      /\ e \in Epochs /\ k \in Nat
  BY FirstWaiting
<1>2. /\ e \in Nat /\ e >= 1 /\ got[e] \in Nat /\ heard[e] \in Nat /\ Len(stream[e]) \in Nat
      /\ got[e] <= Len(stream[e])
  BY <1>1, ClientTypes
<1>3. 1 \in 1..Len(rx)
  BY <1>1
<1>4. heard[e] < k /\ k <= got[e] /\ rx[1].msg = stream[e][k] /\ rx[1].epoch = e /\ rx[1].n = k
  BY <1>1, <1>3 DEF QueueInv
<1>5. k = heard[e] + 1
  <2>1. heard[e] + 1 \in heard[e] + 1..got[e]
    BY <1>1, <1>2, <1>4
  <2>2. PICK i \in 1..Len(rx) : rx[i].epoch = e /\ rx[i].n = heard[e] + 1
    BY SMTT(40), <1>1, <2>1 DEF QueueInv
  <2>3. CASE i = 1
    BY <1>4, <2>2, <2>3
  <2>4. CASE i # 1
    <3>1. 1 < i
      BY <1>1, <2>4
    <3>2. rx[1].n < rx[i].n
      BY <1>3, <1>4, <2>2, <3>1 DEF QueueInv
    <3> QED
      BY <1>1, <1>2, <1>4, <2>2, <3>2
  <2> QED
    BY <2>3, <2>4
<1>6. e <= epoch
  <2>1. got[e] > 0
    BY <1>1, <1>2, <1>4
  <2> QED
    BY <1>1, <2>1 DEF QueueInv
<1>7. IsStream(stream[e], published, over) /\ stream[e] \in Seq(Message)
  BY <1>1, <1>6, Types DEF StreamsInv, StreamInv
<1>8. ASSUME e >= wireEpoch, k > 1 PROVE e = wireEpoch
  <2>1. heard[e] # 0
    BY <1>1, <1>2, <1>5, <1>8
  <2>2. ~(e > wireEpoch)
    BY <1>1, <2>1 DEF HeardInv
  <2> QED
    BY <1>2, <1>8, <2>2, Numbers
<1>9. k \in 1..Len(stream[e])
  BY <1>1, <1>2, <1>4
<1> QED
  BY <1>1, <1>2, <1>4, <1>5, <1>6, <1>7, <1>8, <1>9

\* What its terminal then shows: all up to the message, never less than before; and the end after all of it.
LEMMA HeardShows ==
  ASSUME TypeOK, StreamsInv, NEW heard \in [Epochs -> Nat], QueueInv(heard), HeardInv(heard), client = "up",
         rx # <<>>, NEW e, NEW k, e = Head(rx).epoch, k = Head(rx).n, e >= wireEpoch
  PROVE  IF Head(rx).msg.t = "exit" THEN over /\ display = published /\ Shows(display, Head(rx).msg) = display
         ELSE /\ Shows(display, Head(rx).msg) = Screen(e) + k - 1
              /\ Screen(e) + k - 1 \in Nat /\ display \in Nat
              /\ display <= Screen(e) + k - 1 /\ Screen(e) + k - 1 <= published
<1> DEFINE m == Head(rx).msg
<1>1. /\ e \in Epochs /\ e \in Nat /\ e >= 1 /\ k \in Nat /\ k = heard[e] + 1 /\ e <= epoch
      /\ k \in 1..Len(stream[e]) /\ m = stream[e][k] /\ m \in Message
      /\ stream[e] \in Seq(Message) /\ IsStream(stream[e], published, over)
      /\ k > 1 => e = wireEpoch
  BY HeadFollows
<1>2. Len(stream[e]) \in Nat /\ stream[e][1].t = "snap" /\ Screen(e) \in Nat /\ Screen(e) = stream[e][1].n
  BY <1>1, StreamTypes DEF Screen
<1> HIDE DEF m
<1>3. published \in Nat /\ wireEpoch \in Nat /\ epoch \in Nat
  BY Numbers
<1>4. IF wireEpoch = 0 THEN display = 0
      ELSE /\ heard[wireEpoch] > 0 /\ stream[wireEpoch][heard[wireEpoch]].t # "exit"
           /\ display = Screen(wireEpoch) + heard[wireEpoch] - 1
  BY DEF HeardInv
<1>5. ASSUME k > 1 PROVE display = Screen(e) + k - 2
  <2>1. wireEpoch = e /\ wireEpoch # 0 /\ heard[e] \in Nat /\ heard[e] = k - 1
    BY <1>1, <1>5
  <2>2. display = Screen(e) + heard[e] - 1
    BY <1>4, <2>1
  <2> QED
    BY <1>1, <1>2, <2>1, <2>2
<1>6. CASE m.t = "exit"
  <2>1. k # 1
    BY <1>1, <1>2, <1>6
  <2>2. over /\ published = Screen(e) + k - 2
    BY <1>1, <1>2, <1>6 DEF IsStream
  <2>3. display = published
    BY <1>1, <1>5, <2>1, <2>2
  <2>4. Shows(display, m) = display
    BY <1>6 DEF Shows
  <2> QED
    BY <1>6, <2>2, <2>3, <2>4 DEF m
<1>7. CASE m.t # "exit"
  <2>1. Screen(e) + k - 1 <= published
    BY <1>1, <1>2, <1>7 DEF IsStream
  <2>2. Screen(e) + k - 1 \in Nat
    BY <1>1, <1>2
  <2>3. CASE k = 1
    <3>1. m.t = "snap" /\ m.n = Screen(e)
      BY <1>1, <1>2, <2>3
    <3>2. Shows(display, m) = Screen(e)
      BY <3>1 DEF Shows
    <3>3. display \in Nat /\ display <= Screen(e)
      <4>1. CASE wireEpoch = 0
        BY <1>2, <1>4, <4>1
      <4>2. CASE wireEpoch # 0
        <5>1. wireEpoch \in Epochs /\ heard[wireEpoch] \in Nat /\ got[wireEpoch] \in Nat
              /\ Len(stream[wireEpoch]) \in Nat /\ got[wireEpoch] <= Len(stream[wireEpoch])
          <6>1. wireEpoch \in Epochs
            BY <4>2, Numbers DEF Epochs
          <6> QED
            BY <6>1, ClientTypes
        <5>2. heard[wireEpoch] <= got[wireEpoch]
          BY <5>1 DEF HeardInv
        <5>3. /\ heard[wireEpoch] > 0 /\ stream[wireEpoch][heard[wireEpoch]].t # "exit"
              /\ display = Screen(wireEpoch) + heard[wireEpoch] - 1
          BY <1>4, <4>2
        <5>4. wireEpoch # e
          BY <1>1, <2>3, <5>1, <5>3
        <5>5. wireEpoch < e /\ wireEpoch \in 1..epoch /\ e \in 1..epoch
          BY <1>1, <1>3, <4>2, <5>4
        <5>6. heard[wireEpoch] \in 1..Len(stream[wireEpoch])
          BY <5>1, <5>2, <5>3
        <5>7. display <= Screen(e)
          BY <5>3, <5>5, <5>6 DEF StreamsInv, AfterInv
        <5>8. Screen(wireEpoch) \in Nat
          <6>1. IsStream(stream[wireEpoch], published, over) /\ stream[wireEpoch] \in Seq(Message)
            <7>1. wireEpoch <= epoch
              BY <1>3, <5>5
            <7> QED
              BY <5>1, <7>1, Types DEF StreamsInv, StreamInv
          <6> QED
            BY <6>1, StreamTypes DEF Screen
        <5> QED
          BY <5>1, <5>3, <5>7, <5>8
      <4> QED
        BY <4>1, <4>2
    <3> QED
      BY <1>2, <1>7, <2>1, <2>2, <2>3, <3>2, <3>3 DEF m
  <2>4. CASE k # 1
    <3>1. m.t = "out" /\ m.n = Screen(e) + k - 1
      <4> DEFINE q == stream[e]
      <4>1. k \in 2..Len(q)
        BY <1>1, <1>2, <2>4
      <4>2. q[k].t = "exit" \/ (q[k].t = "out" /\ q[k].n = q[1].n + k - 1)
        BY <1>1, <4>1 DEF IsStream
      <4> QED
        BY <1>1, <1>2, <1>7, <4>2
    <3>2. display = Screen(e) + k - 2
      BY <1>1, <1>5, <2>4
    <3>3. Shows(display, m) = Screen(e) + k - 1
      <4>1. display = m.n - 1
        BY <1>1, <1>2, <3>1, <3>2
      <4> QED
        BY <3>1, <4>1 DEF Shows
    <3>4. display \in Nat /\ display <= Screen(e) + k - 1
      <4> DEFINE screen == Screen(e)
      <4>1. k \in Nat /\ k # 0 /\ screen \in Nat /\ display = screen + k - 2
        BY <1>1, <1>2, <3>2
      <4> HIDE DEF screen
      <4>2. display \in Nat /\ display <= screen + k - 1
        BY <2>4, <4>1
      <4> QED
        BY <4>2 DEF screen
    <3> QED
      BY <1>7, <2>1, <2>2, <3>3, <3>4 DEF m
  <2> QED
    BY <2>3, <2>4
<1> QED
  BY <1>6, <1>7

LEMMA ReadsKeepClient ==
  ASSUME TypeOK, StreamsInv, ClientInv, NEW e \in Epochs, ReaderReads(e)
  PROVE  ClientInv'
<1> DEFINE new == [epoch |-> e, n |-> got[e] + 1, msg |-> stream[e][got[e] + 1]]
<1>1. /\ got[e] < Len(stream[e]) /\ got' = [got EXCEPT ![e] = @ + 1] /\ rx' = Append(rx, new)
      /\ UNCHANGED <<stream, epoch, wireEpoch, display, client>>
  BY DEF ReaderReads, serveVars, linkVars
<1>2. PICK heard \in [Epochs -> Nat] : QueueInv(heard) /\ HeardInv(heard)
  BY DEF ClientInv
<1>3. /\ \A f \in Epochs : /\ got[f] \in Nat /\ heard[f] \in Nat /\ Len(stream[f]) \in Nat
                           /\ f \in Nat /\ got[f] <= Len(stream[f])
      /\ \A i \in 1..Len(rx) : rx[i].epoch \in Epochs /\ rx[i].n \in Nat
  BY <1>2, ClientTypes
<1>4. /\ \A f \in Epochs : f # e => got'[f] = got[f]
      /\ got'[e] = got[e] + 1 /\ \A f \in Epochs : got'[f] \in Nat /\ got[f] <= got'[f]
  BY SMTT(40), <1>1, <1>3, Types
<1>5. new.epoch = e /\ new.n = got[e] + 1 /\ new.msg = stream[e][got[e] + 1]
  OBVIOUS
<1>6. /\ Len(rx) \in Nat /\ Len(rx') = Len(rx) + 1 /\ \A i \in 1..Len(rx) : rx'[i] = rx[i]
      /\ rx'[Len(rx) + 1] = new
  <2> DEFINE Read == [epoch : Epochs, n : Nat, msg : Message]
  <2>1. rx \in Seq(Read)
    BY Types
  <2>2. stream[e] \in Seq(Message) /\ got[e] + 1 \in 1..Len(stream[e])
    BY <1>1, <1>3, Types
  <2>3. stream[e][got[e] + 1] \in Message
    BY <2>2
  <2>4. new \in Read
    BY <1>3, <2>3
  <2> HIDE DEF Read, new
  <2> QED
    BY <1>1, <2>1, <2>4, Appended
<1> HIDE DEF new
<1>7. heard[e] <= got[e]
  BY <1>2 DEF HeardInv
<1>8. e <= epoch
  <2>1. stream[e] # <<>>
    BY <1>1, <1>3
  <2> QED
    BY <2>1 DEF StreamsInv, StreamInv
<1>9. QueueInv(heard)'
  <2>1. ASSUME NEW f \in Epochs PROVE got'[f] <= Len(stream'[f]) /\ (got'[f] > 0 => f <= epoch')
    <3>1. CASE f = e
      BY <1>1, <1>3, <1>4, <1>8, <3>1
    <3>2. CASE f # e
      BY <1>1, <1>2, <1>4, <3>2 DEF QueueInv
    <3> QED
      BY <3>1, <3>2
  <2>2. ASSUME NEW i \in 1..Len(rx')
        PROVE  /\ heard[rx'[i].epoch] < rx'[i].n /\ rx'[i].n <= got'[rx'[i].epoch]
               /\ rx'[i].msg = stream'[rx'[i].epoch][rx'[i].n]
    <3>1. CASE i = Len(rx) + 1
      BY <1>1, <1>3, <1>4, <1>5, <1>6, <1>7, <3>1
    <3>2. CASE i # Len(rx) + 1
      <4>1. i \in 1..Len(rx) /\ rx'[i] = rx[i]
        BY <1>6, <3>2
      <4>2. /\ heard[rx[i].epoch] < rx[i].n /\ rx[i].n <= got[rx[i].epoch]
            /\ rx[i].msg = stream[rx[i].epoch][rx[i].n] /\ rx[i].epoch \in Epochs /\ rx[i].n \in Nat
        BY <1>2, <1>3, <4>1 DEF QueueInv
      <4>3. rx[i].n <= got'[rx[i].epoch]
        BY <1>3, <1>4, <4>2
      <4> QED
        BY <1>1, <4>1, <4>2, <4>3
    <3> QED
      BY <3>1, <3>2
  <2>3. ASSUME NEW f \in Epochs, NEW n \in heard[f] + 1..got'[f]
        PROVE  \E i \in 1..Len(rx') : rx'[i].epoch = f /\ rx'[i].n = n
    <3>1. CASE f = e /\ n = got[e] + 1
      <4>1. Len(rx) + 1 \in 1..Len(rx')
        BY <1>6
      <4> QED
        BY <1>5, <1>6, <3>1, <4>1
    <3>2. CASE ~(f = e /\ n = got[e] + 1)
      <4>1. n \in heard[f] + 1..got[f]
        BY <1>3, <1>4, <3>2
      <4>2. PICK i \in 1..Len(rx) : rx[i].epoch = f /\ rx[i].n = n
        BY <1>2, <4>1 DEF QueueInv
      <4>3. i \in 1..Len(rx') /\ rx'[i] = rx[i]
        BY <1>6
      <4> QED
        BY <4>2, <4>3
    <3> QED
      BY <3>1, <3>2
  <2>4. ASSUME NEW i \in 1..Len(rx'), NEW l \in 1..Len(rx'), i < l, rx'[i].epoch = rx'[l].epoch
        PROVE  rx'[i].n < rx'[l].n
    <3>1. i \in 1..Len(rx) /\ rx'[i] = rx[i]
      BY <1>6, <2>4
    <3>2. CASE l = Len(rx) + 1
      <4>1. rx[i].n <= got[e] /\ rx[i].n \in Nat
        BY <1>2, <1>3, <1>5, <1>6, <2>4, <3>1, <3>2 DEF QueueInv
      <4> QED
        BY <1>3, <1>5, <1>6, <3>1, <3>2, <4>1
    <3>3. CASE l # Len(rx) + 1
      <4>1. l \in 1..Len(rx) /\ rx'[l] = rx[l]
        BY <1>6, <3>3
      <4> QED
        BY <1>2, <2>4, <3>1, <4>1 DEF QueueInv
    <3> QED
      BY <3>2, <3>3
  <2> QED
    BY <2>1, <2>2, <2>3, <2>4 DEF QueueInv
<1>10. HeardInv(heard)'
  <2>1. \A f \in Epochs : heard[f] <= got[f] /\ (f > wireEpoch => heard[f] = 0)
    BY <1>2 DEF HeardInv
  <2>2. \A f \in Epochs : heard[f] <= got'[f]
    BY <1>3, <1>4, <2>1
  <2> QED
    BY <1>1, <1>2, <2>1, <2>2 DEF HeardInv, Screen
<1> QED
  BY <1>9, <1>10 DEF ClientInv

LEMMA HearsKeepsClient ==
  ASSUME TypeOK, StreamsInv, ClientInv, ClientHears
  PROVE  ClientInv'
<1> DEFINE e == Head(rx).epoch
           k == Head(rx).n
           m == Head(rx).msg
<1>1. client = "up" /\ rx # <<>> /\ rx' = Tail(rx) /\ UNCHANGED <<stream, epoch, got>>
  BY DEF ClientHears, serveVars
<1>2. PICK heard \in [Epochs -> Nat] : QueueInv(heard) /\ HeardInv(heard)
  BY DEF ClientInv
<1>3. /\ \A f \in Epochs : /\ got[f] \in Nat /\ heard[f] \in Nat /\ Len(stream[f]) \in Nat
                           /\ f \in Nat /\ got[f] <= Len(stream[f])
      /\ \A i \in 1..Len(rx) : rx[i].epoch \in Epochs /\ rx[i].n \in Nat
  BY <1>2, ClientTypes
<1>4. /\ e \in Epochs /\ e \in Nat /\ e >= 1 /\ k \in Nat /\ k = heard[e] + 1 /\ k <= got[e]
      /\ m = stream[e][k]
  BY <1>1, <1>2, HeadFollows
<1>5. e >= wireEpoch => IF m.t = "exit" THEN TRUE ELSE Shows(display, m) = Screen(e) + k - 1
  BY <1>1, <1>2, HeardShows
<1>6. \/ e < wireEpoch /\ UNCHANGED <<wireEpoch, display, client>>
      \/ ~(e < wireEpoch) /\ wireEpoch' = e /\ display' = Shows(display, m) /\ (m.t = "exit" => client' = "has_end")
  BY DEF ClientHears, Stale
<1>7. /\ Head(rx) = rx[1] /\ Len(rx) \in Nat \ {0} /\ Len(rx') = Len(rx) - 1
      /\ \A i \in 1..Len(rx) - 1 : rx'[i] = rx[i + 1]
  BY <1>1, FirstWaiting
<1>8. rx[1].epoch = e /\ rx[1].n = k
  BY <1>7
<1> HIDE DEF e, k, m
<1>9. PICK after \in [Epochs -> Nat] : after[e] = k /\ \A f \in Epochs : f # e => after[f] = heard[f]
  <2>1. [heard EXCEPT ![e] = k] \in [Epochs -> Nat]
    BY <1>2, <1>4
  <2> QED
    BY <1>4, <2>1
<1>10. \A f \in Epochs : after[f] \in Nat /\ after[f] >= heard[f] /\ after[f] <= got[f]
  <2>1. \A f \in Epochs : heard[f] <= got[f]
    BY <1>2 DEF HeardInv
  <2> TAKE f \in Epochs
  <2>2. got[f] \in Nat /\ heard[f] \in Nat /\ heard[f] <= got[f]
    BY <1>3, <2>1
  <2>3. CASE f = e
    BY <1>4, <1>9, <2>2, <2>3
  <2>4. CASE f # e
    BY <1>9, <2>2, <2>4
  <2> QED
    BY <2>3, <2>4
<1>11. QueueInv(after)'
  <2>1. \A f \in Epochs : got'[f] <= Len(stream'[f]) /\ (got'[f] > 0 => f <= epoch')
    BY <1>1, <1>2 DEF QueueInv
  <2>2. ASSUME NEW i \in 1..Len(rx')
        PROVE  /\ i + 1 \in 1..Len(rx) /\ rx'[i] = rx[i + 1] /\ i \in Nat
               /\ rx[i + 1].epoch \in Epochs /\ rx[i + 1].n \in Nat
    BY <1>3, <1>7
  <2>3. ASSUME NEW i \in 1..Len(rx')
        PROVE  /\ after[rx'[i].epoch] < rx'[i].n /\ rx'[i].n <= got'[rx'[i].epoch]
               /\ rx'[i].msg = stream'[rx'[i].epoch][rx'[i].n]
    <3>1. i + 1 \in 1..Len(rx) /\ rx'[i] = rx[i + 1] /\ rx[i + 1].epoch \in Epochs /\ 1 < i + 1 /\ 1 \in 1..Len(rx)
      BY <1>7, <2>2
    <3>2. /\ heard[rx[i + 1].epoch] < rx[i + 1].n /\ rx[i + 1].n <= got[rx[i + 1].epoch]
          /\ rx[i + 1].msg = stream[rx[i + 1].epoch][rx[i + 1].n]
      BY <1>2, <3>1 DEF QueueInv
    <3>3. rx[i + 1].epoch = e => k < rx[i + 1].n
      BY <1>2, <1>8, <3>1 DEF QueueInv
    <3>4. after[rx[i + 1].epoch] < rx[i + 1].n
      BY <1>9, <3>1, <3>2, <3>3
    <3> QED
      BY <1>1, <3>1, <3>2, <3>4
  <2>4. ASSUME NEW f \in Epochs, NEW n \in after[f] + 1..got'[f]
        PROVE  \E i \in 1..Len(rx') : rx'[i].epoch = f /\ rx'[i].n = n
    <3>1. n \in heard[f] + 1..got[f] /\ (f = e => n # k)
      BY <1>1, <1>3, <1>4, <1>9, <1>10
    <3>2. PICK i \in 1..Len(rx) : rx[i].epoch = f /\ rx[i].n = n
      BY <1>2, <3>1 DEF QueueInv
    <3>3. i # 1
      BY <1>8, <3>1, <3>2
    <3>4. i - 1 \in 1..Len(rx') /\ rx'[i - 1] = rx[i]
      BY <1>7, <3>3
    <3> QED
      BY <3>2, <3>4
  <2>5. ASSUME NEW i \in 1..Len(rx'), NEW l \in 1..Len(rx'), i < l, rx'[i].epoch = rx'[l].epoch
        PROVE  rx'[i].n < rx'[l].n
    <3>1. /\ i + 1 \in 1..Len(rx) /\ l + 1 \in 1..Len(rx) /\ i + 1 < l + 1
          /\ rx'[i] = rx[i + 1] /\ rx'[l] = rx[l + 1]
      BY <2>2, <2>5
    <3> QED
      BY <1>2, <2>5, <3>1 DEF QueueInv
  <2> QED
    BY <2>1, <2>3, <2>4, <2>5 DEF QueueInv
<1>12. HeardInv(after)'
  <2>1. \A f \in Epochs : f > wireEpoch => heard[f] = 0
    BY <1>2 DEF HeardInv
  <2>2. wireEpoch \in Nat
    BY Numbers
  <2>3. CASE e < wireEpoch /\ UNCHANGED <<wireEpoch, display, client>>
    <3>1. wireEpoch # 0 /\ wireEpoch \in Epochs /\ wireEpoch # e
      BY <1>4, <2>2, <2>3, Numbers DEF Epochs
    <3>2. \A f \in Epochs : f > wireEpoch => after[f] = 0
      BY <1>3, <1>4, <1>9, <2>1, <2>2, <2>3
    <3>3. /\ heard[wireEpoch] > 0 /\ stream[wireEpoch][heard[wireEpoch]].t # "exit"
          /\ display = Screen(wireEpoch) + heard[wireEpoch] - 1
      BY <1>1, <1>2, <3>1 DEF HeardInv
    <3>4. after[wireEpoch] = heard[wireEpoch]
      BY <1>9, <3>1
    <3> QED
      BY <1>1, <1>10, <2>3, <3>1, <3>2, <3>3, <3>4 DEF HeardInv, Screen
  <2>4. CASE ~(e < wireEpoch) /\ wireEpoch' = e /\ display' = Shows(display, m) /\ (m.t = "exit" => client' = "has_end")
    <3>1. \A f \in Epochs : f > e => after[f] = 0
      BY <1>3, <1>4, <1>9, <2>1, <2>2, <2>4
    <3>2. e # 0 /\ k > 0
      BY <1>3, <1>4
    <3>3. CASE m.t = "exit"
      <4>1. client' # "up"
        BY <2>4, <3>3
      <4> QED
        BY <1>1, <1>10, <2>4, <3>1, <4>1 DEF HeardInv
    <3>4. CASE m.t # "exit"
      <4>1. display' = Screen(e) + k - 1 /\ stream[e][k].t # "exit"
        BY <1>4, <1>5, <2>2, <2>4, <3>4
      <4>2. after[wireEpoch'] = k /\ wireEpoch' = e
        BY <1>9, <2>4
      <4>3. Screen(wireEpoch)' = Screen(e)
        BY <1>1, <2>4 DEF Screen
      <4> QED
        BY <1>1, <1>10, <3>1, <3>2, <4>1, <4>2, <4>3 DEF HeardInv
    <3> QED
      BY <3>3, <3>4
  <2> QED
    BY <1>6, <2>3, <2>4
<1> QED
  BY <1>9, <1>11, <1>12 DEF ClientInv

LEMMA ClientStep == ASSUME TypeOK, TypeOK', StreamsInv, StreamsGrow, ClientInv, Next PROVE ClientInv'
<1>1. CASE Session \/ Serve \/ Network
  <2>1. UNCHANGED clientVars
    BY <1>1
       DEF Session, SessionWrites, SessionExits, SessionGoes, Serve, ServeRedraws, ServeOutlives, ArmLagged,
           ArmOut, ArmExit, ArmDelivered, ArmUndelivered, ArmClosed, ArmControl, Lingers, Network, StreamAcked,
           LinkLost
  <2>2. UNCHANGED <<got, rx, wireEpoch, display, client>>
    BY <2>1 DEF clientVars
  <2> QED
    BY <2>2, ClientKept
<1>2. ASSUME NEW e \in Epochs, ReaderAccepts(e) PROVE ClientInv'
  BY <1>2, ClientKept DEF ReaderAccepts
<1>3. ASSUME NEW e \in Epochs, ReaderReads(e) PROVE ClientInv'
  BY <1>3, ReadsKeepClient
<1>4. CASE ClientHears
  BY <1>4, HearsKeepsClient
<1>5. CASE ClientLost \/ ClientResumes \/ ClientLeaves \/ Stopped
  <2>1. UNCHANGED <<got, rx, wireEpoch, display>> /\ (client' = "up" => client = "up")
    BY <1>5 DEF ClientLost, ClientResumes, ClientLeaves, Stopped, clientVars, vars
  <2> QED
    BY <2>1, ClientKept
<1> QED
  BY <1>1, <1>2, <1>3, <1>4, <1>5 DEF Next, Client, Reader

(***************************************************************************)
(* The theorems.                                                           *)
(***************************************************************************)
LEMMA ConnStarts == Init => ConnInv
<1> SUFFICES ASSUME Init PROVE ConnInv
  OBVIOUS
<1> USE ConnectionAssumption
<1>1. /\ published \in 0..MaxOut /\ over \in BOOLEAN /\ gone = FALSE
      /\ at = "run" /\ epoch = 1 /\ next = Total
      /\ redraw = FALSE /\ exited = FALSE /\ told = FALSE /\ paced = 0
      /\ stream = [e \in Epochs |-> IF e = 1 THEN Start ELSE <<>>]
      /\ finished = FALSE /\ acked = FALSE /\ control = <<>> /\ closed = "no"
      /\ accepted = {} /\ got = [e \in Epochs |-> 0] /\ rx = <<>>
      /\ wireEpoch = 0 /\ display = 0 /\ client = "up" /\ dropped = [e \in Epochs |-> 0]
  BY DEF Init, Least
<1>2. 1 \in Epochs
  BY DEF Epochs
<1>3. Total \in 0..(MaxOut + 1)
  BY <1>1 DEF Total
<1>4. Start \in Seq(Message)
  <2> DEFINE screen == [t |-> "snap", n |-> published]
             end == [t |-> "exit"]
  <2>1. screen \in Message /\ end \in Message
    BY <1>1 DEF Message
  <2>2. Start = IF over THEN Append(<<screen>>, end) ELSE <<screen>>
    BY DEF Start
  <2> HIDE DEF screen, end
  <2>3. <<screen>> \in Seq(Message) /\ Append(<<screen>>, end) \in Seq(Message)
    BY <2>1, AppendedToOne
  <2> QED
    BY <2>2, <2>3
<1>5. TypeOK
  <2>1. stream \in [Epochs -> Seq(Message)]
    BY <1>1, <1>4
  <2>2. {over, gone, redraw, exited, told, finished, acked} \subseteq BOOLEAN
    BY <1>1
  <2>3. /\ control \in Seq(Control) /\ Len(control) <= ControlQueue
        /\ rx \in Seq([epoch : Epochs, n : Nat, msg : Message]) /\ Len(rx) <= ReaderQueue
        /\ got \in [Epochs -> Nat] /\ dropped \in [Epochs -> Nat] /\ accepted \subseteq Epochs
    BY <1>1
  <2>4. epoch \in Epochs /\ next \in 0..(MaxOut + 1) /\ wireEpoch \in 0..MaxEpoch
    BY <1>1, <1>2, <1>3
  <2> QED
    BY <1>1, <2>1, <2>2, <2>3, <2>4 DEF TypeOK
<1>6. stream[1] = Start /\ \A e \in Epochs : e # 1 => stream[e] = <<>>
  BY <1>1, <1>2
<1>7. EndInv
  BY <1>1 DEF EndInv
<1>8. ReadInv
  BY <1>1, <1>2 DEF ReadInv
<1>9. InFlightBounded
  <2> DEFINE len == Len(Start)
  <2>1. len = 1 \/ len = 2
    BY <1>5, Starts, Zenon
  <2>2. Len(stream[epoch]) = len /\ paced = 0
    BY <1>1, <1>6
  <2> HIDE DEF len
  <2> QED
    BY <2>1, <2>2 DEF InFlightBounded, Most
<1>10. DueInv
  <2>1. Redraws(control) = 0
    <3>1. RedrawsAt(control) = {}
      BY <1>1 DEF RedrawsAt
    <3> QED
      BY <3>1, FS_EmptySet DEF Redraws
  <2>2. Owed(Total) = 0
    BY <1>1, <1>3 DEF Owed, Lags
  <2>3. EpochsDue(Total) = epoch + Redraws(control) + Owed(Total)
    BY <1>5, DueIs
  <2>4. EpochsDue(Total) <= MaxEpoch
    BY <1>1, <2>1, <2>2, <2>3
  <2> QED
    BY <1>1, <1>3, <2>4 DEF DueInv, WithinEpochs
<1>11. StreamsInv
  <2>1. ASSUME NEW e \in Epochs PROVE StreamInv(e)
    <3>1. CASE e = 1
      BY <1>1, <1>5, <1>6, <3>1, StreamStarts DEF StreamInv
    <3>2. CASE e # 1
      BY <1>1, <1>6, <3>2 DEF StreamInv, Epochs
    <3> QED
      BY <3>1, <3>2
  <2>2. AfterInv
    BY <1>1 DEF AfterInv
  <2>3. NextInv
    <3>1. CASE over = TRUE
      <4>1. Len(Start) = 2 /\ Start[2].t = "exit"
        BY <1>5, <3>1, Starts
      <4>2. Total = published + 1
        BY <1>1, <3>1 DEF Total
      <4> QED
        BY <1>1, <1>6, <4>1, <4>2 DEF NextInv
    <3>2. CASE over = FALSE
      <4>1. Len(Start) = 1 /\ Start[1].t # "exit" /\ Start[1].n = published
        BY <1>5, <3>2, Starts
      <4>2. Total = published
        BY <1>1, <3>2 DEF Total
      <4>3. next = Screen(epoch) + 1 - 1
        BY <1>1, <1>6, <4>1, <4>2 DEF Screen
      <4> QED
        BY <1>1, <1>6, <4>1, <4>3 DEF NextInv
    <3> QED
      BY <1>1, <3>1, <3>2
  <2> QED
    BY <2>1, <2>2, <2>3 DEF StreamsInv
<1>12. ClientInv
  <2> DEFINE heard == [e \in Epochs |-> 0]
  <2>1. \A e \in Epochs : Len(stream[e]) \in Nat
    BY <1>5, Types
  <2>2. QueueInv(heard)
    BY <1>1, <2>1 DEF QueueInv
  <2>3. HeardInv(heard)
    BY <1>1 DEF HeardInv
  <2>4. heard \in [Epochs -> Nat]
    OBVIOUS
  <2> QED
    BY <2>2, <2>3, <2>4 DEF ClientInv
<1> QED
  BY <1>5, <1>7, <1>8, <1>9, <1>10, <1>11, <1>12 DEF ConnInv

LEMMA ConnStep == ConnInv /\ [Next]_vars => ConnInv'
<1>1. ASSUME ConnInv, Next PROVE ConnInv'
  <2>1. TypeOK'
    BY <1>1, TypeStep DEF ConnInv
  <2>2. StreamsInv' /\ StreamsGrow
    BY <1>1, <2>1, StreamsStep DEF ConnInv
  <2>3. EndInv' /\ ReadInv' /\ InFlightBounded' /\ DueInv' /\ ClientInv'
    BY <1>1, <2>1, <2>2, EndStep, ReadStep, InFlightStep, DueStep, ClientStep DEF ConnInv
  <2> QED
    BY <2>1, <2>2, <2>3 DEF ConnInv
<1>2. ASSUME ConnInv, UNCHANGED vars PROVE ConnInv'
  <2>1. UNCHANGED <<published, over, gone>> /\ UNCHANGED <<at, epoch, next, redraw, exited, told, paced>>
        /\ UNCHANGED <<stream, finished, acked, control, closed>>
        /\ UNCHANGED <<accepted, got, rx, wireEpoch, display, dropped, client>>
    BY <1>2 DEF vars, sessionVars, serveVars, linkVars, clientVars
  <2>2. TypeOK'
    BY <1>2, <2>1 DEF ConnInv, TypeOK
  <2>3. EndInv' /\ ReadInv' /\ InFlightBounded'
    BY <1>2, <2>1 DEF ConnInv, EndInv, ReadInv, InFlightBounded
  <2>4. DueInv'
    BY <1>2, <2>1 DEF ConnInv, DueInv, WithinEpochs, EpochsDue, Lags, Total
  <2>5. StreamsInv'
    BY <1>2, <2>1 DEF ConnInv, StreamsInv, StreamInv, AfterInv, NextInv, Screen
  <2>6. StreamsGrow
    <3>1. \A e \in Epochs : Len(stream[e]) \in Nat
      BY <1>2, Types DEF ConnInv
    <3>2. epoch \in Nat
      BY <1>2, Numbers DEF ConnInv
    <3> QED
      BY <2>1, <3>1, <3>2 DEF StreamsGrow
  <2>7. ClientInv'
    BY <1>2, <2>1, <2>2, <2>6, ClientKept DEF ConnInv
  <2> QED
    BY <2>2, <2>3, <2>4, <2>5, <2>7 DEF ConnInv
<1> QED
  BY <1>1, <1>2

LEMMA ConnAlways == Spec => []ConnInv
BY ConnStarts, ConnStep, PTL DEF Spec

\* AccountIsTrue, for every budget, queue and bound: what the server's task counts as read of this
\* epoch was read (Pace), no more than the budget, or a redraw, is in flight past it, and the
\* session is told that its end was read only if the client has it or had all of its stream
\* (attach.rs serve).
THEOREM AccountIsTrueAlways == Spec => []AccountIsTrue
<1>1. ConnInv => AccountIsTrue
  BY DEF ConnInv, EndInv, ReadInv, AccountIsTrue, EndKeptTillDelivered, PacedWasRead
<1> QED
  BY <1>1, ConnAlways, PTL

LEMMA ViewStep == ASSUME ConnInv, Next PROVE [ViewOf!Next]_(ViewOf!vars)
<1>1. published \in Nat
  BY Numbers DEF ConnInv
<1>2. CASE SessionWrites
  <2>1. ~over /\ published' = published + 1 /\ UNCHANGED <<over, display, client>>
    BY <1>2 DEF SessionWrites, clientVars
  <2> QED
    BY <2>1 DEF ViewOf!Next, ViewOf!Writes
<1>3. CASE SessionExits
  <2>1. ~over /\ over' = TRUE /\ UNCHANGED <<published, display, client>>
    BY <1>3 DEF SessionExits, clientVars
  <2> QED
    BY <2>1 DEF ViewOf!Next, ViewOf!Exits
<1>4. CASE ClientHears
  <2> DEFINE e == Head(rx).epoch
             k == Head(rx).n
             m == Head(rx).msg
  <2>1. client = "up" /\ rx # <<>> /\ UNCHANGED <<published, over>>
    BY <1>4 DEF ClientHears, sessionVars
  <2>2. PICK heard \in [Epochs -> Nat] : QueueInv(heard) /\ HeardInv(heard)
    BY DEF ConnInv, ClientInv
  <2>3. e \in Nat /\ wireEpoch \in Nat
    <3>1. e \in Epochs
      BY <2>1, FirstWaiting DEF ConnInv
    <3> QED
      BY <3>1, Numbers DEF Epochs, ConnInv
  <2>4. e >= wireEpoch => IF m.t = "exit" THEN over /\ display = published /\ Shows(display, m) = display
                          ELSE /\ Shows(display, m) \in Nat /\ display \in Nat
                               /\ display <= Shows(display, m) /\ Shows(display, m) <= published
    BY <2>1, <2>2, HeardShows DEF ConnInv
  <2>5. \/ e < wireEpoch /\ UNCHANGED <<display, client>>
        \/ /\ ~(e < wireEpoch) /\ display' = Shows(display, m)
           /\ IF m.t = "exit" THEN client' = "has_end" ELSE client' = client
    BY <1>4 DEF ClientHears, Stale
  <2> HIDE DEF e, k, m
  <2>6. CASE e < wireEpoch /\ UNCHANGED <<display, client>>
    BY <2>1, <2>6 DEF ViewOf!vars
  <2>7. CASE ~(e < wireEpoch) /\ m.t = "exit"
    <3>1. over /\ display = published /\ display' = display /\ client' = "has_end" /\ client # "has_end"
      BY <2>1, <2>3, <2>4, <2>5, <2>7
    <3> QED
      BY <2>1, <3>1 DEF ViewOf!Next, ViewOf!SeesEnd
  <2>8. CASE ~(e < wireEpoch) /\ m.t # "exit"
    <3>1. /\ display' \in Nat /\ display \in Nat /\ display <= display' /\ display' <= published
          /\ client' = client /\ client # "has_end"
      BY <2>1, <2>3, <2>4, <2>5, <2>8
    <3>2. CASE display' = display
      BY <2>1, <3>1, <3>2 DEF ViewOf!vars
    <3>3. CASE display' # display
      <4>1. display' \in (display + 1)..published
        BY <1>1, <3>1, <3>3
      <4> QED
        BY <2>1, <3>1, <4>1 DEF ViewOf!Next, ViewOf!Shows
    <3> QED
      BY <3>2, <3>3
  <2> QED
    BY <2>5, <2>6, <2>7, <2>8
<1>5. ASSUME UNCHANGED <<published, over, display, client>> PROVE UNCHANGED ViewOf!vars
  BY <1>5 DEF ViewOf!vars
<1>6. CASE SessionGoes \/ Serve \/ Network \/ Reader \/ ClientResumes \/ Stopped
  <2>1. UNCHANGED <<published, over, display, client>>
    <3>1. CASE SessionGoes \/ ClientResumes \/ Stopped \/ Network
      BY <3>1 DEF SessionGoes, ClientResumes, Stopped, Network, StreamAcked, LinkLost, vars, sessionVars, clientVars
    <3>2. CASE Reader
      BY <3>2 DEF Reader, ReaderAccepts, ReaderReads, sessionVars
    <3>3. CASE Serve
      BY <3>3
         DEF Serve, ServeRedraws, ServeOutlives, ArmLagged, ArmOut, ArmExit, ArmDelivered, ArmUndelivered,
             ArmClosed, ArmControl, Lingers, sessionVars, clientVars
    <3> QED
      BY <1>6, <3>1, <3>2, <3>3
  <2> QED
    BY <1>5, <2>1
<1>7. CASE ClientLost \/ ClientLeaves
  <2>1. UNCHANGED <<published, over, display>> /\ client # "has_end" /\ client' # "has_end"
    BY <1>7 DEF ClientLost, ClientLeaves, sessionVars
  <2> QED
    BY <2>1 DEF ViewOf!vars
<1> QED
  BY <1>2, <1>3, <1>4, <1>6, <1>7 DEF Next, Session, Client

\* ShowsAsPromised: the connection implements View.  The client's terminal shows all of the output
\* up to some point, never less than before, through lags, redraws and epochs whose readers
\* overlap, and the client has the program's end only after all its program wrote (client/mod.rs
\* read_epochs and Client::heard, attach.rs serve and write_epoch).
THEOREM ShowsAsPromisedAlways == Spec => ShowsAsPromised
<1>1. Init => ViewOf!Init
  <2> SUFFICES ASSUME Init PROVE ViewOf!Init
    OBVIOUS
  <2>1. published \in Nat /\ over \in BOOLEAN
    BY ConnStarts, Numbers, Types DEF ConnInv
  <2>2. display = 0 /\ client = "up"
    BY DEF Init
  <2> QED
    BY <2>1, <2>2 DEF ViewOf!Init
<1>2. ConnInv /\ [Next]_vars => [ViewOf!Next]_(ViewOf!vars)
  <2>1. ASSUME UNCHANGED vars PROVE UNCHANGED ViewOf!vars
    BY <2>1 DEF vars, sessionVars, clientVars, ViewOf!vars
  <2> QED
    BY <2>1, ViewStep
<1> QED
  BY <1>1, <1>2, ConnAlways, PTL DEF Spec, ShowsAsPromised, ViewOf!Spec
===============================================================================
