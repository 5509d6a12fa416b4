------------------------- MODULE SessionToldProofs -------------------------
(***************************************************************************)
(* Proofs about what a session tells its clients: their output exactly     *)
(* once, what is held in time, and the program's end to all and last; and  *)
(* about their keys: written without gaps, and what is told of them true.  *)
(***************************************************************************)
EXTENDS SessionProofs

\* The three hold together: what is shown moves only as it is told, and the end leaves none held.
ToldInv == ShownExact /\ HeldIsSettling /\ EndReachesAll

LEMMA LiveAttachments == ASSUME TypeInv, SessionAssumption PROVE live \subseteq Attachment
  BY DEF TypeInv, TypeOK, AttachOK, Attachment, SessionAssumption

LEMMA ToldInit == ASSUME SessionAssumption, Init PROVE ToldInv
<1>1. ShownExact
  <2>1. live \subseteq Attachment /\ shown = [a \in Attachment |-> 0] /\ told = 0
    BY SessionAssumption DEF Init, Attachment, SessionAssumption
  <2> QED
    BY <2>1 DEF ShownExact
<1>2. HeldIsSettling /\ EndReachesAll
  BY DEF Init, HeldIsSettling, EndReachesAll
<1> QED
  BY <1>1, <1>2 DEF ToldInv

\* Release(n) moves what every attachment shows to n, whichever attachments stay.
LEMMA ReleaseShows ==
  ASSUME TypeInv, SessionAssumption, ShownExact, NEW n \in Nat, Release(n), live' \subseteq live
  PROVE  ShownExact'
<1>1. \A a \in live : a \in Attachment /\ shown[a] = told
  BY LiveAttachments DEF ShownExact
<1>2. told \in Nat /\ told' = n
  BY SessionAssumption DEF TypeInv, TypeOK, OutOK, SessionAssumption, Release
<1>3. \A a \in live' : shown'[a] = told + (n - told)
  BY <1>1 DEF Release
<1> QED
  BY <1>2, <1>3 DEF ShownExact

\* An attachment that begins where the release left off shows what the others do.
LEMMA StartShows ==
  ASSUME TypeInv, SessionAssumption, ShownExact, NEW a \in Attachment, ReleaseAndStart(a),
         live' \subseteq live \cup {a}
  PROVE  ShownExact'
<1>1. \A b \in live : b \in Attachment /\ shown[b] = told
  BY LiveAttachments DEF ShownExact
<1>2. told \in Nat /\ processed \in Nat /\ told' = processed
  BY SessionAssumption DEF TypeInv, TypeOK, OutOK, SessionAssumption, ReleaseAndStart
<1>3. shown'[a] = processed
  BY DEF ReleaseAndStart
<1>4. \A b \in live' \ {a} : shown'[b] = told + (processed - told)
  BY <1>1 DEF ReleaseAndStart
<1> QED
  BY <1>2, <1>3, <1>4 DEF ShownExact

LEMMA ToldStep ==
  ASSUME TypeInv, SessionAssumption, ToldInv, [Next]_vars
  PROVE  ToldInv'
<1> USE DEF ToldInv
<1>1. CASE UNCHANGED <<live, shown, knows, told, processed, settle, exited>>
  BY <1>1 DEF ShownExact, HeldIsSettling, EndReachesAll
<1>2. out \in Nat /\ processed \in Nat /\ told \in Nat /\ told <= processed /\ settle \in Nat
  BY SessionAssumption DEF TypeInv, TypeOK, OutOK, SessionAssumption
<1>3. CASE TopEnds
  <2>1. ShownExact'
    BY <1>2, <1>3, ReleaseShows DEF TopEnds
  <2>2. told' = processed /\ processed' = processed
    BY <1>3 DEF TopEnds, Release
  <2>3. EndReachesAll'
    BY <1>3 DEF TopEnds, EndReachesAll
  <2> QED
    BY <1>2, <2>1, <2>2, <2>3 DEF HeldIsSettling
<1>4. CASE ArmOutput
  <2>1. processed' \in Nat
    BY <1>2, <1>4, SessionAssumption DEF ArmOutput, Least, SessionAssumption
  <2>2. ShownExact'
    <3>1. CASE UNCHANGED <<told, shown>>
      BY <1>4, <3>1 DEF ArmOutput, ShownExact
    <3>2. CASE Release(processed')
      BY <1>4, <2>1, <3>2, ReleaseShows DEF ArmOutput
    <3> QED
      BY <1>4, <3>1, <3>2 DEF ArmOutput
  <2>3. HeldIsSettling'
    BY <1>2, <1>4, <2>1
       DEF ArmOutput, HeldIsSettling, Release, SettlingOfHeld, Running, endVars
  <2>4. EndReachesAll'
    BY <1>4 DEF ArmOutput, EndReachesAll, endVars
  <2> QED
    BY <2>2, <2>3, <2>4
<1>5. CASE ArmSettle
  <2>1. ShownExact'
    BY <1>2, <1>5, ReleaseShows DEF ArmSettle
  <2>2. told' = processed /\ processed' = processed
    BY <1>5 DEF ArmSettle, Release
  <2>3. EndReachesAll'
    BY <1>5 DEF ArmSettle, EndReachesAll, endVars
  <2> QED
    BY <1>2, <2>1, <2>2, <2>3 DEF HeldIsSettling
<1>6. CASE ArmRedraw
  <2>1. live' = live /\ exited' = exited /\ processed' = processed /\ told' = processed
    BY <1>6 DEF ArmRedraw, Release, ReleaseAndStart, endVars
  <2>2. ShownExact'
    <3>1. CASE Release(processed)
      BY <1>2, <2>1, <3>1, ReleaseShows
    <3>2. CASE \E a \in live : ReleaseAndStart(a)
      BY <2>1, <3>2, StartShows, LiveAttachments
    <3> QED
      BY <1>6, <3>1, <3>2 DEF ArmRedraw
  <2>3. knows \subseteq knows'
    BY <1>6 DEF ArmRedraw, KnowsFromStart
  <2> QED
    BY <1>2, <2>1, <2>2, <2>3 DEF HeldIsSettling, EndReachesAll
<1>7. CASE ArmAttach
  <2> DEFINE a == newest + 1
  <2>1. exited' = exited /\ processed' = processed /\ told' = processed
    BY <1>7 DEF ArmAttach, Release, ReleaseAndStart, endVars
  <2>2. a \in Attachment
    <3>1. control # <<>> /\ control \in Seq(Clients)
      BY <1>7 DEF ArmAttach, TypeInv, TypeOK, TaskOK
    <3>2. Len(control) \in Nat /\ Len(control) >= 1
      BY <3>1, EmptySeq
    <3>3. newest \in Nat \ {0} /\ newest + 1 <= MaxAttach
      BY <3>2, SessionAssumption DEF TypeInv, TypeOK, AttachOK, AttachesBounded, SessionAssumption
    <3> QED
      BY <3>3, SessionAssumption DEF Attachment, SessionAssumption
  <2>3. CASE Release(processed) /\ UNCHANGED <<live, knows>>
    <3>1. ShownExact'
      BY <1>2, <2>3, ReleaseShows
    <3> QED
      BY <1>2, <2>1, <2>3, <3>1 DEF HeldIsSettling, EndReachesAll
  <2>4. CASE ReleaseAndStart(a) /\ live' = live \cup {a} /\ knows' = KnowsFromStart(a)
    <3>1. ShownExact'
      BY <2>2, <2>4, StartShows
    <3>2. EndReachesAll'
      BY <2>1, <2>4 DEF EndReachesAll, KnowsFromStart
    <3> QED
      BY <1>2, <2>1, <3>1, <3>2 DEF HeldIsSettling
  <2> QED
    BY <1>7, <2>3, <2>4 DEF ArmAttach
<1>8. ASSUME NEW a \in live, ClientLeaves(a)
      PROVE  ToldInv'
  <2>1. \A b \in live' : b \in live /\ shown'[b] = shown[b]
    BY <1>8, LiveAttachments DEF ClientLeaves, TypeInv, TypeOK, AttachOK
  <2>2. ShownExact' /\ EndReachesAll'
    BY <1>8, <2>1 DEF ClientLeaves, ShownExact, EndReachesAll, outVars, endVars
  <2>3. HeldIsSettling'
    BY <1>8 DEF ClientLeaves, HeldIsSettling, outVars, endVars
  <2> QED
    BY <2>2, <2>3
<1>9. CASE Top
  BY <1>1, <1>3, <1>9
     DEF Top, TopIdle, TopWrites, TopDiscards, UnchangedButPhase, attachVars, outVars, endVars
<1>10. CASE Arms
  BY <1>1, <1>4, <1>5, <1>6, <1>7, <1>10
     DEF Arms, ArmOutputEnds, ArmWakes, ArmEcho, ArmInput, ArmResize, ArmDetached, ArmTick,
         ArmProbe, UnchangedButPhase, attachVars, outVars, endVars
<1>11. CASE Ends
  BY <1>1, <1>11
     DEF Ends, ArmEnded, ArmTtl, ArmUnregistered, Break, Closes, attachVars, outVars, endVars
<1>12. CASE Program
  <2>1. UNCHANGED <<live, shown, knows, told, processed, settle, exited>>
    BY <1>12
       DEF Program, ProgramReads, ProgramWrites, ProgramSetsEcho, ProgramExits, TerminalCloses,
           WriterWrites, WriterStops, attachVars, outVars, endVars
  <2> QED
    BY <1>1, <2>1
<1>13. CASE Others
  BY <1>1, <1>8, <1>13
     DEF Others, ClientTypes, ClientTellsColours, ClientAsks, ClientHasEnd, RegistryAttaches,
         RegistryEnds, attachVars, outVars, endVars
<1>14. CASE Gone \/ UNCHANGED vars
  BY <1>1, <1>14 DEF Gone, vars, attachVars, outVars, endVars
<1> QED
  BY <1>9, <1>10, <1>11, <1>12, <1>13, <1>14 DEF Next

THEOREM ToldInvariant == Spec => []ToldInv
<1>1. Init => ToldInv
  BY ToldInit, SessionAssumption
<1>2. TypeInv /\ ToldInv /\ [Next]_vars => ToldInv'
  BY ToldStep, SessionAssumption
<1> QED
  BY <1>1, <1>2, TypeInvariant, PTL DEF Spec

\* Every attachment shows the program's output with none missed and none twice, whenever it began,
\* was redrawn or left: each release goes to all before a start (Session::release, Session::start).
THEOREM ShowsExactly == Spec => []ShownExact
  BY ToldInvariant, PTL DEF ToldInv

\* Output is never held with no reading of the modes to come, nor past the program's end (the
\* settling of Session::run).
THEOREM HeldSettles == Spec => []HeldIsSettling
  BY ToldInvariant, PTL DEF ToldInv

\* Whoever is attached once the program's end was told was sent it (Session::start, Event::Show).
THEOREM EndReaches == Spec => []EndReachesAll
  BY ToldInvariant, PTL DEF ToldInv

LEMMA EndStaysLast ==
  ASSUME TypeInv, SessionAssumption, HeldIsSettling, exited, [Next]_vars
  PROVE  told' = told /\ wrote' = wrote
<1>1. processed = told
  BY SessionAssumption DEF TypeInv, TypeOK, OutOK, HeldIsSettling, SessionAssumption
<1>2. CASE Top
  BY <1>2
     DEF Top, TopEnds, TopIdle, TopWrites, TopDiscards, UnchangedButPhase, Running, outVars,
         inputVars
<1>3. CASE ArmRedraw \/ ArmAttach
  BY <1>1, <1>3 DEF ArmRedraw, ArmAttach, Release, ReleaseAndStart, inputVars
<1>4. CASE Arms
  BY <1>3, <1>4
     DEF Arms, ArmOutput, ArmOutputEnds, ArmWakes, ArmSettle, ArmEcho, ArmInput, ArmResize,
         ArmDetached, ArmTick, ArmProbe, UnchangedButPhase, Running, outVars, inputVars
<1>5. CASE Ends
  BY <1>5 DEF Ends, ArmEnded, ArmTtl, ArmUnregistered, Break, Closes, outVars, inputVars
<1>6. CASE Program
  BY <1>6
     DEF Program, ProgramReads, ProgramWrites, ProgramSetsEcho, ProgramExits, TerminalCloses,
         WriterWrites, WriterStops, Hosted, Running
<1>7. CASE Others
  BY <1>7
     DEF Others, ClientTypes, ClientTellsColours, ClientLeaves, ClientAsks, ClientHasEnd,
         RegistryAttaches, RegistryEnds, outVars, inputVars
<1>8. CASE Gone \/ UNCHANGED vars
  BY <1>8 DEF Gone, vars, outVars, inputVars
<1> QED
  BY <1>2, <1>4, <1>5, <1>6, <1>7, <1>8 DEF Next

\* The end is the last a program tells and gets: no redraw, attach or late reading tells output
\* after it, and no input is written (the `running` guards of Session::run).
THEOREM EndLast == Spec => EndIsLast
<1>1. TypeInv /\ HeldIsSettling /\ [Next]_vars => [exited => told' = told /\ wrote' = wrote]_vars
  BY EndStaysLast, SessionAssumption
<1> QED
  BY <1>1, TypeInvariant, HeldSettles, PTL DEF Spec, EndIsLast

(***************************************************************************)
(* What becomes of keys.                                                   *)
(***************************************************************************)
\* An input that was written, or read or had no bytes, is done.
Done == wrote \cup read

\* The task goes on and the PTY takes input: from the first time it does not, none is written.
MayWrite == writer /\ Running /\ InLoop

\* What was typed came on an attachment there is; of one attachment it waits in its order.
OfAnAttachment == \A i \in typed : i.attach <= newest
InTurn ==
    \A k, l \in 1..Len(inq) :
        k < l /\ inq[k].seq # 0 /\ inq[l].seq # 0 /\ inq[k].attach = inq[l].attach
            => inq[k].seq < inq[l].seq

\* All that was typed before the pending input on its attachment is done.
PendingNext ==
    pending.input # None =>
        /\ pending.bytes \/ pending.input \in read
        /\ MayWrite =>
            \A j \in typed :
                j.attach = pending.input.attach /\ j.seq < pending.input.seq => j \in Done

\* What was typed on the newest attachment is done, pending or waits.
NoneDropped ==
    MayWrite =>
        \A j \in Sent(newest) :
            j \in Done \/ j = pending.input \/ \E k \in 1..Len(inq) : inq[k] = j

WritesInv == OfAnAttachment /\ InTurn /\ PendingNext /\ NoneDropped /\ WrittenWithoutGaps

LEMMA WritesInit == ASSUME Init PROVE WritesInv
  BY DEF Init, WritesInv, OfAnAttachment, InTurn, PendingNext, NoneDropped, WrittenWithoutGaps,
         Sent, NoPending

\* A step that takes, types and writes nothing leaves it so, though the program may read or the
\* writer, the program or the task end.
LEMMA WritesKept ==
  ASSUME WritesInv, UNCHANGED <<owner, typed, inq, pending, wrote>>, read \subseteq read',
         writer' => writer, exited => exited', InLoop' => InLoop
  PROVE  WritesInv'
<1>1. MayWrite' => MayWrite
  BY DEF MayWrite, Running
<1>2. Done \subseteq Done' /\ newest' = newest /\ Sent(newest)' = Sent(newest)
  BY DEF Done, newest, Sent
<1> QED
  BY <1>1, <1>2
     DEF WritesInv, OfAnAttachment, InTurn, PendingNext, NoneDropped, WrittenWithoutGaps, Done

\* The same where the pending input is dropped, once nothing more is written.
LEMMA WritesDropped ==
  ASSUME WritesInv, UNCHANGED <<owner, typed, wrote, read>>, inq' \in {inq, <<>>},
         pending' \in {pending, NoPending}, ~MayWrite'
  PROVE  WritesInv'
<1>1. newest' = newest
  BY DEF newest
<1> QED
  BY <1>1
     DEF WritesInv, OfAnAttachment, InTurn, PendingNext, NoneDropped, WrittenWithoutGaps, Done,
         NoPending

\* The emulator's answers join what is pending.
LEMMA WritesAnswered ==
  ASSUME WritesInv, UNCHANGED <<owner, typed, inq, wrote, read>>,
         pending'.input = pending.input, pending.bytes => pending'.bytes,
         MayWrite' => MayWrite
  PROVE  WritesInv'
<1>1. newest' = newest /\ Sent(newest)' = Sent(newest) /\ Done' = Done
  BY DEF newest, Sent, Done
<1> QED
  BY <1>1
     DEF WritesInv, OfAnAttachment, InTurn, PendingNext, NoneDropped, WrittenWithoutGaps, Done

\* The pending input is written: all before it was done.
LEMMA WritesPending == ASSUME TypeInv, WritesInv, TopWrites PROVE WritesInv'
<1>1. /\ UNCHANGED <<owner, typed, inq, read>> /\ pending' = NoPending
      /\ wrote' = IF pending.input = None THEN wrote ELSE wrote \cup {pending.input}
  BY DEF TopWrites, attachVars
<1>2. MayWrite
  BY DEF TopWrites, MayWrite, InLoop, WriteTaken
<1>3. newest' = newest /\ Sent(newest)' = Sent(newest) /\ Done \subseteq Done'
  BY <1>1 DEF newest, Sent, Done
<1>4. OfAnAttachment' /\ InTurn' /\ PendingNext'
  BY <1>1, <1>3 DEF WritesInv, OfAnAttachment, InTurn, PendingNext, NoPending
<1>5. NoneDropped'
  <2>1. ASSUME NEW j \in Sent(newest)
        PROVE  j \in Done' \/ \E k \in 1..Len(inq) : inq[k] = j
    <3>1. CASE j = pending.input /\ j # None
      BY <1>1, <3>1 DEF Done
    <3>2. j # None
      BY SessionAssumption DEF TypeInv, TypeOK, InputOK, Sent, Keys, Input, Attachment,
         SessionAssumption
    <3> QED
      BY <1>2, <1>3, <3>1, <3>2 DEF WritesInv, NoneDropped
  <2> QED
    BY <1>1, <1>3, <2>1 DEF NoneDropped
<1>6. WrittenWithoutGaps'
  BY <1>1, <1>2 DEF WritesInv, WrittenWithoutGaps, PendingNext, Done
<1> QED
  BY <1>4, <1>5, <1>6 DEF WritesInv

\* The first of the channel is taken: what was typed before it on its attachment left it before.
LEMMA WritesTaken == ASSUME TypeInv, WritesInv, ArmInput PROVE WritesInv'
<1> DEFINE i == Head(inq)
<1>1. /\ UNCHANGED <<owner, typed, wrote, writer, exited>> /\ inq # <<>> /\ inq' = Tail(inq)
      /\ ~pending.bytes \/ ~Running
      /\ phase = "select" /\ phase' = "top"
  BY DEF ArmInput, Woken, attachVars, endVars
<1>2. /\ inq \in Seq(Input) /\ Len(inq) \in Nat \ {0} /\ i = inq[1] /\ i \in Input
      /\ Len(inq') = Len(inq) - 1 /\ \A k \in 1..Len(inq') : inq'[k] = inq[k + 1]
  BY <1>1, EmptySeq, HeadTailProperties DEF TypeInv, TypeOK, InputOK
<1>3. /\ typed \subseteq Keys /\ pending \in [bytes : BOOLEAN, input : Keys \cup {None}]
      /\ i.seq # 0 => i \in typed
  BY <1>2 DEF TypeInv, TypeOK, InputOK, OnItsWay
<1>4. newest' = newest /\ Sent(newest)' = Sent(newest) /\ (MayWrite' <=> MayWrite)
  BY <1>1 DEF newest, Sent, MayWrite, Running, InLoop
<1>5. InTurn'
  BY <1>1, <1>2 DEF WritesInv, InTurn
<1>6. ASSUME NEW j \in typed, i.seq # 0, j.attach = i.attach, MayWrite, i.attach = newest,
             j.seq < i.seq
      PROVE  j \in Done
  <2>1. j.seq # 0 /\ j.seq \in Nat /\ i.seq \in Nat
    BY <1>2, <1>3, SessionAssumption DEF Keys, Input, SessionAssumption
  <2>2. ASSUME NEW k \in 1..Len(inq)
        PROVE  inq[k] # j
    BY <1>2, <1>6, <2>1, <2>2 DEF WritesInv, InTurn
  <2>3. j = pending.input => j \in Done
    <3>1. j # None
      BY <1>3, SessionAssumption DEF Keys, Input, Attachment, SessionAssumption
    <3> QED
      BY <1>1, <1>6, <3>1 DEF WritesInv, PendingNext, Done, MayWrite
  <2> QED
    BY <1>6, <2>2, <2>3 DEF WritesInv, NoneDropped, Sent
<1>7. \A j \in Sent(newest) : j.seq # 0
  BY <1>3 DEF Sent, Keys
<1>8. CASE i.attach # newest \/ ~Running
  <2>1. UNCHANGED <<pending, read>>
    BY <1>8 DEF ArmInput
  <2>2. PendingNext' /\ WrittenWithoutGaps' /\ OfAnAttachment'
    BY <1>1, <1>4, <2>1
       DEF WritesInv, PendingNext, WrittenWithoutGaps, OfAnAttachment, Done
  <2>3. NoneDropped'
    <3>1. ASSUME NEW j \in Sent(newest), NEW k \in 1..Len(inq), inq[k] = j, MayWrite
          PROVE  \E l \in 1..Len(inq') : inq'[l] = j
      <4>1. k # 1
        BY <1>2, <1>8, <3>1 DEF Sent, MayWrite
      <4>2. k - 1 \in 1..Len(inq') /\ inq'[k - 1] = inq[k]
        BY <1>2, <4>1
      <4> QED
        BY <3>1, <4>2
    <3> QED
      BY <1>4, <2>1, <3>1, <1>1 DEF WritesInv, NoneDropped, Done
  <2> QED
    BY <1>5, <2>2, <2>3 DEF WritesInv
<1>9. CASE i.attach = newest /\ Running
  <2>1. PICK b \in BOOLEAN :
          /\ pending' = [bytes |-> b, input |-> IF i.seq = 0 THEN pending.input ELSE i]
          /\ read' = IF i.seq = 0 \/ b THEN read ELSE read \cup {i}
    BY <1>9 DEF ArmInput
  <2>2. /\ pending'.bytes = b /\ Done \subseteq Done'
        /\ pending'.input = IF i.seq = 0 THEN pending.input ELSE i
    BY <1>1, <2>1 DEF Done
  <2>3. PendingNext'
    <3>1. CASE i.seq = 0
      <4>1. pending'.input = pending.input /\ read' = read
        BY <2>1, <2>2, <3>1
      <4>2. ~pending.bytes /\ Done' = Done
        BY <1>1, <1>9, <4>1 DEF Done
      <4> QED
        BY <1>1, <1>4, <4>1, <4>2 DEF WritesInv, PendingNext
    <3>2. CASE i.seq # 0
      <4>1. pending'.bytes \/ pending'.input \in read'
        BY <2>1, <2>2, <3>2
      <4>2. MayWrite' => \A j \in typed' :
              j.attach = pending'.input.attach /\ j.seq < pending'.input.seq => j \in Done'
        BY <1>1, <1>4, <1>6, <1>9, <2>2, <3>2
      <4> QED
        BY <4>1, <4>2 DEF PendingNext
    <3> QED
      BY <3>1, <3>2
  <2>4. NoneDropped'
    <3>1. ASSUME NEW j \in Sent(newest), MayWrite
          PROVE  j \in Done' \/ j = pending'.input \/ \E l \in 1..Len(inq') : inq'[l] = j
      <4>1. CASE j \in Done
        BY <2>2, <4>1
      <4>2. CASE j = pending.input
        <5>1. CASE pending.input = None
          BY <1>3, <4>2, <5>1, SessionAssumption
             DEF Sent, Keys, Input, Attachment, SessionAssumption
        <5> QED
          BY <1>1, <1>9, <2>2, <4>2, <5>1 DEF WritesInv, PendingNext, Done
      <4>3. ASSUME NEW k \in 1..Len(inq), inq[k] = j
            PROVE  j \in Done' \/ j = pending'.input \/ \E l \in 1..Len(inq') : inq'[l] = j
        <5>1. CASE k = 1
          BY <1>2, <1>7, <2>2, <3>1, <4>3, <5>1
        <5>2. CASE k # 1
          <6>1. k - 1 \in 1..Len(inq') /\ inq'[k - 1] = inq[k]
            BY <1>2, <5>2
          <6> QED
            BY <4>3, <6>1
        <5> QED
          BY <5>1, <5>2
      <4> QED
        BY <3>1, <4>1, <4>2, <4>3 DEF WritesInv, NoneDropped
    <3> QED
      BY <1>4, <3>1 DEF NoneDropped
  <2>5. WrittenWithoutGaps' /\ OfAnAttachment'
    BY <1>1, <1>4, <2>2 DEF WritesInv, WrittenWithoutGaps, OfAnAttachment, Done
  <2> QED
    BY <1>5, <2>3, <2>4, <2>5 DEF WritesInv
<1> QED
  BY <1>8, <1>9

\* The newest attachment changes: nothing was typed on it yet.
LEMMA WritesAttached == ASSUME TypeInv, WritesInv, ArmAttach PROVE WritesInv'
<1>1. UNCHANGED <<typed, inq, pending, wrote, read, writer, exited>>
  BY DEF ArmAttach, inputVars, endVars
<1>2. newest \in Nat /\ newest' = newest + 1
  BY SessionAssumption, AppendProperties
     DEF ArmAttach, TypeInv, TypeOK, AttachOK, TaskOK, newest, SessionAssumption
<1>3. typed \subseteq Keys /\ \A j \in typed : j.attach \in Nat
  BY SessionAssumption DEF TypeInv, TypeOK, InputOK, Keys, Input, Attachment, SessionAssumption
<1>4. MayWrite' <=> MayWrite
  BY <1>1 DEF ArmAttach, Woken, MayWrite, Running, InLoop
<1>5. OfAnAttachment' /\ InTurn' /\ PendingNext' /\ WrittenWithoutGaps'
  BY <1>1, <1>2, <1>3, <1>4
     DEF WritesInv, OfAnAttachment, InTurn, PendingNext, WrittenWithoutGaps, Done
<1>6. Sent(newest)' = {}
  BY <1>1, <1>2, <1>3 DEF WritesInv, OfAnAttachment, Sent
<1> QED
  BY <1>5, <1>6 DEF WritesInv, NoneDropped

\* A client types past all it typed before.
LEMMA TypesPast ==
  ASSUME TypeInv, NEW a \in live, NEW s \in 1..MaxSeq, SentBy(owner[a]) = 1..(s - 1)
  PROVE  \A j \in typed : owner[j.attach] = owner[a] => j.seq < s
<1>1. \A j \in typed : j.seq \in Nat
  BY SessionAssumption DEF TypeInv, TypeOK, InputOK, Keys, Input, SessionAssumption
<1> QED
  BY <1>1, SessionAssumption DEF SentBy, SessionAssumption

LEMMA WritesTyped ==
  ASSUME TypeInv, WritesInv, NEW a \in live, ClientTypes(a)
  PROVE  WritesInv'
<1>1. PICK s \in 1..MaxSeq : /\ SentBy(owner[a]) = 1..(s - 1)
                             /\ inq' = Append(inq, [attach |-> a, seq |-> s])
                             /\ typed' = typed \cup {[attach |-> a, seq |-> s]}
  BY DEF ClientTypes
<1> DEFINE n == [attach |-> a, seq |-> s]
<1>2. UNCHANGED <<owner, pending, wrote, read, writer, exited, phase>>
  BY DEF ClientTypes, attachVars, ptyVars, endVars, taskVars
<1>3. \A j \in typed : j.attach = a => j.seq < s
  BY <1>1, TypesPast
<1>4. /\ inq \in Seq(Input) /\ typed \subseteq Keys /\ wrote \subseteq typed
      /\ a <= newest /\ s \in Nat
  BY SessionAssumption DEF TypeInv, TypeOK, InputOK, AttachOK, newest, SessionAssumption
<1>5. \A k \in 1..Len(inq) : inq[k].seq # 0 => inq[k] \in typed
  BY DEF TypeInv, OnItsWay
<1>6. /\ Len(inq) \in Nat /\ Len(inq') = Len(inq) + 1 /\ inq'[Len(inq) + 1] = n
      /\ \A k \in 1..Len(inq) : inq'[k] = inq[k]
  BY <1>1, <1>4, AppendProperties
<1>7. /\ newest' = newest /\ (MayWrite' <=> MayWrite) /\ Done' = Done
      /\ Sent(newest)' \subseteq Sent(newest) \cup {n}
  BY <1>1, <1>2 DEF newest, MayWrite, Running, InLoop, Done, Sent
<1>8. OfAnAttachment'
  BY <1>1, <1>4, <1>7 DEF WritesInv, OfAnAttachment
<1>9. InTurn'
  <2>1. ASSUME NEW k \in 1..Len(inq'), NEW l \in 1..Len(inq'), k < l, inq'[k].seq # 0,
               inq'[l].seq # 0, inq'[k].attach = inq'[l].attach
        PROVE  inq'[k].seq < inq'[l].seq
    <3>1. k \in 1..Len(inq)
      BY <1>6, <2>1
    <3>2. CASE l = Len(inq) + 1
      BY <1>3, <1>5, <1>6, <2>1, <3>1, <3>2
    <3>3. CASE l \in 1..Len(inq)
      BY <1>6, <2>1, <3>1, <3>3 DEF WritesInv, InTurn
    <3> QED
      BY <1>6, <3>2, <3>3
  <2> QED
    BY <2>1 DEF InTurn
<1>10. PendingNext'
  <2>1. pending.input # None => pending.input \in typed
    BY DEF TypeInv, OnItsWay
  <2>2. pending.input # None /\ pending.input.attach = a => ~(s < pending.input.seq)
    BY <1>3, <1>4, <2>1 DEF Keys, Input
  <2> QED
    BY <1>1, <1>2, <1>7, <2>2 DEF WritesInv, PendingNext
<1>11. NoneDropped'
  BY <1>2, <1>6, <1>7 DEF WritesInv, NoneDropped
<1>12. WrittenWithoutGaps'
  <2>1. \A i \in wrote : i.attach = a => ~(s < i.seq)
    BY <1>3, <1>4 DEF Keys, Input
  <2> QED
    BY <1>1, <1>2, <2>1 DEF WritesInv, WrittenWithoutGaps
<1> QED
  BY <1>8, <1>9, <1>10, <1>11, <1>12 DEF WritesInv

LEMMA WritesColours ==
  ASSUME TypeInv, WritesInv, NEW a \in live, ClientTellsColours(a)
  PROVE  WritesInv'
<1>1. /\ inq' = Append(inq, [attach |-> a, seq |-> 0])
      /\ UNCHANGED <<owner, typed, pending, wrote, read, writer, exited, phase>>
  BY DEF ClientTellsColours, attachVars, ptyVars, endVars, taskVars
<1>2. inq \in Seq(Input)
  BY DEF TypeInv, TypeOK, InputOK
<1>3. /\ Len(inq) \in Nat /\ Len(inq') = Len(inq) + 1 /\ inq'[Len(inq) + 1].seq = 0
      /\ \A k \in 1..Len(inq) : inq'[k] = inq[k]
  BY <1>1, <1>2, AppendProperties
<1>4. newest' = newest /\ (MayWrite' <=> MayWrite) /\ Done' = Done /\ Sent(newest)' = Sent(newest)
  BY <1>1 DEF newest, MayWrite, Running, InLoop, Done, Sent
<1>5. OfAnAttachment' /\ PendingNext' /\ WrittenWithoutGaps'
  BY <1>1, <1>4 DEF WritesInv, OfAnAttachment, PendingNext, WrittenWithoutGaps
<1>6. InTurn'
  BY <1>3 DEF WritesInv, InTurn
<1>7. NoneDropped'
  BY <1>1, <1>3, <1>4 DEF WritesInv, NoneDropped
<1> QED
  BY <1>5, <1>6, <1>7 DEF WritesInv

LEMMA WritesStep == ASSUME TypeInv, WritesInv, [Next]_vars PROVE WritesInv'
<1>1. CASE TopEnds
  BY <1>1, WritesDropped DEF TopEnds, ptyVars, MayWrite, Running
<1>2. CASE TopDiscards
  BY <1>2, WritesDropped
     DEF TopDiscards, attachVars, ptyVars, MayWrite, WriteClosed
<1>3. CASE Break
  BY <1>3, WritesDropped DEF Break, attachVars, ptyVars, MayWrite, InLoop
<1>4. CASE ArmOutput \/ ArmResize
  <2>1. /\ UNCHANGED <<owner, typed, inq, wrote, read, writer, exited>>
        /\ phase = "select" /\ phase' = "top"
    BY <1>4 DEF ArmOutput, ArmResize, Woken, attachVars, ptyVars, endVars
  <2>2. \E b \in BOOLEAN : pending' \in {pending, [pending EXCEPT !.bytes = pending.bytes \/ b]}
    BY <1>4 DEF ArmOutput, ArmResize
  <2>3. pending'.input = pending.input /\ (pending.bytes => pending'.bytes)
    BY <2>2 DEF TypeInv, TypeOK, InputOK
  <2>4. MayWrite' => MayWrite
    BY <2>1 DEF MayWrite, Running, InLoop
  <2> QED
    BY <2>1, <2>3, <2>4, WritesAnswered
<1>5. CASE Top
  BY <1>1, <1>2, <1>5, WritesPending, WritesKept
     DEF Top, TopIdle, UnchangedButPhase, InLoop, attachVars, inputVars, ptyVars, endVars
<1>6. CASE Arms
  <2>1. CASE ArmOutputEnds \/ ArmWakes \/ ArmSettle \/ ArmEcho \/ ArmRedraw \/ ArmDetached
             \/ ArmTick \/ ArmProbe
    BY <2>1, WritesKept
       DEF ArmOutputEnds, ArmWakes, ArmSettle, ArmEcho, ArmRedraw, ArmDetached, ArmTick, ArmProbe,
           UnchangedButPhase, Woken, InLoop, attachVars, inputVars, ptyVars, endVars
  <2> QED
    BY <1>4, <1>6, <2>1, WritesTaken, WritesAttached DEF Arms
<1>7. CASE Ends
  <2>1. CASE Closes
    BY <2>1, WritesKept DEF Closes, InLoop, attachVars, inputVars
  <2> QED
    BY <1>3, <1>7, <2>1 DEF Ends, ArmEnded, ArmTtl, ArmUnregistered
<1>8. CASE Program
  <2>1. UNCHANGED <<owner, typed, inq, pending, wrote, phase>>
    BY <1>8
       DEF Program, ProgramReads, ProgramWrites, ProgramSetsEcho, ProgramExits, TerminalCloses,
           WriterWrites, WriterStops, attachVars, inputVars, taskVars
  <2>2. read \subseteq read'
    BY <1>8
       DEF Program, ProgramReads, ProgramWrites, ProgramSetsEcho, ProgramExits, TerminalCloses,
           WriterWrites, WriterStops, ptyVars
  <2>3. exited' = exited
    BY <1>8
       DEF Program, ProgramReads, ProgramWrites, ProgramSetsEcho, ProgramExits, TerminalCloses,
           WriterWrites, WriterStops, endVars
  <2>4. writer' = writer \/ writer' = FALSE
    BY <1>8
       DEF Program, ProgramReads, ProgramWrites, ProgramSetsEcho, ProgramExits, TerminalCloses,
           WriterWrites, WriterStops, ptyVars
  <2> QED
    BY <2>1, <2>2, <2>3, <2>4, WritesKept DEF InLoop
<1>9. CASE Others
  <2>1. CASE \/ \E a \in live : ClientLeaves(a) \/ ClientAsks(a) \/ ClientHasEnd(a)
             \/ \E c \in Clients : RegistryAttaches(c)
             \/ RegistryEnds
    BY <2>1, WritesKept
       DEF ClientLeaves, ClientAsks, ClientHasEnd, RegistryAttaches, RegistryEnds, attachVars,
           inputVars, ptyVars, endVars, taskVars, InLoop
  <2> QED
    BY <1>9, <2>1, WritesTyped, WritesColours DEF Others
<1>10. CASE Gone \/ UNCHANGED vars
  BY <1>10, WritesKept DEF Gone, vars, attachVars, inputVars, ptyVars, endVars, taskVars, InLoop
<1> QED
  BY <1>5, <1>6, <1>7, <1>8, <1>9, <1>10 DEF Next

\* Of what a connection sent the program never gets an input after one that was dropped, whoever
\* attaches over it and wherever the PTY closes (PendingInput::flush, the arm that takes input).
THEOREM WritesWithoutGaps == Spec => []WrittenWithoutGaps
<1>1. Init => WritesInv
  BY WritesInit
<1>2. TypeInv /\ WritesInv /\ [Next]_vars => WritesInv'
  BY WritesStep
<1>3. WritesInv => WrittenWithoutGaps
  BY DEF WritesInv
<1> QED
  BY <1>1, <1>2, <1>3, TypeInvariant, PTL DEF Spec

(***************************************************************************)
(* What a client is told of its keys.                                      *)
(***************************************************************************)
\* What was written and neither read nor dropped is on its way.
WrittenStands == wrote \subseteq read \cup lost \cup InputsOf(wq) \cup InputsOf(tq)

LEMMA InputsOfEmpty == InputsOf(<<>>) = {}
  BY DEF InputsOf

LEMMA InputsOfAppend ==
  ASSUME NEW S, NEW q \in Seq(S), NEW x \in S
  PROVE  InputsOf(Append(q, x)) = InputsOf(q) \cup ({x} \ {None})
<1>1. /\ Len(q) \in Nat /\ Len(Append(q, x)) = Len(q) + 1 /\ Append(q, x)[Len(q) + 1] = x
      /\ \A k \in 1..Len(q) : Append(q, x)[k] = q[k]
  BY AppendProperties
<1>2. \A i : i \in InputsOf(Append(q, x)) <=>
             \E k \in 1..(Len(q) + 1) : Append(q, x)[k] = i /\ i # None
  BY <1>1 DEF InputsOf
<1>3. \A i : i \in InputsOf(q) <=> \E k \in 1..Len(q) : q[k] = i /\ i # None
  BY DEF InputsOf
<1> QED
  BY <1>1, <1>2, <1>3

LEMMA InputsOfTail ==
  ASSUME NEW S, NEW q \in Seq(S), q # <<>>
  PROVE  InputsOf(q) = InputsOf(Tail(q)) \cup ({Head(q)} \ {None})
<1>1. /\ Len(q) \in Nat \ {0} /\ Len(Tail(q)) = Len(q) - 1 /\ Head(q) = q[1]
      /\ \A k \in 1..Len(Tail(q)) : Tail(q)[k] = q[k + 1]
  BY EmptySeq, HeadTailProperties
<1>2. \A i : i \in InputsOf(Tail(q)) <=>
             \E k \in 1..(Len(q) - 1) : q[k + 1] = i /\ i # None
  BY <1>1 DEF InputsOf
<1>3. \A i : i \in InputsOf(q) <=> \E k \in 1..Len(q) : q[k] = i /\ i # None
  BY DEF InputsOf
<1>4. ASSUME NEW k \in 2..Len(q)
      PROVE  k - 1 \in 1..(Len(q) - 1) /\ q[(k - 1) + 1] = q[k]
  BY <1>1
<1>5. ASSUME NEW i \in InputsOf(q)
      PROVE  i \in InputsOf(Tail(q)) \/ (i = Head(q) /\ i # None)
  <2>1. PICK k \in 1..Len(q) : q[k] = i /\ i # None
    BY <1>3, <1>5
  <2>2. CASE k = 1
    BY <1>1, <2>1, <2>2
  <2>3. CASE k \in 2..Len(q)
    BY <1>2, <1>4, <2>1, <2>3
  <2> QED
    BY <1>1, <2>2, <2>3
<1>6. ASSUME NEW i \in InputsOf(Tail(q))
      PROVE  i \in InputsOf(q)
  <2>1. PICK k \in 1..(Len(q) - 1) : q[k + 1] = i /\ i # None
    BY <1>2, <1>6
  <2>2. k + 1 \in 1..Len(q)
    BY <1>1
  <2> QED
    BY <1>3, <2>1, <2>2
<1>7. Head(q) # None => Head(q) \in InputsOf(q)
  BY <1>1, <1>3
<1> QED
  BY <1>5, <1>6, <1>7

\* An input goes from the writer's queue to the terminal's, and out of it as it is read.
LEMMA StandsStep ==
  ASSUME TypeInv, WrittenStands, [Next]_vars
  PROVE  WrittenStands' /\ wrote \subseteq wrote' /\ read \subseteq read' /\ lost \subseteq lost'
<1> DEFINE W == Keys \cup {None}
<1>1. /\ wq \in Seq(W) /\ tq \in Seq(W) /\ pending.input \in W /\ None \in W
  BY DEF TypeInv, TypeOK, PtyOK, InputOK
<1>2. CASE UNCHANGED <<wrote, ptyVars>>
  BY <1>2 DEF WrittenStands, ptyVars
<1>3. CASE TopWrites
  <2>1. /\ wq' = Append(wq, pending.input) /\ UNCHANGED <<tq, read, lost>>
        /\ wrote' = IF pending.input = None THEN wrote ELSE wrote \cup {pending.input}
    BY <1>3 DEF TopWrites
  <2>2. InputsOf(wq)' = InputsOf(wq) \cup ({pending.input} \ {None})
    BY <1>1, <2>1, InputsOfAppend
  <2> QED
    BY <2>1, <2>2 DEF WrittenStands
<1>4. CASE ArmAttach
  <2>1. UNCHANGED <<wrote, tq, read, lost>> /\ wq' \in {wq, Append(wq, None)}
    BY <1>4 DEF ArmAttach, inputVars
  <2>2. InputsOf(Append(wq, None)) = InputsOf(wq) \cup ({None} \ {None})
    BY <1>1, InputsOfAppend
  <2> QED
    BY <2>1, <2>2 DEF WrittenStands
<1>5. CASE ArmInput
  BY <1>5 DEF ArmInput, WrittenStands
<1>6. CASE Closes \/ WriterStops
  <2>1. /\ UNCHANGED <<wrote, tq, read>> /\ lost' = lost \cup InputsOf(wq)
    BY <1>6 DEF Closes, WriterStops, inputVars
  <2> QED
    BY <2>1 DEF WrittenStands
<1>7. CASE ProgramReads
  <2>1. /\ UNCHANGED <<wrote, wq, lost>> /\ tq # <<>> /\ tq' = Tail(tq)
        /\ read' = IF Head(tq) = None THEN read ELSE read \cup {Head(tq)}
    BY <1>7 DEF ProgramReads, inputVars
  <2>2. InputsOf(tq) = InputsOf(tq)' \cup ({Head(tq)} \ {None})
    BY <1>1, <2>1, InputsOfTail
  <2> QED
    BY <2>1, <2>2 DEF WrittenStands
<1>8. CASE WriterWrites
  <2>1. /\ UNCHANGED <<wrote, read, lost>> /\ wq # <<>> /\ wq' = Tail(wq)
        /\ tq' = Append(tq, Head(wq)) /\ Head(wq) \in W
    BY <1>1, <1>8, EmptySeq, HeadTailProperties DEF WriterWrites, inputVars
  <2>2. InputsOf(wq) = InputsOf(wq)' \cup ({Head(wq)} \ {None})
    BY <1>1, <2>1, InputsOfTail
  <2>3. InputsOf(tq)' = InputsOf(tq) \cup ({Head(wq)} \ {None})
    BY <1>1, <2>1, InputsOfAppend
  <2> QED
    BY <2>1, <2>2, <2>3 DEF WrittenStands
<1>9. CASE Top
  BY <1>2, <1>3, <1>9
     DEF Top, TopEnds, TopIdle, TopDiscards, UnchangedButPhase, inputVars
<1>10. CASE Arms
  BY <1>2, <1>4, <1>5, <1>10
     DEF Arms, ArmOutput, ArmOutputEnds, ArmWakes, ArmSettle, ArmEcho, ArmRedraw, ArmResize,
         ArmDetached, ArmTick, ArmProbe, UnchangedButPhase, inputVars
<1>11. CASE Ends
  BY <1>2, <1>6, <1>11 DEF Ends, ArmEnded, ArmTtl, ArmUnregistered, Break
<1>12. CASE Program
  BY <1>2, <1>6, <1>7, <1>8, <1>12
     DEF Program, ProgramWrites, ProgramSetsEcho, ProgramExits, TerminalCloses, inputVars
<1>13. CASE Others
  BY <1>2, <1>13
     DEF Others, ClientTypes, ClientTellsColours, ClientLeaves, ClientAsks, ClientHasEnd,
         RegistryAttaches, RegistryEnds, inputVars
<1>14. CASE Gone \/ UNCHANGED vars
  BY <1>2, <1>14 DEF Gone, vars, inputVars
<1> QED
  BY <1>9, <1>10, <1>11, <1>12, <1>13, <1>14 DEF Next

\* Every client of the session is the same one, over whatever attachments.
OneClient == \A c, d \in Clients : c = d

\* A client numbers on from one attachment to the next.
Rising ==
    \A i, j \in typed : owner[i.attach] = owner[j.attach] /\ i.attach < j.attach => i.seq < j.seq

\* The numbers an echo or a report may name are of what was typed, and all that the newest
\* attachment typed up to them is done.
Named == {written} \cup {echo[k] : k \in 1..Len(echo)}
DoneUpTo(s) == \A i \in Sent(newest) : i.seq <= s => i \in Done
NamesDone == \A s \in Named : DoneUpTo(s) /\ (s = 0 \/ \E j \in typed : j.seq = s)

EchoInv == Rising /\ NamesDone /\ WrittenStands /\ EchoedWasWritten /\ ClaimsButLost

LEMMA EchoInit == ASSUME Init PROVE EchoInv
<1>1. typed = {} /\ wrote = {} /\ acked = {} /\ claimed = {} /\ written = 0 /\ echo = <<>>
  BY DEF Init
<1>2. Named = {0}
  BY <1>1 DEF Named
<1> QED
  BY <1>1, <1>2
     DEF EchoInv, Rising, NamesDone, DoneUpTo, Sent, WrittenStands, EchoedWasWritten, ClaimsButLost

\* What typed inputs are.
LEMMA TypedAre ==
  ASSUME TypeInv, WritesInv, NEW j \in typed
  PROVE  /\ j.attach \in Nat /\ j.attach \in 1..newest /\ j.seq \in Nat \ {0}
         /\ j = [attach |-> j.attach, seq |-> j.seq] /\ owner[j.attach] \in Clients /\ j # None
<1>1. j \in [attach : 1..MaxAttach, seq : 0..MaxSeq] /\ j.seq # 0
  BY DEF TypeInv, TypeOK, InputOK, Keys, Input, Attachment
<1>2. j.attach \in 1..MaxAttach /\ j.seq \in 0..MaxSeq /\ j = [attach |-> j.attach, seq |-> j.seq]
  BY <1>1
<1>3. MaxAttach \in Nat /\ MaxSeq \in Nat /\ newest \in Nat
  BY SessionAssumption DEF SessionAssumption, TypeInv, TypeOK, AttachOK, newest
<1>4. j.attach \in 1..newest
  BY <1>2, <1>3 DEF WritesInv, OfAnAttachment
<1>5. owner[j.attach] \in Clients
  BY <1>4 DEF TypeInv, TypeOK, AttachOK, newest
<1>6. j # None
  BY <1>2, <1>3, SessionAssumption DEF SessionAssumption
<1> QED
  BY <1>1, <1>2, <1>3, <1>4, <1>5, <1>6

\* A report or an exit that is told of as no key is left claims what the program read or lost.
LEMMA Concludes ==
  ASSUME TypeInv, WritesInv, EchoInv, OneClient, ~KeysLeft
  PROVE  Concluded(written) \subseteq read \cup lost
<1>1. SUFFICES ASSUME NEW b \in live, Current(b), SentNothingPast(b, written), NEW i \in Sent(b)
               PROVE  i \in read \cup lost
  BY DEF Concluded
<1>2. owner \in Seq(Clients) /\ newest \in Nat /\ live \subseteq 1..newest
  BY SessionAssumption DEF TypeInv, TypeOK, AttachOK, newest, SessionAssumption
<1>3. b = newest
  <2>1. owner[b] \in Clients /\ owner[newest] \in Clients
    BY <1>2 DEF newest
  <2> QED
    BY <1>1, <1>2, <2>1 DEF Current, OneClient
<1>4. i \in Done
  <2>1. DoneUpTo(written)
    BY DEF EchoInv, NamesDone, Named
  <2>2. i \in Sent(newest) /\ i.seq <= written
    BY <1>1, <1>3 DEF SentNothingPast
  <2> QED
    BY <2>1, <2>2 DEF DoneUpTo
<1>5. InputsOf(wq) = {} /\ InputsOf(tq) = {}
  BY InputsOfEmpty DEF KeysLeft
<1> QED
  BY <1>4, <1>5 DEF EchoInv, WrittenStands, Done

LEMMA RisingStep == ASSUME TypeInv, WritesInv, Rising, [Next]_vars PROVE Rising'
<1>1. CASE UNCHANGED <<typed, owner>>
  BY <1>1 DEF Rising
<1>2. CASE ArmAttach
  <2>1. typed' = typed /\ owner' = Append(owner, Head(control)) /\ owner \in Seq(Clients)
        /\ Head(control) \in Clients
    BY <1>2, EmptySeq, HeadTailProperties
       DEF ArmAttach, inputVars, TypeInv, TypeOK, AttachOK, TaskOK
  <2>2. \A j \in typed : owner'[j.attach] = owner[j.attach]
    <3>1. \A k \in 1..Len(owner) : owner'[k] = owner[k]
      BY <2>1, AppendProperties
    <3> QED
      BY <3>1, TypedAre DEF newest
  <2>3. typed' = typed
    BY <2>1
  <2> QED
    BY <2>2, <2>3 DEF Rising
<1>3. ASSUME NEW a \in live, ClientTypes(a)
      PROVE  Rising'
  <2>1. PICK s \in 1..MaxSeq : /\ SentBy(owner[a]) = 1..(s - 1)
                               /\ typed' = typed \cup {[attach |-> a, seq |-> s]}
    BY <1>3 DEF ClientTypes
  <2>2. owner' = owner
    BY <1>3 DEF ClientTypes, attachVars
  <2>3. \A j \in typed : owner[j.attach] = owner[a] => j.seq < s /\ ~(a < j.attach)
    <3>1. \A j \in typed : owner[j.attach] = owner[a] => j.seq < s
      BY <2>1, TypesPast
    <3>2. a \in Nat /\ newest \in Nat
      BY SessionAssumption DEF TypeInv, TypeOK, AttachOK, newest, SessionAssumption
    <3>3. \A j \in typed : a < j.attach => owner[j.attach] # owner[a]
      BY <1>3, <3>2, TypedAre DEF ClientTypes, Current
    <3> QED
      BY <3>1, <3>3
  <2>4. ~(a < a)
    BY SessionAssumption DEF TypeInv, TypeOK, AttachOK, newest, SessionAssumption
  <2> QED
    BY <2>1, <2>2, <2>3, <2>4 DEF Rising
<1>4. CASE Top \/ Ends \/ Program \/ Gone \/ UNCHANGED vars
  BY <1>1, <1>4
     DEF Top, TopEnds, TopIdle, TopWrites, TopDiscards, UnchangedButPhase, Ends, ArmEnded, ArmTtl,
         ArmUnregistered, Break, Closes, Program, ProgramReads, ProgramWrites, ProgramSetsEcho,
         ProgramExits, TerminalCloses, WriterWrites, WriterStops, Gone, vars, attachVars, inputVars
<1>5. CASE Arms
  BY <1>1, <1>2, <1>5
     DEF Arms, ArmOutput, ArmOutputEnds, ArmWakes, ArmSettle, ArmEcho, ArmInput, ArmRedraw,
         ArmResize, ArmDetached, ArmTick, ArmProbe, UnchangedButPhase, attachVars, inputVars
<1>6. CASE Others
  BY <1>1, <1>3, <1>6
     DEF Others, ClientTellsColours, ClientLeaves, ClientAsks, ClientHasEnd, RegistryAttaches,
         RegistryEnds, attachVars, inputVars
<1> QED
  BY <1>4, <1>5, <1>6 DEF Next

LEMMA EchoWrittenNames ==
  ASSUME TypeInv, NEW s, EchoWritten(s), written' = s
  PROVE  Named' \subseteq Named \cup {s}
<1>1. echo \in Seq(1..MaxSeq) /\ Len(echo) \in Nat /\ Len(echo) <= EchoPending
  BY DEF TypeInv, TypeOK, AckOK
<1>2. EchoPending \in Nat \ {0}
  BY SessionAssumption DEF SessionAssumption
<1>3. ASSUME NEW k \in 1..Len(echo')
      PROVE  echo'[k] \in Named \cup {s}
  <2>1. CASE Len(echo) < EchoPending
    BY <1>1, <1>3, <2>1, AppendProperties DEF EchoWritten, Named
  <2>2. CASE ~(Len(echo) < EchoPending)
    <3>1. echo' = [echo EXCEPT ![Len(echo)] = s]
      BY <2>2 DEF EchoWritten
    <3>2. Len(echo') = Len(echo) /\ \A l \in 1..Len(echo) : echo'[l] \in {echo[l], s}
      BY <1>1, <3>1
    <3> QED
      BY <1>3, <3>2 DEF Named
  <2> QED
    BY <2>1, <2>2
<1> QED
  BY <1>3 DEF Named

\* The numbers named stay what they are as inputs are done, and as fewer are named.
LEMMA NamesKept ==
  ASSUME NamesDone, UNCHANGED <<owner, typed>>, Done \subseteq Done', Named' \subseteq Named
  PROVE  NamesDone'
<1>1. Sent(newest)' = Sent(newest)
  BY DEF Sent, newest
<1>2. \A s : DoneUpTo(s) => DoneUpTo(s)'
  BY <1>1 DEF DoneUpTo
<1> QED
  BY <1>2 DEF NamesDone

\* The input that is written was the next: what the newest attachment typed up to it is done.
LEMMA NamesWritten ==
  ASSUME TypeInv, WritesInv, OneClient, Rising, NamesDone, TopWrites
  PROVE  NamesDone'
<1>1. UNCHANGED <<owner, typed, read>> /\ MayWrite
  BY DEF TopWrites, attachVars, MayWrite, InLoop, WriteTaken
<1>2. CASE pending.input = None
  <2>1. UNCHANGED <<wrote, echo, written>>
    BY <1>2 DEF TopWrites
  <2> QED
    BY <1>1, <2>1, NamesKept DEF Named, Done
<1>3. CASE pending.input # None
  <2> DEFINE p == pending.input
  <2>1. wrote' = wrote \cup {p} /\ EchoWritten(p.seq) /\ written' = p.seq
    BY <1>3 DEF TopWrites
  <2>2. p \in typed
    BY <1>3 DEF TypeInv, OnItsWay
  <2>3. Done' = Done \cup {p} /\ newest' = newest /\ Sent(newest)' = Sent(newest)
    BY <1>1, <2>1 DEF Done, Sent, newest
  <2>4. \A s : DoneUpTo(s) => DoneUpTo(s)'
    BY <2>3 DEF DoneUpTo
  <2>5. ASSUME NEW i \in Sent(newest), i.seq <= p.seq
        PROVE  i \in Done'
    <3>1. i \in typed /\ i.attach = newest
      BY DEF Sent
    <3>2. /\ i.seq \in Nat /\ p.seq \in Nat /\ p.attach \in 1..newest /\ newest \in Nat
          /\ i = [attach |-> i.attach, seq |-> i.seq]
          /\ p = [attach |-> p.attach, seq |-> p.seq]
          /\ owner[i.attach] \in Clients /\ owner[p.attach] \in Clients
      BY <2>2, <3>1, TypedAre
    <3>3. CASE p.attach = newest /\ i.seq < p.seq
      BY <1>1, <1>3, <2>3, <3>1, <3>3 DEF WritesInv, PendingNext
    <3>4. CASE p.attach = newest /\ i.seq = p.seq
      BY <2>3, <3>1, <3>2, <3>4
    <3>5. CASE p.attach < newest
      <4>1. p.seq < i.seq
        BY <2>2, <3>1, <3>2, <3>5 DEF Rising, OneClient
      <4> QED
        BY <2>5, <3>2, <4>1
    <3> QED
      BY <2>5, <3>2, <3>3, <3>4, <3>5
  <2>6. PICK s : s = p.seq
    OBVIOUS
  <2>7. DoneUpTo(s)'
    BY <2>3, <2>5, <2>6 DEF DoneUpTo
  <2>8. Named' \subseteq Named \cup {s}
    BY <2>1, <2>6, EchoWrittenNames
  <2> QED
    BY <1>1, <2>2, <2>4, <2>6, <2>7, <2>8 DEF NamesDone
<1> QED
  BY <1>2, <1>3

LEMMA NamesTyped ==
  ASSUME TypeInv, WritesInv, OneClient, NamesDone, NEW a \in live, ClientTypes(a)
  PROVE  NamesDone'
<1>1. PICK s \in 1..MaxSeq : /\ SentBy(owner[a]) = 1..(s - 1)
                             /\ typed' = typed \cup {[attach |-> a, seq |-> s]}
  BY DEF ClientTypes
<1>2. UNCHANGED <<owner, wrote, read, echo, written>>
  BY DEF ClientTypes, attachVars, ptyVars, ackVars
<1>3. newest' = newest /\ Done' = Done /\ Named' = Named
      /\ Sent(newest)' \subseteq Sent(newest) \cup {[attach |-> a, seq |-> s]}
  BY <1>1, <1>2 DEF newest, Done, Named, Sent
<1>4. owner[a] \in Clients /\ s \in Nat \ {0}
  BY SessionAssumption DEF TypeInv, TypeOK, AttachOK, newest, SessionAssumption
<1>5. \A j \in typed : j.seq < s /\ j.seq \in Nat
  BY <1>1, <1>4, TypedAre, TypesPast DEF OneClient
<1>6. ASSUME NEW n \in Named
      PROVE  DoneUpTo(n)' /\ (n = 0 \/ \E j \in typed' : j.seq = n)
  <2>1. DoneUpTo(n) /\ (n = 0 \/ \E j \in typed : j.seq = n)
    BY <1>6 DEF NamesDone
  <2>2. ~(s <= n)
    BY <1>4, <1>5, <2>1
  <2>3. DoneUpTo(n)'
    BY <1>3, <2>1, <2>2 DEF DoneUpTo
  <2> QED
    BY <1>1, <2>1, <2>3
<1> QED
  BY <1>3, <1>6 DEF NamesDone

LEMMA NamesStep ==
  ASSUME TypeInv, WritesInv, OneClient, Rising, NamesDone, WrittenStands, [Next]_vars
  PROVE  NamesDone'
<1>1. Done \subseteq Done'
  BY StandsStep DEF Done
<1>2. CASE UNCHANGED <<owner, typed, echo, written>>
  BY <1>1, <1>2, NamesKept DEF Named
<1>3. CASE ArmEcho
  <2>1. PICK k \in 1..Len(echo) : echo' = SubSeq(echo, k + 1, Len(echo))
    BY <1>3 DEF ArmEcho
  <2>2. UNCHANGED <<owner, typed, written>>
    BY <1>3 DEF ArmEcho, attachVars, inputVars
  <2>3. echo \in Seq(1..MaxSeq) /\ Len(echo) \in Nat
    BY DEF TypeInv, TypeOK, AckOK
  <2>4. \A l \in 1..Len(echo') : k + l \in 1..Len(echo) /\ echo'[l] = echo[k + l]
    BY <2>1, <2>3
  <2>5. Named' \subseteq Named
    BY <2>2, <2>4 DEF Named
  <2> QED
    BY <1>1, <2>2, <2>5, NamesKept
<1>4. CASE ArmAttach
  <2>1. echo' = <<>> /\ written' = 0 /\ typed' = typed
    BY <1>4 DEF ArmAttach, inputVars
  <2>2. Named' = {0}
    BY <2>1 DEF Named
  <2>3. \A i \in Sent(newest)' : ~(i.seq <= 0)
    BY <2>1, TypedAre DEF Sent
  <2> QED
    BY <2>2, <2>3 DEF NamesDone, DoneUpTo
<1>5. CASE Top
  BY <1>2, <1>5, NamesWritten
     DEF Top, TopEnds, TopIdle, TopDiscards, UnchangedButPhase, attachVars, inputVars, ackVars
<1>6. CASE Arms
  BY <1>2, <1>3, <1>4, <1>6
     DEF Arms, ArmOutput, ArmOutputEnds, ArmWakes, ArmSettle, ArmInput, ArmRedraw, ArmResize,
         ArmDetached, ArmTick, ArmProbe, UnchangedButPhase, attachVars, inputVars, ackVars
<1>7. CASE Ends \/ Program \/ Gone \/ UNCHANGED vars
  BY <1>2, <1>7
     DEF Ends, ArmEnded, ArmTtl, ArmUnregistered, Break, Closes, Program, ProgramReads,
         ProgramWrites, ProgramSetsEcho, ProgramExits, TerminalCloses, WriterWrites, WriterStops,
         Gone, vars, attachVars, inputVars, ackVars
<1>8. CASE Others
  BY <1>2, <1>8, NamesTyped
     DEF Others, ClientTellsColours, ClientLeaves, ClientAsks, ClientHasEnd, RegistryAttaches,
         RegistryEnds, attachVars, inputVars, ackVars
<1> QED
  BY <1>5, <1>6, <1>7, <1>8 DEF Next

LEMMA EchoStep ==
  ASSUME TypeInv, WritesInv, OneClient, EchoInv, [Next]_vars
  PROVE  EchoInv'
<1> USE DEF EchoInv
<1>1. Rising' /\ NamesDone' /\ WrittenStands'
  BY RisingStep, NamesStep, StandsStep
<1>2. wrote \subseteq wrote' /\ read \subseteq read' /\ lost \subseteq lost'
  BY StandsStep
<1>3. EchoedWasWritten'
  <2>1. CASE acked' = acked
    BY <1>2, <2>1 DEF EchoedWasWritten
  <2>2. CASE ArmEcho
    <3>1. PICK k \in 1..Len(echo) : acked' = acked \cup TakenForEchoed(echo[k])
      BY <2>2 DEF ArmEcho
    <3>2. TakenForEchoed(echo[k]) \subseteq Done
      BY DEF NamesDone, Named, DoneUpTo, TakenForEchoed
    <3> QED
      BY <1>2, <3>1, <3>2 DEF EchoedWasWritten, Done
  <2>3. acked' = acked \/ ArmEcho
    BY DEF Next, Top, TopEnds, TopIdle, TopWrites, TopDiscards, UnchangedButPhase, Arms, ArmOutput,
           ArmOutputEnds, ArmWakes, ArmSettle, ArmInput, ArmRedraw, ArmResize, ArmAttach,
           ArmDetached, ArmTick, ArmProbe, Ends, ArmEnded, ArmTtl, ArmUnregistered, Break, Closes,
           Program, ProgramReads, ProgramWrites, ProgramSetsEcho, ProgramExits, TerminalCloses,
           WriterWrites, WriterStops, Others, ClientTypes, ClientTellsColours, ClientLeaves,
           ClientAsks, ClientHasEnd, RegistryAttaches, RegistryEnds, Gone, vars, ackVars
  <2> QED
    BY <2>1, <2>2, <2>3
<1>4. ClaimsButLost'
  <2>1. \/ claimed' = claimed
        \/ ~KeysLeft /\ claimed' = claimed \cup Concluded(written)
    <3>1. CASE TopEnds \/ ArmOutput \/ ArmProbe
      BY <3>1 DEF TopEnds, ArmOutput, ArmProbe, Report, MayRead
    <3>2. TopEnds \/ ArmOutput \/ ArmProbe \/ claimed' = claimed
      BY DEF Next, Top, TopIdle, TopWrites, TopDiscards, UnchangedButPhase, Arms, ArmOutputEnds,
             ArmWakes, ArmSettle, ArmEcho, ArmInput, ArmRedraw, ArmResize, ArmAttach,
             ArmDetached, ArmTick, Ends, ArmEnded, ArmTtl, ArmUnregistered, Break, Closes, Program,
             ProgramReads, ProgramWrites, ProgramSetsEcho, ProgramExits, TerminalCloses,
             WriterWrites, WriterStops, Others, ClientTypes, ClientTellsColours, ClientLeaves,
             ClientAsks, ClientHasEnd, RegistryAttaches, RegistryEnds, Gone, vars, ackVars
    <3> QED
      BY <3>1, <3>2
  <2> QED
    BY <1>2, <2>1, Concludes DEF ClaimsButLost
<1> QED
  BY <1>1, <1>3, <1>4

LEMMA EchoInvariant == ASSUME OneClient PROVE Spec => [](WritesInv /\ EchoInv)
<1>1. Init => WritesInv /\ EchoInv
  BY WritesInit, EchoInit
<1>2. TypeInv /\ (WritesInv /\ EchoInv) /\ [Next]_vars => (WritesInv /\ EchoInv)'
  BY WritesStep, EchoStep
<1> QED
  BY <1>1, <1>2, TypeInvariant, PTL DEF Spec

\* One client's keys, over any reconnects, are written without gaps, and those it takes for echoed
\* did reach the program (EchoAck, Session::client).
THEOREM KeysTrue == ASSUME OneClient PROVE Spec => []KeysAreTrue
<1>1. WritesInv /\ EchoInv => KeysAreTrue
  BY DEF WritesInv, EchoInv, KeysAreTrue
<1> QED
  BY <1>1, EchoInvariant, PTL

\* What one client is told was read, by a report or by the exit, was read or dropped by the writer
\* as the terminal closed (Session::probe, Pty::keys_left, Shown::Exit).
THEOREM ClaimsHold == ASSUME OneClient PROVE Spec => []ClaimsButLost
<1>1. WritesInv /\ EchoInv => ClaimsButLost
  BY DEF EchoInv
<1> QED
  BY <1>1, EchoInvariant, PTL

(***************************************************************************)
(* What ends a session.                                                    *)
(***************************************************************************)
\* Nobody is attached to a session since when it counts as detached.
DetachedIsEmpty == detached => live = {}

LEMMA DetachedStep == ASSUME DetachedIsEmpty, [Next]_vars PROVE DetachedIsEmpty'
<1> USE DEF DetachedIsEmpty
<1>1. CASE UNCHANGED <<live, detached>>
  BY <1>1
<1>2. CASE ArmAttach
  BY <1>2 DEF ArmAttach, DetachedAfterAttach
<1>3. CASE ArmDetached
  BY <1>3 DEF ArmDetached, attachVars
<1>4. ASSUME NEW a, ClientLeaves(a)
      PROVE  DetachedIsEmpty'
  BY <1>4 DEF ClientLeaves, taskVars
<1>5. CASE Top
  BY <1>1, <1>5
     DEF Top, TopEnds, TopIdle, TopWrites, TopDiscards, UnchangedButPhase, attachVars
<1>6. CASE Arms
  BY <1>1, <1>2, <1>3, <1>6
     DEF Arms, ArmOutput, ArmOutputEnds, ArmWakes, ArmSettle, ArmEcho, ArmInput, ArmRedraw,
         ArmResize, ArmTick, ArmProbe, UnchangedButPhase, attachVars
<1>7. CASE Ends \/ Program \/ Gone \/ UNCHANGED vars
  BY <1>1, <1>7
     DEF Ends, ArmEnded, ArmTtl, ArmUnregistered, Break, Closes, Program, ProgramReads,
         ProgramWrites, ProgramSetsEcho, ProgramExits, TerminalCloses, WriterWrites, WriterStops,
         Gone, vars, attachVars, taskVars
<1>8. CASE Others
  BY <1>1, <1>4, <1>8
     DEF Others, ClientTypes, ClientTellsColours, ClientAsks, ClientHasEnd, RegistryAttaches,
         RegistryEnds, attachVars, taskVars
<1> QED
  BY <1>5, <1>6, <1>7, <1>8 DEF Next

\* A step that leaves the loop is one of the three ends.
LEMMA LeavesLoop ==
  ASSUME [Next]_vars, phase = "select", phase' = "closing"
  PROVE  ArmEnded \/ ArmTtl \/ ArmUnregistered
<1>1. ~Top /\ ~Closes
  BY DEF Top, TopEnds, TopIdle, TopWrites, TopDiscards, Closes
<1>2. ~Arms
  BY DEF Arms, ArmOutput, ArmOutputEnds, ArmWakes, ArmSettle, ArmEcho, ArmInput, ArmRedraw,
         ArmResize, ArmAttach, ArmDetached, ArmTick, ArmProbe, Woken
<1>3. ~Program /\ ~Gone /\ ~UNCHANGED vars
  BY DEF Program, ProgramReads, ProgramWrites, ProgramSetsEcho, ProgramExits, TerminalCloses,
         WriterWrites, WriterStops, Gone, vars, taskVars
<1>4. ~Others
  BY DEF Others, ClientTypes, ClientTellsColours, ClientLeaves, ClientAsks, ClientHasEnd,
         RegistryAttaches, RegistryEnds, taskVars
<1> QED
  BY <1>1, <1>2, <1>3, <1>4 DEF Next, Ends

\* A session that has a client ends only as the registry drops it or its program's end was told: the
\* TTL of one detached before never takes it (Presence, Ask::Describe, Session::client).
THEOREM KeptAttached == Spec => KeptWhileAttached
<1>1. Init => DetachedIsEmpty
  BY DEF Init, DetachedIsEmpty
<1>2. DetachedIsEmpty /\ [Next]_vars => DetachedIsEmpty'
  BY DetachedStep
<1>3. DetachedIsEmpty /\ [Next]_vars
        => [phase = "select" /\ phase' = "closing" => live = {} \/ ~registered \/ exited]_vars
  BY LeavesLoop DEF DetachedIsEmpty, ArmEnded, ArmTtl, ArmUnregistered, Running
<1> QED
  BY <1>1, <1>2, <1>3, PTL DEF Spec, KeptWhileAttached
=============================================================================
