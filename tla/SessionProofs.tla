--------------------------- MODULE SessionProofs ---------------------------
(***************************************************************************)
(* Proofs about Session, for every value of its constants.                 *)
(***************************************************************************)
EXTENDS Session, SequenceTheorems, TLAPS

\* Attaches handed to the task and not yet taken count against the bound on them.
AttachesBounded == newest + Len(control) <= MaxAttach

\* An input on its way to the program is one a client sent.
OnItsWay ==
    /\ pending.input # None => pending.input \in typed
    /\ \A k \in 1..Len(inq) : inq[k].seq # 0 => inq[k] \in typed

TypeInv == TypeOK /\ AttachesBounded /\ OnItsWay

LEMMA OutStep == ASSUME TypeInv, SessionAssumption, [Next]_vars PROVE OutOK'
<1> USE DEF TypeInv, TypeOK
<1>1. CASE UNCHANGED <<outVars, ttyVars>>
  BY <1>1 DEF OutOK, outVars, ttyVars
<1>2. CASE TopEnds \/ ArmRedraw
  BY <1>2 DEF TopEnds, ArmRedraw, OutOK, Release, ReleaseAndStart, ttyVars
<1>3. CASE ArmOutput
  BY <1>3 DEF ArmOutput, OutOK, Release, Least, SettlingOfHeld, SessionAssumption
<1>4. CASE ArmSettle \/ ArmTick
  BY <1>4 DEF ArmSettle, ArmTick, OutOK, Release, SessionAssumption, ModesAtTick, outVars
<1>5. CASE ArmAttach
  <2>1. told' = processed
    BY <1>5 DEF ArmAttach, Release, ReleaseAndStart
  <2>2. UNCHANGED <<out, processed, settle, ttyVars>>
    BY <1>5 DEF ArmAttach
  <2> QED
    BY <2>1, <2>2 DEF OutOK, ttyVars
<1>6. CASE ProgramWrites \/ ProgramSetsEcho
  BY <1>6 DEF ProgramWrites, ProgramSetsEcho, OutOK, ttyVars, outVars, SessionAssumption
<1>7. CASE Top
  BY <1>1, <1>2, <1>7 DEF Top, TopIdle, TopWrites, TopDiscards, UnchangedButPhase
<1>8. CASE Arms
  BY <1>1, <1>2, <1>3, <1>4, <1>5, <1>8
     DEF Arms, ArmOutputEnds, ArmWakes, ArmEcho, ArmInput, ArmResize, ArmDetached, ArmProbe,
         UnchangedButPhase
<1>9. CASE Ends
  BY <1>1, <1>9 DEF Ends, ArmEnded, ArmTtl, ArmUnregistered, Break, Closes
<1>10. CASE Program
  BY <1>1, <1>6, <1>10
     DEF Program, ProgramReads, ProgramExits, TerminalCloses, WriterWrites, WriterStops
<1>11. CASE Others
  BY <1>1, <1>11
     DEF Others, ClientTypes, ClientTellsColours, ClientLeaves, ClientAsks, ClientHasEnd,
         RegistryAttaches, RegistryEnds
<1>12. CASE Gone \/ UNCHANGED vars
  BY <1>1, <1>12 DEF Gone, vars
<1> QED
  BY <1>7, <1>8, <1>9, <1>10, <1>11, <1>12 DEF Next

LEMMA EndStep == ASSUME TypeInv, [Next]_vars PROVE EndOK'
<1> USE DEF TypeInv, TypeOK
<1>1. CASE UNCHANGED endVars
  BY <1>1 DEF EndOK, endVars
<1>2. CASE Top
  BY <1>1, <1>2 DEF Top, TopEnds, TopIdle, TopWrites, TopDiscards, UnchangedButPhase, EndOK
<1>3. CASE Arms
  BY <1>1, <1>3
     DEF Arms, ArmOutput, ArmOutputEnds, ArmWakes, ArmSettle, ArmEcho, ArmInput, ArmRedraw,
         ArmResize, ArmAttach, ArmDetached, ArmTick, ArmProbe, UnchangedButPhase, ExitLookedFor,
         EndOK
<1>4. CASE Ends
  BY <1>1, <1>4 DEF Ends, ArmEnded, ArmTtl, ArmUnregistered, Break, Closes, EndOK
<1>5. CASE Program
  BY <1>1, <1>5
     DEF Program, ProgramReads, ProgramWrites, ProgramSetsEcho, ProgramExits, TerminalCloses,
         WriterWrites, WriterStops, EndOK
<1>6. CASE Others
  BY <1>1, <1>6
     DEF Others, ClientTypes, ClientTellsColours, ClientLeaves, ClientAsks, ClientHasEnd,
         RegistryAttaches, RegistryEnds
<1>7. CASE Gone \/ UNCHANGED vars
  BY <1>1, <1>7 DEF Gone, vars
<1> QED
  BY <1>2, <1>3, <1>4, <1>5, <1>6, <1>7 DEF Next

\* What an attachment or an attach on its way is: owner, live, shown, knows and control.
AttachInv == AttachOK /\ control \in Seq(Clients) /\ Len(control) <= ControlQueue /\ AttachesBounded

LEMMA AttachStep == ASSUME TypeInv, SessionAssumption, [Next]_vars PROVE AttachInv'
<1> USE DEF TypeInv, TypeOK, AttachInv, AttachesBounded
<1>1. CASE UNCHANGED <<attachVars, control>>
  BY <1>1 DEF AttachOK, TaskOK, attachVars, newest
<1>2. ASSUME NEW n \in Nat, n >= told, Release(n)
      PROVE  shown' \in [Attachment -> Nat]
  BY <1>2 DEF Release, AttachOK, OutOK
<1>3. ASSUME NEW a, ReleaseAndStart(a)
      PROVE  shown' \in [Attachment -> Nat]
  BY <1>3 DEF ReleaseAndStart, AttachOK, OutOK
<1>4. processed \in Nat /\ processed >= told /\ told \in Nat
  BY SessionAssumption DEF OutOK, SessionAssumption
<1>5. CASE TopEnds
  BY <1>2, <1>4, <1>5 DEF TopEnds, AttachOK, TaskOK, newest
<1>6. CASE ArmOutput
  <2>1. processed' \in Nat /\ processed' >= told
    <3>1. /\ out \in Nat /\ ChunksAtOnce \in Nat /\ processed < out
          /\ processed' = Least(out, processed + 1 + ChunksAtOnce)
      BY <1>6, SessionAssumption DEF ArmOutput, OutOK, SessionAssumption
    <3> QED
      BY <1>4, <3>1 DEF Least
  <2>2. shown' \in [Attachment -> Nat]
    BY <1>2, <1>6, <2>1 DEF ArmOutput, AttachOK
  <2> QED
    BY <1>6, <2>2 DEF ArmOutput, AttachOK, TaskOK, newest
<1>7. CASE ArmSettle
  BY <1>2, <1>4, <1>7 DEF ArmSettle, AttachOK, TaskOK, newest
<1>8. CASE ArmRedraw
  <2>1. shown' \in [Attachment -> Nat]
    BY <1>2, <1>3, <1>4, <1>8 DEF ArmRedraw
  <2>2. UNCHANGED <<owner, live, control>>
    BY <1>8 DEF ArmRedraw
  <2>3. knows' \subseteq 1..newest
    BY <1>8 DEF ArmRedraw, KnowsFromStart, AttachOK
  <2> QED
    BY <2>1, <2>2, <2>3 DEF AttachOK, TaskOK, newest
<1>9. CASE ArmAttach
  <2>1. shown' \in [Attachment -> Nat]
    BY <1>2, <1>3, <1>4, <1>9 DEF ArmAttach
  <2>2. /\ owner' = Append(owner, Head(control)) /\ control' = Tail(control)
        /\ control # <<>>
    BY <1>9 DEF ArmAttach
  <2>3. /\ owner' \in Seq(Clients) /\ Len(owner') = Len(owner) + 1
        /\ control' \in Seq(Clients) /\ Len(control') = Len(control) - 1
        /\ Len(control) \in Nat \ {0}
    BY <2>2, EmptySeq, HeadTailProperties, AppendProperties DEF AttachOK, TaskOK
  <2>4. live' \subseteq live \cup {newest + 1} /\ knows' \subseteq knows \cup {newest + 1}
    BY <1>9 DEF ArmAttach, KnowsFromStart
  <2>5. newest \in Nat /\ newest' = newest + 1 /\ newest' \in 1..MaxAttach
    BY <2>3, SessionAssumption DEF AttachOK, TaskOK, newest, SessionAssumption
  <2>6. live' \subseteq 1..newest' /\ knows' \subseteq 1..newest'
    BY <2>4, <2>5 DEF AttachOK
  <2>7. newest' + Len(control') <= MaxAttach /\ Len(control') <= ControlQueue
    BY <2>3, <2>5, SessionAssumption DEF TaskOK, newest, SessionAssumption
  <2> QED
    BY <2>1, <2>3, <2>5, <2>6, <2>7 DEF AttachOK
<1>10. CASE Top
  BY <1>1, <1>5, <1>10 DEF Top, TopIdle, TopWrites, TopDiscards, UnchangedButPhase
<1>11. CASE Arms
  BY <1>1, <1>6, <1>7, <1>8, <1>9, <1>11
     DEF Arms, ArmOutputEnds, ArmWakes, ArmEcho, ArmInput, ArmResize, ArmDetached, ArmTick,
         ArmProbe, UnchangedButPhase
<1>12. CASE Break
  BY <1>12 DEF Break, AttachOK, TaskOK, attachVars, newest
<1>13. CASE Ends
  BY <1>1, <1>12, <1>13 DEF Ends, ArmEnded, ArmTtl, ArmUnregistered, Closes
<1>14. CASE Program
  BY <1>1, <1>14
     DEF Program, ProgramReads, ProgramWrites, ProgramSetsEcho, ProgramExits, TerminalCloses,
         WriterWrites, WriterStops, taskVars
<1>15. ASSUME NEW a \in live, ClientLeaves(a)
       PROVE  AttachInv'
  BY <1>15 DEF ClientLeaves, AttachOK, TaskOK, taskVars, newest
<1>16. ASSUME NEW c \in Clients, RegistryAttaches(c)
       PROVE  AttachInv'
  BY <1>16 DEF RegistryAttaches, AttachOK, TaskOK, attachVars, newest
<1>17. CASE Others
  BY <1>1, <1>15, <1>16, <1>17
     DEF Others, ClientTypes, ClientTellsColours, ClientAsks, ClientHasEnd, RegistryEnds, taskVars
<1>18. CASE Gone \/ UNCHANGED vars
  BY <1>1, <1>18 DEF Gone, vars, taskVars
<1> QED
  BY <1>10, <1>11, <1>13, <1>14, <1>17, <1>18 DEF Next

InputInv == InputOK /\ OnItsWay

LEMMA InputStep == ASSUME TypeInv, SessionAssumption, [Next]_vars PROVE InputInv'
<1> USE DEF TypeInv, TypeOK, InputInv
<1>1. CASE UNCHANGED inputVars
  BY <1>1 DEF InputOK, OnItsWay, inputVars
<1>2. CASE UNCHANGED <<typed, inq, wrote>> /\ pending' \in [bytes : BOOLEAN, input : {pending.input, None}]
  BY <1>2 DEF InputOK, OnItsWay
<1>3. CASE TopEnds \/ TopDiscards
  <2>1. pending' = NoPending /\ UNCHANGED <<typed, inq, wrote>>
    BY <1>3 DEF TopEnds, TopDiscards
  <2> QED
    BY <1>2, <2>1 DEF NoPending
<1>4. CASE TopWrites
  <2>1. pending' = NoPending /\ UNCHANGED <<typed, inq>>
    BY <1>4 DEF TopWrites
  <2>2. wrote' \subseteq typed
    BY <1>4 DEF TopWrites, InputOK, OnItsWay
  <2> QED
    BY <2>1, <2>2 DEF InputOK, OnItsWay, NoPending
<1>5. CASE ArmOutput \/ ArmResize
  <2>1. UNCHANGED <<typed, inq, wrote>>
    BY <1>5 DEF ArmOutput, ArmResize
  <2>2. \E b \in BOOLEAN : pending' = [pending EXCEPT !.bytes = pending.bytes \/ b]
    BY <1>5 DEF ArmOutput, ArmResize, InputOK
  <2>3. pending' \in [bytes : BOOLEAN, input : {pending.input, None}]
    BY <2>2 DEF InputOK
  <2> QED
    BY <1>2, <2>1, <2>3
<1>6. CASE ArmInput
  <2>1. UNCHANGED <<typed, wrote>> /\ inq # <<>> /\ inq' = Tail(inq)
    BY <1>6 DEF ArmInput
  <2>2. inq' \in Seq(Input) /\ Len(inq') = Len(inq) - 1 /\ Len(inq) \in Nat
        /\ \A k \in 1..Len(inq') : inq'[k] = inq[k + 1] /\ k + 1 \in 1..Len(inq)
    BY <2>1 DEF InputOK
  <2>3. Head(inq) \in Input /\ (Head(inq).seq # 0 => Head(inq) \in typed)
    BY <2>1, EmptySeq DEF InputOK, OnItsWay
  <2>4. /\ pending' \in [bytes : BOOLEAN, input : Keys \cup {None}]
        /\ pending'.input # None => pending'.input \in typed
    <3>1. CASE pending' = pending
      BY <3>1 DEF InputOK, OnItsWay
    <3>2. ASSUME NEW b \in BOOLEAN,
                 pending' = [bytes |-> b,
                             input |-> IF Head(inq).seq = 0 THEN pending.input ELSE Head(inq)]
          PROVE  <2>4!1 /\ <2>4!2
      BY <3>2, <2>3 DEF InputOK, OnItsWay, Keys
    <3> QED
      BY <1>6, <3>1, <3>2 DEF ArmInput
  <2> QED
    BY <2>1, <2>2, <2>3, <2>4 DEF InputOK, OnItsWay
<1>7. CASE Break
  BY <1>7, SessionAssumption DEF Break, InputOK, OnItsWay, SessionAssumption
<1>8. ASSUME NEW a \in live, ClientTypes(a)
      PROVE  InputInv'
  <2>1. PICK s \in 1..MaxSeq : /\ inq' = Append(inq, [attach |-> a, seq |-> s])
                               /\ typed' = typed \cup {[attach |-> a, seq |-> s]}
    BY <1>8 DEF ClientTypes
  <2>2. [attach |-> a, seq |-> s] \in Keys
    BY SessionAssumption DEF AttachOK, Keys, Input, Attachment, SessionAssumption
  <2>3. UNCHANGED <<pending, wrote>> /\ Len(inq) < InputQueue
    BY <1>8 DEF ClientTypes
  <2> QED
    BY <2>1, <2>2, <2>3, SessionAssumption DEF InputOK, OnItsWay, Keys, SessionAssumption
<1>9. ASSUME NEW a \in live, ClientTellsColours(a)
      PROVE  InputInv'
  <2>1. [attach |-> a, seq |-> 0] \in Input
    BY SessionAssumption DEF AttachOK, Input, Attachment, SessionAssumption
  <2> QED
    BY <1>9, <2>1, SessionAssumption DEF ClientTellsColours, InputOK, OnItsWay, SessionAssumption
<1>10. CASE Top
  BY <1>1, <1>3, <1>4, <1>10 DEF Top, TopIdle, UnchangedButPhase
<1>11. CASE Arms
  BY <1>1, <1>5, <1>6, <1>11
     DEF Arms, ArmOutputEnds, ArmWakes, ArmSettle, ArmEcho, ArmRedraw, ArmAttach, ArmDetached,
         ArmTick, ArmProbe, UnchangedButPhase
<1>12. CASE Ends
  BY <1>1, <1>7, <1>12 DEF Ends, ArmEnded, ArmTtl, ArmUnregistered, Closes
<1>13. CASE Program
  BY <1>1, <1>13
     DEF Program, ProgramReads, ProgramWrites, ProgramSetsEcho, ProgramExits, TerminalCloses,
         WriterWrites, WriterStops
<1>14. CASE Others
  BY <1>1, <1>8, <1>9, <1>14
     DEF Others, ClientLeaves, ClientAsks, ClientHasEnd, RegistryAttaches, RegistryEnds
<1>15. CASE Gone \/ UNCHANGED vars
  BY <1>1, <1>15 DEF Gone, vars
<1> QED
  BY <1>10, <1>11, <1>12, <1>13, <1>14, <1>15 DEF Next

LEMMA PtyStep == ASSUME TypeInv, SessionAssumption, [Next]_vars PROVE PtyOK'
<1> USE DEF TypeInv, TypeOK
<1>1. CASE UNCHANGED ptyVars
  BY <1>1 DEF PtyOK, ptyVars
<1>2. CASE TopWrites
  BY <1>2, SessionAssumption DEF TopWrites, WriteTaken, PtyOK, InputOK, SessionAssumption
<1>3. CASE ArmInput
  <2>1. Head(inq) \in Input
    BY <1>3, EmptySeq DEF ArmInput, InputOK
  <2>2. read' \subseteq Keys
    BY <1>3, <2>1 DEF ArmInput, PtyOK, Keys
  <2> QED
    BY <1>3, <2>2 DEF ArmInput, PtyOK
<1>4. CASE ArmAttach
  <2>1. UNCHANGED <<tq, read, lost, writer>>
    BY <1>4 DEF ArmAttach
  <2>2. CASE UNCHANGED wq
    BY <2>1, <2>2 DEF PtyOK
  <2>3. CASE WriteTaken /\ wq' = Append(wq, None)
    BY <2>1, <2>3, SessionAssumption DEF WriteTaken, PtyOK, SessionAssumption
  <2> QED
    BY <1>4, <2>2, <2>3 DEF ArmAttach
<1>5. ASSUME NEW q \in Seq(Keys \cup {None})
      PROVE  InputsOf(q) \subseteq Keys
  BY <1>5 DEF InputsOf
<1>6. CASE Closes \/ WriterStops
  <2>1. /\ wq' = <<>> /\ writer' = FALSE /\ UNCHANGED <<tq, read>>
        /\ lost' = lost \cup InputsOf(wq)
    BY <1>6 DEF Closes, WriterStops
  <2>2. InputsOf(wq) \subseteq Keys
    BY <1>5 DEF PtyOK
  <2>3. wq' \in Seq(Keys \cup {None}) /\ Len(wq') <= PtyRoom
    BY <2>1, SessionAssumption, EmptySeq DEF SessionAssumption
  <2>4. tq' = tq /\ read' = read /\ writer' \in BOOLEAN /\ lost' \subseteq lost \cup Keys
    BY <2>1, <2>2
  <2> QED
    BY <2>3, <2>4 DEF PtyOK
<1>7. CASE ProgramReads
  <2>1. tq' = Tail(tq) /\ tq # <<>> /\ UNCHANGED <<wq, lost, writer>>
        /\ read' = IF Head(tq) = None THEN read ELSE read \cup {Head(tq)}
    BY <1>7 DEF ProgramReads
  <2>2. Head(tq) \in Keys \cup {None} /\ Tail(tq) \in Seq(Keys \cup {None}) /\ Len(Tail(tq)) <= TtyRoom
    BY <2>1, SessionAssumption, EmptySeq DEF PtyOK, SessionAssumption
  <2> QED
    BY <2>1, <2>2 DEF PtyOK
<1>8. CASE WriterWrites
  <2>1. tq' = Append(tq, Head(wq)) /\ wq' = Tail(wq) /\ wq # <<>> /\ Len(tq) < TtyRoom
        /\ UNCHANGED <<read, lost, writer>>
    BY <1>8 DEF WriterWrites
  <2>2. Head(wq) \in Keys \cup {None} /\ Tail(wq) \in Seq(Keys \cup {None}) /\ Len(Tail(wq)) <= PtyRoom
    BY <2>1, SessionAssumption, EmptySeq DEF PtyOK, SessionAssumption
  <2> QED
    BY <2>1, <2>2, SessionAssumption DEF PtyOK, SessionAssumption
<1>9. CASE Top
  BY <1>1, <1>2, <1>9 DEF Top, TopEnds, TopIdle, TopDiscards, UnchangedButPhase
<1>10. CASE Arms
  BY <1>1, <1>3, <1>4, <1>10
     DEF Arms, ArmOutput, ArmOutputEnds, ArmWakes, ArmSettle, ArmEcho, ArmRedraw, ArmResize,
         ArmDetached, ArmTick, ArmProbe, UnchangedButPhase
<1>11. CASE Ends
  BY <1>1, <1>6, <1>11 DEF Ends, ArmEnded, ArmTtl, ArmUnregistered, Break
<1>12. CASE Program
  BY <1>1, <1>6, <1>7, <1>8, <1>12
     DEF Program, ProgramWrites, ProgramSetsEcho, ProgramExits, TerminalCloses
<1>13. CASE Others
  BY <1>1, <1>13
     DEF Others, ClientTypes, ClientTellsColours, ClientLeaves, ClientAsks, ClientHasEnd,
         RegistryAttaches, RegistryEnds
<1>14. CASE Gone \/ UNCHANGED vars
  BY <1>1, <1>14 DEF Gone, vars
<1> QED
  BY <1>9, <1>10, <1>11, <1>12, <1>13, <1>14 DEF Next

LEMMA AckStep == ASSUME TypeInv, SessionAssumption, [Next]_vars PROVE AckOK'
<1> USE DEF TypeInv, TypeOK
<1>1. CASE UNCHANGED ackVars
  BY <1>1 DEF AckOK, ackVars
<1>2. \A s : Concluded(s) \subseteq Keys /\ TakenForEchoed(s) \subseteq Keys
  BY DEF Concluded, TakenForEchoed, Sent, InputOK
<1>3. ASSUME NEW n, Report(n)
      PROVE  claimed' \subseteq Keys
  BY <1>2, <1>3 DEF Report, AckOK
<1>4. CASE TopEnds
  <2>1. UNCHANGED <<echo, written, acked>> /\ claimed' \subseteq claimed \cup Concluded(written)
    BY <1>4 DEF TopEnds
  <2> QED
    BY <1>2, <2>1 DEF AckOK
<1>5. CASE TopWrites
  <2>1. CASE pending.input = None
    BY <1>5, <2>1 DEF TopWrites, AckOK
  <2>2. CASE pending.input # None
    <3>1. pending.input.seq \in 1..MaxSeq
      BY <2>2, SessionAssumption DEF InputOK, Keys, Input, SessionAssumption
    <3>2. EchoWritten(pending.input.seq) /\ written' = pending.input.seq /\ UNCHANGED <<acked, claimed>>
      BY <1>5, <2>2 DEF TopWrites
    <3>3. CASE Len(echo) < EchoPending
      BY <3>1, <3>2, <3>3, SessionAssumption DEF EchoWritten, AckOK, SessionAssumption
    <3>4. CASE ~(Len(echo) < EchoPending)
      <4>1. Len(echo) \in 1..Len(echo)
        BY <3>4, SessionAssumption DEF AckOK, SessionAssumption
      <4>2. echo' = [echo EXCEPT ![Len(echo)] = pending.input.seq]
        BY <3>2, <3>4 DEF EchoWritten
      <4>3. echo' \in Seq(1..MaxSeq) /\ Len(echo') = Len(echo)
        BY <3>1, <4>1, <4>2, ExceptSeq DEF AckOK
      <4> QED
        BY <3>1, <3>2, <4>3, SessionAssumption DEF AckOK, SessionAssumption
    <3> QED
      BY <3>3, <3>4
  <2> QED
    BY <2>1, <2>2
<1>6. CASE ArmOutput \/ ArmProbe
  <2>1. UNCHANGED <<echo, written, acked>>
    BY <1>6 DEF ArmOutput, ArmProbe
  <2>2. claimed' \subseteq Keys
    BY <1>3, <1>6 DEF ArmOutput, ArmProbe, AckOK
  <2> QED
    BY <2>1, <2>2 DEF AckOK
<1>7. CASE ArmEcho
  <2>1. PICK k \in 1..Len(echo) : /\ echo' = SubSeq(echo, k + 1, Len(echo))
                                 /\ acked' = acked \cup TakenForEchoed(echo[k])
    BY <1>7 DEF ArmEcho
  <2>2. UNCHANGED <<written, claimed>>
    BY <1>7 DEF ArmEcho
  <2>3. echo' \in Seq(1..MaxSeq) /\ Len(echo') <= Len(echo) /\ Len(echo) \in Nat /\ Len(echo') \in Nat
    <3>1. \A i \in (k + 1)..Len(echo) : echo[i] \in 1..MaxSeq
      BY <2>1 DEF AckOK
    <3>2. k + 1 \in 1..(Len(echo) + 1) /\ Len(echo) \in Nat
      BY DEF AckOK
    <3> QED
      BY <2>1, <3>1, <3>2, SubSeqProperties DEF AckOK
  <2> QED
    BY <1>2, <2>1, <2>2, <2>3, SessionAssumption DEF AckOK, SessionAssumption
<1>8. CASE ArmAttach
  <2>1. echo' = <<>> /\ written' = 0 /\ UNCHANGED <<acked, claimed>>
    BY <1>8 DEF ArmAttach
  <2> QED
    BY <2>1, SessionAssumption, EmptySeq DEF AckOK, SessionAssumption
<1>9. CASE Top
  BY <1>1, <1>4, <1>5, <1>9 DEF Top, TopIdle, TopDiscards, UnchangedButPhase
<1>10. CASE Arms
  BY <1>1, <1>6, <1>7, <1>8, <1>10
     DEF Arms, ArmOutputEnds, ArmWakes, ArmSettle, ArmInput, ArmRedraw, ArmResize, ArmDetached,
         ArmTick, UnchangedButPhase
<1>11. CASE Ends
  BY <1>1, <1>11 DEF Ends, ArmEnded, ArmTtl, ArmUnregistered, Break, Closes
<1>12. CASE Program
  BY <1>1, <1>12
     DEF Program, ProgramReads, ProgramWrites, ProgramSetsEcho, ProgramExits, TerminalCloses,
         WriterWrites, WriterStops
<1>13. CASE Others
  BY <1>1, <1>13
     DEF Others, ClientTypes, ClientTellsColours, ClientLeaves, ClientAsks, ClientHasEnd,
         RegistryAttaches, RegistryEnds
<1>14. CASE Gone \/ UNCHANGED vars
  BY <1>1, <1>14 DEF Gone, vars
<1> QED
  BY <1>9, <1>10, <1>11, <1>12, <1>13, <1>14 DEF Next

LEMMA TaskStep == ASSUME TypeInv, SessionAssumption, [Next]_vars PROVE TaskOK'
<1> USE DEF TypeInv, TypeOK
<1> DEFINE Plain == phase' \in {"top", "select", "closing", "gone"}
                     /\ registered' \in BOOLEAN /\ detached' \in BOOLEAN
           Asks == asks' \in Seq(Ask) /\ Len(asks') <= AskQueue
<1>1. control' \in Seq(Clients) /\ Len(control') <= ControlQueue
  BY AttachStep, SessionAssumption DEF AttachInv
<1>3. CASE UNCHANGED <<registered, detached, asks>> /\ phase' \in {phase, "top", "select", "gone"}
  BY <1>1, <1>3 DEF TaskOK
<1>4. CASE ArmRedraw \/ ArmResize
  <2>1. asks' = Tail(asks) /\ asks # <<>> /\ UNCHANGED <<registered, detached>> /\ phase' = "top"
    BY <1>4 DEF ArmRedraw, ArmResize, Woken
  <2>2. Asks
    BY <2>1, HeadTailProperties, SessionAssumption DEF TaskOK, SessionAssumption
  <2> QED
    BY <1>1, <2>1, <2>2 DEF TaskOK
<1>5. CASE ArmAttach
  <2>1. UNCHANGED <<registered, asks>> /\ phase' = "top" /\ detached' \in BOOLEAN
    BY <1>5 DEF ArmAttach, Woken, DetachedAfterAttach, TaskOK
  <2> QED
    BY <1>1, <2>1 DEF TaskOK
<1>6. CASE ArmDetached
  BY <1>1, <1>6 DEF ArmDetached, Woken, TaskOK
<1>7. CASE Break
  <2>1. asks' = <<>> /\ phase' = "closing" /\ UNCHANGED <<registered, detached>>
    BY <1>7 DEF Break
  <2> QED
    BY <1>1, <2>1, EmptySeq, SessionAssumption DEF TaskOK, SessionAssumption
<1>8. ASSUME NEW q \in Ask, AskRoom, asks' = Append(asks, q), UNCHANGED <<phase, registered, detached>>
      PROVE  TaskOK'
  <2>1. Asks
    BY <1>8, AppendProperties, SessionAssumption DEF AskRoom, TaskOK, SessionAssumption
  <2> QED
    BY <1>1, <1>8, <2>1 DEF TaskOK
<1>9. ASSUME NEW a \in live, ClientAsks(a) \/ ClientHasEnd(a)
      PROVE  TaskOK'
  <2>1. a \in Attachment
    BY SessionAssumption DEF AttachOK, Attachment, SessionAssumption
  <2>2. PICK q \in Ask : asks' = Append(asks, q)
    BY <1>9, <2>1 DEF ClientAsks, ClientHasEnd, Ask
  <2> QED
    BY <1>8, <1>9, <2>2 DEF ClientAsks, ClientHasEnd
<1>10. CASE RegistryEnds
  BY <1>1, <1>10 DEF RegistryEnds, TaskOK
<1>11. CASE Top
  BY <1>3, <1>11 DEF Top, TopEnds, TopIdle, TopWrites, TopDiscards, UnchangedButPhase
<1>12. CASE Arms
  BY <1>3, <1>4, <1>5, <1>6, <1>12
     DEF Arms, ArmOutput, ArmOutputEnds, ArmWakes, ArmSettle, ArmEcho, ArmInput, ArmTick, ArmProbe,
         UnchangedButPhase, Woken
<1>13. CASE Ends
  BY <1>3, <1>7, <1>13 DEF Ends, ArmEnded, ArmTtl, ArmUnregistered, Closes
<1>14. CASE Program
  BY <1>3, <1>14
     DEF Program, ProgramReads, ProgramWrites, ProgramSetsEcho, ProgramExits, TerminalCloses,
         WriterWrites, WriterStops, taskVars
<1>15. CASE Others
  BY <1>3, <1>9, <1>10, <1>15
     DEF Others, ClientTypes, ClientTellsColours, ClientLeaves, RegistryAttaches, taskVars
<1>16. CASE Gone \/ UNCHANGED vars
  BY <1>3, <1>16 DEF Gone, vars, taskVars
<1> QED
  BY <1>11, <1>12, <1>13, <1>14, <1>15, <1>16 DEF Next

LEMMA TypeInit == ASSUME SessionAssumption, Init PROVE TypeInv
<1>1. AttachOK /\ AttachesBounded
  <2>1. PICK c \in Clients : owner = <<c>>
    BY DEF Init
  <2> QED
    BY <2>1, SessionAssumption
       DEF Init, AttachOK, AttachesBounded, newest, Attachment, SessionAssumption
<1>2. InputOK /\ PtyOK /\ AckOK /\ OnItsWay
  BY SessionAssumption DEF Init, InputOK, PtyOK, AckOK, OnItsWay, NoPending, SessionAssumption
<1>3. OutOK /\ EndOK
  <2>1. out = 0 /\ processed = 0 /\ told = 0 /\ settle = 0
    BY DEF Init
  <2>2. 0 \in 0..MaxOut /\ 0 \in 0..SettleReads
    BY SessionAssumption DEF SessionAssumption
  <2>3. OutOK
    BY <2>1, <2>2 DEF Init, OutOK
  <2>4. EndOK
    BY DEF Init, EndOK
  <2> QED
    BY <2>3, <2>4
<1>4. TaskOK
  <2>1. control = <<>> /\ asks = <<>>
    BY DEF Init
  <2>2. control \in Seq(Clients) /\ asks \in Seq(Ask) /\ Len(control) <= ControlQueue
        /\ Len(asks) <= AskQueue
    BY <2>1, EmptySeq, SessionAssumption DEF SessionAssumption
  <2> QED
    BY <2>2 DEF Init, TaskOK
<1> QED
  BY <1>1, <1>2, <1>3, <1>4 DEF TypeInv, TypeOK

LEMMA TypeStep == ASSUME SessionAssumption, TypeInv, [Next]_vars PROVE TypeInv'
  BY AttachStep, InputStep, PtyStep, AckStep, OutStep, EndStep, TaskStep
     DEF TypeInv, TypeOK, AttachInv, InputInv

THEOREM TypeInvariant == Spec => []TypeInv
<1>1. Init => TypeInv
  BY TypeInit, SessionAssumption
<1>2. TypeInv /\ [Next]_vars => TypeInv'
  BY TypeStep, SessionAssumption
<1> QED
  BY <1>1, <1>2, PTL DEF Spec

\* Every variable of a session keeps its type and its bound: no queue holds more than its room, no
\* number leaves its range, and what is written or claimed was sent (Session, PendingInput, EchoAck).
THEOREM TypeCorrect == Spec => []TypeOK
  BY TypeInvariant, PTL DEF TypeInv
=============================================================================
