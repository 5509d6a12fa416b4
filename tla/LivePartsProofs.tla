--------------------------- MODULE LivePartsProofs ---------------------------
(***************************************************************************)
(* Proofs about parts of LiveParts, each for every value of the constants  *)
(* of its instance.                                                        *)
(***************************************************************************)
EXTENDS LiveParts, FiniteSetTheorems, SequenceTheorems, TLAPS

\* A step of all the parts is, to each of them, one of its own or changes nothing of it.
LEMMA OwnSteps ==
  ASSUME [Next]_vars
  PROVE  /\ Exec!ExecNext \/ UNCHANGED Exec!execVars
         /\ Reaper!ReaperNext \/ UNCHANGED Reaper!reaperVars
         /\ Reports!ReportsNext \/ UNCHANGED Reports!reportVars
         /\ Commands!CommandNext \/ UNCHANGED Commands!commandVars
         /\ Allowlist!AllowlistNext \/ UNCHANGED Allowlist!allowlistVars
         /\ Marks!MarksNext \/ UNCHANGED Marks!marksVars
         /\ Gate!GateNext \/ UNCHANGED Gate!gateVars
<1>a. \/ UNCHANGED vars
      \/ part \in {"log", "link"} /\ OthersRest
      \/ MarksSteps \/ ExecSteps \/ ReaperSteps \/ ReportsSteps \/ CommandSteps \/ AllowlistSteps
      \/ GateSteps
  BY DEF Next, LogSteps, LinkSteps
<1>1. Exec!ExecNext \/ UNCHANGED Exec!execVars
  <2>1. CASE part = "exec"
    BY <1>a, <2>1 DEF GateSteps, vars, execVars, Exec!execVars, ExecSteps, ReaperSteps, ReportsSteps, CommandSteps, AllowlistSteps, MarksSteps
  <2>2. CASE part # "exec"
    BY <1>a, <2>2 DEF GateSteps, vars, execVars, Exec!execVars, OthersRest, Rest, ExecSteps, ReaperSteps, ReportsSteps, CommandSteps, AllowlistSteps, MarksSteps
  <2> QED
    BY <2>1, <2>2
<1>2. Reaper!ReaperNext \/ UNCHANGED Reaper!reaperVars
  <2>1. CASE part = "reaper"
    BY <1>a, <2>1 DEF GateSteps, vars, reaperVars, Reaper!reaperVars, ReaperSteps, ExecSteps, ReportsSteps, CommandSteps, AllowlistSteps, MarksSteps
  <2>2. CASE part # "reaper"
    BY <1>a, <2>2 DEF GateSteps, vars, reaperVars, Reaper!reaperVars, OthersRest, Rest, ExecSteps, ReaperSteps, ReportsSteps, CommandSteps, AllowlistSteps, MarksSteps
  <2> QED
    BY <2>1, <2>2
<1>3. Reports!ReportsNext \/ UNCHANGED Reports!reportVars
  <2>1. CASE part = "reports"
    BY <1>a, <2>1 DEF GateSteps, vars, reportVars, Reports!reportVars, ReportsSteps, ExecSteps, ReaperSteps, CommandSteps, AllowlistSteps, MarksSteps
  <2>2. CASE part # "reports"
    BY <1>a, <2>2 DEF GateSteps, vars, reportVars, Reports!reportVars, OthersRest, Rest, ExecSteps, ReaperSteps, ReportsSteps, CommandSteps, AllowlistSteps, MarksSteps
  <2> QED
    BY <2>1, <2>2
<1>4. Commands!CommandNext \/ UNCHANGED Commands!commandVars
  <2>1. CASE part = "commands"
    BY <1>a, <2>1 DEF GateSteps, vars, commandVars, Commands!commandVars, CommandSteps, ExecSteps, ReaperSteps, ReportsSteps, AllowlistSteps, MarksSteps
  <2>2. CASE part # "commands"
    BY <1>a, <2>2 DEF GateSteps, vars, commandVars, Commands!commandVars, OthersRest, Rest, ExecSteps, ReaperSteps, ReportsSteps, CommandSteps, AllowlistSteps, MarksSteps
  <2> QED
    BY <2>1, <2>2
<1>5. Allowlist!AllowlistNext \/ UNCHANGED Allowlist!allowlistVars
  <2>1. CASE part = "allowlist"
    BY <1>a, <2>1 DEF GateSteps, vars, allowlistVars, Allowlist!allowlistVars, AllowlistSteps, ExecSteps, ReaperSteps, ReportsSteps, CommandSteps, MarksSteps
  <2>2. CASE part # "allowlist"
    BY <1>a, <2>2 DEF GateSteps, vars, allowlistVars, Allowlist!allowlistVars, OthersRest, Rest, ExecSteps, ReaperSteps, ReportsSteps, CommandSteps, AllowlistSteps, MarksSteps
  <2> QED
    BY <2>1, <2>2
<1>6. Marks!MarksNext \/ UNCHANGED Marks!marksVars
  <2>1. CASE part = "marks"
    BY <1>a, <2>1 DEF GateSteps, vars, marksVars, Marks!marksVars, MarksSteps, ExecSteps, ReaperSteps, ReportsSteps, CommandSteps, AllowlistSteps
  <2>2. CASE part # "marks"
    BY <1>a, <2>2 DEF GateSteps, vars, marksVars, Marks!marksVars, OthersRest, Rest, ExecSteps, ReaperSteps, ReportsSteps, CommandSteps, AllowlistSteps, MarksSteps
  <2> QED
    BY <2>1, <2>2
<1>7. Gate!GateNext \/ UNCHANGED Gate!gateVars
  <2>1. CASE part = "gate"
    BY <1>a, <2>1 DEF vars, gateVars, Gate!gateVars, GateSteps, ExecSteps, ReaperSteps, ReportsSteps, CommandSteps, AllowlistSteps, MarksSteps
  <2>2. CASE part # "gate"
    BY <1>a, <2>2 DEF vars, gateVars, Gate!gateVars, OthersRest, Rest, GateSteps, ExecSteps, ReaperSteps, ReportsSteps, CommandSteps, AllowlistSteps, MarksSteps
  <2> QED
    BY <2>1, <2>2
<1> QED
  BY <1>1, <1>2, <1>3, <1>4, <1>5, <1>6, <1>7

(***************************************************************************)
(* Exec.  What a stream carries: what its user was given, what is on its   *)
(* way, what is in the pipe.  Only a write changes it, at its end.         *)
(***************************************************************************)
Flow(s) == got[s] \o sent[s] \o pipe[s]
Carries(bytes, n) ==
    Exec!InOrder(bytes) /\ Exec!HasAll(bytes, n) /\ \A i \in DOMAIN bytes : bytes[i] <= n

LEMMA Assoc ==
  ASSUME NEW u \in Seq(Nat), NEW v \in Seq(Nat), NEW w \in Seq(Nat)
  PROVE  (u \o v) \o w = u \o (v \o w)
<1> DEFINE x == (u \o v) \o w
           y == u \o (v \o w)
<1>1. /\ x \in Seq(Nat) /\ y \in Seq(Nat) /\ Len(x) = Len(y)
  BY ConcatProperties
<1>2. \A i \in 1..Len(x) : x[i] = y[i]
  BY ConcatProperties
<1> QED
  BY ONLY <1>1, <1>2, SeqEqual

LEMMA FlowMoves ==
  ASSUME NEW a \in Seq(Nat), NEW b \in Seq(Nat), NEW c \in Seq(Nat)
  PROVE  /\ b # <<>> => Append(a, Head(b)) \o Tail(b) \o c = a \o b \o c
         /\ c # <<>> => a \o Append(b, Head(c)) \o Tail(c) = a \o b \o c
         /\ \A x \in Nat : a \o b \o Append(c, x) = Append(a \o b \o c, x)
<1>1. \A u, v, w \in Seq(Nat) : (u \o v) \o w = u \o (v \o w)
  BY Assoc
<1>2. \A u \in Seq(Nat), x \in Nat : Append(u, x) = u \o <<x>> /\ <<x>> \in Seq(Nat)
  OBVIOUS
<1>3. \A u \in Seq(Nat) : u # <<>> => Head(u) \in Nat /\ Tail(u) \in Seq(Nat) /\ u = <<Head(u)>> \o Tail(u)
  OBVIOUS
<1>4. \A u, v \in Seq(Nat) : u \o v \in Seq(Nat)
  BY ConcatProperties
<1>5. ASSUME b # <<>> PROVE Append(a, Head(b)) \o Tail(b) = a \o b
  <2> DEFINE h == <<Head(b)>>
             t == Tail(b)
  <2>1. Head(b) \in Nat /\ t \in Seq(Nat) /\ b = h \o t
    BY <1>3, <1>5
  <2>2. Append(a, Head(b)) = a \o h /\ h \in Seq(Nat)
    BY <1>2, <2>1
  <2> HIDE DEF h, t
  <2>3. (a \o h) \o t = a \o (h \o t)
    BY ZenonT(60), <2>1, <2>2, Assoc
  <2>4. Append(a, Head(b)) \o t = a \o b
    BY <2>1, <2>2, <2>3, Zenon
  <2> QED BY <2>4 DEF t
<1>6. ASSUME c # <<>> PROVE a \o Append(b, Head(c)) \o Tail(c) = a \o b \o c
  <2> DEFINE h == <<Head(c)>>
             t == Tail(c)
             ab == a \o b
  <2>1. Head(c) \in Nat /\ t \in Seq(Nat) /\ c = h \o t
    BY <1>3, <1>6
  <2>2. Append(b, Head(c)) = b \o h /\ h \in Seq(Nat) /\ ab \in Seq(Nat)
    BY <1>2, <1>4, <2>1
  <2> HIDE DEF h, t
  <2>3. a \o (b \o h) = ab \o h
    BY <1>1, <2>2
  <2> HIDE DEF ab
  <2>4. (ab \o h) \o t = ab \o (h \o t)
    BY <2>1, <2>2, Assoc, ZenonT(60)
  <2>5. (a \o Append(b, Head(c))) \o t = ab \o c
    BY <2>1, <2>2, <2>3, <2>4, Zenon
  <2> QED BY <2>5 DEF t, ab
<1>7. \A x \in Nat : (a \o b) \o Append(c, x) = Append((a \o b) \o c, x)
  BY <1>1, <1>2, <1>4
<1> QED
  BY <1>5, <1>6, <1>7

\* What the command writes next it may write, and the job whatever it does.
LEMMA CarriesOn ==
  ASSUME NEW bytes \in Seq(Nat), NEW n \in Nat, Carries(bytes, n)
  PROVE  Carries(Append(bytes, n + 1), n + 1) /\ Carries(Append(bytes, 0), n)
<1> DEFINE one == Append(bytes, n + 1)
           none == Append(bytes, 0)
<1>1. /\ DOMAIN bytes = 1..Len(bytes) /\ Len(bytes) \in Nat
      /\ DOMAIN one = 1..Len(bytes) + 1 /\ DOMAIN none = 1..Len(bytes) + 1
      /\ \A i \in 1..Len(bytes) : one[i] = bytes[i] /\ none[i] = bytes[i] /\ bytes[i] \in Nat
      /\ one[Len(bytes) + 1] = n + 1 /\ none[Len(bytes) + 1] = 0
  OBVIOUS
<1> HIDE DEF one, none
<1>a. /\ \A i, j \in 1..Len(bytes) : i < j /\ bytes[i] # 0 /\ bytes[j] # 0 => bytes[i] < bytes[j]
      /\ \A m \in 1..n : \E i \in 1..Len(bytes) : bytes[i] = m
      /\ \A i \in 1..Len(bytes) : bytes[i] <= n
  BY <1>1 DEF Carries, Exec!InOrder, Exec!HasAll
<1>2. Exec!InOrder(one) /\ Exec!InOrder(none)
  <2>1. ASSUME NEW i \in DOMAIN one, NEW j \in DOMAIN one, i < j, one[i] # 0, one[j] # 0
        PROVE  one[i] < one[j]
    <3>1. i \in 1..Len(bytes) /\ one[i] = bytes[i]
      BY <1>1, <2>1
    <3>2. CASE j = Len(bytes) + 1
      BY <1>1, <1>a, <3>1, <3>2
    <3>3. CASE j # Len(bytes) + 1
      <4>1. j \in 1..Len(bytes) /\ one[j] = bytes[j]
        BY <1>1, <3>3
      <4> QED BY <1>a, <2>1, <3>1, <4>1
    <3> QED BY <3>2, <3>3
  <2>2. ASSUME NEW i \in DOMAIN none, NEW j \in DOMAIN none, i < j, none[i] # 0, none[j] # 0
        PROVE  none[i] < none[j]
    <3>1. j # Len(bytes) + 1
      BY <1>1, <2>2
    <3>2. /\ i \in 1..Len(bytes) /\ none[i] = bytes[i]
          /\ j \in 1..Len(bytes) /\ none[j] = bytes[j]
      BY <1>1, <2>2, <3>1
    <3> QED BY <1>a, <2>2, <3>2
  <2> QED
    BY <2>1, <2>2 DEF Exec!InOrder
<1>3. Exec!HasAll(one, n + 1)
  <2> SUFFICES ASSUME NEW m \in 1..n + 1 PROVE \E i \in DOMAIN one : one[i] = m
    BY DEF Exec!HasAll
  <2>1. CASE m = n + 1
    BY <1>1, <2>1
  <2>2. CASE m \in 1..n
    <3>1. PICK i \in 1..Len(bytes) : bytes[i] = m
      BY <1>a, <2>2
    <3>2. i \in DOMAIN one /\ one[i] = m
      BY <1>1, <3>1
    <3> QED
      BY <3>2
  <2> QED
    BY <2>1, <2>2
<1>4. Exec!HasAll(none, n)
  <2> SUFFICES ASSUME NEW m \in 1..n PROVE \E i \in DOMAIN none : none[i] = m
    BY DEF Exec!HasAll
  <2>1. PICK i \in 1..Len(bytes) : bytes[i] = m
    BY <1>a
  <2> QED
    BY <1>1, <2>1
<1>5. /\ \A i \in DOMAIN one : one[i] <= n + 1
      /\ \A i \in DOMAIN none : none[i] <= n
  <2>1. ASSUME NEW i \in 1..Len(bytes) + 1 PROVE one[i] <= n + 1 /\ none[i] <= n
    <3>1. CASE i = Len(bytes) + 1
      BY <1>1, <3>1
    <3>2. CASE i # Len(bytes) + 1
      <4>1. i \in 1..Len(bytes) /\ one[i] = bytes[i] /\ none[i] = bytes[i] /\ bytes[i] \in Nat /\ bytes[i] <= n
        BY <1>1, <1>a, <3>2
      <4> QED BY <4>1
    <3> QED BY <3>1, <3>2
  <2> QED
    BY <1>1, <2>1
<1> QED
  BY <1>2, <1>3, <1>4, <1>5 DEF one, none, Carries

Flags == left \in BOOLEAN /\ exited \in BOOLEAN /\ ended \in BOOLEAN
FlowType ==
    /\ wrote \in [Streams -> Nat]
    /\ got \in [Streams -> Seq(Nat)] /\ sent \in [Streams -> Seq(Nat)] /\ pipe \in [Streams -> Seq(Nat)]
ExecType ==
    /\ Flags /\ FlowType
    /\ command \in {"starts", "unstarted", "runs", "exited", "reaped", "hungUp"}
    /\ pump \in [Streams -> {"open", "done"}]

\* The status goes out once the command was reaped, or never started, and is taken then.
InTurn ==
    /\ command = "starts" => ~left
    /\ exited => command = "reaped"
    /\ status = "sent" => command \in {"reaped", "unstarted"}
    /\ client = "status" => status = "sent"

\* Of the job alone.
NoneOfIt(bytes) == \A i \in DOMAIN bytes : bytes[i] = 0

\* A pump is done once the command can write no more and its pipe holds nothing of it; the status is
\* taken after all the pumps sent.
Pumped(s) ==
    /\ command = "starts" => pipe[s] = <<>>
    /\ pump[s] = "done" => command \notin {"starts", "runs"} /\ NoneOfIt(pipe[s])
    /\ client = "status" => pump[s] = "done" /\ sent[s] = <<>>

ExecInv == ExecType /\ InTurn /\ \A s \in Streams : Pumped(s) /\ Carries(Flow(s), wrote[s])

LEMMA ExecInvInit == ASSUME Exec!ExecInit PROVE ExecInv
<1>1. \A s \in Streams : Flow(s) = <<>>
  BY DEF Exec!ExecInit, Flow
<1>2. Carries(<<>>, 0)
  BY DEF Carries, Exec!InOrder, Exec!HasAll
<1>3. ExecType
  <2>1. Flags
    BY DEF Exec!ExecInit, Flags
  <2>2. <<>> \in Seq(Nat)
    OBVIOUS
  <2>3. FlowType
    BY <2>2 DEF Exec!ExecInit, FlowType
  <2>4. command = "starts" /\ pump = [s \in Streams |-> "open"]
    BY DEF Exec!ExecInit
  <2> QED
    BY <2>1, <2>3, <2>4 DEF ExecType
<1>4. \A s \in Streams : wrote[s] = 0 /\ Pumped(s)
  BY DEF Exec!ExecInit, Pumped
<1>5. InTurn
  BY DEF Exec!ExecInit, InTurn
<1> QED
  BY <1>1, <1>2, <1>3, <1>4, <1>5 DEF ExecInv

LEMMA FlowGrows ==
  ASSUME NEW a \in Seq(Nat), NEW b \in Seq(Nat), NEW c \in Seq(Nat), NEW x \in Nat
  PROVE  a \o b \o Append(c, x) = Append(a \o b \o c, x)
  BY FlowMoves

\* Bytes move on, or one is written: that is all that happens to them.
LEMMA FlowStep ==
  ASSUME FlowType, Exec!ExecNext, NEW s \in Streams, Carries(Flow(s), wrote[s])
  PROVE  Carries(Flow(s), wrote[s])'
<1> USE DEF Flow
<1>1. /\ got[s] \in Seq(Nat) /\ sent[s] \in Seq(Nat) /\ pipe[s] \in Seq(Nat) /\ wrote[s] \in Nat
  BY DEF FlowType
<1>a. Carries(Flow(s), wrote[s]) /\ Flow(s) \in Seq(Nat)
  <2>1. got[s] \o sent[s] \in Seq(Nat)
    BY <1>1, ConcatProperties
  <2> QED
    BY <1>1, <2>1, ConcatProperties
<1>b. /\ sent[s] # <<>> => Append(got[s], Head(sent[s])) \o Tail(sent[s]) \o pipe[s] = Flow(s)
      /\ pipe[s] # <<>> => got[s] \o Append(sent[s], Head(pipe[s])) \o Tail(pipe[s]) = Flow(s)
      /\ got[s] \o sent[s] \o Append(pipe[s], 0) = Append(Flow(s), 0)
      /\ got[s] \o sent[s] \o Append(pipe[s], wrote[s] + 1) = Append(Flow(s), wrote[s] + 1)
  <2>1. 0 \in Nat /\ wrote[s] + 1 \in Nat
    BY <1>1
  <2>2. sent[s] # <<>> => Append(got[s], Head(sent[s])) \o Tail(sent[s]) \o pipe[s] = Flow(s)
    BY ONLY <1>1, FlowMoves, Zenon DEF Flow
  <2>3. pipe[s] # <<>> => got[s] \o Append(sent[s], Head(pipe[s])) \o Tail(pipe[s]) = Flow(s)
    BY ONLY <1>1, FlowMoves, Zenon DEF Flow
  <2>4. ASSUME NEW x \in Nat PROVE got[s] \o sent[s] \o Append(pipe[s], x) = Append(Flow(s), x)
    <3>1. got[s] \in Seq(Nat) /\ sent[s] \in Seq(Nat) /\ pipe[s] \in Seq(Nat) /\ x \in Nat
      BY <1>1
    <3>2. got[s] \o sent[s] \o Append(pipe[s], x) = Append(got[s] \o sent[s] \o pipe[s], x)
      BY ONLY <3>1, FlowGrows, Zenon
    <3> QED
      BY ONLY <3>1, <3>2, Zenon DEF Flow
  <2> QED
    BY <2>1, <2>2, <2>3, <2>4, Zenon
<1>2. CASE Flow(s)' = Flow(s) /\ wrote'[s] = wrote[s]
  BY <1>a, <1>2
<1>3. CASE UNCHANGED <<wrote, extra, pipe, sent, got, stdin>>
  BY <1>2, <1>3
<1>4. ASSUME NEW r \in Streams, Exec!Writes(r) PROVE Carries(Flow(s), wrote[s])'
  <2>1. CASE r # s
    BY <1>2, <1>4, <2>1 DEF Exec!Writes, FlowType
  <2>2. CASE r = s
    <3>1. Flow(s)' = Append(Flow(s), wrote[s] + 1) /\ wrote'[s] = wrote[s] + 1
      BY <1>b, <1>4, <2>2 DEF Exec!Writes, FlowType
    <3> QED
      BY <1>1, <1>a, <3>1, CarriesOn
  <2> QED
    BY <2>1, <2>2
<1>5. ASSUME NEW r \in Streams, Exec!JobWrites(r) PROVE Carries(Flow(s), wrote[s])'
  <2>1. CASE r # s
    BY <1>2, <1>5, <2>1 DEF Exec!JobWrites, FlowType
  <2>2. CASE r = s
    <3>1. Flow(s)' = Append(Flow(s), 0) /\ wrote'[s] = wrote[s]
      BY <1>b, <1>5, <2>2 DEF Exec!JobWrites, FlowType
    <3> QED
      BY <1>1, <1>a, <3>1, CarriesOn
  <2> QED
    BY <2>1, <2>2
<1>6. ASSUME NEW r \in Streams, Exec!Pumps(r) PROVE Carries(Flow(s), wrote[s])'
  <2>1. Flow(s)' = Flow(s) /\ wrote'[s] = wrote[s]
    <3>1. CASE r # s
      BY <1>6, <3>1 DEF Exec!Pumps, FlowType
    <3>2. CASE r = s
      BY <1>b, <1>6, <3>2 DEF Exec!Pumps, FlowType
    <3> QED
      BY <3>1, <3>2
  <2> QED
    BY <1>2, <2>1
<1>7. ASSUME NEW r \in Streams, Exec!Copies(r) PROVE Carries(Flow(s), wrote[s])'
  <2>1. Flow(s)' = Flow(s) /\ wrote'[s] = wrote[s]
    <3>1. CASE r # s
      BY <1>7, <3>1 DEF Exec!Copies, FlowType
    <3>2. CASE r = s
      BY <1>b, <1>7, <3>2 DEF Exec!Copies, FlowType
    <3> QED
      BY <3>1, <3>2
  <2> QED
    BY <1>2, <2>1
<1>8. CASE UNCHANGED <<wrote, extra, pipe, sent, got>>
  BY <1>2, <1>8
<1> QED
  BY <1>3, <1>4, <1>5, <1>6, <1>7, <1>8
     DEF Exec!ExecNext, Exec!Started, Exec!Leaves, Exec!JobEnds, Exec!Exits, Exec!OutputEnds, Exec!Reaps,
         Exec!HangsUp, Exec!SendStatus, Exec!ReadsStdin, Exec!StdinEnds, Exec!Feeds, Exec!CommandReads,
         Exec!TakesStatus, Exec!ClientStops, Exec!LinkEnds, Exec!CutOff, Exec!PumpEnds, Exec!data

LEMMA FlowTypeStep == ASSUME FlowType, Exec!ExecNext PROVE FlowType'
<1>1. CASE UNCHANGED <<wrote, pipe, sent, got>>
  BY <1>1 DEF FlowType
<1>2. ASSUME NEW s \in Streams, Exec!Writes(s) PROVE FlowType'
  BY <1>2 DEF Exec!Writes, FlowType
<1>3. ASSUME NEW s \in Streams, Exec!JobWrites(s) PROVE FlowType'
  <2>1. pipe' = [pipe EXCEPT ![s] = Append(@, 0)] /\ UNCHANGED <<wrote, sent, got>>
    BY <1>3 DEF Exec!JobWrites
  <2> QED
    BY <2>1 DEF FlowType
<1>4. ASSUME NEW s \in Streams, Exec!Pumps(s) PROVE FlowType'
  <2>1. /\ pipe[s] # <<>> /\ pipe' = [pipe EXCEPT ![s] = Tail(@)]
        /\ sent' = [sent EXCEPT ![s] = Append(@, Head(pipe[s]))] /\ UNCHANGED <<wrote, got>>
    BY <1>4 DEF Exec!Pumps
  <2> QED
    BY <2>1, HeadTailProperties DEF FlowType
<1>5. ASSUME NEW s \in Streams, Exec!Copies(s) PROVE FlowType'
  <2>1. /\ sent[s] # <<>> /\ sent' = [sent EXCEPT ![s] = Tail(@)]
        /\ got' = [got EXCEPT ![s] = Append(@, Head(sent[s]))] /\ UNCHANGED <<wrote, pipe>>
    BY <1>5 DEF Exec!Copies
  <2> QED
    BY <2>1, HeadTailProperties DEF FlowType
<1> QED
  BY <1>1, <1>2, <1>3, <1>4, <1>5
     DEF Exec!ExecNext, Exec!Started, Exec!Leaves, Exec!JobEnds, Exec!Exits, Exec!OutputEnds, Exec!Reaps,
         Exec!HangsUp, Exec!SendStatus, Exec!ReadsStdin, Exec!StdinEnds, Exec!Feeds, Exec!CommandReads,
         Exec!TakesStatus, Exec!ClientStops, Exec!LinkEnds, Exec!CutOff, Exec!PumpEnds, Exec!data

LEMMA ExecTypeStep == ASSUME ExecType, Exec!ExecNext PROVE ExecType'
<1>1. FlowType'
  BY FlowTypeStep DEF ExecType
<1>2. ASSUME Exec!Started PROVE Flags' /\ command' \in {"runs", "unstarted"} /\ pump' \in [Streams -> {"open", "done"}]
  <2>1. command' \in {"runs", "unstarted"} /\ (pump' = pump \/ pump' = [s \in Streams |-> "done"])
    BY <1>2 DEF Exec!Started
  <2>2. Flags'
    <3>1. left' = left /\ exited' = exited /\ (ended' = ended \/ ended' = TRUE)
      BY <1>2 DEF Exec!Started
    <3> QED
      BY <3>1 DEF ExecType, Flags
  <2> QED
    BY <2>1, <2>2 DEF ExecType
<1>3. ASSUME NEW s \in Streams, Exec!PumpEnds(s) PROVE pump' \in [Streams -> {"open", "done"}]
  <2>1. pump' = [pump EXCEPT ![s] = "done"]
    BY <1>3 DEF Exec!PumpEnds
  <2> QED
    BY <2>1 DEF ExecType
<1>4. pump' \in [Streams -> {"open", "done"}]
  BY <1>2, <1>3
     DEF ExecType, Exec!ExecNext, Exec!Leaves, Exec!JobEnds, Exec!Exits, Exec!OutputEnds, Exec!Reaps,
         Exec!HangsUp, Exec!SendStatus, Exec!ReadsStdin, Exec!StdinEnds, Exec!Feeds, Exec!CommandReads,
         Exec!TakesStatus, Exec!ClientStops, Exec!LinkEnds, Exec!CutOff, Exec!Writes, Exec!JobWrites,
         Exec!Pumps, Exec!Copies, Exec!server
<1>5. command' \in {"starts", "unstarted", "runs", "exited", "reaped", "hungUp"}
  BY <1>2
     DEF ExecType, Exec!ExecNext, Exec!Leaves, Exec!JobEnds, Exec!Exits, Exec!OutputEnds, Exec!Reaps,
         Exec!HangsUp, Exec!SendStatus, Exec!ReadsStdin, Exec!StdinEnds, Exec!Feeds, Exec!CommandReads,
         Exec!TakesStatus, Exec!ClientStops, Exec!LinkEnds, Exec!CutOff, Exec!Writes, Exec!JobWrites,
         Exec!Pumps, Exec!PumpEnds, Exec!Copies, Exec!server
<1>6. Flags'
  <2>1. CASE UNCHANGED <<left, exited, ended>>
    BY <2>1 DEF ExecType, Flags
  <2>2. CASE Exec!Leaves \/ Exec!JobEnds \/ Exec!OutputEnds \/ Exec!Reaps
    BY <2>2 DEF ExecType, Flags, Exec!Leaves, Exec!JobEnds, Exec!OutputEnds, Exec!Reaps
  <2> QED
    BY <1>2, <2>1, <2>2
       DEF Exec!ExecNext, Exec!Exits, Exec!HangsUp, Exec!SendStatus, Exec!ReadsStdin, Exec!StdinEnds,
           Exec!Feeds, Exec!CommandReads, Exec!TakesStatus, Exec!ClientStops, Exec!LinkEnds, Exec!CutOff,
           Exec!Writes, Exec!JobWrites, Exec!Pumps, Exec!PumpEnds, Exec!Copies, Exec!server
<1> QED
  BY <1>1, <1>4, <1>5, <1>6 DEF ExecType

LEMMA InTurnStep == ASSUME Flags, InTurn, Exec!ExecNext PROVE InTurn'
<1> USE DEF InTurn, Flags, Exec!server
<1>1. CASE Exec!Started
  BY <1>1 DEF Exec!Started
<1>2. CASE Exec!Leaves
  BY <1>2 DEF Exec!Leaves
<1>3. CASE Exec!JobEnds
  BY <1>3 DEF Exec!JobEnds
<1>4. CASE Exec!Exits
  BY <1>4 DEF Exec!Exits
<1>5. CASE Exec!OutputEnds
  BY <1>5 DEF Exec!OutputEnds
<1>6. CASE Exec!Reaps
  BY <1>6 DEF Exec!Reaps
<1>7. CASE Exec!HangsUp
  BY <1>7 DEF Exec!HangsUp
<1>8. CASE Exec!SendStatus
  BY <1>8 DEF Exec!SendStatus, Exec!Both
<1>9. CASE Exec!ReadsStdin
  BY <1>9 DEF Exec!ReadsStdin
<1>10. CASE Exec!StdinEnds
  BY <1>10 DEF Exec!StdinEnds
<1>11. CASE Exec!Feeds
  BY <1>11 DEF Exec!Feeds
<1>12. CASE Exec!CommandReads
  BY <1>12 DEF Exec!CommandReads
<1>13. CASE Exec!TakesStatus
  BY <1>13 DEF Exec!TakesStatus
<1>14. CASE Exec!ClientStops
  BY <1>14 DEF Exec!ClientStops
<1>15. CASE Exec!LinkEnds
  BY <1>15 DEF Exec!LinkEnds
<1>16. CASE Exec!CutOff
  BY <1>16 DEF Exec!CutOff
<1>17. ASSUME NEW s \in Streams, Exec!Writes(s) PROVE InTurn'
  BY <1>17 DEF Exec!Writes
<1>18. ASSUME NEW s \in Streams, Exec!JobWrites(s) PROVE InTurn'
  BY <1>18 DEF Exec!JobWrites
<1>19. ASSUME NEW s \in Streams, Exec!Pumps(s) PROVE InTurn'
  BY <1>19 DEF Exec!Pumps
<1>20. ASSUME NEW s \in Streams, Exec!PumpEnds(s) PROVE InTurn'
  BY <1>20 DEF Exec!PumpEnds
<1>21. ASSUME NEW s \in Streams, Exec!Copies(s) PROVE InTurn'
  BY <1>21 DEF Exec!Copies
<1> QED
  BY <1>1, <1>2, <1>3, <1>4, <1>5, <1>6, <1>7, <1>8, <1>9, <1>10, <1>11, <1>12, <1>13, <1>14, <1>15, <1>16, <1>17, <1>18, <1>19, <1>20, <1>21
     DEF Exec!ExecNext

\* Bytes of the job alone stay so, as it writes more and some are sent on.
LEMMA NoneOfItStays ==
  ASSUME NEW bytes \in Seq(Nat), NoneOfIt(bytes)
  PROVE  NoneOfIt(Append(bytes, 0)) /\ (bytes # <<>> => NoneOfIt(Tail(bytes)))
<1>1. NoneOfIt(Append(bytes, 0))
  BY DEF NoneOfIt
<1>2. ASSUME bytes # <<>> PROVE NoneOfIt(Tail(bytes))
  BY <1>2 DEF NoneOfIt
<1> QED
  BY <1>1, <1>2

LEMMA PumpedStep ==
  ASSUME ExecType, InTurn, Exec!ExecNext, NEW s \in Streams, Pumped(s)
  PROVE  Pumped(s)'
<1>a. /\ pump[s] \in {"open", "done"} /\ pipe[s] \in Seq(Nat) /\ sent[s] \in Seq(Nat)
      /\ command \in {"starts", "unstarted", "runs", "exited", "reaped", "hungUp"}
  BY DEF ExecType, FlowType
\* Where the pipes stay as they are.
<1>1. CASE Exec!Started
  <2>1. /\ command = "starts" /\ command' \in {"runs", "unstarted"}
        /\ command' = "runs" => pump' = pump
        /\ pipe' = pipe /\ sent' = sent /\ client' = client
    BY <1>1 DEF Exec!Started, Exec!data
  <2>2. client # "status"
    BY <2>1 DEF InTurn
  <2>3. pipe[s] = <<>>
    BY <2>1 DEF Pumped
  <2>4. NoneOfIt(pipe[s])'
    <3>1. NoneOfIt(<<>>)
      BY DEF NoneOfIt
    <3> QED
      BY <2>1, <2>3, <3>1
  <2>5. pump'[s] = "done" => command' = "unstarted"
    BY <2>1 DEF Pumped
  <2> QED
    BY <2>1, <2>2, <2>4, <2>5 DEF Pumped
<1>2. ASSUME UNCHANGED <<pump, pipe, sent>>, client' = client \/ client' # "status",
             command' = command \/ command' \notin {"starts", "runs"}
      PROVE  Pumped(s)'
  BY <1>2 DEF Pumped
<1>3. CASE Exec!Leaves \/ Exec!JobEnds \/ Exec!Exits \/ Exec!OutputEnds \/ Exec!Reaps \/ Exec!HangsUp
           \/ Exec!SendStatus \/ Exec!ReadsStdin \/ Exec!StdinEnds \/ Exec!Feeds \/ Exec!CommandReads
           \/ Exec!ClientStops \/ Exec!LinkEnds \/ Exec!CutOff
  <2>1. /\ UNCHANGED <<pump, pipe, sent>> /\ (client' = client \/ client' # "status")
        /\ command' = command \/ command' \notin {"starts", "runs"}
    BY <1>3
       DEF Exec!Leaves, Exec!JobEnds, Exec!Exits, Exec!OutputEnds, Exec!Reaps, Exec!HangsUp,
           Exec!SendStatus, Exec!ReadsStdin, Exec!StdinEnds, Exec!Feeds, Exec!CommandReads,
           Exec!ClientStops, Exec!LinkEnds, Exec!CutOff, Exec!server, Exec!data
  <2> QED
    BY <1>2, <2>1
<1>4. CASE Exec!TakesStatus
  <2>1. pump[s] = "done" /\ sent[s] = <<>> /\ UNCHANGED <<command, pump, pipe, sent>>
    BY <1>4 DEF Exec!TakesStatus, Exec!StreamsEnd, Exec!server, Exec!data
  <2> QED
    BY <2>1 DEF Pumped
<1>5. ASSUME NEW r \in Streams, Exec!PumpEnds(r) PROVE Pumped(s)'
  <2>1. /\ pump' = [pump EXCEPT ![r] = "done"] /\ UNCHANGED <<command, pipe, sent, client>>
        /\ command \in {"exited", "reaped", "runs"} /\ pipe[r] = <<>> /\ (command # "runs" \/ exited)
    BY <1>5 DEF Exec!PumpEnds, Exec!Serving, Exec!Quiet, Exec!Held, Exec!data
  <2>2. command \in {"exited", "reaped"}
    BY <2>1 DEF InTurn
  <2>3. pump \in [Streams -> {"open", "done"}]
    BY DEF ExecType
  <2>4. CASE r = s
    <3>1. NoneOfIt(<<>>)
      BY DEF NoneOfIt
    <3> QED
      BY <2>1, <2>2, <2>3, <2>4, <3>1 DEF Pumped
  <2>5. CASE r # s
    <3>1. pump'[s] = pump[s]
      BY <2>1, <2>3, <2>5
    <3> QED
      BY <2>1, <3>1 DEF Pumped
  <2> QED
    BY <2>4, <2>5
<1>6. ASSUME NEW r \in Streams, Exec!Writes(r) PROVE Pumped(s)'
  <2>1. command = "runs" /\ pipe' = [pipe EXCEPT ![r] = Append(@, wrote[r] + 1)]
        /\ UNCHANGED <<command, pump, sent, client>>
    BY <1>6 DEF Exec!Writes, Exec!server
  <2>2. pump[s] # "done" /\ client # "status"
    BY <2>1 DEF Pumped, InTurn
  <2> QED
    BY <2>1, <2>2 DEF Pumped
<1>7. ASSUME NEW r \in Streams, Exec!JobWrites(r) PROVE Pumped(s)'
  <2>1. pipe' = [pipe EXCEPT ![r] = Append(@, 0)] /\ UNCHANGED <<command, pump, sent, client>>
    BY <1>7 DEF Exec!JobWrites, Exec!server
  <2>2. command # "starts"
    BY <1>7 DEF Exec!JobWrites, InTurn, ExecType, Flags
  <2>3. pipe'[s] \in {pipe[s], Append(pipe[s], 0)}
    BY <2>1 DEF ExecType, FlowType
  <2> QED
    BY <1>a, <2>1, <2>2, <2>3, NoneOfItStays DEF Pumped
<1>8. ASSUME NEW r \in Streams, Exec!Pumps(r) PROVE Pumped(s)'
  <2>1. /\ pump[r] = "open" /\ pipe[r] # <<>> /\ command # "starts"
        /\ pipe' = [pipe EXCEPT ![r] = Tail(@)] /\ sent' = [sent EXCEPT ![r] = Append(@, Head(pipe[r]))]
        /\ UNCHANGED <<command, pump, client>>
    BY <1>8 DEF Exec!Pumps, Exec!Serving, Exec!server
  <2>2. CASE r # s
    <3>1. pipe'[s] = pipe[s] /\ sent'[s] = sent[s]
      BY <2>1, <2>2 DEF ExecType, FlowType
    <3> QED
      BY <2>1, <3>1 DEF Pumped
  <2>3. CASE r = s
    BY <2>1, <2>3 DEF Pumped
  <2> QED
    BY <2>2, <2>3
<1>9. ASSUME NEW r \in Streams, Exec!Copies(r) PROVE Pumped(s)'
  <2>1. client = "copies" /\ UNCHANGED <<command, pump, pipe, client>>
    BY <1>9 DEF Exec!Copies, Exec!server
  <2> QED
    BY <2>1 DEF Pumped
<1> QED
  BY <1>1, <1>3, <1>4, <1>5, <1>6, <1>7, <1>8, <1>9 DEF Exec!ExecNext

\* What was given, where all that is left is of the job.
LEMMA AllGiven ==
  ASSUME NEW g \in Seq(Nat), NEW q \in Seq(Nat), NEW n \in Nat, Carries(g \o <<>> \o q, n), NoneOfIt(q)
  PROVE  Exec!InOrder(g) /\ Exec!HasAll(g, n)
<1>1. g \o <<>> = g
  BY ConcatEmptySeq
<1> DEFINE all == g \o q
<1>2. Carries(all, n)
  BY <1>1
<1>3. /\ DOMAIN all = 1..Len(g) + Len(q) /\ DOMAIN g = 1..Len(g) /\ DOMAIN q = 1..Len(q)
      /\ Len(g) \in Nat /\ Len(q) \in Nat
      /\ \A i \in 1..Len(g) + Len(q) : all[i] = IF i <= Len(g) THEN g[i] ELSE q[i - Len(g)]
  OBVIOUS
<1> HIDE DEF all
<1>4. Exec!InOrder(g)
  <2>1. \A i, j \in 1..Len(g) + Len(q) : i < j /\ all[i] # 0 /\ all[j] # 0 => all[i] < all[j]
    BY <1>2, <1>3 DEF Carries, Exec!InOrder
  <2>2. \A i \in 1..Len(g) : i \in 1..Len(g) + Len(q) /\ all[i] = g[i]
    BY <1>3
  <2> QED
    BY <1>3, <2>1, <2>2 DEF Exec!InOrder
<1>5. ASSUME NEW m \in 1..n PROVE \E i \in DOMAIN g : g[i] = m
  <2>1. PICK i \in 1..Len(g) + Len(q) : all[i] = m
    BY <1>2, <1>3 DEF Carries, Exec!HasAll
  <2>2. CASE i <= Len(g)
    <3>1. i \in DOMAIN g
      BY <1>3, <2>1, <2>2
    <3>2. all[i] = g[i]
      BY <1>3, <2>1, <2>2
    <3> QED
      BY <2>1, <3>1, <3>2
  <2>3. CASE i > Len(g)
    <3>1. i - Len(g) \in 1..Len(q) /\ all[i] = q[i - Len(g)]
      BY <1>3, <2>3
    <3>2. m = 0
      BY <1>3, <2>1, <3>1 DEF NoneOfIt
    <3> QED
      BY <3>2
  <2> QED
    BY <1>3, <2>1, <2>2, <2>3
<1> QED
  BY <1>4, <1>5 DEF Exec!HasAll

\* An exit status is all of it: whoever is given one was given everything the command wrote, once and
\* in its order, whatever a job it left behind writes and whichever pump ends first (Drain, finish).
THEOREM StatusAfterOutputAlways == Spec => []StatusAfterOutput
<1>1. Init => ExecInv
  BY ExecInvInit DEF Init
<1>2. ExecInv /\ [Next]_vars => ExecInv'
  <2>1. ASSUME ExecInv, Exec!ExecNext PROVE ExecInv'
    <3>1. ExecType' /\ InTurn'
      BY <2>1, ExecTypeStep, InTurnStep DEF ExecInv, ExecType
    <3>2. ASSUME NEW s \in Streams PROVE Pumped(s)' /\ Carries(Flow(s), wrote[s])'
      BY <2>1, PumpedStep, FlowStep DEF ExecInv, ExecType
    <3> QED
      BY <3>1, <3>2 DEF ExecInv
  <2>2. ASSUME ExecInv, UNCHANGED Exec!execVars PROVE ExecInv'
    <3>1. ExecType' /\ InTurn'
      BY <2>2 DEF Exec!execVars, ExecInv, ExecType, FlowType, Flags, InTurn
    <3>2. ASSUME NEW s \in Streams PROVE Pumped(s)' /\ Carries(Flow(s), wrote[s])'
      BY <2>2 DEF Exec!execVars, ExecInv, Pumped, Flow
    <3> QED
      BY <3>1, <3>2 DEF ExecInv
  <2> QED
    BY <2>1, <2>2, OwnSteps
<1>3. ExecInv => StatusAfterOutput
  <2> SUFFICES ASSUME ExecInv, client = "status", command # "unstarted"
               PROVE  command = "reaped" /\ \A s \in Streams : Exec!InOrder(got[s]) /\ Exec!HasAll(got[s], wrote[s])
    BY DEF StatusAfterOutput, Exec!StatusAfterOutput
  <2>1. command = "reaped"
    BY DEF ExecInv, InTurn
  <2>2. ASSUME NEW s \in Streams PROVE Exec!InOrder(got[s]) /\ Exec!HasAll(got[s], wrote[s])
    <3>1. got[s] \in Seq(Nat) /\ pipe[s] \in Seq(Nat) /\ wrote[s] \in Nat
      BY DEF ExecInv, ExecType, FlowType
    <3>2. Carries(got[s] \o <<>> \o pipe[s], wrote[s]) /\ NoneOfIt(pipe[s])
      BY DEF ExecInv, Pumped, Flow
    <3> QED
      BY ONLY <3>1, <3>2, AllGiven
  <2> QED
    BY <2>1, <2>2
<1> QED
  BY <1>1, <1>2, <1>3, PTL DEF Spec

(***************************************************************************)
(* Reports.                                                                *)
(***************************************************************************)
ReportsInv ==
    /\ doing \in Activities /\ last \in Activities \cup {Reports!NoReport} /\ age \in Nat
    /\ ~early

\* No state is reported again within SPACING of its last report, but after a mark: what is owed waits
\* for the time, and a program always does something a report names (Reports::due, Reports::probed).
THEOREM ReportsSpacedAlways == Spec => []ReportsSpaced
<1> USE DEF ReportsInv
<1>a. Reports!NoReport \notin Activities /\ Spacing \in Nat
  BY PartsAssumption DEF Reports!ReportsAssumption
<1>1. Init => ReportsInv
  BY <1>a DEF Init, Reports!ReportsInit
<1>2. ReportsInv /\ [Next]_vars => ReportsInv'
  <2>1. ASSUME ReportsInv, NEW marked \in BOOLEAN, Reports!Probed(marked) PROVE ReportsInv'
    <3>1. CASE last # doing \/ Reports!Due \/ marked
      <4>1. last' = doing /\ age' = 0 /\ doing' = doing
        BY <2>1, <3>1 DEF Reports!Probed
      <4>2. early' = (last = doing /\ age < Spacing /\ ~marked)
        BY <2>1, <3>1 DEF Reports!Probed
      <4>3. ~(last = doing /\ age < Spacing /\ ~marked)
        BY <1>a, <2>1, <3>1 DEF Reports!Due
      <4> QED
        BY <2>1, <4>1, <4>2, <4>3
    <3>2. CASE ~(last # doing \/ Reports!Due \/ marked)
      <4>1. UNCHANGED <<doing, last, age, early>>
        BY <2>1, <3>2 DEF Reports!Probed
      <4> QED
        BY <2>1, <4>1
    <3> QED
      BY <3>1, <3>2
  <2>2. ASSUME ReportsInv, Reports!Program \/ Reports!Attach \/ Reports!TimePasses \/ Reports!Owe
        PROVE  ReportsInv'
    BY <2>2 DEF Reports!Program, Reports!Attach, Reports!TimePasses, Reports!Owe
  <2>3. ASSUME ReportsInv, UNCHANGED Reports!reportVars PROVE ReportsInv'
    BY <2>3 DEF Reports!reportVars
  <2> QED
    BY <2>1, <2>2, <2>3, OwnSteps DEF Reports!ReportsNext, Reports!ProbeDue, Reports!Poll, Reports!Mark
<1>3. ReportsInv => ReportsSpaced
  BY DEF ReportsSpaced, Reports!ReportsSpaced
<1> QED
  BY <1>1, <1>2, <1>3, PTL DEF Spec

(***************************************************************************)
(* Allowlist.  A set that waits to be taken was read from the file: while  *)
(* a save of it is under way, the given keys alone; else what was saved.   *)
(***************************************************************************)
AllowlistInv ==
    /\ onDisk \in {"whole", "empty", "bad"} /\ readSince \in BOOLEAN
    /\ listed \subseteq wanted
    /\ \/ dropping = {}
       \/ \E read : dropping = {read} /\ listed \cup Given \subseteq read
       \/ dropping = {Given} /\ ((onDisk = "empty" /\ readSince) \/ (onDisk = "whole" /\ ~readSince))

LEMMA AllowlistStep == ASSUME AllowlistInv, Allowlist!AllowlistNext PROVE AllowlistInv'
<1> USE DEF AllowlistInv
<1>1. CASE Allowlist!StartSave
  BY <1>1 DEF Allowlist!StartSave
<1>2. CASE Allowlist!EndSave
  BY <1>2 DEF Allowlist!EndSave
<1>3. CASE Allowlist!ReadList
  <2>1. ASSUME NEW read, Allowlist!Settle(read) PROVE dropping' = {} \/ dropping' = {read}
    BY <2>1 DEF Allowlist!Settle
  <2>2. /\ UNCHANGED <<wanted, listed, onDisk>> /\ readSince' = TRUE
        /\ onDisk = "empty" => ~readSince
    BY <1>3 DEF Allowlist!ReadList
  <2>3. CASE onDisk = "empty" /\ Allowlist!Settle(Given)
    <3>1. dropping' = {} \/ dropping' = {Given}
      BY <2>1, <2>3
    <3>2. onDisk' = "empty" /\ readSince' /\ readSince' \in BOOLEAN /\ listed' \subseteq wanted'
      BY <2>2, <2>3
    <3> QED
      BY <3>1, <3>2
  <2>4. CASE onDisk = "whole" /\ Allowlist!Settle(wanted \cup Given)
    BY <2>1, <2>2, <2>4
  <2>5. CASE onDisk = "bad" /\ UNCHANGED <<allowing, dropping>>
    BY <2>2, <2>5
  <2> QED
    BY <1>3, <2>3, <2>4, <2>5 DEF Allowlist!ReadList
<1> QED
  BY <1>1, <1>2, <1>3 DEF Allowlist!AllowlistNext

\* A save locks no one out: a read that finds the list empty is followed by another before its keys
\* are dropped, and that one finds it whole (Settling::settle, CONFIRM).
THEOREM SaveLocksNoOneOutAlways == Spec => SaveLocksNoOneOut
<1>1. Init => AllowlistInv
  BY DEF Init, Allowlist!AllowlistInit, AllowlistInv
<1>2. AllowlistInv /\ [Next]_vars => AllowlistInv'
  <2>1. ASSUME AllowlistInv, UNCHANGED Allowlist!allowlistVars PROVE AllowlistInv'
    BY <2>1 DEF AllowlistInv, Allowlist!allowlistVars
  <2> QED
    BY <2>1, AllowlistStep, OwnSteps
<1>3. AllowlistInv /\ [Next]_vars =>
        [\A k \in Keys : k \in allowing /\ k \notin allowing' => k \notin listed \cup Given]_(Allowlist!allowlistVars)
  <2>1. ASSUME AllowlistInv, Allowlist!ReadList, NEW k \in Keys, k \in allowing, k \notin allowing'
        PROVE  k \notin listed \cup Given
    BY <2>1 DEF AllowlistInv, Allowlist!ReadList, Allowlist!Settle, Allowlist!Taken
  <2> QED
    BY <2>1, OwnSteps DEF Allowlist!AllowlistNext, Allowlist!StartSave, Allowlist!EndSave
<1> QED
  BY <1>1, <1>2, <1>3, PTL DEF Spec, SaveLocksNoOneOut, Allowlist!SaveLocksNoOneOut

(***************************************************************************)
(* Reaper.  What its thread was sent it holds, each once and in its order; *)
(* a program it lets go was reaped, and the others of its group killed.    *)
(***************************************************************************)
ReaperType ==
    /\ leader \in [Programs -> {"runs", "zombie", "reaped"}]
    /\ others \in [Groups -> BOOLEAN]
    /\ held \in [Programs -> {"owned", "sent", "polled", "released"}]
    /\ grace \in [Programs -> {"none", "running", "over"}]
    /\ given \in Seq(Programs \cup {"drain"})
    /\ draining \in {"no", "asked", "waits", "answered", "timeout"}
    /\ before \subseteq Programs

\* No pid is free of a program someone holds; and one hung up is killed by its grace's end.
Pids ==
    /\ strayed = FALSE
    /\ \A p \in Programs : held[p] # "released" => leader[p] # "reaped"
    /\ \A p \in Programs : held[p] \in {"sent", "polled"} /\ grace[p] = "none" => ~Reaper!OthersRun(p)

Queued ==
    /\ \A i \in 1..Len(given) : given[i] \in Programs => held[given[i]] = "sent"
    /\ \A p \in Programs : held[p] = "sent" => \E i \in 1..Len(given) : given[i] = p
    /\ \A i, j \in 1..Len(given) : given[i] = given[j] => i = j

\* Where those a drain waits for are: before it in the queue, polled, or done with.
Drains ==
    /\ draining = "no" => before = {} /\ \A i \in 1..Len(given) : given[i] # "drain"
    /\ draining = "asked" => \A i, k \in 1..Len(given) : given[i] \in before /\ given[k] = "drain" => i < k
    /\ \A p \in before : held[p] # "owned"
    /\ \A p \in before : held[p] = "released" => leader[p] = "reaped" /\ ~Reaper!OthersRun(p)
    /\ draining = "waits" => \A p \in before : held[p] # "sent"
    /\ draining = "answered" => \A p \in before : held[p] = "released"

ReaperInv == ReaperType /\ Pids /\ Queued /\ Drains

\* A step that moves no one a drain waits for, of which the first three parts are known.
LEMMA DrainGoesOn ==
  ASSUME Drains, UNCHANGED <<draining, before>>,
         \A p \in before : held'[p] = held[p] /\ leader'[p] = leader[p]
                           /\ Reaper!OthersRun(p)' = Reaper!OthersRun(p),
         draining = "no" => before = {} /\ \A i \in 1..Len(given') : given'[i] # "drain",
         draining = "asked" => \A i, k \in 1..Len(given') : given'[i] \in before /\ given'[k] = "drain" => i < k
  PROVE  Drains'
<1>1. \A p \in before' : held'[p] # "owned"
  BY DEF Drains
<1>2. \A p \in before' : held'[p] = "released" => leader'[p] = "reaped" /\ ~Reaper!OthersRun(p)'
  BY DEF Drains
<1>3. draining' = "waits" => \A p \in before' : held'[p] # "sent"
  BY DEF Drains
<1>4. draining' = "answered" => \A p \in before' : held'[p] = "released"
  BY DEF Drains
<1> QED
  BY <1>1, <1>2, <1>3, <1>4 DEF Drains

LEMMA ReaperInvInit == ASSUME Reaper!ReaperInit PROVE ReaperInv
<1>1. ReaperType
  BY DEF Reaper!ReaperInit, ReaperType
<1>2. Pids
  BY DEF Reaper!ReaperInit, Pids
<1>3. given = <<>> /\ Len(given) = 0 /\ draining = "no" /\ before = {} /\ held = [p \in Programs |-> "owned"]
  BY DEF Reaper!ReaperInit
<1>4. Queued /\ Drains
  BY <1>3 DEF Queued, Drains
<1> QED
  BY <1>1, <1>2, <1>4 DEF ReaperInv

\* A turn of the thread: what it polls is killed once its grace is over, and let go only reaped.
Turned(polled, waits) ==
    /\ leader' \in [Programs -> {"runs", "zombie", "reaped"}] /\ others' \in [Groups -> BOOLEAN]
    /\ held' \in [Programs -> {"owned", "sent", "polled", "released"}]
    /\ grace' \in [Programs -> {"none", "running", "over"}]
    /\ Pids' /\ before' = before
    /\ \A p \in Programs \ polled : held'[p] = held[p] /\ leader'[p] = leader[p]
    /\ \A p \in Programs : Reaper!OthersRun(p)' => Reaper!OthersRun(p)
    /\ \A p \in polled :
          \/ held'[p] = "polled"
          \/ held'[p] = "released" /\ leader'[p] = "reaped" /\ ~Reaper!OthersRun(p)'
    /\ IF waits THEN /\ draining' \in {"answered", "waits"}
                     /\ draining' = "answered" => \A p \in polled : held'[p] = "released"
                ELSE draining' = draining

LEMMA TurnHolds ==
  ASSUME Reaper!ReaperAssumption, ReaperType, Pids, NEW polled \in SUBSET Programs,
         \A p \in polled : held[p] \in {"sent", "polled"},
         NEW waits \in BOOLEAN, Reaper!Turn(polled, waits)
  PROVE  Turned(polled, waits)
<1> DEFINE gone == Reaper!Reaped(polled)
           killed == Reaper!Kills(polled)
<1>1. /\ leader' = [p \in Programs |-> IF p \in gone THEN "reaped"
                                       ELSE IF p \in killed /\ leader[p] = "runs" THEN "zombie"
                                       ELSE leader[p]]
      /\ grace' = [p \in Programs |-> IF p \in killed THEN "none" ELSE grace[p]]
      /\ held' = [p \in Programs |-> IF p \in gone THEN "released"
                                     ELSE IF p \in polled THEN "polled" ELSE held[p]]
      /\ before' = before
  BY DEF Reaper!Turn
<1>2. others' = [p \in Groups |-> others[p] /\ p \notin killed]
  BY DEF Reaper!Turn
<1>3. /\ gone \subseteq polled /\ killed \subseteq polled
      /\ \A p \in gone : leader[p] = "zombie" /\ (p \in Groups => grace[p] # "running")
      /\ \A p \in polled : p \in killed <=> grace[p] = "over"
  BY DEF Reaper!Reaped, Reaper!Kills, Reaper!MayReap
<1>4. strayed' = FALSE
  <2>1. strayed' = (strayed \/ \E p \in killed : Reaper!Reused(p))
    BY DEF Reaper!Turn
  <2>2. strayed = FALSE /\ \A p \in killed : leader[p] # "reaped"
    BY <1>3 DEF Pids
  <2>3. ~\E p \in killed : Reaper!Reused(p)
    BY <2>2 DEF Reaper!Reused
  <2> QED
    BY <2>1, <2>2, <2>3
<1> HIDE DEF gone, killed
<1>5. /\ leader' \in [Programs -> {"runs", "zombie", "reaped"}]
      /\ held' \in [Programs -> {"owned", "sent", "polled", "released"}]
      /\ grace' \in [Programs -> {"none", "running", "over"}]
  BY <1>1 DEF ReaperType
<1>6. others' \in [Groups -> BOOLEAN]
  BY <1>2
<1>7. ASSUME NEW p \in Programs, Reaper!OthersRun(p)' PROVE Reaper!OthersRun(p) /\ p \notin killed
  BY <1>2, <1>7 DEF Reaper!OthersRun
<1>8. ASSUME NEW p \in Programs \ polled PROVE held'[p] = held[p] /\ leader'[p] = leader[p] /\ grace'[p] = grace[p]
  BY <1>1, <1>3
<1>9. ASSUME NEW p \in polled PROVE p \in gone => ~Reaper!OthersRun(p)'
  <2> SUFFICES ASSUME p \in gone, Reaper!OthersRun(p)' PROVE FALSE
    OBVIOUS
  <2>1. Reaper!OthersRun(p) /\ p \notin killed
    BY <1>7
  <2>2. p \in Groups
    BY <2>1 DEF Reaper!OthersRun
  <2>3. grace[p] = "none"
    BY <1>3, <2>1, <2>2 DEF ReaperType
  <2> QED
    BY <2>1, <2>3 DEF Pids
<1>10. ASSUME NEW p \in polled PROVE
         /\ p \in gone => held'[p] = "released" /\ leader'[p] = "reaped" /\ ~Reaper!OthersRun(p)'
         /\ p \notin gone => held'[p] = "polled"
  BY <1>1, <1>9
<1>11. Pids'
  <2>1. ASSUME NEW p \in Programs, held'[p] # "released" PROVE leader'[p] # "reaped"
    <3>1. CASE p \in polled
      BY <1>1, <1>3, <1>10, <2>1, <3>1 DEF Pids
    <3>2. CASE p \notin polled
      BY <1>8, <2>1, <3>2 DEF Pids
    <3> QED
      BY <3>1, <3>2
  <2>2. ASSUME NEW p \in Programs, held'[p] \in {"sent", "polled"}, grace'[p] = "none", Reaper!OthersRun(p)'
        PROVE  FALSE
    <3>1. Reaper!OthersRun(p) /\ p \notin killed
      BY <1>7, <2>2
    <3>2. grace[p] = "none"
      BY <1>1, <2>2, <3>1
    <3>3. held[p] \in {"sent", "polled"}
      BY <1>8, <2>2
    <3> QED
      BY <3>1, <3>2, <3>3 DEF Pids
  <2> QED
    BY <1>4, <2>1, <2>2 DEF Pids
<1>12. IF waits THEN /\ draining' \in {"answered", "waits"}
                     /\ draining' = "answered" => \A p \in polled : held'[p] = "released"
                ELSE draining' = draining
  <2>1. CASE waits
    <3>1. draining' = IF polled \ gone = {} THEN "answered" ELSE "waits"
      BY <2>1 DEF Reaper!Turn, Reaper!Answered, gone
    <3>2. draining' = "answered" => polled \subseteq gone
      BY <3>1
    <3> QED
      BY <1>10, <2>1, <3>1, <3>2
  <2>2. CASE ~waits
    BY <2>2 DEF Reaper!Turn
  <2> QED
    BY <2>1, <2>2
<1> QED
  BY <1>1, <1>5, <1>6, <1>7, <1>8, <1>10, <1>11, <1>12 DEF Turned

LEMMA Appended ==
  ASSUME NEW S, NEW q \in Seq(S), NEW x \in S
  PROVE  /\ Append(q, x) \in Seq(S) /\ Len(q) \in Nat /\ Len(Append(q, x)) = Len(q) + 1
         /\ \A i \in 1..Len(q) : Append(q, x)[i] = q[i]
         /\ Append(q, x)[Len(q) + 1] = x
OBVIOUS

LEMMA Taken ==
  ASSUME NEW S, NEW q \in Seq(S), q # <<>>
  PROVE  /\ Tail(q) \in Seq(S) /\ Len(q) \in Nat \ {0} /\ Len(Tail(q)) = Len(q) - 1
         /\ Head(q) = q[1] /\ q[1] \in S
         /\ \A i \in 1..Len(q) - 1 : Tail(q)[i] = q[i + 1]
OBVIOUS

\* Whatever changes no queue and no drain, and no one's hold.
LEMMA RestHolds ==
  ASSUME Queued, Drains, UNCHANGED <<held, given, draining, before>>,
         \A p \in Programs : Reaper!OthersRun(p)' => Reaper!OthersRun(p),
         \A p \in Programs : leader[p] = "reaped" => leader'[p] = "reaped",
         ReaperType
  PROVE  Queued' /\ Drains'
<1>1. Queued'
  BY DEF Queued
<1>2. before \subseteq Programs
  BY DEF ReaperType
<1>3. Drains'
  BY <1>2 DEF Drains
<1> QED
  BY <1>1, <1>3

LEMMA TakesHolds == ASSUME Reaper!ReaperAssumption, ReaperInv, Reaper!Takes PROVE ReaperInv'
<1> DEFINE polled == IF Head(given) = "drain" THEN Reaper!Polled ELSE Reaper!Polled \cup {Head(given)}
           waits == IF Head(given) = "drain" THEN draining = "asked" ELSE draining = "waits"
<1>1. given # <<>> /\ given' = Tail(given) /\ Reaper!Turn(polled, waits)
  BY DEF Reaper!Takes
<1>2. "drain" \notin Programs /\ given \in Seq(Programs \cup {"drain"})
  BY DEF Reaper!ReaperAssumption, ReaperInv, ReaperType
<1>3. /\ given' \in Seq(Programs \cup {"drain"}) /\ Len(given) \in Nat \ {0} /\ Len(given') = Len(given) - 1
      /\ Head(given) = given[1] /\ given[1] \in Programs \cup {"drain"}
      /\ \A i \in 1..Len(given) - 1 : given'[i] = given[i + 1]
  BY <1>1, <1>2, Taken
<1>4. given[1] \in Programs => held[given[1]] = "sent"
  BY <1>3 DEF ReaperInv, Queued
<1>5. /\ polled \in SUBSET Programs /\ waits \in BOOLEAN
      /\ \A p \in polled : held[p] \in {"sent", "polled"}
      /\ \A p \in Programs : held[p] = "polled" => p \in polled
      /\ \A p \in Programs : p \in polled /\ held[p] = "sent" => p = given[1]
      /\ given[1] \in Programs => given[1] \in polled
  BY <1>2, <1>3, <1>4 DEF Reaper!Polled
<1> HIDE DEF polled
<1>6. waits <=> (given[1] = "drain" /\ draining = "asked") \/ (given[1] # "drain" /\ draining = "waits")
  BY <1>3
<1> HIDE DEF waits
<1>7. /\ leader' \in [Programs -> {"runs", "zombie", "reaped"}] /\ others' \in [Groups -> BOOLEAN]
      /\ held' \in [Programs -> {"owned", "sent", "polled", "released"}]
      /\ grace' \in [Programs -> {"none", "running", "over"}]
      /\ Pids' /\ before' = before
      /\ \A p \in Programs \ polled : held'[p] = held[p] /\ leader'[p] = leader[p]
      /\ \A p \in Programs : Reaper!OthersRun(p)' => Reaper!OthersRun(p)
      /\ \A p \in polled :
            \/ held'[p] = "polled"
            \/ held'[p] = "released" /\ leader'[p] = "reaped" /\ ~Reaper!OthersRun(p)'
      /\ IF waits THEN /\ draining' \in {"answered", "waits"}
                       /\ draining' = "answered" => \A p \in polled : held'[p] = "released"
                  ELSE draining' = draining
  <2>1. ReaperType /\ Pids
    BY DEF ReaperInv
  <2>2. Turned(polled, waits)
    BY <1>1, <1>5, <2>1, TurnHolds, Zenon
  <2> QED
    BY <2>2 DEF Turned
<1>8. ReaperType'
  BY <1>3, <1>7 DEF ReaperInv, ReaperType
<1>9. Queued'
  <2>1. ASSUME NEW i \in 1..Len(given'), given'[i] \in Programs PROVE held'[given'[i]] = "sent"
    <3>1. i + 1 \in 1..Len(given) /\ given'[i] = given[i + 1] /\ 1 \in 1..Len(given) /\ i + 1 # 1
      BY <1>3
    <3>2. held[given[i + 1]] = "sent" /\ given[i + 1] # given[1]
      BY <2>1, <3>1 DEF ReaperInv, Queued
    <3>3. given[i + 1] \notin polled
      BY <1>5, <2>1, <3>1, <3>2
    <3> QED
      BY <1>7, <2>1, <3>1, <3>2, <3>3
  <2>2. ASSUME NEW p \in Programs, held'[p] = "sent" PROVE \E i \in 1..Len(given') : given'[i] = p
    <3>1. p \notin polled /\ held[p] = "sent"
      BY <1>7, <2>2
    <3>2. PICK i \in 1..Len(given) : given[i] = p
      BY <3>1 DEF ReaperInv, Queued
    <3>3. i # 1
      BY <1>5, <3>1, <3>2
    <3>4. i - 1 \in 1..Len(given') /\ given'[i - 1] = given[i]
      BY <1>3, <3>3
    <3> QED
      BY <3>2, <3>4
  <2>3. ASSUME NEW i \in 1..Len(given'), NEW j \in 1..Len(given'), given'[i] = given'[j] PROVE i = j
    <3>1. /\ i + 1 \in 1..Len(given) /\ given'[i] = given[i + 1]
          /\ j + 1 \in 1..Len(given) /\ given'[j] = given[j + 1]
      BY <1>3
    <3>2. i + 1 = j + 1
      BY <2>3, <3>1 DEF ReaperInv, Queued
    <3> QED
      BY <3>2
  <2> QED
    BY <2>1, <2>2, <2>3 DEF Queued
\* Those a drain waits for.
<1>10. ASSUME NEW p \in before PROVE
         /\ p \in Programs /\ held'[p] # "owned"
         /\ held'[p] = "released" => leader'[p] = "reaped" /\ ~Reaper!OthersRun(p)'
         /\ waits => held'[p] # "sent" /\ (draining' = "answered" => held'[p] = "released")
         /\ draining \in {"waits", "answered"} => held'[p] # "sent"
         /\ draining = "answered" => held'[p] = "released"
  <2>1. /\ p \in Programs /\ held[p] \in {"sent", "polled", "released"}
        /\ held[p] = "released" => leader[p] = "reaped" /\ ~Reaper!OthersRun(p)
        /\ draining = "waits" => held[p] # "sent" 
        /\ draining = "answered" => held[p] = "released"
    BY DEF ReaperInv, ReaperType, Drains
  <2>2. CASE held[p] = "sent" /\ p # given[1]
    <3>1. PICK i \in 1..Len(given) : given[i] = p
      BY <2>1, <2>2 DEF ReaperInv, Queued
    <3>2. i # 1 /\ 1 \in 1..Len(given)
      BY <1>3, <2>2, <3>1
    <3>3. ASSUME draining = "asked", given[1] = "drain" PROVE FALSE
      <4>1. \A j, k \in 1..Len(given) : given[j] \in before /\ given[k] = "drain" => j < k
        BY <3>3 DEF ReaperInv, Drains
      <4>2. i < 1
        BY <3>1, <3>2, <3>3, <4>1
      <4> QED
        BY <3>2, <4>2
    <3>4. p \notin polled
      BY <1>5, <2>1, <2>2
    <3> QED
      BY <1>6, <1>7, <2>1, <2>2, <3>3, <3>4
  <2>3. CASE held[p] = "sent" /\ p = given[1]
    <3>1. p \in polled
      BY <1>5, <2>1, <2>3
    <3> QED
      BY <1>6, <1>7, <2>1, <2>3, <3>1
  <2>4. CASE held[p] = "polled"
    <3>1. p \in polled
      BY <1>5, <2>1, <2>4
    <3> QED
      BY <1>6, <1>7, <2>1, <2>4, <3>1
  <2>5. CASE held[p] = "released"
    <3>1. p \notin polled
      BY <1>5, <2>5
    <3> QED
      BY <1>6, <1>7, <2>1, <2>5, <3>1
  <2> QED
    BY <2>1, <2>2, <2>3, <2>4, <2>5
<1>11. Drains'
  <2>1. draining' = draining \/ draining' \in {"answered", "waits"}
    BY <1>7
  <2>2. ASSUME draining' = "no" PROVE before' = {} /\ \A i \in 1..Len(given') : given'[i] # "drain"
    <3>1. draining = "no"
      BY <2>1, <2>2
    <3>2. before = {} /\ \A i \in 1..Len(given) : given[i] # "drain"
      BY <3>1 DEF ReaperInv, Drains
    <3>3. \A i \in 1..Len(given') : i + 1 \in 1..Len(given) /\ given'[i] = given[i + 1]
      BY <1>3
    <3> QED
      BY <1>7, <3>2, <3>3
  <2>3. ASSUME draining' = "asked", NEW i \in 1..Len(given'), NEW k \in 1..Len(given'),
               given'[i] \in before, given'[k] = "drain"
        PROVE  i < k
    <3>1. draining = "asked"
      BY <2>1, <2>3
    <3>2. /\ i + 1 \in 1..Len(given) /\ given'[i] = given[i + 1]
          /\ k + 1 \in 1..Len(given) /\ given'[k] = given[k + 1]
      BY <1>3
    <3>3. i + 1 < k + 1
      BY <2>3, <3>1, <3>2 DEF ReaperInv, Drains
    <3> QED
      BY <3>3
  <2>4. ASSUME NEW p \in before' PROVE
          /\ held'[p] # "owned"
          /\ held'[p] = "released" => leader'[p] = "reaped" /\ ~Reaper!OthersRun(p)'
          /\ draining' = "waits" => held'[p] # "sent"
          /\ draining' = "answered" => held'[p] = "released"
    <3>1. p \in before
      BY <1>7
    <3>2. draining' = draining \/ waits
      BY <1>7
    <3> QED
      BY <1>10, <3>1, <3>2
  <2> QED
    BY <1>7, <2>2, <2>3, <2>4 DEF Drains
<1> QED
  BY <1>7, <1>8, <1>9, <1>11 DEF ReaperInv

LEMMA PollsHolds == ASSUME Reaper!ReaperAssumption, ReaperInv, Reaper!Polls PROVE ReaperInv'
<1> DEFINE waits == draining = "waits"
<1>1. given = <<>> /\ given' = given /\ Len(given) = 0 /\ Reaper!Turn(Reaper!Polled, waits)
  BY DEF Reaper!Polls
<1>2. /\ Reaper!Polled \in SUBSET Programs /\ waits \in BOOLEAN
      /\ \A p \in Reaper!Polled : held[p] \in {"sent", "polled"}
      /\ \A p \in Programs : held[p] = "polled" => p \in Reaper!Polled
      /\ \A p \in Programs : held[p] # "sent"
  BY <1>1 DEF Reaper!Polled, ReaperInv, Queued
<1> HIDE DEF waits
<1>3. ReaperType /\ Pids
  BY DEF ReaperInv
<1>4. Turned(Reaper!Polled, waits)
  BY <1>1, <1>2, <1>3, TurnHolds, Zenon
<1>5. \A p \in Programs : held'[p] # "sent"
  BY <1>2, <1>4 DEF Turned
<1>6. ReaperType'
  BY <1>1, <1>3, <1>4 DEF Turned, ReaperType, waits
<1>7. Queued'
  BY <1>1, <1>5 DEF Queued
<1>8. draining' \in {draining, "waits", "answered"} /\ (draining' # draining => waits) /\ before' = before
  BY <1>4 DEF Turned
<1>9. ASSUME NEW p \in before PROVE
        /\ held'[p] # "owned"
        /\ held'[p] = "released" => leader'[p] = "reaped" /\ ~Reaper!OthersRun(p)'
        /\ draining' = "answered" => held'[p] = "released"
  <2>1. /\ p \in Programs /\ held[p] \in {"polled", "released"}
        /\ held[p] = "released" => leader[p] = "reaped" /\ ~Reaper!OthersRun(p)
        /\ draining = "answered" => held[p] = "released"
    BY <1>2 DEF ReaperInv, ReaperType, Drains
  <2>2. CASE held[p] = "polled"
    <3>1. p \in Reaper!Polled
      BY <1>2, <2>1, <2>2
    <3>2. waits /\ draining' = "answered" => held'[p] = "released"
      BY <1>4, <3>1 DEF Turned
    <3> QED
      BY <1>4, <1>8, <2>1, <2>2, <3>1, <3>2 DEF Turned
  <2>3. CASE held[p] = "released"
    <3>1. p \notin Reaper!Polled
      BY <2>3 DEF Reaper!Polled
    <3> QED
      BY <1>4, <2>1, <2>3, <3>1 DEF Turned
  <2> QED
    BY <2>1, <2>2, <2>3
<1>10. Drains'
  <2>1. draining' = "no" => before' = {}
    BY <1>8 DEF ReaperInv, Drains
  <2>2. before \subseteq Programs
    BY <1>3 DEF ReaperType
  <2> QED
    <3>1. \A i \in 1..Len(given') : FALSE
      BY <1>1
    <3>2. \A p \in before' : p \in before /\ held'[p] # "sent"
      BY <1>5, <1>8, <2>2
    <3> QED
      BY <1>9, <2>1, <3>1, <3>2 DEF Drains
<1> QED
  BY <1>4, <1>6, <1>7, <1>10 DEF ReaperInv, Turned

LEMMA ReaperStep == ASSUME Reaper!ReaperAssumption, ReaperInv, Reaper!ReaperNext PROVE ReaperInv'
<1>a. ReaperType /\ Pids /\ Queued /\ Drains /\ "drain" \notin Programs /\ Groups \subseteq Programs
  BY DEF ReaperInv, Reaper!ReaperAssumption
<1>1. ASSUME NEW p \in Programs, Reaper!Exits(p) PROVE ReaperInv'
  <2>1. /\ leader[p] = "runs" /\ leader' = [leader EXCEPT ![p] = "zombie"]
        /\ UNCHANGED <<others, held, grace, given, draining, before, strayed>>
    BY <1>1 DEF Reaper!Exits
  <2>2. ReaperType' /\ Pids'
    BY <1>a, <2>1 DEF ReaperType, Pids, Reaper!OthersRun
  <2>3. Queued' /\ Drains'
    BY <1>a, <2>1, RestHolds DEF ReaperType, Reaper!OthersRun
  <2> QED
    BY <2>2, <2>3 DEF ReaperInv
<1>2. ASSUME NEW p \in Groups, Reaper!OthersExit(p) PROVE ReaperInv'
  <2>1. /\ others' = [others EXCEPT ![p] = FALSE]
        /\ UNCHANGED <<leader, held, grace, given, draining, before, strayed>>
    BY <1>2 DEF Reaper!OthersExit
  <2>2. ASSUME NEW q \in Programs, Reaper!OthersRun(q)' PROVE Reaper!OthersRun(q)
    BY <1>a, <2>1, <2>2 DEF ReaperType, Reaper!OthersRun
  <2>3. ReaperType'
    BY <1>a, <2>1 DEF ReaperType
  <2>4. Pids'
    BY <1>a, <2>1, <2>2 DEF Pids
  <2>5. Queued' /\ Drains'
    BY <1>a, <2>1, <2>2, RestHolds
  <2> QED
    BY <2>3, <2>4, <2>5 DEF ReaperInv
<1>3. ASSUME NEW p \in Programs, Reaper!Signals(p) PROVE ReaperInv'
  <2>1. held[p] = "owned" /\ UNCHANGED <<leader, others, held, grace, given, draining, before>>
    BY <1>3 DEF Reaper!Signals
  <2>2. strayed' = FALSE
    <3>1. ~Reaper!Reused(p)
      BY <1>a, <2>1 DEF Pids, Reaper!Reused
    <3> QED
      BY <1>3, <1>a, <3>1 DEF Reaper!Signals, Pids
  <2>3. ReaperType' /\ Pids'
    BY <1>a, <2>1, <2>2 DEF ReaperType, Pids, Reaper!OthersRun
  <2>4. Queued' /\ Drains'
    BY <1>a, <2>1, RestHolds DEF Reaper!OthersRun
  <2> QED
    BY <2>3, <2>4 DEF ReaperInv
<1>4. ASSUME NEW p \in Programs, Reaper!OwnerReaps(p) PROVE ReaperInv'
  <2>1. /\ held[p] = "owned" /\ held' = [held EXCEPT ![p] = "released"]
        /\ leader' = [leader EXCEPT ![p] = "reaped"]
        /\ UNCHANGED <<others, grace, given, draining, before, strayed>>
    BY <1>4 DEF Reaper!OwnerReaps, Reaper!LetGo
  <2>2. ReaperType' /\ Pids'
    <3>1. ReaperType'
      BY <1>a, <2>1 DEF ReaperType
    <3>2. Pids'
      BY <1>a, <2>1 DEF ReaperType, Pids, Reaper!OthersRun
    <3> QED BY <3>1, <3>2
  <2>3. Queued'
    BY <1>a, <2>1, ZenonT(60) DEF ReaperType, Queued
  <2>4. p \notin before /\ before \subseteq Programs
    BY <1>a, <2>1 DEF ReaperType, Drains
  <2>5. \A q \in before : held'[q] = held[q] /\ leader'[q] = leader[q] /\ Reaper!OthersRun(q)' = Reaper!OthersRun(q)
    BY <1>a, <2>1, <2>4 DEF ReaperType, Reaper!OthersRun
  <2>6. Drains'
    <3>1. /\ draining = "no" => before = {} /\ \A i \in 1..Len(given') : given'[i] # "drain"
          /\ draining = "asked" => \A i, k \in 1..Len(given') : given'[i] \in before /\ given'[k] = "drain" => i < k
      BY <1>a, <2>1 DEF Drains
    <3> QED
      BY <1>a, <2>1, <2>5, <3>1, DrainGoesOn
  <2> QED
    BY <2>2, <2>3, <2>6 DEF ReaperInv
<1>5. ASSUME NEW p \in Programs, Reaper!HangsUp(p) PROVE ReaperInv'
  <2>1. /\ held[p] = "owned" /\ held' = [held EXCEPT ![p] = "sent"] /\ grace' = [grace EXCEPT ![p] = "running"]
        /\ given' = Append(given, p)
        /\ UNCHANGED <<leader, others, draining, before>>
    BY <1>5 DEF Reaper!HangsUp
  <2>2. strayed' = FALSE
    <3>1. ~Reaper!Reused(p)
      BY <1>a, <2>1 DEF Pids, Reaper!Reused
    <3> QED
      BY <1>5, <1>a, <3>1 DEF Reaper!HangsUp, Pids
  <2>3. /\ given' \in Seq(Programs \cup {"drain"}) /\ Len(given) \in Nat /\ Len(given') = Len(given) + 1
        /\ \A i \in 1..Len(given) : given'[i] = given[i]
        /\ given'[Len(given) + 1] = p
    <3>1. p \in Programs \cup {"drain"} /\ given \in Seq(Programs \cup {"drain"})
      BY <1>a DEF ReaperType
    <3> QED
      BY <2>1, <3>1, Appended
  <2>4. ReaperType' /\ Pids'
    BY <1>a, <2>1, <2>2, <2>3 DEF ReaperType, Pids, Reaper!OthersRun
  <2>5. \A i \in 1..Len(given) : given[i] # p
    BY <1>a, <2>1 DEF Queued
  <2>6. Queued'
    <3>1. ASSUME NEW i \in 1..Len(given'), given'[i] \in Programs PROVE held'[given'[i]] = "sent"
      <4>1. CASE i = Len(given) + 1
        BY <1>a, <2>1, <2>3, <4>1 DEF ReaperType
      <4>2. CASE i \in 1..Len(given)
        <5>1. held[given[i]] = "sent" /\ given'[i] = given[i]
          BY <1>a, <2>3, <3>1, <4>2 DEF Queued
        <5> QED
          BY <1>a, <2>1, <3>1, <5>1 DEF ReaperType
      <4> QED
        BY <2>3, <4>1, <4>2
    <3>2. ASSUME NEW q \in Programs, held'[q] = "sent" PROVE \E i \in 1..Len(given') : given'[i] = q
      <4>1. CASE q = p
        BY <2>3, <4>1
      <4>2. CASE q # p
        <5>1. PICK i \in 1..Len(given) : given[i] = q
          BY <1>a, <2>1, <3>2, <4>2 DEF ReaperType, Queued
        <5> QED
          BY <2>3, <5>1
      <4> QED
        BY <4>1, <4>2
    <3>3. ASSUME NEW i \in 1..Len(given'), NEW j \in 1..Len(given'), given'[i] = given'[j] PROVE i = j
      BY <1>a, <2>3, <2>5, <3>3 DEF Queued
    <3> QED
      BY <3>1, <3>2, <3>3 DEF Queued
  <2>7. p \notin before /\ before \subseteq Programs
    BY <1>a, <2>1 DEF ReaperType, Drains
  <2>8. \A q \in before : held'[q] = held[q] /\ leader'[q] = leader[q] /\ Reaper!OthersRun(q)' = Reaper!OthersRun(q)
    BY <1>a, <2>1, <2>7 DEF ReaperType, Reaper!OthersRun
  <2>9. Drains'
    <3>1. ASSUME draining = "no" PROVE before = {} /\ \A i \in 1..Len(given') : given'[i] # "drain"
      <4>1. before = {} /\ \A i \in 1..Len(given) : given[i] # "drain"
        BY <1>a, <3>1 DEF Drains
      <4>2. \A i \in 1..Len(given') : i \in 1..Len(given) \/ i = Len(given) + 1
        BY <2>3
      <4> QED
        BY <1>a, <2>3, <4>1, <4>2
    <3>2. ASSUME draining = "asked", NEW i \in 1..Len(given'), NEW k \in 1..Len(given'),
                 given'[i] \in before, given'[k] = "drain"
          PROVE  i < k
      <4>1. i \in 1..Len(given) /\ k \in 1..Len(given)
        BY <1>a, <2>3, <2>7, <3>2
      <4>2. given[i] \in before /\ given[k] = "drain"
        BY <2>3, <3>2, <4>1
      <4> QED
        BY <1>a, <3>2, <4>1, <4>2 DEF Drains
    <3> QED
      BY <1>a, <2>1, <2>8, <3>1, <3>2, DrainGoesOn
  <2> QED
    BY <2>4, <2>6, <2>9 DEF ReaperInv
<1>6. ASSUME NEW p \in Programs, Reaper!GraceOver(p) PROVE ReaperInv'
  <2>1. /\ grace' = [grace EXCEPT ![p] = "over"]
        /\ UNCHANGED <<leader, others, held, given, draining, before, strayed>>
    BY <1>6 DEF Reaper!GraceOver
  <2>2. ReaperType' /\ Pids'
    BY <1>a, <2>1 DEF ReaperType, Pids, Reaper!OthersRun
  <2>3. Queued' /\ Drains'
    BY <1>a, <2>1, RestHolds DEF Reaper!OthersRun
  <2> QED
    BY <2>2, <2>3 DEF ReaperInv
<1>7. ASSUME Reaper!AsksToDrain PROVE ReaperInv'
  <2>1. /\ draining = "no" /\ draining' = "asked" /\ given' = Append(given, "drain")
        /\ before' = {p \in Programs : held[p] \in {"sent", "polled"}}
        /\ UNCHANGED <<leader, others, held, grace, strayed>>
    BY <1>7 DEF Reaper!AsksToDrain
  <2>2. /\ given' \in Seq(Programs \cup {"drain"}) /\ Len(given) \in Nat /\ Len(given') = Len(given) + 1
        /\ \A i \in 1..Len(given) : given'[i] = given[i]
        /\ given'[Len(given) + 1] = "drain"
    <3>1. "drain" \in Programs \cup {"drain"} /\ given \in Seq(Programs \cup {"drain"})
      BY <1>a DEF ReaperType
    <3> QED
      BY <2>1, <3>1, Appended
  <2>3. ReaperType' /\ Pids'
    BY <1>a, <2>1, <2>2 DEF ReaperType, Pids, Reaper!OthersRun
  <2>4. \A i \in 1..Len(given) : given[i] # "drain"
    BY <1>a, <2>1 DEF Drains
  <2>5. Queued'
    <3>1. ASSUME NEW i \in 1..Len(given'), given'[i] \in Programs PROVE held'[given'[i]] = "sent"
      BY <1>a, <2>1, <2>2, <3>1 DEF Queued
    <3>2. ASSUME NEW q \in Programs, held'[q] = "sent" PROVE \E i \in 1..Len(given') : given'[i] = q
      <4>1. PICK i \in 1..Len(given) : given[i] = q
        BY <1>a, <2>1, <3>2 DEF Queued
      <4> QED
        BY <2>2, <4>1
    <3>3. ASSUME NEW i \in 1..Len(given'), NEW j \in 1..Len(given'), given'[i] = given'[j] PROVE i = j
      BY <1>a, <2>2, <2>4, <3>3 DEF Queued
    <3> QED
      BY <3>1, <3>2, <3>3 DEF Queued
  <2>6. ASSUME NEW i \in 1..Len(given'), NEW k \in 1..Len(given'), given'[i] \in before', given'[k] = "drain"
        PROVE  i < k
    <3>1. k = Len(given) + 1
      BY <2>2, <2>4, <2>6
    <3>2. given'[i] # "drain"
      BY <1>a, <2>1, <2>6
    <3> QED
      BY <2>2, <3>1, <3>2
  <2>7. \A p \in before' : held'[p] \in {"sent", "polled"}
    BY <2>1
  <2>8. Drains'
    BY <2>1, <2>6, <2>7 DEF Drains
  <2> QED
    BY <2>3, <2>5, <2>8 DEF ReaperInv
<1>8. ASSUME Reaper!DrainTimesOut PROVE ReaperInv'
  <2>1. /\ draining' = "timeout"
        /\ UNCHANGED <<leader, others, held, grace, given, before, strayed>>
    BY <1>8 DEF Reaper!DrainTimesOut
  <2>2. ReaperType' /\ Pids' /\ Queued'
    BY <1>a, <2>1 DEF ReaperType, Pids, Queued, Reaper!OthersRun
  <2>3. \A p \in Programs : Reaper!OthersRun(p)' = Reaper!OthersRun(p)
    BY <2>1 DEF Reaper!OthersRun
  <2>4. before \subseteq Programs
    BY <1>a DEF ReaperType
  <2>5. Drains'
    BY <1>a, <2>1, <2>3, <2>4 DEF Drains
  <2> QED
    BY <2>2, <2>5 DEF ReaperInv
<1> QED
  BY <1>1, <1>2, <1>3, <1>4, <1>5, <1>6, <1>7, <1>8, TakesHolds, PollsHolds DEF Reaper!ReaperNext

\* A signal reaches no process koh did not start, and a drain is answered only once every program hung
\* up before it is reaped and no one is left of its group: a pid is let go of only with its program
\* reaped, and the queue keeps what was hung up before what drains (Program, Stopping, Reaper::drain).
THEOREM ReapsItsOwnAlways == Spec => []ReapsItsOwn
<1>1. Init => ReaperInv
  BY ReaperInvInit DEF Init
<1>2. ReaperInv /\ [Next]_vars => ReaperInv'
  <2>1. ASSUME ReaperInv, UNCHANGED Reaper!reaperVars PROVE ReaperInv'
    <3>1. \A p \in Programs : Reaper!OthersRun(p)' = Reaper!OthersRun(p)
      BY <2>1 DEF Reaper!OthersRun, Reaper!reaperVars
    <3> QED
      <4>1. UNCHANGED <<leader, others, held, grace, given, draining, before, strayed>>
        BY <2>1 DEF Reaper!reaperVars
      <4>2. ReaperType' /\ Pids' /\ Queued'
        BY <2>1, <3>1, <4>1 DEF ReaperInv, ReaperType, Pids, Queued
      <4>3. Queued' /\ Drains'
        BY <2>1, <3>1, <4>1, RestHolds DEF ReaperInv
      <4> QED
        BY <4>2, <4>3 DEF ReaperInv
  <2> QED
    BY <2>1, ReaperStep, OwnSteps, PartsAssumption
<1>3. ReaperInv => ReapsItsOwn
  BY DEF ReaperInv, Pids, Drains, ReapsItsOwn, Reaper!NoStraySignal, Reaper!DrainWaits
<1> QED
  BY <1>1, <1>2, <1>3, PTL DEF Spec

(***************************************************************************)
(* Commands.  What each task of the server says of the job stays true of   *)
(* it, and so what the command remembers of what was said.                 *)
(***************************************************************************)
Exit == Statuses \cup {Commands!Nothing}
CommandType ==
    /\ asker \in [at : {"idle", "dialing", "asked", "exited"}, ask : Commands!Asks,
                  until : {"end", "text", "follow"}, shows : BOOLEAN, status : Int, exit : Int]
    /\ reached \in [Commands!Asks -> {"none", "open", "left", "cut", "refused"}]
    /\ server \in [Commands!Asks ->
                     [at : {"none", "opening", "serving", "found", "judging", "lingering", "done"},
                      saw : Exit, said : {"nothing", "text", "ended", "list", "log"}, status : Int]]
    /\ job \in [exit : Exit, text : BOOLEAN]

\* A status that is true of the job, for good, of a command that ends with it.
IsTrue(code) ==
    /\ asker.until = "end" /\ code \notin {Commands!TimedOut, Commands!Failed, Commands!Busy}
          => code = job.exit /\ job.exit # Commands!Nothing
    /\ asker.until = "text" /\ code = 0 => job.text
    /\ asker.until = "text" /\ code = 1 => job.exit # Commands!Nothing /\ ~job.text
    /\ asker.until = "follow" /\ code \notin {0, Commands!Failed, Commands!Busy}
          => code = job.exit /\ job.exit # Commands!Nothing
    /\ code = Commands!TimedOut => timer = "passed" \/ job.exit = Commands!TimedOut

\* Of a request's task.
Task(a) ==
    /\ server[a].saw \in {Commands!Nothing, job.exit}
    /\ server[a].at \in {"found", "judging"} => a = "wait"
    /\ server[a].at = "judging" /\ server[a].saw # Commands!Nothing /\ asker.until = "text" => ~job.text
    /\ server[a].said = "text" => a = "wait" /\ asker.until = "text" /\ job.text
    /\ server[a].said = "ended" =>
          /\ a = "wait" /\ job.exit # Commands!Nothing /\ server[a].status = job.exit
          /\ asker.until = "text" => ~job.text
    /\ server[a].said = "list" => a = "jobs"
    /\ server[a].said = "log" =>
          a = "logs" /\ (asker.until = "follow" => server[a].status = job.exit /\ job.exit # Commands!Nothing)
    /\ asker.at = "idle" => server[a].at = "none" /\ server[a].said = "nothing"

\* Of the command, and of the one connection it has open.
Asker ==
    /\ asker.at = "idle" => asker.ask = "wait"
    /\ asker.at # "idle" /\ asker.until = "follow" => asker.ask = "logs"
    /\ asker.ask # "wait" /\ asker.until # "follow" => IsTrue(asker.status)
    /\ asker.at = "exited" => IsTrue(asker.exit)
    /\ \A a \in Commands!Asks : reached[a] = "open" => asker.at = "asked" /\ asker.ask = a

CommandInv == CommandType /\ Asker /\ \A a \in Commands!Asks : Task(a)

LEMMA CommandInvInit == ASSUME Commands!CommandInit PROVE CommandInv
<1>1. Commands!Nothing \in Exit
  BY DEF Exit
<1>2. CommandType
  BY <1>1 DEF Commands!CommandInit, CommandType, Commands!Asks, Commands!NoTask, Commands!Nothing
<1>3. Asker
  BY DEF Commands!CommandInit, Asker
<1>4. ASSUME NEW a \in Commands!Asks PROVE Task(a)
  BY DEF Commands!CommandInit, Task, Commands!NoTask
<1> QED
  BY <1>2, <1>3, <1>4 DEF CommandInv

\* The job ends once, and writes no more then.
JobMoves ==
    /\ job' \in [exit : Exit, text : BOOLEAN]
    /\ job.exit # Commands!Nothing => job' = job
    /\ job.text => job'.text

LEMMA TrueStays ==
  ASSUME JobMoves, asker'.until = asker.until, timer = "passed" => timer' = "passed",
         NEW x \in Int, IsTrue(x)
  PROVE  IsTrue(x)'
<1>1. job.exit # Commands!Nothing => job' = job
  BY DEF JobMoves
<1>2. job.text => job'.text
  BY DEF JobMoves
<1>3. Commands!TimedOut # Commands!Nothing
  BY DEF Commands!TimedOut, Commands!Nothing
<1>4. (x = Commands!TimedOut => timer = "passed" \/ job.exit = Commands!TimedOut)'
  BY <1>1, <1>3 DEF IsTrue
<1>5. /\ asker.until = "end" /\ x \notin {Commands!TimedOut, Commands!Failed, Commands!Busy}
            => x = job'.exit /\ job'.exit # Commands!Nothing
      /\ asker.until = "follow" /\ x \notin {0, Commands!Failed, Commands!Busy}
            => x = job'.exit /\ job'.exit # Commands!Nothing
  BY <1>1 DEF IsTrue
<1>6. asker.until = "text" /\ x = 0 => job'.text
  BY <1>2 DEF IsTrue
<1>7. asker.until = "text" /\ x = 1 => job'.exit # Commands!Nothing /\ ~job'.text
  BY <1>1 DEF IsTrue
<1> QED
  BY <1>4, <1>5, <1>6, <1>7 DEF IsTrue, Commands!TimedOut, Commands!Failed, Commands!Busy, Commands!Nothing

LEMMA TaskStays ==
  ASSUME CommandType, JobMoves, asker'.until = asker.until, asker'.at = "idle" => asker.at = "idle",
         NEW a \in Commands!Asks, Task(a), server'[a] = server[a]
  PROVE  Task(a)'
<1>1. /\ server[a].saw \in {Commands!Nothing, job.exit}
      /\ server[a].at \in {"found", "judging"} => a = "wait"
      /\ server[a].said = "list" => a = "jobs"
      /\ asker.at = "idle" => server[a].at = "none" /\ server[a].said = "nothing"
  BY DEF Task
<1>2. job.exit # Commands!Nothing => job' = job
  BY DEF JobMoves
<1>3. server'[a].saw \in {Commands!Nothing, job'.exit}
  BY <1>1, <1>2
<1>4. server[a].at = "judging" /\ server[a].saw # Commands!Nothing /\ asker.until = "text" => ~job'.text
  BY <1>1, <1>2 DEF Task
<1>5. server[a].said = "text" => a = "wait" /\ asker.until = "text" /\ job'.text
  BY DEF Task, JobMoves
<1>6. server[a].said = "ended" =>
         /\ a = "wait" /\ job'.exit # Commands!Nothing /\ server[a].status = job'.exit
         /\ asker.until = "text" => ~job'.text
  BY <1>2 DEF Task
<1>7. server[a].said = "log" =>
         a = "logs" /\ (asker.until = "follow" => server[a].status = job'.exit /\ job'.exit # Commands!Nothing)
  BY <1>2 DEF Task
<1> QED
  BY <1>1, <1>3, <1>4, <1>5, <1>6, <1>7 DEF Task, Commands!Nothing

LEMMA AskerStays ==
  ASSUME CommandType, JobMoves, Asker, asker' = asker, timer = "passed" => timer' = "passed",
         \A a \in Commands!Asks : reached'[a] = "open" => reached[a] = "open"
  PROVE  Asker'
<1>1. asker.status \in Int /\ asker.exit \in Int
  BY DEF CommandType
<1>2. IsTrue(asker.status) => IsTrue(asker.status)'
  BY <1>1, TrueStays
<1>3. IsTrue(asker.exit) => IsTrue(asker.exit)'
  BY <1>1, TrueStays
<1> QED
  BY <1>2, <1>3 DEF Asker

\* The job, the time, the user and the link.
LEMMA WorldHolds ==
  ASSUME CommandInv, asker' = asker, server' = server, JobMoves, timer = "passed" => timer' = "passed",
         reached' \in [Commands!Asks -> {"none", "open", "left", "cut", "refused"}],
         \A a \in Commands!Asks : reached'[a] = "open" => reached[a] = "open"
  PROVE  CommandInv'
<1>1. CommandType /\ Asker /\ \A a \in Commands!Asks : Task(a)
  BY DEF CommandInv
<1>2. CommandType'
  BY <1>1 DEF CommandType, JobMoves
<1>3. Asker'
  BY <1>1, AskerStays
<1>4. \A a \in Commands!Asks : Task(a)'
  BY <1>1, TaskStays
<1> QED
  BY <1>2, <1>3, <1>4 DEF CommandInv

LEMMA WorldStep ==
  ASSUME CommandInv,
         \/ Commands!JobWrites \/ Commands!JobEnds \/ Commands!TimePasses \/ Commands!Interrupts
         \/ \E a \in Commands!Asks : Commands!Cut(a)
  PROVE  CommandInv'
<1>1. job \in [exit : Exit, text : BOOLEAN]
      /\ reached \in [Commands!Asks -> {"none", "open", "left", "cut", "refused"}]
  BY DEF CommandInv, CommandType
<1>2. CASE Commands!JobWrites
  <2>1. JobMoves
    BY <1>1, <1>2 DEF Commands!JobWrites, JobMoves
  <2> QED
    BY <1>1, <1>2, <2>1, WorldHolds DEF Commands!JobWrites
<1>3. CASE Commands!JobEnds
  <2>1. JobMoves
    BY <1>1, <1>3 DEF Commands!JobEnds, JobMoves, Exit
  <2> QED
    BY <1>1, <1>3, <2>1, WorldHolds DEF Commands!JobEnds
<1>4. CASE Commands!TimePasses
  BY <1>1, <1>4, WorldHolds DEF Commands!TimePasses, JobMoves
<1>5. CASE Commands!Interrupts
  BY <1>1, <1>5, WorldHolds DEF Commands!Interrupts, JobMoves
<1>6. ASSUME NEW a \in Commands!Asks, Commands!Cut(a) PROVE CommandInv'
  BY <1>1, <1>6, WorldHolds DEF Commands!Cut, JobMoves
<1> QED
  BY <1>2, <1>3, <1>4, <1>5, <1>6

\* The command goes on, with nothing open but what it asks.
LEMMA ClientHolds ==
  ASSUME CommandInv, UNCHANGED <<server, job, timer>>, asker'.until = asker.until,
         asker.at # "idle", asker'.at # "idle", Asker',
         asker' \in [at : {"idle", "dialing", "asked", "exited"}, ask : Commands!Asks,
                     until : {"end", "text", "follow"}, shows : BOOLEAN, status : Int, exit : Int],
         reached' \in [Commands!Asks -> {"none", "open", "left", "cut", "refused"}]
  PROVE  CommandInv'
<1>1. CommandType'
  BY DEF CommandInv, CommandType
<1>2. JobMoves
  BY DEF CommandInv, CommandType, JobMoves
<1>3. ASSUME NEW a \in Commands!Asks PROVE Task(a)'
  <2>1. CommandType /\ Task(a) /\ server'[a] = server[a]
    BY DEF CommandInv
  <2> QED
    BY <1>2, <2>1, TaskStays
<1> QED
  BY <1>1, <1>3 DEF CommandInv

LEMMA SameTrue ==
  ASSUME CommandInv, UNCHANGED <<job, timer>>, asker'.until = asker.until, NEW x \in Int, IsTrue(x)
  PROVE  IsTrue(x)'
BY DEF IsTrue

\* It is given its exit, of one true of the job.
LEMMA ExitHolds ==
  ASSUME CommandInv, asker.at # "idle", NEW x \in Int, IsTrue(x), Commands!Exits(x),
         UNCHANGED <<server, job, timer>>,
         Commands!Closed \/ (reached' = reached /\ reached[asker.ask] # "open")
  PROVE  CommandInv'
<1>1. CommandType /\ Asker
  BY DEF CommandInv
<1>2. /\ asker' = [asker EXCEPT !.at = "exited", !.exit = x]
      /\ asker' \in [at : {"idle", "dialing", "asked", "exited"}, ask : Commands!Asks,
                     until : {"end", "text", "follow"}, shows : BOOLEAN, status : Int, exit : Int]
      /\ asker'.at = "exited" /\ asker'.exit = x /\ asker'.ask = asker.ask /\ asker'.until = asker.until
      /\ asker'.status = asker.status /\ asker.status \in Int /\ asker.ask \in Commands!Asks
  BY <1>1 DEF Commands!Exits, CommandType
<1>3. /\ reached' \in [Commands!Asks -> {"none", "open", "left", "cut", "refused"}]
      /\ \A a \in Commands!Asks : reached'[a] # "open"
  BY <1>1, <1>2 DEF Commands!Closed, CommandType, Asker
<1>4. IsTrue(x)' /\ (IsTrue(asker.status) => IsTrue(asker.status)')
  BY <1>2, SameTrue
<1>5. Asker'
  BY <1>1, <1>2, <1>3, <1>4 DEF Asker
<1> QED
  BY <1>2, <1>3, <1>5, ClientHolds

\* It asks on, with what it is to exit with.
LEMMA ThenHolds ==
  ASSUME CommandInv, asker.at # "idle", asker.until # "follow", NEW x \in Int, IsTrue(x),
         NEW ask \in {"jobs", "logs"}, Commands!Then(ask, x), UNCHANGED <<server, job, timer>>, Commands!Closed
  PROVE  CommandInv'
<1>1. CommandType /\ Asker
  BY DEF CommandInv
<1>2. /\ asker' = [asker EXCEPT !.at = "dialing", !.ask = ask, !.status = x]
      /\ asker' \in [at : {"idle", "dialing", "asked", "exited"}, ask : Commands!Asks,
                     until : {"end", "text", "follow"}, shows : BOOLEAN, status : Int, exit : Int]
      /\ asker'.at = "dialing" /\ asker'.ask = ask /\ asker'.until = asker.until /\ asker'.status = x
      /\ asker.ask \in Commands!Asks
  BY <1>1 DEF Commands!Then, CommandType, Commands!Asks
<1>3. /\ reached' \in [Commands!Asks -> {"none", "open", "left", "cut", "refused"}]
      /\ \A a \in Commands!Asks : reached'[a] # "open"
  BY <1>1, <1>2 DEF Commands!Closed, CommandType, Asker
<1>4. IsTrue(x)'
  BY <1>2, SameTrue
<1>5. Asker'
  BY <1>1, <1>2, <1>3, <1>4 DEF Asker
<1> QED
  BY <1>2, <1>3, <1>5, ClientHolds

\* Koh's own errors say nothing of the job.
LEMMA ErrorsAreTrue == IsTrue(Commands!Failed) /\ IsTrue(Commands!Busy)
BY DEF IsTrue, Commands!Failed, Commands!Busy, Commands!TimedOut

\* What a wait's answer exits with.
LEMMA OutcomeIsTrue ==
  ASSUME CommandInv, asker.at # "idle", asker.ask = "wait", server["wait"].said # "nothing"
  PROVE  /\ Commands!Outcome(server["wait"].said, server["wait"].status) \in Int
         /\ IsTrue(Commands!Outcome(server["wait"].said, server["wait"].status))
<1>1. "wait" \in Commands!Asks
  BY DEF Commands!Asks
<1>2. /\ server["wait"].said \in {"text", "ended"} /\ server["wait"].status \in Int
      /\ asker.until \in {"end", "text"}
  BY <1>1 DEF CommandInv, CommandType, Task, Asker
<1>3. CASE server["wait"].said = "text"
  <2>1. asker.until = "text" /\ job.text
    BY <1>1, <1>3 DEF CommandInv, Task
  <2>2. Commands!Outcome(server["wait"].said, server["wait"].status) = 0
    BY <1>3 DEF Commands!Outcome
  <2> QED
    BY <2>1, <2>2 DEF IsTrue, Commands!TimedOut
<1>4. CASE server["wait"].said = "ended"
  <2>1. /\ job.exit # Commands!Nothing /\ server["wait"].status = job.exit
        /\ asker.until = "text" => ~job.text
    BY <1>1, <1>4 DEF CommandInv, Task
  <2>2. Commands!Outcome(server["wait"].said, server["wait"].status)
          = IF asker.until = "end" THEN job.exit ELSE 1
    BY <1>4, <2>1 DEF Commands!Outcome
  <2> QED
    BY <1>2, <2>1, <2>2 DEF IsTrue, Commands!TimedOut
<1> QED
  BY <1>2, <1>3, <1>4

LEMMA AnsweredHolds == ASSUME CommandInv, Commands!Answered PROVE CommandInv'
<1>1. /\ asker.at = "asked" /\ server[asker.ask].said # "nothing" /\ Commands!Closed
      /\ UNCHANGED <<server, job, timer>>
  BY DEF Commands!Answered
<1>2. asker.ask \in Commands!Asks /\ asker.ask \in {"wait", "jobs", "logs"}
  BY DEF CommandInv, CommandType, Commands!Asks
<1>3. CASE asker.ask = "wait"
  <2> DEFINE x == Commands!Outcome(server["wait"].said, server["wait"].status)
  <2>1. x \in Int /\ IsTrue(x) /\ asker.until # "follow"
    BY <1>1, <1>3, OutcomeIsTrue DEF CommandInv, Asker
  <2>2. Commands!Then("logs", x) \/ Commands!Exits(x)
    BY <1>3 DEF Commands!Answered
  <2> HIDE DEF x
  <2> QED
    BY <1>1, <2>1, <2>2, ExitHolds, ThenHolds
<1>4. CASE asker.ask = "jobs"
  <2>1. asker.status \in Int /\ IsTrue(asker.status) /\ asker.until # "follow"
    BY <1>1, <1>4 DEF CommandInv, CommandType, Asker
  <2>2. Commands!Then("logs", asker.status)
    BY <1>4 DEF Commands!Answered
  <2> QED
    BY <1>1, <2>1, <2>2, ThenHolds
<1>5. CASE asker.ask = "logs"
  <2> DEFINE x == IF asker.until = "follow" THEN server["logs"].status ELSE asker.status
  <2>1. x \in Int
    BY <1>2, <1>5 DEF CommandInv, CommandType
  <2>2. IsTrue(x)
    <3>1. CASE asker.until = "follow"
      <4>1. server["logs"].said = "log"
        BY <1>1, <1>2, <1>5 DEF CommandInv, CommandType, Task
      <4>2. server["logs"].status = job.exit /\ job.exit # Commands!Nothing
        BY <1>2, <1>5, <3>1, <4>1 DEF CommandInv, Task
      <4> QED
        BY <3>1, <4>2 DEF IsTrue
    <3>2. CASE asker.until # "follow"
      BY <1>5, <3>2 DEF CommandInv, Asker
    <3> QED
      BY <3>1, <3>2
  <2>3. Commands!Exits(x)
    BY <1>5 DEF Commands!Answered
  <2> HIDE DEF x
  <2> QED
    BY <1>1, <2>1, <2>2, <2>3, ExitHolds
<1> QED
  BY <1>2, <1>3, <1>4, <1>5

LEMMA ClientStepHolds == ASSUME CommandInv, Commands!ClientStep PROVE CommandInv'
<1>a. CommandType /\ Asker /\ Commands!Failed \in Int /\ Commands!Busy \in Int /\ Commands!TimedOut \in Int
  BY DEF CommandInv, Commands!Failed, Commands!Busy, Commands!TimedOut
<1>b. asker.ask \in Commands!Asks /\ (asker.at # "asked" => reached[asker.ask] # "open")
  BY <1>a DEF CommandType, Asker
<1>1. CASE Commands!Dialed
  <2>1. /\ asker.at = "dialing" /\ asker' = [asker EXCEPT !.at = "asked"]
        /\ reached' = [reached EXCEPT ![asker.ask] = "open"]
        /\ server' = [server EXCEPT ![asker.ask].at = "opening"]
        /\ UNCHANGED <<job, timer>>
    BY <1>1 DEF Commands!Dialed
  <2>2. CommandType'
    BY <1>a, <2>1 DEF CommandType
  <2>3. /\ asker'.at = "asked" /\ asker'.ask = asker.ask /\ asker'.until = asker.until
        /\ asker'.status = asker.status /\ asker.status \in Int
    BY <1>a, <2>1 DEF CommandType
  <2>4. IsTrue(asker.status) => IsTrue(asker.status)'
    BY <2>1, <2>3, SameTrue
  <2>5. \A a \in Commands!Asks : reached'[a] = "open" => a = asker.ask
    BY <1>a, <2>1 DEF CommandType, Asker
  <2>6. Asker'
    BY <1>a, <2>1, <2>3, <2>4, <2>5 DEF Asker
  <2>7. ASSUME NEW a \in Commands!Asks PROVE Task(a)'
    <3>1. /\ server'[a].at \in {server[a].at, "opening"} /\ server'[a].saw = server[a].saw
          /\ server'[a].said = server[a].said /\ server'[a].status = server[a].status
      BY <1>a, <2>1 DEF CommandType
    <3>2. Task(a)
      BY DEF CommandInv
    <3> QED
      BY <2>1, <2>3, <3>1, <3>2 DEF Task
  <2> QED
    BY <2>2, <2>6, <2>7 DEF CommandInv
<1>2. CASE Commands!DialFails
  <2>1. asker.at = "dialing" /\ UNCHANGED <<reached, server, job, timer>>
    BY <1>2 DEF Commands!DialFails
  <2>2. Commands!Exits(Commands!Failed) \/ Commands!Exits(Commands!Busy)
    BY <1>2 DEF Commands!DialFails
  <2> QED
    BY <1>a, <1>b, <2>1, <2>2, ErrorsAreTrue, ExitHolds
<1>3. CASE Commands!Unanswered
  BY <1>3, <1>a, ErrorsAreTrue, ExitHolds DEF Commands!Unanswered
<1>4. CASE Commands!TimesOut
  <2>1. /\ asker.ask = "wait" /\ asker.at \in {"dialing", "asked"} /\ timer = "passed"
        /\ Commands!Then("jobs", Commands!TimedOut) \/ Commands!Exits(Commands!TimedOut)
        /\ Commands!Closed /\ UNCHANGED <<server, job, timer>>
    BY <1>4 DEF Commands!TimesOut, Commands!Stoppable
  <2>2. asker.until # "follow"
    BY <1>a, <2>1 DEF Asker
  <2>3. IsTrue(Commands!TimedOut)
    BY <2>1, <2>2 DEF IsTrue, Commands!TimedOut
  <2> QED
    BY <1>a, <2>1, <2>2, <2>3, ExitHolds, ThenHolds
<1>5. CASE Commands!Interrupted
  <2>1. Commands!Closed /\ UNCHANGED <<server, job, timer>>
    BY <1>5 DEF Commands!Interrupted
  <2>2. CASE asker.at # "idle" /\ Commands!Exits(Commands!Failed)
    BY <1>a, <2>1, <2>2, ErrorsAreTrue, ExitHolds
  <2>3. ASSUME asker.ask = "logs", asker.at = "asked",
               Commands!Exits(IF asker.until = "follow" THEN 0 ELSE asker.status)
        PROVE  CommandInv'
    <3>1. CASE asker.until = "follow"
      <4>1. IsTrue(0)
        BY <3>1 DEF IsTrue, Commands!TimedOut
      <4> QED
        BY <2>1, <2>3, <3>1, <4>1, ExitHolds
    <3>2. CASE asker.until # "follow"
      <4>1. IsTrue(asker.status) /\ asker.status \in Int
        BY <1>a, <2>3, <3>2 DEF Asker, CommandType
      <4> QED
        BY <2>1, <2>3, <3>2, <4>1, ExitHolds
    <3> QED
      BY <3>1, <3>2
  <2> QED
    BY <1>5, <2>2, <2>3 DEF Commands!Interrupted, Commands!Stoppable
<1> QED
  BY <1>1, <1>2, <1>3, <1>4, <1>5, AnsweredHolds DEF Commands!ClientStep

\* A request's task goes on.
LEMMA ServerHolds ==
  ASSUME CommandInv, NEW a \in Commands!Asks, UNCHANGED <<asker, job, timer>>,
         server' \in [Commands!Asks ->
                        [at : {"none", "opening", "serving", "found", "judging", "lingering", "done"},
                         saw : Exit, said : {"nothing", "text", "ended", "list", "log"}, status : Int]],
         \A b \in Commands!Asks \ {a} : server'[b] = server[b],
         Task(a)',
         reached' \in [Commands!Asks -> {"none", "open", "left", "cut", "refused"}],
         \A b \in Commands!Asks : reached'[b] = "open" => reached[b] = "open"
  PROVE  CommandInv'
<1>1. CommandType /\ Asker
  BY DEF CommandInv
<1>2. JobMoves
  BY <1>1 DEF CommandType, JobMoves
<1>3. CommandType'
  BY <1>1 DEF CommandType
<1>4. Asker'
  BY <1>1, <1>2, AskerStays
<1>5. ASSUME NEW b \in Commands!Asks, b # a PROVE Task(b)'
  BY <1>1, <1>2, <1>5, TaskStays DEF CommandInv
<1> QED
  BY <1>3, <1>4, <1>5 DEF CommandInv

LEMMA ServerStepHolds ==
  ASSUME CommandInv, NEW a \in Commands!Asks,
         Commands!ServerStep(a) \/ Commands!Revoked(a) \/ Commands!LingerPasses(a)
  PROVE  CommandInv'
<1>a. CommandType /\ Asker /\ Task(a)
  BY DEF CommandInv
<1>b. /\ server \in [Commands!Asks ->
                        [at : {"none", "opening", "serving", "found", "judging", "lingering", "done"},
                         saw : Exit, said : {"nothing", "text", "ended", "list", "log"}, status : Int]]
      /\ reached \in [Commands!Asks -> {"none", "open", "left", "cut", "refused"}]
      /\ job.exit \in Exit /\ Exit \subseteq Int
  <2>1. Statuses \subseteq 0..255
    BY PartsAssumption DEF Commands!CommandAssumption
  <2> QED
    BY <1>a, <2>1 DEF CommandType, Exit, Commands!Nothing
\* Where it says nothing.
<1>1. ASSUME NEW next \in {"serving", "judging", "done"}, server' = [server EXCEPT ![a].at = next],
             next = "judging" => a = "wait" /\ (asker.until = "text" => ~job.text),
             server[a].at # "none", UNCHANGED <<asker, job, timer>>,
             reached' = reached \/ \E end \in {"cut", "refused"} : reached' = [reached EXCEPT ![a] = end]
      PROVE  CommandInv'
  <2>1. /\ server' \in [Commands!Asks ->
                        [at : {"none", "opening", "serving", "found", "judging", "lingering", "done"},
                         saw : Exit, said : {"nothing", "text", "ended", "list", "log"}, status : Int]]
        /\ \A b \in Commands!Asks \ {a} : server'[b] = server[b]
        /\ server'[a].at = next /\ server'[a].saw = server[a].saw /\ server'[a].said = server[a].said
        /\ server'[a].status = server[a].status
    BY <1>b, <1>1
  <2>2. Task(a)'
    BY <1>a, <1>1, <2>1 DEF Task
  <2>3. /\ reached' \in [Commands!Asks -> {"none", "open", "left", "cut", "refused"}]
        /\ \A b \in Commands!Asks : reached'[b] = "open" => reached[b] = "open"
    BY <1>b, <1>1
  <2> QED
    BY <1>1, <2>1, <2>2, <2>3, ServerHolds
\* Where it answers.
<1>2. ASSUME NEW said \in {"text", "ended", "list", "log"}, NEW code \in Int, Commands!Says(a, said, code),
             server[a].at # "none", UNCHANGED <<asker, reached, job, timer>>,
             said = "text" => a = "wait" /\ asker.until = "text" /\ job.text,
             said = "ended" => /\ a = "wait" /\ job.exit # Commands!Nothing /\ code = job.exit
                               /\ asker.until = "text" => ~job.text,
             said = "list" => a = "jobs",
             said = "log" => a = "logs" /\ (asker.until = "follow" => code = job.exit /\ job.exit # Commands!Nothing)
      PROVE  CommandInv'
  <2>1. /\ server' \in [Commands!Asks ->
                        [at : {"none", "opening", "serving", "found", "judging", "lingering", "done"},
                         saw : Exit, said : {"nothing", "text", "ended", "list", "log"}, status : Int]]
        /\ \A b \in Commands!Asks \ {a} : server'[b] = server[b]
        /\ server'[a].at = "lingering" /\ server'[a].saw = server[a].saw /\ server'[a].said = said
        /\ server'[a].status = code
    BY ZenonT(60), <1>b, <1>2 DEF Commands!Says
  <2>2. asker.at # "idle"
    BY <1>a, <1>2 DEF Task
  <2>3. server[a].saw \in {Commands!Nothing, job.exit}
    BY <1>a DEF Task
  <2>4. Task(a)'
    BY <1>2, <2>1, <2>2, <2>3 DEF Task, Commands!Nothing
  <2> QED
    BY <1>b, <1>2, <2>1, <2>4, ServerHolds
<1>3. CASE Commands!Opens(a) \/ Commands!Revoked(a) \/ Commands!SeesClose(a) \/ Commands!LingerPasses(a)
  BY <1>1, <1>3 DEF Commands!Opens, Commands!Revoked, Commands!SeesClose, Commands!LingerPasses
<1>4. CASE Commands!Looks(a)
  <2>1. /\ a = "wait" /\ server[a].at = "serving" /\ UNCHANGED <<asker, reached, job, timer>>
        /\ server' = [server EXCEPT ![a].at = "found", ![a].saw = job.exit]
    BY <1>4 DEF Commands!Looks
  <2>2. /\ server' \in [Commands!Asks ->
                        [at : {"none", "opening", "serving", "found", "judging", "lingering", "done"},
                         saw : Exit, said : {"nothing", "text", "ended", "list", "log"}, status : Int]]
        /\ \A b \in Commands!Asks \ {a} : server'[b] = server[b]
        /\ server'[a].at = "found" /\ server'[a].saw = job.exit /\ server'[a].said = server[a].said
        /\ server'[a].status = server[a].status
    BY <1>b, <2>1, ZenonT(60)
  <2>3. Task(a)'
    BY <1>a, <2>1, <2>2 DEF Task
  <2> QED
    BY <1>b, <2>1, <2>2, <2>3, ServerHolds
<1>5. CASE Commands!FindsText(a)
  <2>1. a = "wait"
    BY <1>a, <1>5 DEF Commands!FindsText, Task
  <2> QED
    BY <1>2, <1>5, <2>1 DEF Commands!FindsText
<1>6. CASE Commands!NoText(a)
  <2>1. a = "wait"
    BY <1>a, <1>6 DEF Commands!NoText, Task
  <2> QED
    BY <1>1, <1>6, <2>1 DEF Commands!NoText
<1>7. CASE Commands!Judges(a)
  <2>1. server[a].at = "judging" /\ UNCHANGED <<asker, reached, job, timer>>
    BY <1>7 DEF Commands!Judges
  <2>2. CASE server[a].saw # Commands!Nothing
    <3>1. Commands!Says(a, "ended", server[a].saw)
      BY <1>7, <2>2 DEF Commands!Judges, Commands!Saw
    <3>2. /\ a = "wait" /\ server[a].saw = job.exit /\ job.exit # Commands!Nothing /\ job.exit \in Int
          /\ asker.until = "text" => ~job.text
      BY <1>a, <1>b, <2>1, <2>2 DEF Task
    <3> QED
      BY <1>2, <2>1, <3>1, <3>2
  <2>3. CASE server[a].saw = Commands!Nothing
    <3>1. server' = [server EXCEPT ![a].at = "serving"]
      BY <1>7, <2>3 DEF Commands!Judges, Commands!Saw
    <3> QED
      BY <1>1, <2>1, <3>1
  <2> QED
    BY <2>2, <2>3
<1>8. CASE Commands!AnswersList(a)
  <2>1. Commands!Nothing \in Int
    BY DEF Commands!Nothing
  <2> QED
    BY <1>2, <1>8, <2>1 DEF Commands!AnswersList
<1>9. CASE Commands!EndsLogs(a)
  <2>1. job.exit \in Int
    BY <1>b
  <2> QED
    BY <1>2, <1>9, <2>1 DEF Commands!EndsLogs
<1> QED
  BY <1>3, <1>4, <1>5, <1>6, <1>7, <1>8, <1>9 DEF Commands!ServerStep

LEMMA StartHolds ==
  ASSUME CommandInv, asker.at = "idle", NEW until \in {"end", "text", "follow"}, NEW shows \in BOOLEAN,
         \/ until # "follow" /\ asker' = [asker EXCEPT !.at = "dialing", !.until = until, !.shows = shows]
         \/ asker' = [asker EXCEPT !.at = "dialing", !.ask = "logs", !.until = "follow"],
         UNCHANGED <<reached, server, job>>
  PROVE  CommandInv'
<1>1. CommandType /\ Asker /\ \A a \in Commands!Asks : Task(a)
  BY DEF CommandInv
<1>a. asker.ask = "wait" /\ {"wait", "logs"} \subseteq Commands!Asks
  BY <1>1 DEF Asker, Commands!Asks
<1>b. asker \in [at : {"idle", "dialing", "asked", "exited"}, ask : Commands!Asks,
                until : {"end", "text", "follow"}, shows : BOOLEAN, status : Int, exit : Int]
  BY <1>1 DEF CommandType
<1>c. /\ asker' \in [at : {"idle", "dialing", "asked", "exited"}, ask : Commands!Asks,
                     until : {"end", "text", "follow"}, shows : BOOLEAN, status : Int, exit : Int]
      /\ asker'.at = "dialing"
  BY <1>a, <1>b
<1>d. \/ asker'.ask = "wait" /\ asker'.until # "follow"
      \/ asker'.ask = "logs" /\ asker'.until = "follow"
  BY <1>a, <1>b
<1>2. /\ asker' \in [at : {"idle", "dialing", "asked", "exited"}, ask : Commands!Asks,
                     until : {"end", "text", "follow"}, shows : BOOLEAN, status : Int, exit : Int]
      /\ asker'.at = "dialing" /\ asker.ask = "wait"
      /\ \/ asker'.ask = "wait" /\ asker'.until # "follow"
         \/ asker'.ask = "logs" /\ asker'.until = "follow"
  BY <1>a, <1>c, <1>d
<1>3. CommandType'
  BY <1>1, <1>2 DEF CommandType
<1>4. Asker'
  BY <1>1, <1>2 DEF Asker
<1>5. ASSUME NEW a \in Commands!Asks PROVE Task(a)'
  <2>1. server[a].at = "none" /\ server[a].said = "nothing" /\ server[a].saw \in {Commands!Nothing, job.exit}
    BY <1>1 DEF Task
  <2> QED
    BY <1>2, <2>1 DEF Task
<1> QED
  BY <1>3, <1>4, <1>5 DEF CommandInv

\* What a command exits with is what happened to the job, whatever races it, and it leaves no
\* connection open: what a task of the server said of a job stays true of it, as the job ends once,
\* and is read before its text is looked for (waited, ask_until, logs).
THEOREM CommandsExitAlways == Spec => []CommandsExit
<1>1. Init => CommandInv
  BY CommandInvInit DEF Init
<1>2. CommandInv /\ [Next]_vars => CommandInv'
  <2>1. ASSUME CommandInv, UNCHANGED Commands!commandVars PROVE CommandInv'
    <3>1. UNCHANGED <<asker, reached, server, job, timer>>
      BY <2>1 DEF Commands!commandVars
    <3>2. /\ JobMoves /\ reached' \in [Commands!Asks -> {"none", "open", "left", "cut", "refused"}]
      BY <2>1, <3>1 DEF CommandInv, CommandType, JobMoves
    <3> QED
      BY <2>1, <3>1, <3>2, WorldHolds
  <2>2. ASSUME CommandInv, asker.at = "idle", NEW until \in {"end", "text"}, NEW shows \in BOOLEAN,
               NEW timed \in BOOLEAN, Commands!StartWait(until, shows, timed)
        PROVE  CommandInv'
    BY <2>2, StartHolds DEF Commands!StartWait
  <2>3. ASSUME CommandInv, asker.at = "idle", Commands!StartLogs PROVE CommandInv'
    BY <2>3, StartHolds DEF Commands!StartLogs
  <2> QED
    BY <2>1, <2>2, <2>3, WorldStep, ClientStepHolds, ServerStepHolds, OwnSteps DEF Commands!CommandNext
<1>3. CommandInv => CommandsExit
  <2> SUFFICES ASSUME CommandInv PROVE CommandsExit
    OBVIOUS
  <2>1. Commands!ExitIsTrue
    <3> SUFFICES ASSUME asker.at = "exited", IsTrue(asker.exit) PROVE Commands!ExitIsTrue
      BY DEF CommandInv, Asker, Commands!ExitIsTrue
    <3> QED
      BY DEF IsTrue, Commands!ExitIsTrue
  <2>2. Commands!LeavesNoneOpen
    BY DEF CommandInv, Asker, Commands!LeavesNoneOpen
  <2> QED
    BY <2>1, <2>2 DEF CommandsExit
<1> QED
  BY <1>1, <1>2, <1>3, PTL DEF Spec
(***************************************************************************)
(* Marks.  Parsed one after another from what was counted so far, the      *)
(* marks still in the terminal come to what bash itself counts.            *)
(***************************************************************************)
Written == {"A", "C", "D", "foreignC", "foreignD"}
Count == [running : BOOLEAN, finished : Nat]
After(count, mark) ==
    CASE mark = "C" -> [count EXCEPT !.running = TRUE]
      [] mark = "D" /\ count.running -> [running |-> FALSE, finished |-> count.finished + 1]
      [] OTHER -> count
Reads(from, written, to) ==
    \E t \in [0..Len(written) -> Count] :
        /\ t[0] = from /\ t[Len(written)] = to
        /\ \A i \in 1..Len(written) : t[i] = After(t[i - 1], written[i])
        /\ \A i \in 0..Len(written) : t[i].finished <= to.finished
Bash == [running |-> shell \in {"runs", "printing"}, finished |-> commands.ended]

MarksType ==
    /\ shell \in {"starts", "prompt", "runs", "printing"}
    /\ history \in Nat /\ shown \in BOOLEAN /\ shownAt \in Nat
    /\ commands \in [begun : Nat, ended : Nat] /\ marks \in Seq(Written)
    /\ parsed \in Count /\ published \in Count /\ began \in Count
\* Of the line typed at a prompt bash knows whether it was kept: history tells it from none.
PromptKnown == IF shell = "prompt" THEN shown /\ shownAt = history ELSE ~shown
Seen == published.finished <= parsed.finished /\ Marks!WaitedHasEnded
MarksInv == MarksType /\ PromptKnown /\ Reads(parsed, marks, Bash) /\ Seen

LEMMA AfterIs ==
  ASSUME NEW count \in Count, NEW mark \in Written
  PROVE  /\ After(count, mark) \in Count /\ count.finished <= After(count, mark).finished
         /\ mark = "C" => After(count, mark) = [running |-> TRUE, finished |-> count.finished]
         /\ mark = "D" /\ count.running => After(count, mark) = [running |-> FALSE, finished |-> count.finished + 1]
         /\ mark # "C" /\ (mark = "D" => ~count.running) => After(count, mark) = count
<1>1. CASE mark = "C"
  <2>1. After(count, mark) = [count EXCEPT !.running = TRUE]
    BY <1>1 DEF After
  <2>2. \A b \in BOOLEAN : [count EXCEPT !.running = b] = [running |-> b, finished |-> count.finished]
    BY DEF Count
  <2>3. After(count, mark) = [running |-> TRUE, finished |-> count.finished]
    BY <2>1, <2>2, Zenon
  <2>4. After(count, mark) \in Count /\ count.finished <= After(count, mark).finished
    BY <2>3 DEF Count
  <2> QED BY <1>1, <2>3, <2>4
<1>2. CASE mark = "D" /\ count.running
  <2>1. After(count, mark) = [running |-> FALSE, finished |-> count.finished + 1]
    BY <1>2 DEF After
  <2>2. After(count, mark) \in Count /\ count.finished <= After(count, mark).finished
    BY <2>1 DEF Count
  <2> QED BY <1>2, <2>1, <2>2
<1>3. CASE mark # "C" /\ (mark = "D" => ~count.running)
  <2>1. After(count, mark) = count
    BY <1>3 DEF After
  <2>2. count.finished <= count.finished
    BY DEF Count
  <2> QED BY <1>3, <2>1, <2>2
<1> QED BY <1>1, <1>2, <1>3

LEMMA ReadsAppended ==
  ASSUME NEW written \in Seq(Written), NEW from \in Count, NEW to \in Count, NEW mark \in Written,
         Reads(from, written, to)
  PROVE  After(to, mark) \in Count /\ Reads(from, Append(written, mark), After(to, mark))
<1> DEFINE more == Append(written, mark)
           end == After(to, mark)
<1>1. end \in Count /\ to.finished <= end.finished
  BY AfterIs
<1>2. PICK t \in [0..Len(written) -> Count] :
        /\ t[0] = from /\ t[Len(written)] = to
        /\ \A i \in 1..Len(written) : t[i] = After(t[i - 1], written[i])
        /\ \A i \in 0..Len(written) : t[i].finished <= to.finished
  BY DEF Reads
<1>3. /\ Len(more) = Len(written) + 1 /\ Len(written) \in Nat /\ more[Len(more)] = mark
      /\ \A i \in 1..Len(written) : more[i] = written[i]
  OBVIOUS
<1> HIDE DEF more, end
<1> DEFINE u == [i \in 0..Len(more) |-> IF i = Len(more) THEN end ELSE t[i]]
<1>4. u \in [0..Len(more) -> Count] /\ u[0] = from /\ u[Len(more)] = end
  BY <1>1, <1>2, <1>3
<1>5. \A i \in 1..Len(more) : u[i] = After(u[i - 1], more[i])
  <2> TAKE i \in 1..Len(more)
  <2>1. CASE i = Len(more)
    <3>1. i - 1 \in 0..Len(more) /\ i - 1 # Len(more) /\ i - 1 = Len(written)
      BY <1>3, <2>1
    <3>2. u[i] = end /\ u[i - 1] = to
      BY <1>2, <2>1, <3>1
    <3> QED BY <1>3, <2>1, <3>2 DEF end
  <2>2. CASE i # Len(more)
    <3>1. i \in 1..Len(written) /\ i - 1 \in 0..Len(more) /\ i - 1 # Len(more)
      BY <1>3, <2>2
    <3>2. u[i] = t[i] /\ u[i - 1] = t[i - 1]
      BY <2>2, <3>1
    <3> QED BY <1>2, <1>3, <3>1, <3>2
  <2> QED BY <2>1, <2>2
<1>6. \A i \in 0..Len(more) : u[i].finished <= end.finished
  <2> TAKE i \in 0..Len(more)
  <2>1. CASE i = Len(more)
    BY <1>1, <2>1 DEF Count
  <2>2. CASE i # Len(more)
    <3>1. i \in 0..Len(written) /\ u[i] = t[i]
      BY <1>3, <2>2
    <3>2. t[i].finished <= to.finished /\ t[i] \in Count
      BY <1>2, <3>1
    <3>3. t[i].finished \in Nat /\ to.finished \in Nat /\ end.finished \in Nat
      BY <1>1, <3>2 DEF Count
    <3> QED BY <1>1, <3>1, <3>2, <3>3
  <2> QED BY <2>1, <2>2
<1> HIDE DEF u
<1>7. Reads(from, more, end)
  BY <1>4, <1>5, <1>6 DEF Reads
<1> QED BY <1>1, <1>7 DEF more, end

LEMMA ReadsTaken ==
  ASSUME NEW written \in Seq(Written), NEW from \in Count, NEW to \in Count, written # <<>>,
         Reads(from, written, to)
  PROVE  After(from, Head(written)) \in Count /\ Reads(After(from, Head(written)), Tail(written), to)
<1> DEFINE rest == Tail(written)
<1>1. PICK t \in [0..Len(written) -> Count] :
        /\ t[0] = from /\ t[Len(written)] = to
        /\ \A i \in 1..Len(written) : t[i] = After(t[i - 1], written[i])
        /\ \A i \in 0..Len(written) : t[i].finished <= to.finished
  BY DEF Reads
<1>2. /\ Len(written) \in Nat \ {0} /\ Len(rest) = Len(written) - 1 /\ Head(written) = written[1]
      /\ \A i \in 1..Len(rest) : rest[i] = written[i + 1]
  OBVIOUS
<1> HIDE DEF rest
<1> DEFINE u == [i \in 0..Len(rest) |-> t[i + 1]]
<1>3. u \in [0..Len(rest) -> Count] /\ u[0] = t[1] /\ u[Len(rest)] = to
  BY <1>1, <1>2
<1>4. \A i \in 1..Len(rest) : u[i] = After(u[i - 1], rest[i])
  <2> TAKE i \in 1..Len(rest)
  <2>1. i + 1 \in 1..Len(written) /\ i \in 0..Len(rest) /\ i - 1 \in 0..Len(rest) /\ (i - 1) + 1 = i /\ (i + 1) - 1 = i
    BY <1>2
  <2>2. u[i] = t[i + 1] /\ u[i - 1] = t[i]
    BY <2>1
  <2> QED BY <1>1, <1>2, <2>1, <2>2
<1>5. \A i \in 0..Len(rest) : u[i].finished <= to.finished
  <2> TAKE i \in 0..Len(rest)
  <2>1. i + 1 \in 0..Len(written) /\ u[i] = t[i + 1]
    BY <1>2
  <2> QED BY <1>1, <2>1
<1>6. t[1] = After(from, Head(written)) /\ t[1] \in Count
  <2>1. 1 \in 1..Len(written) /\ 1 \in 0..Len(written) /\ 1 - 1 = 0
    BY <1>2
  <2> QED BY <1>1, <1>2, <2>1
<1> HIDE DEF u
<1>7. Reads(t[1], rest, to)
  BY <1>3, <1>4, <1>5 DEF Reads
<1> QED BY <1>6, <1>7 DEF rest

LEMMA CountIs ==
  ASSUME NEW b \in BOOLEAN, NEW n \in Nat
  PROVE  LET c == [running |-> b, finished |-> n] IN c \in Count /\ c.running = b /\ c.finished = n
BY DEF Count

LEMMA BashIs ==
  ASSUME commands \in [begun : Nat, ended : Nat]
  PROVE  /\ Bash \in Count /\ Bash.finished = commands.ended
         /\ Bash.running = (shell \in {"runs", "printing"})
<1>1. commands.ended \in Nat /\ (shell \in {"runs", "printing"}) \in BOOLEAN
  OBVIOUS
<1> QED BY <1>1, CountIs, Zenon DEF Bash

\* What a prompt writes is counted as what bash counts: an end if a command ran, and an end with its
\* start if bash could not parse a line its history kept.
LEMMA PromptCounts ==
  ASSUME MarksInv, NEW to \in Nat, Marks!Prompt(to), commands' \in [begun : Nat, ended : Nat],
         (shell = "prompt" /\ to # history) \/ shell \in {"runs", "printing"}
            => commands'.ended = commands.ended + 1,
         (shell = "prompt" /\ to = history) \/ shell = "starts" => commands'.ended = commands.ended
  PROVE  shell' = "prompt" /\ marks' \in Seq(Written) /\ PromptKnown' /\ Reads(parsed, marks', Bash')
<1> DEFINE late == Marks!Late(to)
           unparsed == shell = "prompt" /\ to # history
<1>w. "A" \in Written /\ "C" \in Written /\ "D" \in Written
  BY DEF Written
<1>a. /\ shell' = "prompt" /\ shown' = TRUE /\ shownAt' = to /\ history' = to
      /\ marks' = (marks \o late) \o <<"D", "A", "D", "A">>
  BY DEF Marks!Prompt, MarksInv, MarksType
<1>1. /\ Bash \in Count /\ parsed \in Count /\ marks \in Seq(Written) /\ Reads(parsed, marks, Bash)
      /\ Bash.finished = commands.ended /\ Bash.running = (shell \in {"runs", "printing"})
      /\ commands \in [begun : Nat, ended : Nat]
  BY BashIs DEF MarksInv, MarksType
<1>2. late = IF unparsed THEN <<"C">> ELSE <<>>
  BY DEF Marks!Late, MarksInv, PromptKnown, MarksType
<1>3. PICK mid \in Count :
        /\ marks \o late \in Seq(Written) /\ Reads(parsed, marks \o late, mid)
        /\ mid.finished = commands.ended
        /\ mid.running = (unparsed \/ shell \in {"runs", "printing"})
  <2>1. CASE unparsed
    <3>1. marks \o late = Append(marks, "C")
      BY <1>w, <1>1, <1>2, <2>1
    <3>2. After(Bash, "C") = [running |-> TRUE, finished |-> commands.ended]
      BY <1>w, <1>1, AfterIs
    <3>3. /\ After(Bash, "C") \in Count /\ After(Bash, "C").finished = commands.ended
          /\ After(Bash, "C").running = TRUE
      BY <1>w, <1>1, <3>2, AfterIs
    <3>4. Reads(parsed, Append(marks, "C"), After(Bash, "C"))
      BY <1>w, <1>1, ReadsAppended
    <3>5. Append(marks, "C") \in Seq(Written)
      BY <1>w, <1>1
    <3> QED BY <2>1, <3>1, <3>3, <3>4, <3>5
  <2>2. CASE ~unparsed
    <3>1. marks \o late = marks
      BY <1>1, <1>2, <2>2
    <3> QED BY <1>1, <2>2, <3>1
  <2> QED BY <2>1, <2>2
<1> DEFINE begun == marks \o late
           done == After(mid, "D")
<1> HIDE DEF late
<1>4. Bash' \in Count /\ Bash'.finished = commands'.ended /\ Bash'.running = FALSE
  <2>1. Bash' = [running |-> shell' \in {"runs", "printing"}, finished |-> commands'.ended]
    BY DEF Bash
  <2>2. (shell' \in {"runs", "printing"}) = FALSE /\ commands'.ended \in Nat
    BY <1>a
  <2>3. FALSE \in BOOLEAN
    OBVIOUS
  <2> QED BY <2>1, <2>2, <2>3, CountIs, Zenon
<1>5. done \in Count /\ done.running = FALSE /\ done.finished = commands'.ended
  <2>1. CASE mid.running
    <3>1. done = [running |-> FALSE, finished |-> mid.finished + 1]
      BY <1>w, <2>1, AfterIs
    <3>2. unparsed \/ shell \in {"runs", "printing"}
      BY <1>3, <2>1
    <3>3. commands'.ended = mid.finished + 1
      BY <1>3, <3>2
    <3> QED BY <1>w, <3>1, <3>3, AfterIs
  <2>2. CASE ~mid.running
    <3>1. done = mid
      BY <1>w, <2>2, AfterIs
    <3>2. ~unparsed /\ shell \notin {"runs", "printing"}
      BY <1>3, <2>2
    <3>3. commands'.ended = mid.finished
      BY <1>3, <3>2 DEF MarksInv, MarksType
    <3>4. mid.running = FALSE
      BY <2>2 DEF Count
    <3> QED BY <3>1, <3>3, <3>4
  <2> QED BY <2>1, <2>2
<1>6. done = Bash'
  <2>1. \A c, d \in Count : c.running = d.running /\ c.finished = d.finished => c = d
    BY DEF Count
  <2> QED BY <1>4, <1>5, <2>1, Zenon
<1>7. begun \in Seq(Written) /\ Reads(parsed, begun, mid)
  BY <1>3
<1> HIDE DEF begun
<1>8. marks' = Append(Append(Append(Append(begun, "D"), "A"), "D"), "A")
  <2>1. marks' = begun \o <<"D", "A", "D", "A">>
    BY <1>a DEF begun
  <2>2. begun \o <<"D", "A", "D", "A">> = Append(Append(Append(Append(begun, "D"), "A"), "D"), "A")
    BY <1>w, <1>7
  <2> QED BY <2>1, <2>2, Zenon
<1>b. Append(begun, "D") \in Seq(Written) /\ Reads(parsed, Append(begun, "D"), done)
  BY <1>w, <1>1, <1>3, <1>7, ReadsAppended
<1> HIDE DEF done
<1>9. ~done.running
  BY <1>5
<1>10. After(done, "A") = done /\ After(done, "D") = done
  BY <1>w, <1>5, <1>9, AfterIs
<1>11. ASSUME NEW written \in Seq(Written), Reads(parsed, written, done), NEW mark \in {"A", "D"}
       PROVE  Append(written, mark) \in Seq(Written) /\ Reads(parsed, Append(written, mark), done)
  <2>1. mark \in Written /\ After(done, mark) = done
    BY <1>w, <1>10
  <2> QED BY <1>1, <1>5, <1>11, <2>1, ReadsAppended
<1>12. Reads(parsed, marks', done) /\ marks' \in Seq(Written)
  <2> DEFINE one == Append(begun, "D")
             two == Append(one, "A")
             three == Append(two, "D")
  <2>1. two \in Seq(Written) /\ Reads(parsed, two, done)
    BY <1>b, <1>11
  <2>2. three \in Seq(Written) /\ Reads(parsed, three, done)
    BY <2>1, <1>11
  <2> QED BY <2>2, <1>8, <1>11
<1> QED BY <1>a, <1>6, <1>12 DEF PromptKnown

LEMMA MarksInvInit == ASSUME Marks!MarksInit PROVE MarksInv
<1>0. Marks!None \in Count /\ Marks!None.finished = 0
  BY CountIs DEF Marks!None
<1>1. MarksType
  <2>1. shell \in {"starts", "prompt", "runs", "printing"} /\ history \in Nat /\ shownAt \in Nat /\ shown \in BOOLEAN
    BY DEF Marks!MarksInit
  <2>2. commands \in [begun : Nat, ended : Nat] /\ marks \in Seq(Written)
    BY DEF Marks!MarksInit
  <2>3. parsed \in Count /\ published \in Count /\ began \in Count
    BY <1>0 DEF Marks!MarksInit
  <2> QED BY <2>1, <2>2, <2>3 DEF MarksType
<1>b. PromptKnown
  BY DEF Marks!MarksInit, PromptKnown
<1>a. Seen
  BY <1>0 DEF Marks!MarksInit, Seen, Marks!WaitedHasEnded
<1>2. Bash = parsed /\ parsed \in Count /\ marks = <<>>
  <2>1. parsed = Marks!None /\ commands.ended = 0 /\ (shell \in {"runs", "printing"}) = FALSE /\ marks = <<>>
    BY DEF Marks!MarksInit
  <2> QED BY <1>0, <2>1, Zenon DEF Bash, Marks!None
<1>3. Reads(parsed, <<>>, parsed)
  <2> DEFINE t == [i \in 0..0 |-> parsed]
  <2>1. t \in [0..0 -> Count] /\ t[0] = parsed /\ \A i \in 0..0 : t[i] = parsed
    BY <1>2
  <2>2. Len(<<>>) = 0 /\ 1..0 = {} /\ parsed.finished <= parsed.finished
    BY <1>2 DEF Count
  <2> HIDE DEF t
  <2> QED BY <2>1, <2>2 DEF Reads
<1> QED BY <1>1, <1>a, <1>b, <1>2, <1>3 DEF MarksInv

\* A step of the shell: what was seen stays so.
LEMMA SeenStays ==
  ASSUME MarksInv, UNCHANGED <<parsed, published, waiter, began>>, commands' \in [begun : Nat, ended : Nat],
         commands'.ended >= commands.ended
  PROVE  Seen'
BY DEF MarksInv, MarksType, Seen, Marks!WaitedHasEnded, Count

LEMMA MarksStep == ASSUME MarksInv, Marks!MarksNext PROVE MarksInv'
<1>i. MarksType /\ PromptKnown /\ Reads(parsed, marks, Bash) /\ Seen
  BY DEF MarksInv
<1>w. "C" \in Written /\ "foreignC" \in Written /\ "foreignD" \in Written
  BY DEF Written
<1>a. /\ commands \in [begun : Nat, ended : Nat] /\ commands.ended \in Nat /\ history \in Nat
      /\ parsed \in Count /\ marks \in Seq(Written)
  BY <1>i DEF MarksType
<1>b. /\ Bash \in Count /\ Bash.finished = commands.ended
      /\ Bash.running = (shell \in {"runs", "printing"})
  BY <1>a, BashIs
<1>1. CASE Marks!Starts
  <2>1. Marks!Prompt(1) /\ shell = "starts" /\ UNCHANGED <<commands, parsed, published, waiter, began>>
    BY <1>1 DEF Marks!Starts
  <2>2. commands' \in [begun : Nat, ended : Nat] /\ commands'.ended = commands.ended
    BY <1>a, <2>1
  <2>3. shell' = "prompt" /\ marks' \in Seq(Written) /\ PromptKnown' /\ Reads(parsed, marks', Bash')
    BY <2>1, <2>2, PromptCounts
  <2>4. Seen'
    BY <1>a, <2>1, <2>2, SeenStays
  <2>5. MarksType'
    BY <1>i, <2>1, <2>2, <2>3 DEF MarksType, Marks!Prompt
  <2> QED BY <2>1, <2>3, <2>4, <2>5 DEF MarksInv
<1>2. ASSUME NEW kept \in {0, 1}, Marks!Unparsed(kept) PROVE MarksInv'
  <2>1. /\ Marks!Prompt(history + kept) /\ shell = "prompt" /\ UNCHANGED <<parsed, published, waiter, began>>
        /\ commands' = [begun |-> commands.begun + kept, ended |-> commands.ended + kept]
    BY <1>2 DEF Marks!Unparsed, Marks!Typed
  <2>2. /\ commands' \in [begun : Nat, ended : Nat] /\ commands'.ended = commands.ended + kept
        /\ history + kept \in Nat /\ (history + kept # history) = (kept = 1)
    BY <1>a, <2>1
  <2>3. shell' = "prompt" /\ marks' \in Seq(Written) /\ PromptKnown' /\ Reads(parsed, marks', Bash')
    BY <1>a, <2>1, <2>2, PromptCounts
  <2>4. Seen'
    BY <1>a, <2>1, <2>2, SeenStays
  <2>5. MarksType'
    BY <1>i, <1>a, <2>1, <2>2, <2>3 DEF MarksType, Marks!Prompt
  <2> QED BY <2>1, <2>3, <2>4, <2>5 DEF MarksInv
<1>3. CASE Marks!EmptyLine
  <2>1. Marks!Prompt(history) /\ shell = "prompt" /\ UNCHANGED <<commands, parsed, published, waiter, began>>
    BY <1>3 DEF Marks!EmptyLine, Marks!Typed
  <2>2. commands' \in [begun : Nat, ended : Nat] /\ commands'.ended = commands.ended
    BY <1>a, <2>1
  <2>3. shell' = "prompt" /\ marks' \in Seq(Written) /\ PromptKnown' /\ Reads(parsed, marks', Bash')
    BY <1>a, <2>1, <2>2, PromptCounts
  <2>4. Seen'
    BY <1>a, <2>1, <2>2, SeenStays
  <2>5. MarksType'
    BY <1>i, <2>1, <2>2, <2>3 DEF MarksType, Marks!Prompt
  <2> QED BY <2>1, <2>3, <2>4, <2>5 DEF MarksInv
<1>4. CASE Marks!CommandEnds
  <2>1. /\ Marks!Prompt(history) /\ shell \in {"runs", "printing"} /\ UNCHANGED <<parsed, published, waiter, began>>
        /\ commands' = [commands EXCEPT !.ended = @ + 1]
    BY <1>4 DEF Marks!CommandEnds
  <2>2. commands' \in [begun : Nat, ended : Nat] /\ commands'.ended = commands.ended + 1
    BY <1>a, <2>1
  <2>3. shell' = "prompt" /\ marks' \in Seq(Written) /\ PromptKnown' /\ Reads(parsed, marks', Bash')
    BY <1>a, <2>1, <2>2, PromptCounts
  <2>4. Seen'
    BY <1>a, <2>1, <2>2, SeenStays
  <2>5. MarksType'
    BY <1>i, <2>1, <2>2, <2>3 DEF MarksType, Marks!Prompt
  <2> QED BY <2>1, <2>3, <2>4, <2>5 DEF MarksInv
<1>5. ASSUME NEW kept \in {0, 1}, Marks!Command(kept) PROVE MarksInv'
  <2>1. /\ shell = "prompt" /\ shell' = "runs" /\ history' = history + kept /\ shown' = FALSE
        /\ marks' = Append(marks, "C") /\ commands' = [commands EXCEPT !.begun = @ + 1]
        /\ UNCHANGED <<shownAt, parsed, published, waiter, began>>
    BY <1>5 DEF Marks!Command, Marks!Typed
  <2>2. commands' \in [begun : Nat, ended : Nat] /\ commands'.ended = commands.ended
    BY <1>a, <2>1
  <2>3. Bash' = After(Bash, "C")
    <3>1. After(Bash, "C") = [running |-> TRUE, finished |-> commands.ended]
      BY <1>w, <1>b, AfterIs
    <3>2. Bash' = [running |-> shell' \in {"runs", "printing"}, finished |-> commands'.ended]
      BY DEF Bash
    <3>3. (shell' \in {"runs", "printing"}) = TRUE
      BY <2>1
    <3> QED BY <2>2, <3>1, <3>2, <3>3, Zenon
  <2>4. Reads(parsed, Append(marks, "C"), After(Bash, "C")) /\ Append(marks, "C") \in Seq(Written)
    <3>1. Bash \in Count
      BY <1>b
    <3> QED BY <1>i, <1>w, <1>a, <3>1, ReadsAppended
  <2>5. Reads(parsed, marks, Bash)'
    BY <2>1, <2>3, <2>4
  <2>6. Seen'
    BY <1>a, <2>1, <2>2, SeenStays
  <2>7. MarksType'
    <3>1. marks' \in Seq(Written)
      BY <2>1, <2>4
    <3>2. history' \in Nat
      BY <1>a, <2>1
    <3>3. shown' \in BOOLEAN
      BY <2>1
    <3> QED BY <1>i, <2>1, <2>2, <3>1, <3>2, <3>3 DEF MarksType
  <2>8. PromptKnown'
    BY <2>1 DEF PromptKnown
  <2> QED BY <2>5, <2>6, <2>7, <2>8 DEF MarksInv
<1>6. CASE Marks!WritesMarks
  <2>1. /\ shell = "runs" /\ shell' = "printing" /\ marks' = marks \o <<"foreignD", "foreignC">>
        /\ UNCHANGED <<history, shown, shownAt, commands, parsed, published, waiter, began>>
    BY <1>6 DEF Marks!WritesMarks
  <2>2. marks' = Append(Append(marks, "foreignD"), "foreignC")
    BY <1>a, <1>w, <2>1
  <2>3. Bash' = Bash
    <3>1. (shell' \in {"runs", "printing"}) = TRUE /\ (shell \in {"runs", "printing"}) = TRUE /\ commands' = commands
      BY <2>1
    <3> QED BY <3>1, Zenon DEF Bash
  <2>4. After(Bash, "foreignD") = Bash /\ After(Bash, "foreignC") = Bash
    BY <1>w, <1>b, AfterIs
  <2>5. Reads(parsed, Append(marks, "foreignD"), Bash) /\ Append(marks, "foreignD") \in Seq(Written)
    <3>1. Bash \in Count
      BY <1>b
    <3> QED BY <1>i, <1>w, <1>a, <2>4, <3>1, ReadsAppended
  <2>6. Reads(parsed, marks', Bash) /\ marks' \in Seq(Written)
    <3> DEFINE one == Append(marks, "foreignD")
    <3>1. Bash \in Count /\ one \in Seq(Written) /\ Reads(parsed, one, Bash)
      BY <1>b, <2>5
    <3> HIDE DEF one
    <3>2. Append(one, "foreignC") \in Seq(Written) /\ Reads(parsed, Append(one, "foreignC"), Bash)
      BY <1>w, <1>a, <2>4, <3>1, ReadsAppended
    <3>3. marks' = Append(one, "foreignC")
      BY <2>2 DEF one
    <3> QED BY <3>2, <3>3
  <2>7. Seen'
    <3>1. commands' \in [begun : Nat, ended : Nat] /\ commands'.ended >= commands.ended
      BY <1>a, <2>1
    <3> QED BY <2>1, <3>1, SeenStays
  <2>8. MarksType'
    BY <1>i, <2>1, <2>6 DEF MarksType
  <2>9. PromptKnown'
    BY <1>i, <2>1 DEF PromptKnown
  <2> QED BY <2>1, <2>3, <2>6, <2>7, <2>8, <2>9 DEF MarksInv
<1>7. CASE Marks!Parses
  <2>1. /\ marks # <<>> /\ marks' = Tail(marks) /\ parsed' = After(parsed, Head(marks))
        /\ UNCHANGED <<shell, history, shown, shownAt, commands, published, waiter, began>>
    BY <1>7 DEF Marks!Parses, Marks!Counts, After
  <2>2. parsed' \in Count /\ Reads(parsed', marks', Bash) /\ marks' \in Seq(Written) /\ Head(marks) \in Written
    BY <1>i, <1>a, <1>b, <2>1, ReadsTaken
  <2>3. Bash' = Bash
    BY <2>1 DEF Bash
  <2>4. parsed.finished <= parsed'.finished
    BY <1>a, <2>1, <2>2, AfterIs
  <2>5. Seen'
    BY <1>i, <1>a, <2>1, <2>2, <2>4 DEF Seen, MarksType, Count, Marks!WaitedHasEnded
  <2>6. MarksType'
    BY <1>i, <2>1, <2>2 DEF MarksType
  <2>7. PromptKnown'
    BY <1>i, <2>1 DEF PromptKnown
  <2> QED BY <2>2, <2>3, <2>5, <2>6, <2>7 DEF MarksInv
<1>8. parsed.finished <= commands.ended
  BY <1>i, <1>a, <1>b DEF Reads
<1>9. CASE Marks!Publishes \/ Marks!Waits \/ Marks!Looks
  <2>1. /\ UNCHANGED <<shell, history, shown, shownAt, commands, marks, parsed>>
        /\ \/ published' = parsed /\ UNCHANGED <<waiter, began>>
           \/ waiter' = "waits" /\ began' = published /\ UNCHANGED published
           \/ /\ waiter' = IF Marks!EndSeen THEN "ended" ELSE "waits"
              /\ UNCHANGED <<published, began>>
    BY <1>9 DEF Marks!Publishes, Marks!Waits, Marks!Looks
  <2>2. Bash' = Bash
    BY <2>1 DEF Bash
  <2>3. Seen'
    BY <1>i, <1>8, <2>1 DEF Seen, MarksType, Count, Marks!WaitedHasEnded, Marks!EndSeen
  <2>4. MarksType'
    BY <1>i, <2>1 DEF MarksType
  <2>5. PromptKnown'
    BY <1>i, <2>1 DEF PromptKnown
  <2> QED BY <1>i, <2>1, <2>2, <2>3, <2>4, <2>5 DEF MarksInv
<1> QED
  BY <1>1, <1>2, <1>3, <1>4, <1>5, <1>6, <1>7, <1>9 DEF Marks!MarksNext

\* Every command a marked shell runs is counted once, one bash could not parse too, and nothing else,
\* whatever a command prints, and a wait for a command's end is answered after it (marks.rs END,
\* wait.rs Until::End), however late the terminal's marks are parsed and the status is published.
THEOREM MarksAreTrueAlways == Spec => []MarksAreTrue
<1>1. Init => MarksInv
  BY MarksInvInit DEF Init
<1>2. MarksInv /\ [Next]_vars => MarksInv'
  <2>1. ASSUME MarksInv, UNCHANGED Marks!marksVars PROVE MarksInv'
    BY <2>1 DEF MarksInv, MarksType, PromptKnown, Reads, Bash, Seen, Marks!WaitedHasEnded, Marks!marksVars
  <2> QED
    BY <2>1, MarksStep, OwnSteps
<1>3. MarksInv => MarksAreTrue
  <2> SUFFICES ASSUME MarksInv PROVE MarksAreTrue
    OBVIOUS
  <2>1. PICK t \in [0..Len(marks) -> Count] :
          /\ t[0] = parsed /\ t[Len(marks)] = Bash
          /\ \A i \in 0..Len(marks) : t[i].finished <= Bash.finished
    BY DEF MarksInv, Reads
  <2>2. marks = <<>> => parsed = Bash
    BY <2>1 DEF MarksInv, MarksType
  <2>3. parsed.finished <= commands.ended
    BY <2>1 DEF MarksInv, MarksType, Bash
  <2> QED
    BY <2>2, <2>3 DEF MarksInv, Seen, Bash, MarksAreTrue, Marks!CommandsCounted
<1> QED
  BY <1>1, <1>2, <1>3, PTL DEF Spec


(***************************************************************************)
(* Gate.                                                                   *)
(***************************************************************************)
LEMMA SameCount == \A S : Gate!Cardinality(S) = Cardinality(S)
  BY DEF Gate!Cardinality, Cardinality

LEMMA DialsFinite == \A S \in SUBSET Gate!Dials : IsFiniteSet(S)
<1>1. IsFiniteSet(Gate!Dials)
  BY PartsAssumption DEF Gate!GateAssumption, Gate!IsFiniteSet, IsFiniteSet
<1> QED
  BY <1>1, FS_Subset

\* A sequence that names each of its members once, of which the i-th is taken out.
Once(q) == \A j, k \in 1..Len(q) : q[j] = q[k] => j = k
Without(q, i, r) ==
    Len(r) = Len(q) - 1 /\ \A j \in 1..Len(r) : r[j] = IF j < i THEN q[j] ELSE q[j + 1]
LEMMA TakenOut ==
  ASSUME NEW S, NEW q \in Seq(S), NEW r \in Seq(S), NEW i \in 1..Len(q), Without(q, i, r), Once(q)
  PROVE  Gate!Range(r) = Gate!Range(q) \ {q[i]} /\ Once(r)
<1> USE DEF Without, Once
<1> DEFINE place(j) == IF j < i THEN j ELSE j + 1
<1>1. Len(q) \in Nat /\ Len(r) \in Nat
  OBVIOUS
<1>2. \A j \in 1..Len(r) : place(j) \in 1..Len(q) /\ r[j] = q[place(j)] /\ place(j) # i
  BY <1>1
<1>3. \A j, k \in 1..Len(r) : place(j) = place(k) => j = k
  BY <1>1
<1>4. ASSUME NEW k \in 1..Len(q), k # i PROVE \E j \in 1..Len(r) : place(j) = k
  <2>1. CASE k < i
    BY <1>1, <2>1
  <2>2. CASE k > i
    <3>1. k - 1 \in 1..Len(r) /\ place(k - 1) = k
      BY <1>1, <2>2
    <3> QED
      BY <3>1
  <2> QED
    BY <1>1, <1>4, <2>1, <2>2
<1> HIDE DEF place
<1>5. Gate!Range(q) = {q[k] : k \in 1..Len(q)} /\ Gate!Range(r) = {r[j] : j \in 1..Len(r)}
  BY DEF Gate!Range
<1>6. ASSUME NEW x \in Gate!Range(q), x # q[i] PROVE x \in Gate!Range(r)
  <2>1. PICK k \in 1..Len(q) : x = q[k]
    BY <1>5
  <2>2. PICK j \in 1..Len(r) : place(j) = k
    BY <1>4, <1>6, <2>1
  <2> QED
    BY <1>2, <1>5, <2>1, <2>2
<1>7. \A x \in Gate!Range(r) : x \in Gate!Range(q) /\ x # q[i]
  BY <1>2, <1>5
<1>8. Gate!Range(r) = Gate!Range(q) \ {q[i]}
  BY <1>6, <1>7
<1> QED
  BY <1>2, <1>3, <1>8

\* Of a sequence of length n, what stands before the i-th place and what stands after it.
LEMMA Split ==
  ASSUME NEW n \in Nat, NEW i \in 1..n
  PROVE  /\ i \in Int /\ i + 1 \in Int /\ n - (i + 1) + 1 = n - i /\ (i - 1) + (n - i) = n - 1
         /\ (IF i + 1 <= n THEN n - (i + 1) + 1 ELSE 0) = n - i
         /\ i - 1 \in Int /\ 1 \in Int /\ (IF 1 <= i - 1 THEN i - 1 - 1 + 1 ELSE 0) = i - 1 /\ i - 1 - 1 + 1 = i - 1
         /\ \A j \in 1..(n - 1) :
               /\ (j <= i - 1) <=> (j < i)
               /\ j < i => j \in 1..(i - 1) /\ 1 + j - 1 = j
               /\ ~(j < i) => j - (i - 1) \in 1..(n - i) /\ i + 1 + (j - (i - 1)) - 1 = j + 1
  OBVIOUS

LEMMA Removed ==
  ASSUME NEW S, NEW q \in Seq(S), NEW i \in 1..Len(q)
  PROVE  LET r == Gate!RemoveAt(q, i) IN
         r \in Seq(S) /\ Without(q, i, r)
<1> DEFINE front == SubSeq(q, 1, i - 1)
           rest == SubSeq(q, i + 1, Len(q))
           n == Len(q)
<1>1. n \in Nat /\ \A k \in 1..n : q[k] \in S
  OBVIOUS
<1>2. /\ \A k \in (i + 1)..n : q[k] \in S
      /\ \A k \in 1..(i - 1) : q[k] \in S
  BY <1>1
<1>3. /\ front \in Seq(S) /\ Len(front) = IF 1 <= i - 1 THEN i - 1 - 1 + 1 ELSE 0
      /\ \A j \in 1..(i - 1 - 1 + 1) : front[j] = q[1 + j - 1]
  <2>1. i - 1 \in Int /\ 1 \in Int
    BY ONLY <1>1, i \in 1..n, Split
  <2> QED
    BY ONLY <1>2, <2>1, SubSeqProperties
<1>4. /\ rest \in Seq(S) /\ Len(rest) = IF i + 1 <= n THEN n - (i + 1) + 1 ELSE 0
      /\ \A j \in 1..(n - (i + 1) + 1) : rest[j] = q[i + 1 + j - 1]
  <2>1. i + 1 \in Int /\ n \in Int
    BY <1>1
  <2> QED
    BY ONLY <1>2, <2>1, SubSeqProperties
<1> HIDE DEF front, rest, n
<1>5. /\ front \o rest \in Seq(S) /\ Len(front \o rest) = Len(front) + Len(rest)
      /\ \A j \in 1..(Len(front) + Len(rest)) :
            (front \o rest)[j] = IF j <= Len(front) THEN front[j] ELSE rest[j - Len(front)]
  BY ONLY <1>3, <1>4, ConcatProperties
<1>6. i \in 1..n
  BY DEF n
<1>7. Len(front) = i - 1 /\ Len(rest) = n - i /\ Len(front \o rest) = n - 1
  BY ONLY <1>1, <1>3, <1>4, <1>5, <1>6, Split
<1>8. ASSUME NEW j \in 1..(n - 1) PROVE (front \o rest)[j] = IF j < i THEN q[j] ELSE q[j + 1]
  <2>1. (front \o rest)[j] = IF j < i THEN front[j] ELSE rest[j - (i - 1)]
    <3>1. j \in 1..(Len(front) + Len(rest))
      BY ONLY <1>1, <1>6, <1>7, <1>8, Split
    <3>2. (j <= i - 1) <=> (j < i)
      BY ONLY <1>1, <1>6, <1>8, Split
    <3>3. (front \o rest)[j] = IF j <= i - 1 THEN front[j] ELSE rest[j - (i - 1)]
      BY ONLY <1>5, <1>7, <3>1
    <3> QED
      BY ONLY <3>2, <3>3
  <2>2. j < i => front[j] = q[j]
    BY ONLY <1>1, <1>3, <1>6, <1>8, Split
  <2>3. ~(j < i) => rest[j - (i - 1)] = q[j + 1]
    BY ONLY <1>1, <1>4, <1>6, <1>8, Split
  <2> QED
    BY ONLY <2>1, <2>2, <2>3
<1>9. Gate!RemoveAt(q, i) = front \o rest /\ n = Len(q)
  BY DEF Gate!RemoveAt, front, rest, n
<1>10. Len(front \o rest) = Len(q) - 1
       /\ \A j \in 1..Len(front \o rest) : (front \o rest)[j] = IF j < i THEN q[j] ELSE q[j + 1]
  BY ONLY <1>7, <1>8, <1>9
<1> QED
  BY ONLY <1>5, <1>9, <1>10 DEF Without

LEMMA PutLast ==
  ASSUME NEW S, NEW q \in Seq(S), NEW c \in S, c \notin Gate!Range(q), Once(q)
  PROVE  /\ Append(q, c) \in Seq(S) /\ Gate!Range(Append(q, c)) = Gate!Range(q) \cup {c}
         /\ Once(Append(q, c))
<1> USE DEF Once
<1>1. /\ Append(q, c) \in Seq(S) /\ Len(Append(q, c)) = Len(q) + 1 /\ Len(q) \in Nat
      /\ Append(q, c)[Len(q) + 1] = c /\ \A i \in 1..Len(q) : Append(q, c)[i] = q[i]
  OBVIOUS
<1>2. \A i \in 1..Len(q) : q[i] # c
  BY DEF Gate!Range
<1>3. Gate!Range(q) = {q[k] : k \in 1..Len(q)}
      /\ Gate!Range(Append(q, c)) = {Append(q, c)[k] : k \in 1..Len(Append(q, c))}
  BY <1>1 DEF Gate!Range
<1>4. \A k : k \in 1..(Len(q) + 1) <=> k \in 1..Len(q) \/ k = Len(q) + 1
  <2>1. Len(q) \in Nat
    BY <1>1
  <2> QED
    BY ONLY <2>1
<1>5. Gate!Range(Append(q, c)) = Gate!Range(q) \cup {c}
  BY <1>1, <1>3, <1>4
<1> QED
  BY <1>1, <1>2, <1>4, <1>5

\* The handshakes: those shaking are in the table, and of two there one came first.
TableInv ==
    /\ conn = [c \in Gate!Dials |-> conn[c]] /\ underWay \subseteq Gate!Dials
    /\ Gate!In("shaking") \subseteq underWay /\ Cardinality(Gate!In("shaking")) <= MostPending
    /\ \A b, c \in underWay : b # c => <<b, c>> \in older \/ <<c, b>> \in older

\* The permits: each held or free, and who waits stands in the queue once.
Held == Gate!In("serving") \cup Gate!In("granted")
PermitInv ==
    /\ queue \in Seq(Gate!Dials) /\ Once(queue)
    /\ Gate!Range(queue) = Gate!In("waiting") /\ (queue # <<>> => free = 0)
    /\ free \in Nat /\ free + Cardinality(Held) = MaxConnections
    /\ Cardinality(Gate!In("waiting")) <= MaxConnections

GateInv == TableInv /\ PermitInv

LEMMA Counts ==
  ASSUME NEW S \in SUBSET Gate!Dials, NEW c
  PROVE  /\ Cardinality(S) \in Nat
         /\ Cardinality(S \cup {c}) = IF c \in S THEN Cardinality(S) ELSE Cardinality(S) + 1
         /\ Cardinality(S \ {c}) = IF c \in S THEN Cardinality(S) - 1 ELSE Cardinality(S)
  BY DialsFinite, FS_CardinalityType, FS_AddElement, FS_RemoveElement

\* Who is in which state after a step of one, and of two.
LEMMA Moved ==
  ASSUME TableInv, NEW c \in Gate!Dials, NEW to, conn' = [conn EXCEPT ![c] = to]
  PROVE  /\ conn' = [b \in Gate!Dials |-> conn'[b]]
         /\ \A b \in Gate!Dials : conn'[b] = IF b = c THEN to ELSE conn[b]
         /\ Gate!In(to)' = Gate!In(to) \cup {c}
         /\ \A s : s # to => Gate!In(s)' = Gate!In(s) \ {c}
<1>1. /\ conn' = [b \in Gate!Dials |-> conn'[b]]
      /\ \A b \in Gate!Dials : conn'[b] = IF b = c THEN to ELSE conn[b]
  BY DEF TableInv
<1>2. \A s : Gate!In(s) = {b \in Gate!Dials : conn[b] = s} /\ Gate!In(s)' = {b \in Gate!Dials : conn'[b] = s}
  BY DEF Gate!In
<1> QED
  BY <1>1, <1>2

Moves(c, to) == conn' = [conn EXCEPT ![c] = to]
LEMMA HolderMoved ==
  ASSUME TableInv, NEW c \in Gate!Dials, NEW to, Moves(c, to)
  PROVE  /\ Gate!In("serving")' = IF to = "serving" THEN Gate!In("serving") \cup {c} ELSE Gate!In("serving") \ {c}
         /\ Gate!In("granted")' = IF to = "granted" THEN Gate!In("granted") \cup {c} ELSE Gate!In("granted") \ {c}
         /\ Gate!In("waiting")' = IF to = "waiting" THEN Gate!In("waiting") \cup {c} ELSE Gate!In("waiting") \ {c}
<1>1. Gate!In(to)' = Gate!In(to) \cup {c} /\ \A s : s # to => Gate!In(s)' = Gate!In(s) \ {c}
  BY Moved DEF Moves
<1>2. Gate!In("serving")' = IF to = "serving" THEN Gate!In("serving") \cup {c} ELSE Gate!In("serving") \ {c}
  BY ONLY <1>1
<1>3. Gate!In("granted")' = IF to = "granted" THEN Gate!In("granted") \cup {c} ELSE Gate!In("granted") \ {c}
  BY ONLY <1>1
<1>4. Gate!In("waiting")' = IF to = "waiting" THEN Gate!In("waiting") \cup {c} ELSE Gate!In("waiting") \ {c}
  BY ONLY <1>1
<1> QED
  BY ONLY <1>2, <1>3, <1>4

MoveBoth(c, to, d, there) == conn' = [conn EXCEPT ![c] = to, ![d] = there]
LEMMA BothMoved ==
  ASSUME TableInv, NEW c \in Gate!Dials, NEW to, NEW d \in Gate!Dials, NEW there, c # d, MoveBoth(c, to, d, there)
  PROVE  /\ conn' = [b \in Gate!Dials |-> conn'[b]]
         /\ \A b \in Gate!Dials : conn'[b] = IF b = c THEN to ELSE IF b = d THEN there ELSE conn[b]
  BY DEF TableInv, MoveBoth

LEMMA LiveShake == ASSUME TableInv PROVE Gate!Live = Gate!In("shaking")
  BY DEF TableInv, Gate!Live, Gate!In

\* Those kept are in order, and come before who is put behind them.
LEMMA KeptInOrder ==
  ASSUME TableInv, NEW kept \in SUBSET underWay
  PROVE  /\ Gate!Keep(kept) => \A b, c \in underWay' : b # c => <<b, c>> \in older' \/ <<c, b>> \in older'
         /\ \A d : Gate!KeepAnd(kept, d)
                      => \A b, c \in underWay' : b # c => <<b, c>> \in older' \/ <<c, b>> \in older'
<1> USE DEF TableInv, Gate!Keep, Gate!KeepAnd
<1>1. Gate!Keep(kept) => \A b, c \in underWay' : b # c => <<b, c>> \in older' \/ <<c, b>> \in older'
  OBVIOUS
<1>2. ASSUME NEW d, Gate!KeepAnd(kept, d), NEW b \in underWay', NEW c \in underWay', b # c
      PROVE  <<b, c>> \in older' \/ <<c, b>> \in older'
  <2>1. underWay' = kept \cup {d} /\ older' = (older \cap (kept \X kept)) \cup (kept \X {d})
    BY <1>2
  <2>2. CASE b = d
    BY <1>2, <2>1, <2>2
  <2>3. CASE c = d
    BY <1>2, <2>1, <2>3
  <2>4. CASE b # d /\ c # d
    BY <1>2, <2>1, <2>4
  <2> QED
    BY <2>2, <2>3, <2>4
<1> QED
  BY <1>1, <1>2

\* A step that lets nobody into a handshake.
LEMMA NoneShaken ==
  ASSUME TableInv, conn' = [b \in Gate!Dials |-> conn'[b]],
         Gate!In("shaking")' \subseteq Gate!In("shaking"),
         UNCHANGED <<underWay, older>> \/ Gate!Keep(Gate!Live)
  PROVE  TableInv'
<1>1. Gate!In("shaking") \in SUBSET Gate!Dials /\ Gate!In("shaking") \subseteq underWay
  BY DEF Gate!In, TableInv
<1>2. Cardinality(Gate!In("shaking")') <= MostPending
  <2>1. Cardinality(Gate!In("shaking")') <= Cardinality(Gate!In("shaking"))
    BY <1>1, DialsFinite, FS_Subset
  <2>2. Cardinality(Gate!In("shaking")) \in Nat /\ MostPending \in Nat
    BY <1>1, Counts, PartsAssumption DEF Gate!GateAssumption
  <2>3. Cardinality(Gate!In("shaking")') \in Nat
    BY <1>1, Counts
  <2> QED
    BY <2>1, <2>2, <2>3 DEF TableInv
<1>3. CASE UNCHANGED <<underWay, older>>
  BY <1>1, <1>2, <1>3 DEF TableInv
<1>4. CASE Gate!Keep(Gate!Live)
  <2>1. underWay' = Gate!In("shaking")
    BY <1>4, LiveShake DEF Gate!Keep
  <2>2. \A b, d \in underWay' : b # d => <<b, d>> \in older' \/ <<d, b>> \in older'
    BY <1>4, KeptInOrder DEF Gate!Live
  <2> QED
    BY <1>1, <1>2, <2>1, <2>2 DEF TableInv
<1> QED
  BY <1>3, <1>4

LEMMA OneShakesNot ==
  ASSUME TableInv, NEW c \in Gate!Dials, NEW to, to # "shaking", conn' = [conn EXCEPT ![c] = to],
         UNCHANGED <<underWay, older>> \/ Gate!Keep(Gate!Live)
  PROVE  TableInv'
<1>1. conn' = [b \in Gate!Dials |-> conn'[b]] /\ Gate!In("shaking")' = Gate!In("shaking") \ {c}
  BY Moved
<1> QED
  BY <1>1, NoneShaken

\* The first in the queue waits, for a permit that is not there.
LEMMA HeadWaits ==
  ASSUME PermitInv, queue # <<>>
  PROVE  Head(queue) = queue[1] /\ 1 \in 1..Len(queue) /\ Head(queue) \in Gate!In("waiting") /\ free = 0
<1>1. queue \in Seq(Gate!Dials) /\ Gate!Range(queue) = Gate!In("waiting") /\ free = 0
  BY DEF PermitInv
<1>2. Head(queue) = queue[1] /\ 1 \in 1..Len(queue) /\ DOMAIN queue = 1..Len(queue)
  BY <1>1
<1> QED
  BY <1>1, <1>2 DEF Gate!Range

\* Who comes is put behind all those in the table, for whom the oldest of the most is given up if
\* there is no room.
LEMMA TableStep == ASSUME TableInv, PermitInv, Gate!GateNext PROVE TableInv'
<1>a. Gate!In("shaking") \in SUBSET Gate!Dials /\ Gate!Live = Gate!In("shaking") /\ MostPending \in Nat
  BY LiveShake, PartsAssumption DEF Gate!In, Gate!GateAssumption
<1>1. ASSUME NEW c \in Gate!Dials, Gate!Accept(c) PROVE TableInv'
  <2>a. conn[c] # "shaking" /\ c \notin Gate!In("shaking")
    BY <1>1 DEF Gate!Accept, Gate!In
  <2>1. CASE ~Gate!Crowded /\ conn' = [conn EXCEPT ![c] = "shaking"] /\ Gate!KeepAnd(Gate!Live, c)
    <3>1. /\ conn' = [b \in Gate!Dials |-> conn'[b]]
          /\ Gate!In("shaking")' = Gate!In("shaking") \cup {c}
      BY <2>1, Moved
    <3>2. underWay' = Gate!In("shaking")' /\ underWay' \subseteq Gate!Dials
      BY <1>a, <2>1, <3>1 DEF Gate!KeepAnd
    <3>3. \A b, d \in underWay' : b # d => <<b, d>> \in older' \/ <<d, b>> \in older'
      BY <2>1, KeptInOrder DEF Gate!Live
    <3>4. Cardinality(Gate!In("shaking")') = Cardinality(Gate!In("shaking")) + 1
      BY <1>a, <2>a, <3>1, Counts
    <3>5. Cardinality(Gate!In("shaking")) < MostPending /\ Cardinality(Gate!In("shaking")) \in Nat
      <4>1. ~(Cardinality(Gate!In("shaking")) >= MostPending)
        BY <1>a, <2>1, SameCount DEF Gate!Crowded
      <4>2. Cardinality(Gate!In("shaking")) \in Nat
        BY <1>a, Counts
      <4> QED
        BY <1>a, <4>1, <4>2
    <3> QED
      BY <1>a, <3>1, <3>2, <3>3, <3>4, <3>5 DEF TableInv
  <2>2. ASSUME NEW g \in Gate!GivenUp, conn' = [conn EXCEPT ![c] = "shaking", ![g] = "givenUp"],
               Gate!KeepAnd(Gate!Live \ {g}, c)
        PROVE  TableInv'
    <3>1. g \in Gate!In("shaking") /\ g # c /\ g \in Gate!Dials
      BY <1>a, <2>a DEF Gate!GivenUp, Gate!Oldest
    <3>2. /\ conn' = [b \in Gate!Dials |-> conn'[b]]
          /\ Gate!In("shaking")' = (Gate!In("shaking") \ {g}) \cup {c}
      <4>1. PICK gone : gone # "shaking" /\ conn' = [conn EXCEPT ![c] = "shaking", ![g] = gone]
        BY <2>2
      <4>2. /\ conn' = [b \in Gate!Dials |-> conn'[b]]
            /\ \A b \in Gate!Dials : conn'[b] = IF b = c THEN "shaking" ELSE IF b = g THEN gone ELSE conn[b]
        <5>1. MoveBoth(c, "shaking", g, gone)
          BY <3>1, <4>1 DEF MoveBoth
        <5> QED
          BY <3>1, <4>1, <5>1, BothMoved
      <4> QED
        BY <3>1, <4>1, <4>2 DEF Gate!In
    <3>3. underWay' = Gate!In("shaking")' /\ underWay' \subseteq Gate!Dials
      BY <1>a, <2>2, <3>2 DEF Gate!KeepAnd
    <3>4. \A b, d \in underWay' : b # d => <<b, d>> \in older' \/ <<d, b>> \in older'
      BY <2>2, KeptInOrder DEF Gate!Live
    <3>5. Cardinality(Gate!In("shaking")') = Cardinality(Gate!In("shaking"))
      <4>1. Cardinality(Gate!In("shaking") \ {g}) = Cardinality(Gate!In("shaking")) - 1
        BY <1>a, <3>1, Counts
      <4>2. Gate!In("shaking") \ {g} \in SUBSET Gate!Dials /\ c \notin Gate!In("shaking") \ {g}
        BY <1>a, <2>a
      <4>3. Cardinality((Gate!In("shaking") \ {g}) \cup {c}) = Cardinality(Gate!In("shaking") \ {g}) + 1
        BY <4>2, Counts
      <4>4. Cardinality(Gate!In("shaking")) \in Nat
        BY <1>a, Counts
      <4>5. Cardinality((Gate!In("shaking") \ {g}) \cup {c}) = Cardinality(Gate!In("shaking"))
        BY <4>1, <4>3, <4>4
      <4> QED
        BY <3>2, <4>5
    <3> QED
      BY <3>2, <3>3, <3>4, <3>5 DEF TableInv
  <2>3. \/ ~Gate!Crowded /\ conn' = [conn EXCEPT ![c] = "shaking"] /\ Gate!KeepAnd(Gate!Live, c)
        \/ \E g \in Gate!GivenUp : /\ conn' = [conn EXCEPT ![c] = "shaking", ![g] = "givenUp"]
                                  /\ Gate!KeepAnd(Gate!Live \ {g}, c)
    BY <1>1, Zenon DEF Gate!Accept
  <2> QED
    BY <2>1, <2>2, <2>3
<1>2. ASSUME NEW c \in Gate!Dials, Gate!SendBack(c) PROVE TableInv'
  BY <1>2, OneShakesNot DEF Gate!SendBack
<1>3. ASSUME NEW c \in Gate!Dials, Gate!HandshakeFails(c) PROVE TableInv'
  BY <1>3, OneShakesNot DEF Gate!HandshakeFails
<1>4. ASSUME NEW c \in Gate!Dials, Gate!Admit(c) PROVE TableInv'
  <2>1. PICK to \in {"refused", "serving", "waiting", "busy"} : conn' = [conn EXCEPT ![c] = to]
    BY <1>4 DEF Gate!Admit
  <2>2. to # "shaking" /\ UNCHANGED <<underWay, older>>
    BY <1>4 DEF Gate!Admit
  <2> QED
    BY <2>1, <2>2, OneShakesNot
<1>5. ASSUME NEW c \in Gate!Dials, Gate!Granted(c) \/ Gate!QueuedTooLong(c) PROVE TableInv'
  <2>1. CASE Gate!Granted(c)
    BY <2>1, OneShakesNot DEF Gate!Granted
  <2>2. CASE Gate!QueuedTooLong(c)
    BY <2>2, OneShakesNot DEF Gate!QueuedTooLong
  <2> QED
    BY <1>5, <2>1, <2>2
<1>6. ASSUME PermitInv, NEW c \in Gate!Dials, Gate!Leaves(c) PROVE TableInv'
  <2>1. UNCHANGED <<underWay, older>> /\ conn[c] = "serving" /\ Gate!Served(c)
    BY <1>6 DEF Gate!Leaves
  <2>2. CASE conn' = [conn EXCEPT ![c] = "done"]
    BY <2>1, <2>2, OneShakesNot
  <2>3. CASE queue # <<>> /\ conn' = [conn EXCEPT ![c] = "done", ![Head(queue)] = "granted"]
    <3>1. Head(queue) \in Gate!Dials /\ Head(queue) # c
      BY <1>6, <2>1, <2>3, HeadWaits DEF Gate!In
    <3>2. /\ conn' = [b \in Gate!Dials |-> conn'[b]]
          /\ \A b \in Gate!Dials : conn'[b] = IF b = c THEN "done" ELSE IF b = Head(queue) THEN "granted" ELSE conn[b]
      <4>1. MoveBoth(c, "done", Head(queue), "granted")
        BY <2>3, <3>1 DEF MoveBoth
      <4> QED
        BY <2>3, <3>1, <4>1, BothMoved
    <3>3. Gate!In("shaking")' \subseteq Gate!In("shaking")
      BY <3>2 DEF Gate!In
    <3> QED
      BY <2>1, <3>2, <3>3, NoneShaken
  <2> QED
    BY <2>1, <2>2, <2>3 DEF Gate!Served
<1> QED
  BY <1>1, <1>2, <1>3, <1>4, <1>5, <1>6 DEF Gate!GateNext

\* A step that leaves the permits and those who wait as they were.
LEMMA PermitsRest ==
  ASSUME PermitInv, UNCHANGED <<free, queue>>, Held' = Held, Gate!In("waiting")' = Gate!In("waiting")
  PROVE  PermitInv'
  BY DEF PermitInv

LEMMA OneNotOfThem ==
  ASSUME TableInv, PermitInv, NEW c \in Gate!Dials, NEW to, to \notin {"serving", "granted", "waiting"},
         conn[c] \notin {"serving", "granted", "waiting"}, conn' = [conn EXCEPT ![c] = to],
         UNCHANGED <<free, queue>>
  PROVE  PermitInv'
<1>1. \A s : s # to => Gate!In(s)' = Gate!In(s) \ {c}
  BY Moved
<1>2. \A s \in {"serving", "granted", "waiting"} : Gate!In(s) \ {c} = Gate!In(s)
  BY DEF Gate!In
<1>3. \A s \in {"serving", "granted", "waiting"} : Gate!In(s)' = Gate!In(s)
  BY <1>1, <1>2
<1>4. Held' = Held
  BY <1>3 DEF Held
<1> QED
  BY <1>3, <1>4, PermitsRest

LEMMA OneHeld ==
  ASSUME PermitInv
  PROVE  /\ Held \in SUBSET Gate!Dials /\ Gate!In("waiting") \in SUBSET Gate!Dials
         /\ Cardinality(Held) \in Nat /\ Cardinality(Gate!In("waiting")) \in Nat
         /\ MaxConnections \in Nat
<1>1. Held \in SUBSET Gate!Dials /\ Gate!In("waiting") \in SUBSET Gate!Dials
  BY DEF Held, Gate!In
<1> QED
  BY <1>1, Counts, PartsAssumption DEF Gate!GateAssumption

LEMMA OneLess ==
  ASSUME PermitInv, NEW c PROVE Cardinality(Gate!In("waiting") \ {c}) <= MaxConnections
<1>1. Cardinality(Gate!In("waiting") \ {c}) \in Nat
      /\ Cardinality(Gate!In("waiting") \ {c}) <= Cardinality(Gate!In("waiting"))
  BY OneHeld, DialsFinite, FS_Subset, Counts
<1> QED
  BY <1>1, OneHeld DEF PermitInv

LEMMA PermitStep == ASSUME TableInv, PermitInv, Gate!GateNext PROVE PermitInv'
<1>a. /\ Held \in SUBSET Gate!Dials /\ Gate!In("waiting") \in SUBSET Gate!Dials
      /\ Cardinality(Held) \in Nat /\ Cardinality(Gate!In("waiting")) \in Nat
      /\ MaxConnections \in Nat
  BY OneHeld
<1>b. /\ queue \in Seq(Gate!Dials) /\ Once(queue)
      /\ Gate!Range(queue) = Gate!In("waiting") /\ (queue # <<>> => free = 0)
      /\ free \in Nat /\ free + Cardinality(Held) = MaxConnections
      /\ Cardinality(Gate!In("waiting")) <= MaxConnections
  BY DEF PermitInv
<1>1. ASSUME NEW c \in Gate!Dials, Gate!Accept(c) PROVE PermitInv'
  <2>1. conn[c] \notin {"serving", "granted", "waiting", "shaking"} /\ UNCHANGED <<free, queue>>
    BY <1>1 DEF Gate!Accept
  <2>2. CASE conn' = [conn EXCEPT ![c] = "shaking"]
    BY <2>1, <2>2, OneNotOfThem
  <2>3. ASSUME NEW g \in Gate!GivenUp, conn' = [conn EXCEPT ![c] = "shaking", ![g] = "givenUp"]
        PROVE  PermitInv'
    <3>1. g \in Gate!In("shaking")
      BY LiveShake DEF Gate!GivenUp, Gate!Oldest
    <3>2. conn[g] = "shaking" /\ g # c /\ g \in Gate!Dials
      BY <2>1, <3>1 DEF Gate!In
    <3>3. PICK gone : gone \notin {"serving", "granted", "waiting"}
                      /\ conn' = [conn EXCEPT ![c] = "shaking", ![g] = gone]
      BY <2>3
    <3>4. \A b \in Gate!Dials : conn'[b] = IF b = c THEN "shaking" ELSE IF b = g THEN gone ELSE conn[b]
      <4>1. MoveBoth(c, "shaking", g, gone)
        BY <3>2, <3>3 DEF MoveBoth
      <4> QED
        BY <3>2, <3>3, <4>1, BothMoved
    <3>5. \A s \in {"serving", "granted", "waiting"} : Gate!In(s)' = Gate!In(s)
      BY <2>1, <3>2, <3>3, <3>4 DEF Gate!In
    <3>6. Held' = Held
      BY <3>5 DEF Held
    <3> QED
      BY <2>1, <3>5, <3>6, PermitsRest
  <2>4. \/ conn' = [conn EXCEPT ![c] = "shaking"]
        \/ \E g \in Gate!GivenUp : conn' = [conn EXCEPT ![c] = "shaking", ![g] = "givenUp"]
    BY <1>1, Zenon DEF Gate!Accept
  <2> QED
    BY <2>2, <2>3, <2>4
<1>2. ASSUME NEW c \in Gate!Dials, Gate!SendBack(c) PROVE PermitInv'
  BY <1>2, OneNotOfThem DEF Gate!SendBack
<1>3. ASSUME NEW c \in Gate!Dials, Gate!HandshakeFails(c) PROVE PermitInv'
  BY <1>3, OneNotOfThem DEF Gate!HandshakeFails
<1>4. ASSUME NEW c \in Gate!Dials, Gate!Admit(c) PROVE PermitInv'
  <2>a. conn[c] = "shaking" /\ c \notin Held /\ c \notin Gate!In("waiting")
    BY <1>4 DEF Gate!Admit, Held, Gate!In
  <2>1. CASE conn' \in {[conn EXCEPT ![c] = "refused"], [conn EXCEPT ![c] = "busy"]} /\ UNCHANGED <<free, queue>>
    BY <2>a, <2>1, OneNotOfThem
  <2>2. CASE free > 0 /\ conn' = [conn EXCEPT ![c] = "serving"] /\ free' = free - 1 /\ UNCHANGED queue
    <3>1. /\ Gate!In("serving")' = Gate!In("serving") \cup {c}
          /\ Gate!In("granted")' = Gate!In("granted") \ {c}
          /\ Gate!In("waiting")' = Gate!In("waiting") \ {c}
      <4>1. Moves(c, "serving")
        BY <2>2 DEF Moves
      <4> QED
        BY <4>1, HolderMoved
    <3>2. Held' = Held \cup {c} /\ Gate!In("waiting")' = Gate!In("waiting")
      BY <2>a, <3>1 DEF Held
    <3>3. Cardinality(Held \cup {c}) = Cardinality(Held) + 1
      BY <1>a, <2>a, Counts
    <3>4. free' \in Nat /\ free' + Cardinality(Held \cup {c}) = MaxConnections
      BY <1>a, <1>b, <2>2, <3>3
    <3>5. queue = <<>>
      BY <1>b, <2>2
    <3> QED
      BY <1>b, <2>2, <3>2, <3>4, <3>5 DEF PermitInv
  <2>3. CASE free = 0 /\ Gate!MayWait /\ conn' = [conn EXCEPT ![c] = "waiting"]
             /\ queue' = Append(queue, c) /\ UNCHANGED free
    <3>1. /\ Gate!In("waiting")' = Gate!In("waiting") \cup {c}
          /\ Gate!In("granted")' = Gate!In("granted") \ {c}
          /\ Gate!In("serving")' = Gate!In("serving") \ {c}
      <4>1. Moves(c, "waiting")
        BY <2>3 DEF Moves
      <4> QED
        BY <4>1, HolderMoved
    <3>2. Held' = Held
      BY <2>a, <3>1 DEF Held
    <3>3. queue' \in Seq(Gate!Dials) /\ Gate!Range(queue') = Gate!In("waiting")' /\ Once(queue')
      <4>1. queue \in Seq(Gate!Dials) /\ c \notin Gate!Range(queue)
        BY <1>b, <2>a
      <4>2. /\ Append(queue, c) \in Seq(Gate!Dials) /\ Gate!Range(Append(queue, c)) = Gate!Range(queue) \cup {c}
            /\ Once(Append(queue, c))
        BY ONLY <1>b, <4>1, c \in Gate!Dials, PutLast
      <4>3. queue' = Append(queue, c)
        BY <2>3
      <4>4. queue' \in Seq(Gate!Dials) /\ Once(queue')
        BY ONLY <4>2, <4>3
      <4>5. Gate!Range(queue') = Gate!Range(queue) \cup {c}
        BY ONLY <4>2, <4>3
      <4> QED
        BY ONLY <1>b, <3>1, <4>4, <4>5
    <3>4. Cardinality(Gate!In("waiting") \cup {c}) <= MaxConnections
      <4> DEFINE either == Gate!In("waiting") \cup Gate!In("granted")
      <4>1. either \in SUBSET Gate!Dials /\ Gate!In("waiting") \subseteq either
        BY DEF Gate!In
      <4>2. Cardinality(Gate!In("waiting")) <= Cardinality(either) /\ Cardinality(either) \in Nat
        BY <4>1, DialsFinite, FS_Subset, Counts
      <4>3. Cardinality(either) < MaxConnections
        BY <2>3, SameCount DEF Gate!MayWait
      <4>4. Cardinality(Gate!In("waiting") \cup {c}) = Cardinality(Gate!In("waiting")) + 1
        BY <1>a, <2>a, Counts
      <4> HIDE DEF either
      <4> QED
        BY <1>a, <4>2, <4>3, <4>4
    <3>5. Cardinality(Gate!In("waiting")') <= MaxConnections
      BY <3>1, <3>4
    <3> QED
      BY <1>b, <2>3, <3>2, <3>3, <3>5 DEF PermitInv
  <2> QED
    BY <1>4, <2>1, <2>2, <2>3 DEF Gate!Admit
<1>5. ASSUME NEW c \in Gate!Dials, Gate!Granted(c) PROVE PermitInv'
  <2>1. conn[c] = "granted" /\ conn' = [conn EXCEPT ![c] = "serving"] /\ UNCHANGED <<free, queue>>
    BY <1>5 DEF Gate!Granted
  <2>2. /\ Gate!In("serving")' = Gate!In("serving") \cup {c}
        /\ Gate!In("granted")' = Gate!In("granted") \ {c}
        /\ Gate!In("waiting")' = Gate!In("waiting") \ {c}
    <3>1. Moves(c, "serving")
      BY <2>1 DEF Moves
    <3> QED
      BY <3>1, HolderMoved
  <2>3. c \in Gate!In("granted") /\ c \notin Gate!In("waiting")
    BY <2>1 DEF Gate!In
  <2>4. Held' = Held /\ Gate!In("waiting")' = Gate!In("waiting")
    BY <2>2, <2>3 DEF Held
  <2> QED
    BY <2>1, <2>4, PermitsRest
<1>6. ASSUME NEW c \in Gate!Dials, Gate!QueuedTooLong(c) PROVE PermitInv'
  <2>1. PICK i \in DOMAIN queue : queue[i] = c /\ queue' = Gate!RemoveAt(queue, i)
    BY <1>6 DEF Gate!QueuedTooLong
  <2>2. conn[c] = "waiting" /\ conn' = [conn EXCEPT ![c] = "busy"] /\ UNCHANGED free
    BY <1>6 DEF Gate!QueuedTooLong
  <2>3. /\ Gate!In("serving")' = Gate!In("serving") \ {c}
        /\ Gate!In("granted")' = Gate!In("granted") \ {c}
        /\ Gate!In("waiting")' = Gate!In("waiting") \ {c}
    <3>1. Moves(c, "busy")
      BY <2>2 DEF Moves
    <3> QED
      BY <3>1, HolderMoved
  <2>4. c \notin Gate!In("serving") /\ c \notin Gate!In("granted")
    BY <2>2 DEF Gate!In
  <2>5. Held' = Held
    BY <2>3, <2>4 DEF Held
  <2>6. i \in 1..Len(queue) /\ queue # <<>>
    BY <1>b, <2>1
  <2>7. queue' \in Seq(Gate!Dials) /\ Without(queue, i, queue')
    BY <1>b, <2>1, <2>6, Removed
  <2>8. Gate!Range(queue') = Gate!Range(queue) \ {queue[i]} /\ Once(queue')
    BY ONLY <1>b, <2>6, <2>7, TakenOut
  <2>9. Gate!Range(queue') = Gate!In("waiting")'
    BY <1>b, <2>1, <2>3, <2>8
  <2>10. Cardinality(Gate!In("waiting")') <= MaxConnections
    BY <2>3, OneLess
  <2>11. free' = 0
    BY <1>b, <2>2, <2>6
  <2> QED
    BY <1>b, <2>2, <2>5, <2>7, <2>8, <2>9, <2>10, <2>11 DEF PermitInv
<1>7. ASSUME NEW c \in Gate!Dials, Gate!Leaves(c) PROVE PermitInv'
  <2>1. conn[c] = "serving" /\ Gate!Served(c)
    BY <1>7 DEF Gate!Leaves
  <2>2. c \in Held /\ c \notin Gate!In("waiting")
    BY <2>1 DEF Held, Gate!In
  <2>3. Cardinality(Held \ {c}) = Cardinality(Held) - 1
    BY <1>a, <2>2, Counts
  <2>4. CASE queue = <<>>
    <3>1. conn' = [conn EXCEPT ![c] = "done"] /\ free' = free + 1 /\ UNCHANGED queue
      BY <2>1, <2>4 DEF Gate!Served
    <3>2. /\ Gate!In("serving")' = Gate!In("serving") \ {c}
          /\ Gate!In("granted")' = Gate!In("granted") \ {c}
          /\ Gate!In("waiting")' = Gate!In("waiting") \ {c}
      <4>1. Moves(c, "done")
        BY <3>1 DEF Moves
      <4> QED
        BY <4>1, HolderMoved
    <3>3. Held' = Held \ {c} /\ Gate!In("waiting")' = Gate!In("waiting")
      BY <2>2, <3>2 DEF Held
    <3>4. free' \in Nat /\ free' + Cardinality(Held \ {c}) = MaxConnections
      BY <1>a, <1>b, <2>3, <3>1
    <3> QED
      BY <1>b, <2>4, <3>1, <3>3, <3>4 DEF PermitInv
  <2>5. CASE queue # <<>>
    <3> DEFINE h == Head(queue)
    <3>1. conn' = [conn EXCEPT ![c] = "done", ![h] = "granted"] /\ queue' = Tail(queue) /\ UNCHANGED free
      BY <2>1, <2>5 DEF Gate!Served
    <3>2. h = queue[1] /\ 1 \in 1..Len(queue) /\ h \in Gate!In("waiting") /\ free = 0
      BY <2>5, HeadWaits
    <3>3. h \in Gate!Dials /\ h # c /\ h \notin Held
      BY <1>a, <2>2, <3>2 DEF Held, Gate!In
    <3> HIDE DEF h
    <3>4. \A b \in Gate!Dials : conn'[b] = IF b = c THEN "done" ELSE IF b = h THEN "granted" ELSE conn[b]
      <4>1. MoveBoth(c, "done", h, "granted")
        BY <3>1, <3>3 DEF MoveBoth
      <4> QED
        BY <3>1, <3>3, <4>1, BothMoved
    <3>5. /\ Gate!In("serving")' = Gate!In("serving") \ {c, h}
          /\ Gate!In("granted")' = (Gate!In("granted") \ {c, h}) \cup {h}
          /\ Gate!In("waiting")' = Gate!In("waiting") \ {c, h}
      BY <3>3, <3>4 DEF Gate!In
    <3>6. Held' = (Held \ {c}) \cup {h} /\ Gate!In("waiting")' = Gate!In("waiting") \ {h}
      BY <2>2, <3>3, <3>5 DEF Held
    <3>7. Cardinality((Held \ {c}) \cup {h}) = Cardinality(Held)
      <4>1. Held \ {c} \in SUBSET Gate!Dials /\ h \notin Held \ {c}
        BY <1>a, <3>3
      <4>2. Cardinality((Held \ {c}) \cup {h}) = Cardinality(Held \ {c}) + 1
        BY <4>1, Counts
      <4> QED
        BY <1>a, <2>3, <4>2
    <3>8. /\ queue' \in Seq(Gate!Dials) /\ Len(queue') = Len(queue) - 1
          /\ \A j \in 1..Len(queue') : queue'[j] = queue[j + 1]
      <4>1. queue \in Seq(Gate!Dials) /\ queue # <<>> /\ queue' = Tail(queue)
        BY <1>b, <2>5, <3>1
      <4> QED
        BY ONLY <4>1
    <3>9. Without(queue, 1, queue')
      BY <3>8 DEF Without
    <3>10. Gate!Range(queue') = Gate!Range(queue) \ {queue[1]} /\ Once(queue')
      BY ONLY <1>b, <3>2, <3>8, <3>9, TakenOut
    <3>11. Cardinality(Gate!In("waiting")') <= MaxConnections
      BY <3>6, OneLess
    <3>12. free' = 0 /\ free' + Cardinality(Held') = MaxConnections
      BY <1>b, <3>1, <3>2, <3>6, <3>7
    <3>13. Gate!Range(queue') = Gate!In("waiting")'
      BY <1>b, <3>2, <3>6, <3>10
    <3> QED
      BY <1>b, <3>1, <3>8, <3>10, <3>11, <3>12, <3>13 DEF PermitInv
  <2> QED
    BY <2>4, <2>5
<1> QED
  BY <1>1, <1>2, <1>3, <1>4, <1>5, <1>6, <1>7 DEF Gate!GateNext

\* Who is given up was, of its address, the oldest; and no address held more.
Spared(a, c) ==
    /\ \A b \in Sources : Gate!Cardinality(Gate!In("shaking") \cap b) <= Gate!Cardinality(Gate!In("shaking") \cap a)
    /\ \A b \in Gate!In("shaking") \cap a : b # c => conn'[b] = "shaking" /\ <<c, b>> \in older

LEMMA GivenUpStep ==
  ASSUME TableInv, PermitInv, Gate!GateNext, NEW a \in Sources, NEW g \in a,
         conn[g] = "shaking", conn'[g] = "givenUp"
  PROVE  Spared(a, g)
<1>a. g \in Gate!Dials
  BY DEF Gate!Dials
<1>1. ASSUME NEW c \in Gate!Dials, NEW to, to # "givenUp", conn' = [conn EXCEPT ![c] = to] PROVE FALSE
  <2>1. conn'[g] = IF g = c THEN to ELSE conn[g]
    BY <1>a, <1>1, Moved
  <2> QED
    BY <1>1, <2>1
<1>2. ASSUME NEW c \in Gate!Dials, Gate!Accept(c) PROVE Spared(a, g)
  <2>1. conn[c] # "shaking"
    BY <1>2 DEF Gate!Accept
  <2>2. PICK e \in Gate!GivenUp : conn' = [conn EXCEPT ![c] = "shaking", ![e] = "givenUp"]
    BY <1>1, <1>2 DEF Gate!Accept
  <2>3. PICK m \in Gate!Most : e \in Gate!Oldest(Gate!In("shaking") \cap m)
    BY LiveShake DEF Gate!GivenUp
  <2>4. e \in m /\ e \in Gate!In("shaking") /\ \A b \in Gate!In("shaking") \cap m : <<b, e>> \notin older
    BY <2>3 DEF Gate!Oldest
  <2>5. e # c /\ e \in Gate!Dials /\ conn[e] = "shaking"
    BY <2>1, <2>4 DEF Gate!In
  <2>6. \A b \in Gate!Dials : conn'[b] = IF b = c THEN "shaking" ELSE IF b = e THEN "givenUp" ELSE conn[b]
    <3>1. MoveBoth(c, "shaking", e, "givenUp")
      BY <2>2, <2>5 DEF MoveBoth
    <3> QED
      BY <2>2, <2>5, <3>1, BothMoved
  <2>7. e = g
    BY <1>a, <2>6
  <2>8. m = a
    <3>1. m \in Sources
      BY DEF Gate!Most
    <3> QED
      BY <2>4, <2>7, <3>1, PartsAssumption DEF Gate!GateAssumption
  <2>9. \A b \in Sources :
           Gate!Cardinality(Gate!In("shaking") \cap b) <= Gate!Cardinality(Gate!In("shaking") \cap a)
    BY <2>8, LiveShake DEF Gate!Most
  <2>10. ASSUME NEW b \in Gate!In("shaking") \cap a, b # g PROVE conn'[b] = "shaking" /\ <<g, b>> \in older
    <3>1. b \in Gate!Dials /\ conn[b] = "shaking" /\ b # c
      BY <2>1, <2>10 DEF Gate!In
    <3>2. conn'[b] = "shaking"
      BY <2>6, <2>7, <2>10, <3>1
    <3>3. <<b, g>> \notin older
      BY <2>4, <2>7, <2>8, <2>10
    <3>4. b \in underWay /\ g \in underWay
      BY <2>4, <2>7, <2>10 DEF TableInv
    <3> QED
      BY <2>10, <3>2, <3>3, <3>4 DEF TableInv
  <2> QED
    BY <2>9, <2>10 DEF Spared
<1>3. ASSUME NEW c \in Gate!Dials, Gate!SendBack(c) \/ Gate!HandshakeFails(c) \/ Gate!Granted(c) PROVE FALSE
  BY <1>1, <1>3 DEF Gate!SendBack, Gate!HandshakeFails, Gate!Granted
<1>4. ASSUME NEW c \in Gate!Dials, Gate!Admit(c) \/ Gate!QueuedTooLong(c) PROVE FALSE
  <2>1. PICK to \in {"refused", "serving", "waiting", "busy"} : conn' = [conn EXCEPT ![c] = to]
    BY <1>4 DEF Gate!Admit, Gate!QueuedTooLong
  <2> QED
    BY <1>1, <2>1
<1>5. ASSUME NEW c \in Gate!Dials, Gate!Leaves(c) PROVE FALSE
  <2>1. conn[c] = "serving" /\ Gate!Served(c)
    BY <1>5 DEF Gate!Leaves
  <2>2. queue # <<>> /\ conn' = [conn EXCEPT ![c] = "done", ![Head(queue)] = "granted"]
    BY <1>1, <2>1 DEF Gate!Served
  <2>3. Head(queue) \in Gate!Dials /\ Head(queue) # c
    BY <2>1, <2>2, HeadWaits DEF Gate!In
  <2>4. conn'[g] = IF g = c THEN "done" ELSE IF g = Head(queue) THEN "granted" ELSE conn[g]
    <3>1. MoveBoth(c, "done", Head(queue), "granted")
      BY <1>a, <2>2, <2>3 DEF MoveBoth
    <3> QED
      BY <1>a, <2>2, <2>3, <3>1, BothMoved
  <2> QED
    BY <2>4
<1> QED
  BY <1>2, <1>3, <1>4, <1>5 DEF Gate!GateNext

\* Every permit is held by one connection or free, no more handshakes are under way and no more
\* connections wait than may, and who waits waits for a permit that is not there (Gate::admit); and
\* a handshake given up for another's is the oldest of an address that holds the most (Pending::room).
THEOREM GateKeepsAlways == Spec => GateKeeps
<1>a. MostPending \in Nat /\ MaxConnections \in Nat
  BY PartsAssumption DEF Gate!GateAssumption
<1>1. Init => GateInv
  <2> SUFFICES ASSUME Gate!GateInit PROVE GateInv
    BY DEF Init
  <2>1. /\ Gate!In("shaking") = {} /\ Gate!In("waiting") = {}
        /\ Gate!In("serving") = {} /\ Gate!In("granted") = {}
    BY DEF Gate!GateInit, Gate!In
  <2>2. Held = {} /\ Cardinality({}) = 0
    BY <2>1, FS_EmptySet DEF Held
  <2>3. TableInv
    <3>1. conn = [c \in Gate!Dials |-> conn[c]] /\ underWay = {}
      BY DEF Gate!GateInit
    <3>2. Cardinality(Gate!In("shaking")) <= MostPending
      BY <1>a, <2>1, <2>2
    <3> QED
      BY <2>1, <3>1, <3>2 DEF TableInv
  <2>4. Gate!Range(<<>>) = {}
    BY DEF Gate!Range
  <2>5. <<>> \in Seq(Gate!Dials) /\ Once(<<>>)
    BY DEF Once
  <2>6. PermitInv
    <3>1. free = MaxConnections /\ queue = <<>>
      BY DEF Gate!GateInit
    <3>2. free + Cardinality(Held) = MaxConnections /\ Cardinality(Gate!In("waiting")) <= MaxConnections
      <4>1. Cardinality(Held) = 0 /\ Cardinality(Gate!In("waiting")) = 0
        BY ONLY <2>1, <2>2
      <4>2. free = MaxConnections
        BY <3>1
      <4> QED
        BY ONLY <1>a, <4>1, <4>2
    <3>3. queue \in Seq(Gate!Dials) /\ Once(queue)
      BY <2>5, <3>1
    <3>4. Gate!Range(queue) = Gate!In("waiting") /\ (queue # <<>> => free = 0)
      BY <2>1, <2>4, <3>1
    <3>5. free \in Nat
      BY <1>a, <3>1
    <3> QED
      BY ONLY <3>2, <3>3, <3>4, <3>5 DEF PermitInv
  <2> QED
    BY <2>3, <2>6 DEF GateInv
<1>2. GateInv /\ [Next]_vars => GateInv'
  <2>1. ASSUME GateInv, UNCHANGED Gate!gateVars PROVE GateInv'
    <3>1. UNCHANGED <<conn, underWay, older, free, queue>>
      BY <2>1 DEF Gate!gateVars
    <3> QED
      BY <2>1, <3>1 DEF GateInv, TableInv, PermitInv, Held, Gate!In, Once
  <2> QED
    BY <2>1, TableStep, PermitStep, OwnSteps DEF GateInv
<1>3. GateInv => Gate!PermitsAddUp
  <2> SUFFICES ASSUME TableInv, PermitInv PROVE Gate!PermitsAddUp
    BY DEF GateInv
  <2>1. free + Gate!Cardinality(Gate!In("serving") \cup Gate!In("granted")) = MaxConnections
    BY SameCount DEF PermitInv, Held
  <2>2. Gate!Cardinality(Gate!In("shaking")) <= MostPending /\ Gate!In("shaking") \subseteq underWay
    BY SameCount DEF TableInv
  <2>3. Gate!Range(queue) = Gate!In("waiting") /\ (queue # <<>> => free = 0)
    BY DEF PermitInv
  <2>4. Gate!Cardinality(Gate!In("waiting")) <= MaxConnections
    BY SameCount DEF PermitInv
  <2> QED
    BY <2>1, <2>2, <2>3, <2>4 DEF Gate!PermitsAddUp
<1>4. GateInv /\ [Next]_vars
        => [\A a \in Sources : \A c \in a : conn[c] = "shaking" /\ conn'[c] = "givenUp" =>
               /\ \A b \in Sources : Gate!Cardinality(Gate!In("shaking") \cap b)
                                        <= Gate!Cardinality(Gate!In("shaking") \cap a)
               /\ \A b \in Gate!In("shaking") \cap a :
                     b # c => conn'[b] = "shaking" /\ <<c, b>> \in older]_(Gate!gateVars)
  BY GivenUpStep, OwnSteps DEF GateInv, Spared
<1> QED
  BY <1>1, <1>2, <1>3, <1>4, PTL DEF Spec, GateKeeps, Gate!FloodGivesUpItsOwn
=============================================================================
