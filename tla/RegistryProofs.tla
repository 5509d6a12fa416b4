--------------------------- MODULE RegistryProofs ---------------------------
(***************************************************************************)
(* Proofs about Registry, for every value of its constants: any calls of   *)
(* any peers, any cap, and however often the allowlist changes.            *)
(***************************************************************************)
EXTENDS Registry, FiniteSetTheorems, SequenceTheorems, TLAPS

LEMMA ListStep == ASSUME TypeOK, RegistryAssumption, [Next]_vars PROVE ListOK'
<1> USE DEF TypeOK, ListOK
<1>1. CASE UNCHANGED listVars
  BY <1>1 DEF listVars
<1>2. CASE WatcherPublishes
  BY <1>2 DEF WatcherPublishes, RegistryAssumption
<1>3. ASSUME NEW p \in Peers, WatcherEnds(p) PROVE ListOK'
  BY <1>3 DEF WatcherEnds
<1>4. ASSUME NEW c \in Calls, CallAdmitted(c) \/ CallStep(c) \/ CallRevoked(c) PROVE ListOK'
  BY <1>1, <1>4 DEF CallAdmitted, CallStep, CallSends, CallGivesUp, CallRevoked
<1>5. CASE RegistryStep \/ Shutdown
  BY <1>1, <1>5
     DEF RegistryStep, RegistryTakes, RegistryChooses, RegistryHands, RegistryRefuses,
         RegistryHasNoRoom, RegistryStarts, RegistryEnds, RegistryJoins, RegistryStops,
         RegistryIsDown, Shutdown
<1>6. ASSUME NEW n \in Numbers, SessionStep(n) \/ SessionCloses(n) PROVE ListOK'
  BY <1>1, <1>6
     DEF SessionStep, SessionSpawns, SessionFails, SessionAnswers, SessionUnregistered,
         SessionEnds, SessionCloses
<1>7. CASE UNCHANGED vars
  BY <1>1, <1>7 DEF vars
<1> QED
  BY <1>2, <1>3, <1>4, <1>5, <1>6, <1>7 DEF Next

\* What a call comes to: its number of tries, where it stands, and its answer.
LEMMA CallsStep == ASSUME TypeOK, RegistryAssumption, [Next]_vars PROVE CallsOK'
<1> USE DEF TypeOK, CallsOK
<1>1. CASE UNCHANGED callVars
  BY <1>1 DEF callVars
<1>2. ASSUME NEW D, NEW T, AtAfter(D, T)
      PROVE  at' \in [Calls -> {"idle", "admitted", "waiting", "dropped", "answered", "gone"}]
  BY <1>2 DEF AtAfter
<1>3. \A why \in {"none", "NotAuthorized", "NoSuchSession", "AtCapacity", "CouldNotStart"} :
          Close(why) \in Answers
  BY DEF Close, Answers
<1>4. \A n \in Numbers : Session(n) \in Answers
  BY DEF Session, Answers
<1>5. ASSUME NEW c, NEW what \in Answers, Told(c, what), UNCHANGED <<pick, tries>> PROVE CallsOK'
  <2>1. answer' \in [Calls -> Answers]
    BY <1>5 DEF Told
  <2> QED
    BY <1>2, <1>5, <2>1 DEF Told
<1>6. ASSUME NEW D, Dropped(D), UNCHANGED <<pick, tries>> PROVE CallsOK'
  BY <1>2, <1>6 DEF Dropped
<1>7. ASSUME NEW c \in Calls, CallAdmitted(c) PROVE CallsOK'
  <2>1. MayPick[c] \subseteq Picks
    BY RegistryAssumption DEF RegistryAssumption, Picks, Numbers
  <2> QED
    BY <1>7, <2>1 DEF CallAdmitted
<1>8. ASSUME NEW c \in Calls, CallStep(c) \/ CallRevoked(c) PROVE CallsOK'
  <2>1. CASE CallSends(c)
    BY <2>1, RegistryAssumption DEF CallSends, RegistryAssumption
  <2>2. CASE CallGivesUp(c)
    BY <1>3, <2>2 DEF CallGivesUp
  <2>3. CASE CallRevoked(c)
    BY <2>3 DEF CallRevoked
  <2> QED
    BY <1>8, <2>1, <2>2, <2>3 DEF CallStep
<1>9. CASE RegistryTakes
  BY <1>1, <1>3, <1>5, <1>9 DEF RegistryTakes, callVars
<1>10. CASE RegistryChooses
  <2>1. CASE UNCHANGED <<pick, tries>> /\ Keep(Retained)
    BY <1>6, <2>1 DEF Keep
  <2>2. CASE /\ UNCHANGED <<pick, tries>>
             /\ \E D, T : AtAfter(D, T)
             /\ answer' = [answer EXCEPT ![reg.call] =
                              IF at[reg.call] = "waiting" THEN Close("NoSuchSession") ELSE @]
    BY <1>2, <1>3, <2>2
  <2> QED
    BY <1>10, <2>1, <2>2 DEF RegistryChooses
<1>11. CASE RegistryRefuses \/ RegistryHasNoRoom
  BY <1>3, <1>5, <1>11 DEF RegistryRefuses, RegistryHasNoRoom
<1>12. CASE RegistryEnds \/ RegistryJoins \/ RegistryStops \/ RegistryIsDown
  BY <1>6, <1>12 DEF RegistryEnds, RegistryJoins, RegistryStops, RegistryIsDown, Keep
<1>13. CASE RegistryStep
  BY <1>1, <1>9, <1>10, <1>11, <1>12, <1>13 DEF RegistryStep, RegistryHands, RegistryStarts
<1>14. ASSUME NEW n \in Numbers, SessionStep(n) \/ SessionCloses(n) PROVE CallsOK'
  <2>1. CASE SessionSpawns(n) \/ SessionAnswers(n)
    BY <1>4, <1>5, <2>1 DEF SessionSpawns, SessionAnswers
  <2>2. CASE SessionFails(n)
    <3>1. answer' \in [Calls -> Answers]
      BY <1>3, <2>2 DEF SessionFails
    <3> QED
      BY <1>2, <2>2, <3>1 DEF SessionFails
  <2>3. CASE SessionCloses(n) \/ SessionUnregistered(n)
    BY <1>6, <2>3 DEF SessionCloses, SessionUnregistered
  <2>4. CASE SessionEnds(n)
    BY <1>1, <2>4 DEF SessionEnds
  <2> QED
    BY <1>14, <2>1, <2>2, <2>3, <2>4 DEF SessionStep
<1>15. CASE WatcherPublishes \/ Shutdown \/ \E p \in Peers : WatcherEnds(p)
  BY <1>1, <1>15 DEF WatcherPublishes, Shutdown, WatcherEnds
<1>16. CASE UNCHANGED vars
  BY <1>1, <1>16 DEF vars
<1> QED
  BY <1>7, <1>8, <1>13, <1>14, <1>15, <1>16 DEF Next

LEMMA QueueStep == ASSUME TypeOK, RegistryAssumption, [Next]_vars PROVE QueueOK'
<1> USE DEF TypeOK, QueueOK
<1>1. CASE UNCHANGED queue
  BY <1>1
<1>2. ASSUME NEW r \in Requests, Len(queue) < RequestQueue, queue' = Append(queue, r) PROVE QueueOK'
  BY <1>2, RegistryAssumption, AppendProperties DEF RegistryAssumption
<1>3. CASE queue # <<>> /\ queue' = Tail(queue)
  BY <1>3, EmptySeq, HeadTailProperties, RegistryAssumption DEF RegistryAssumption
<1>4. CASE queue' = <<>>
  BY <1>4, EmptySeq, RegistryAssumption DEF RegistryAssumption
<1>5. ASSUME NEW c \in Calls, CallAdmitted(c) \/ CallStep(c) \/ CallRevoked(c) PROVE QueueOK'
  <2>1. [attach |-> c] \in Requests
    BY DEF Requests
  <2> QED
    BY <1>1, <1>2, <1>5, <2>1
       DEF CallAdmitted, CallStep, CallSends, CallGivesUp, CallRevoked, QueueRoom
<1>6. ASSUME NEW p \in Peers, WatcherEnds(p) PROVE QueueOK'
  <2>1. [end |-> p] \in Requests
    BY DEF Requests
  <2> QED
    BY <1>1, <1>2, <1>6, <2>1 DEF WatcherEnds, QueueRoom
<1>7. CASE RegistryStep
  BY <1>1, <1>3, <1>4, <1>7
     DEF RegistryStep, RegistryTakes, RegistryChooses, RegistryHands, RegistryRefuses,
         RegistryHasNoRoom, RegistryStarts, RegistryEnds, RegistryJoins, RegistryStops,
         RegistryIsDown, NextAttach, NextEnd
<1>8. ASSUME NEW n \in Numbers, SessionStep(n) \/ SessionCloses(n) PROVE QueueOK'
  BY <1>1, <1>8
     DEF SessionStep, SessionSpawns, SessionFails, SessionAnswers, SessionUnregistered,
         SessionEnds, SessionCloses
<1>9. CASE WatcherPublishes \/ Shutdown \/ UNCHANGED vars
  BY <1>1, <1>9 DEF WatcherPublishes, Shutdown, vars
<1> QED
  BY <1>5, <1>6, <1>7, <1>8, <1>9 DEF Next

LEMMA TaskStep == ASSUME TypeOK, RegistryAssumption, [Next]_vars PROVE TaskOK'
<1> USE DEF TypeOK, TaskOK
<1>1. CASE UNCHANGED <<reg, shutdown>>
  BY <1>1
<1>2. CASE reg' = Idle /\ UNCHANGED shutdown
  BY <1>2 DEF Idle
<1>3. CASE RegistryTakes
  <2>1. Head(queue) \in Requests /\ "attach" \in DOMAIN Head(queue)
    BY <1>3, HeadTailProperties DEF RegistryTakes, NextAttach, QueueOK
  <2>2. Head(queue).attach \in Calls
    BY <2>1 DEF Requests
  <2> QED
    BY <1>3, <2>2 DEF RegistryTakes
<1>4. CASE RegistryChooses
  <2>1. reg.call \in Calls
    BY <1>4 DEF RegistryChooses
  <2>2. Retained \subseteq Numbers
    <3>1. last \in Nat /\ MaxNumber \in Nat /\ last <= MaxNumber
      BY RegistryAssumption DEF TableOK, RegistryAssumption
    <3>2. Retained \subseteq 1..last
      BY DEF Retained, TableOK
    <3> QED
      BY <3>1, <3>2 DEF Numbers
  <2>3. ASSUME NEW n \in Numbers \cup {None},
               reg' = [at |-> "handing", call |-> reg.call, named |-> n], UNCHANGED shutdown
        PROVE  TaskOK'
    BY <2>1, <2>3
  <2>4. UNCHANGED shutdown
    BY <1>4 DEF RegistryChooses
  <2> QED
    BY <1>2, <1>4, <2>2, <2>3, <2>4 DEF RegistryChooses, OwnedBy, Named
<1>5. CASE RegistryStops \/ RegistryIsDown
  BY <1>5 DEF RegistryStops, RegistryIsDown
<1>6. CASE RegistryStep
  BY <1>1, <1>2, <1>3, <1>4, <1>5, <1>6
     DEF RegistryStep, RegistryHands, RegistryRefuses, RegistryHasNoRoom, RegistryStarts,
         RegistryEnds, RegistryJoins
<1>7. CASE Shutdown
  BY <1>7 DEF Shutdown
<1>8. ASSUME NEW c \in Calls, CallAdmitted(c) \/ CallStep(c) \/ CallRevoked(c) PROVE TaskOK'
  BY <1>1, <1>8 DEF CallAdmitted, CallStep, CallSends, CallGivesUp, CallRevoked
<1>9. ASSUME NEW n \in Numbers, SessionStep(n) \/ SessionCloses(n) PROVE TaskOK'
  BY <1>1, <1>9
     DEF SessionStep, SessionSpawns, SessionFails, SessionAnswers, SessionUnregistered,
         SessionEnds, SessionCloses
<1>10. CASE WatcherPublishes \/ (\E p \in Peers : WatcherEnds(p)) \/ UNCHANGED vars
  BY <1>1, <1>10 DEF WatcherPublishes, WatcherEnds, vars
<1> QED
  BY <1>6, <1>7, <1>8, <1>9, <1>10 DEF Next

LEMMA TableStep == ASSUME TypeOK, RegistryAssumption, [Next]_vars PROVE TableOK'
<1> USE DEF TypeOK, TableOK
<1>1. CASE UNCHANGED tableVars
  BY <1>1 DEF tableVars
<1>2. CASE live' \subseteq live /\ UNCHANGED <<last, attaches, attached>>
  BY <1>2
<1>3. \A n \in Numbers :
          attached \in [Numbers -> 0..attaches]
              => [attached EXCEPT ![n] = attaches + 1] \in [Numbers -> 0..(attaches + 1)]
  BY DEF Numbers
<1>4. CASE RegistryHands
  BY <1>3, <1>4 DEF RegistryHands, TaskOK
<1>5. CASE RegistryStarts
  <2>1. last + 1 \in Numbers
    BY <1>5, RegistryAssumption DEF RegistryStarts, RegistryAssumption, Numbers
  <2> QED
    BY <1>3, <1>5, <2>1 DEF RegistryStarts, Numbers
<1>6. CASE RegistryStep
  BY <1>1, <1>2, <1>4, <1>5, <1>6
     DEF RegistryStep, RegistryTakes, RegistryChooses, RegistryRefuses, RegistryHasNoRoom,
         RegistryEnds, RegistryJoins, RegistryStops, RegistryIsDown, Keep, Retained, KeptAtEnd,
         KeptAtJoin, KeptAtShutdown
<1>7. ASSUME NEW c \in Calls, CallAdmitted(c) \/ CallStep(c) \/ CallRevoked(c) PROVE TableOK'
  BY <1>1, <1>7 DEF CallAdmitted, CallStep, CallSends, CallGivesUp, CallRevoked
<1>8. ASSUME NEW n \in Numbers, SessionStep(n) \/ SessionCloses(n) PROVE TableOK'
  BY <1>1, <1>8
     DEF SessionStep, SessionSpawns, SessionFails, SessionAnswers, SessionUnregistered,
         SessionEnds, SessionCloses
<1>9. CASE WatcherPublishes \/ (\E p \in Peers : WatcherEnds(p)) \/ Shutdown \/ UNCHANGED vars
  BY <1>1, <1>9 DEF WatcherPublishes, WatcherEnds, Shutdown, vars
<1> QED
  BY <1>6, <1>7, <1>8, <1>9 DEF Next

LEMMA SessionsStep == ASSUME TypeOK, RegistryAssumption, [Next]_vars PROVE SessionsOK'
<1> USE DEF TypeOK, SessionsOK
<1>1. CASE UNCHANGED sessionVars
  BY <1>1 DEF sessionVars
<1>2. ASSUME NEW F, UNCHANGED <<stage, owner, first>>,
             control' = [n \in Numbers |-> IF n \in F THEN <<>> ELSE control[n]]
      PROVE  SessionsOK'
  BY <1>2, EmptySeq, RegistryAssumption DEF RegistryAssumption
<1>3. CASE RegistryHands
  <2>1. reg.call \in Calls /\ reg.named \in Numbers
    BY <1>3 DEF RegistryHands, TaskOK
  <2>2. /\ Append(control[reg.named], reg.call) \in Seq(Calls)
        /\ Len(Append(control[reg.named], reg.call)) <= ControlQueue
    BY <1>3, <2>1, AppendProperties, RegistryAssumption
       DEF RegistryHands, HasRoom, RegistryAssumption
  <2> QED
    BY <1>3, <2>1, <2>2 DEF RegistryHands
<1>4. CASE RegistryStarts
  <2>1. reg.call \in Calls
    BY <1>4 DEF RegistryStarts, StartsNew, NamedClosed, TaskOK
  <2> QED
    BY <1>4, <2>1, RegistryAssumption DEF RegistryStarts, RegistryAssumption
<1>5. CASE RegistryStep
  BY <1>1, <1>2, <1>3, <1>4, <1>5
     DEF RegistryStep, RegistryTakes, RegistryChooses, RegistryRefuses, RegistryHasNoRoom,
         RegistryEnds, RegistryJoins, RegistryStops, RegistryIsDown, Keep
<1>6. ASSUME NEW n \in Numbers, SessionStep(n) \/ SessionCloses(n) PROVE SessionsOK'
  <2>1. <<>> \in Seq(Calls) /\ Len(<<>>) <= ControlQueue
    BY EmptySeq, RegistryAssumption DEF RegistryAssumption
  <2>2. CASE SessionSpawns(n) \/ SessionEnds(n)
    BY <2>2 DEF SessionSpawns, SessionEnds
  <2>3. CASE SessionFails(n)
    BY <2>1, <2>3 DEF SessionFails
  <2>4. CASE SessionAnswers(n)
    <3>1. Tail(control[n]) \in Seq(Calls) /\ Len(Tail(control[n])) <= ControlQueue
      BY <2>4, EmptySeq, HeadTailProperties, RegistryAssumption
         DEF SessionAnswers, RegistryAssumption
    <3> QED
      BY <2>4, <3>1 DEF SessionAnswers
  <2>5. CASE SessionCloses(n) \/ SessionUnregistered(n)
    <3>1. /\ stage' = [stage EXCEPT ![n] = "closing"] /\ control' = [control EXCEPT ![n] = <<>>]
          /\ UNCHANGED <<owner, first>>
      BY <2>5 DEF SessionCloses, SessionUnregistered
    <3> QED
      BY <2>1, <3>1
  <2> QED
    BY <1>6, <2>2, <2>3, <2>4, <2>5 DEF SessionStep
<1>7. ASSUME NEW c \in Calls, CallAdmitted(c) \/ CallStep(c) \/ CallRevoked(c) PROVE SessionsOK'
  BY <1>1, <1>7 DEF CallAdmitted, CallStep, CallSends, CallGivesUp, CallRevoked
<1>8. CASE WatcherPublishes \/ (\E p \in Peers : WatcherEnds(p)) \/ Shutdown \/ UNCHANGED vars
  BY <1>1, <1>8 DEF WatcherPublishes, WatcherEnds, Shutdown, vars
<1> QED
  BY <1>5, <1>6, <1>7, <1>8 DEF Next

LEMMA TypeInit == Init => TypeOK
<1> SUFFICES ASSUME Init PROVE TypeOK
  OBVIOUS
<1>1. /\ MaxNumber \in Nat /\ MaxPublish \in Nat /\ AttachTries \in Nat
      /\ ControlQueue \in Nat /\ RequestQueue \in Nat
  BY RegistryAssumption DEF RegistryAssumption
<1>2. ListOK
  BY <1>1 DEF Init, ListOK
<1>3. TaskOK
  BY DEF Init, TaskOK, Idle
<1>4. TableOK
  BY <1>1 DEF Init, TableOK
<1>5. CallsOK
  BY <1>1 DEF Init, CallsOK, Picks, Answers, Close
<1>6. QueueOK /\ SessionsOK
  BY <1>1, EmptySeq DEF Init, QueueOK, SessionsOK
<1> QED
  BY <1>2, <1>3, <1>4, <1>5, <1>6 DEF TypeOK

LEMMA TypeStep == ASSUME TypeOK, [Next]_vars PROVE TypeOK'
  BY RegistryAssumption, ListStep, CallsStep, QueueStep, TaskStep, TableStep, SessionsStep DEF TypeOK

\* Whatever is asked of the registry, its table, its channels and every session's keep to their
\* types and bounds.
THEOREM TypeCorrect == Spec => []TypeOK
<1>1. Init => TypeOK
  BY TypeInit
<1>2. TypeOK /\ [Next]_vars => TypeOK'
  BY TypeStep
<1> QED
  BY <1>1, <1>2, PTL DEF Spec

(***************************************************************************)
(* What a client gets of the registry: its own peer's session, the one it  *)
(* named; none once its peer is off the list; and never more sessions than *)
(* the cap.                                                                *)
(***************************************************************************)

(***************************************************************************)
(* A call may get session n: of its own peer, and the one it named, if it  *)
(* named one.  Wherever a call and a session meet (a control channel, the  *)
(* registry's hands, an answer) the call may get it.                       *)
(***************************************************************************)
MayGet(c, n) ==
    /\ owner[n] = CallPeer[c]
    /\ at[c] # "idle"
    /\ pick[c].by = "id" => pick[c].n = n

\* A session was started for a call of its peer that named none.
Started ==
    \A n \in Numbers :
        IF n <= last
        THEN /\ first[n] \in Calls /\ owner[n] = CallPeer[first[n]]
             /\ at[first[n]] # "idle" /\ pick[first[n]].by # "id"
        ELSE stage[n] = "none" /\ owner[n] = None

Handed   == \A n \in Numbers : \A k \in 1..Len(control[n]) : MayGet(control[n][k], n)
Queued   == \A k \in 1..Len(queue) : "attach" \in DOMAIN queue[k] => at[queue[k].attach] # "idle"
Answered == \A c \in Calls : answer[c].is = "session" => MayGet(c, answer[c].n)
Handling ==
    /\ reg.at \in {"choosing", "handing"} => at[reg.call] # "idle"
    /\ reg.at = "handing" =>
          IF reg.named = None THEN pick[reg.call].by # "id" ELSE MayGet(reg.call, reg.named)

GetsInv == Started /\ Handed /\ Queued /\ Answered /\ Handling

LEMMA CallsOfPeers == CallPeer \in [Calls -> Peers] /\ None \notin Peers /\ None \notin Calls
  BY RegistryAssumption DEF RegistryAssumption

LEMMA NumbersOfSessions == MaxNumber \in Nat /\ None \notin Numbers
  BY RegistryAssumption DEF RegistryAssumption, Numbers

LEMMA LiveNumbered == ASSUME TypeOK PROVE live \subseteq Numbers
<1>1. last \in 0..MaxNumber /\ live \subseteq 1..last
  BY DEF TypeOK, TableOK
<1> QED
  BY <1>1, NumbersOfSessions DEF Numbers

\* A call that began keeps what it picked.
LEMMA PickKept ==
    ASSUME TypeOK, [Next]_vars, NEW c \in Calls, at[c] # "idle"
    PROVE  at'[c] # "idle" /\ pick'[c] = pick[c]
<1> USE DEF TypeOK, CallsOK
<1>1. CASE UNCHANGED <<pick, at>>
  BY <1>1
<1>2. ASSUME NEW D, NEW T, AtAfter(D, T) PROVE at'[c] # "idle"
  BY <1>2 DEF AtAfter
<1>3. ASSUME NEW d \in Calls, CallAdmitted(d) \/ CallStep(d) \/ CallRevoked(d)
      PROVE  at'[c] # "idle" /\ pick'[c] = pick[c]
  BY <1>3 DEF CallAdmitted, CallStep, CallSends, CallGivesUp, CallRevoked
<1>4. CASE RegistryChooses
  BY <1>2, <1>4 DEF RegistryChooses, Keep, Dropped
<1>5. CASE RegistryStep
  BY <1>1, <1>2, <1>4, <1>5
     DEF RegistryStep, RegistryTakes, RegistryHands, RegistryRefuses, RegistryHasNoRoom,
         RegistryStarts, RegistryEnds, RegistryJoins, RegistryStops, RegistryIsDown, Keep, Dropped,
         Told, callVars
<1>6. ASSUME NEW n \in Numbers, SessionStep(n) \/ SessionCloses(n)
      PROVE  at'[c] # "idle" /\ pick'[c] = pick[c]
  BY <1>1, <1>2, <1>6
     DEF SessionStep, SessionSpawns, SessionFails, SessionAnswers, SessionUnregistered,
         SessionEnds, SessionCloses, Dropped, Told, callVars
<1>7. CASE WatcherPublishes \/ (\E p \in Peers : WatcherEnds(p)) \/ Shutdown \/ UNCHANGED vars
  BY <1>1, <1>7 DEF WatcherPublishes, WatcherEnds, Shutdown, vars, callVars
<1> QED
  BY <1>3, <1>5, <1>6, <1>7 DEF Next

\* A session keeps its owner, and the call it was started for.
LEMMA OwnerKept ==
    ASSUME TypeOK, [Next]_vars
    PROVE  \/ UNCHANGED <<owner, first, last>>
           \/ RegistryStarts
<1>1. ASSUME NEW c \in Calls, CallAdmitted(c) \/ CallStep(c) \/ CallRevoked(c)
      PROVE  UNCHANGED <<owner, first, last>>
  BY <1>1
     DEF CallAdmitted, CallStep, CallSends, CallGivesUp, CallRevoked, sessionVars, tableVars
<1>2. CASE RegistryStep
  BY <1>2
     DEF RegistryStep, RegistryTakes, RegistryChooses, RegistryHands, RegistryRefuses,
         RegistryHasNoRoom, RegistryEnds, RegistryJoins, RegistryStops, RegistryIsDown,
         sessionVars, tableVars
<1>3. ASSUME NEW n \in Numbers, SessionStep(n) \/ SessionCloses(n)
      PROVE  UNCHANGED <<owner, first, last>>
  BY <1>3
     DEF SessionStep, SessionSpawns, SessionFails, SessionAnswers, SessionUnregistered,
         SessionEnds, SessionCloses, sessionVars, tableVars
<1>4. CASE WatcherPublishes \/ (\E p \in Peers : WatcherEnds(p)) \/ Shutdown \/ UNCHANGED vars
  BY <1>4 DEF WatcherPublishes, WatcherEnds, Shutdown, vars, sessionVars, tableVars
<1> QED
  BY <1>1, <1>2, <1>3, <1>4 DEF Next

\* What the call that a session is started for is like.
LEMMA StartsFor ==
    ASSUME TypeOK, GetsInv, RegistryStarts
    PROVE  /\ reg.call \in Calls /\ last' = last + 1 /\ last + 1 \in Numbers
           /\ at[reg.call] # "idle" /\ pick[reg.call].by # "id"
           /\ owner' = [owner EXCEPT ![last + 1] = CallPeer[reg.call]]
           /\ first' = [first EXCEPT ![last + 1] = reg.call]
           /\ stage' = [stage EXCEPT ![last + 1] = "spawning"]
           /\ UNCHANGED <<callVars, queue, control>> /\ reg' = Idle
<1>1. reg.at = "handing" /\ reg.call \in Calls
  BY DEF RegistryStarts, StartsNew, NamedClosed, TypeOK, TaskOK
<1>2. last + 1 \in Numbers
  BY RegistryAssumption DEF RegistryStarts, TypeOK, TableOK, Numbers, RegistryAssumption
<1>3. pick[reg.call].by # "id"
  BY <1>1 DEF RegistryStarts, StartsNew, InItsPlace, GetsInv, Handling
<1> QED
  BY <1>1, <1>2, <1>3 DEF RegistryStarts, GetsInv, Handling

LEMMA StageOfNone ==
    ASSUME TypeOK, [Next]_vars, NEW n \in Numbers, stage[n] = "none", ~RegistryStarts
    PROVE  stage'[n] = "none"
<1> USE DEF TypeOK, SessionsOK
<1>1. CASE UNCHANGED stage
  BY <1>1
<1>2. ASSUME NEW m \in Numbers, SessionStep(m) \/ SessionCloses(m) PROVE stage'[n] = "none"
  BY <1>2
     DEF SessionStep, SessionSpawns, SessionFails, SessionAnswers, SessionUnregistered,
         SessionEnds, SessionCloses
<1>3. CASE RegistryStep
  BY <1>1, <1>3
     DEF RegistryStep, RegistryTakes, RegistryChooses, RegistryHands, RegistryRefuses,
         RegistryHasNoRoom, RegistryEnds, RegistryJoins, RegistryStops, RegistryIsDown,
         sessionVars
<1>4. ASSUME NEW c \in Calls, CallAdmitted(c) \/ CallStep(c) \/ CallRevoked(c)
      PROVE  stage'[n] = "none"
  BY <1>1, <1>4 DEF CallAdmitted, CallStep, CallSends, CallGivesUp, CallRevoked, sessionVars
<1>5. CASE WatcherPublishes \/ (\E p \in Peers : WatcherEnds(p)) \/ Shutdown \/ UNCHANGED vars
  BY <1>1, <1>5 DEF WatcherPublishes, WatcherEnds, Shutdown, vars, sessionVars
<1> QED
  BY <1>2, <1>3, <1>4, <1>5 DEF Next

LEMMA MayGetKept ==
    ASSUME TypeOK, GetsInv, [Next]_vars, NEW c \in Calls, NEW n \in Numbers, MayGet(c, n)
    PROVE  MayGet(c, n)'
<1>1. at'[c] # "idle" /\ pick'[c] = pick[c]
  BY PickKept DEF MayGet
<1>2. owner'[n] = owner[n]
  <2>1. owner[n] # None
    BY CallsOfPeers DEF MayGet
  <2>2. n <= last
    BY <2>1 DEF GetsInv, Started
  <2>3. CASE RegistryStarts
    <3>1. n # last + 1
      BY <2>2 DEF TypeOK, TableOK
    <3> QED
      BY <2>3, <3>1, StartsFor DEF TypeOK, SessionsOK
  <2> QED
    BY <2>3, OwnerKept
<1> QED
  BY <1>1, <1>2 DEF MayGet

LEMMA StartedStep == ASSUME TypeOK, GetsInv, [Next]_vars PROVE Started'
<1> SUFFICES ASSUME NEW n \in Numbers
             PROVE  IF n <= last'
                    THEN /\ first'[n] \in Calls /\ owner'[n] = CallPeer[first'[n]]
                         /\ at'[first'[n]] # "idle" /\ pick'[first'[n]].by # "id"
                    ELSE stage'[n] = "none" /\ owner'[n] = None
  BY DEF Started
<1>1. last \in Nat
  BY DEF TypeOK, TableOK
<1>2. CASE RegistryStarts
  <2>1. CASE n = last + 1
    BY <1>1, <1>2, <2>1, StartsFor DEF TypeOK, SessionsOK, callVars
  <2>2. CASE n # last + 1
    <3>1. /\ owner'[n] = owner[n] /\ first'[n] = first[n] /\ stage'[n] = stage[n]
          /\ UNCHANGED <<pick, at>> /\ last' = last + 1
      BY <1>2, <2>2, StartsFor DEF TypeOK, SessionsOK, callVars
    <3> QED
      BY <1>1, <2>2, <3>1 DEF GetsInv, Started, Numbers
  <2> QED
    BY <2>1, <2>2
<1>3. CASE ~RegistryStarts
  <2>1. UNCHANGED <<owner, first, last>>
    BY <1>3, OwnerKept
  <2>2. CASE n <= last
    BY <2>1, <2>2, PickKept DEF GetsInv, Started
  <2>3. CASE ~(n <= last)
    <3>1. stage[n] = "none"
      BY <2>3 DEF GetsInv, Started
    <3>2. stage'[n] = "none"
      BY <1>3, <3>1, StageOfNone
    <3> QED
      BY <2>1, <2>3, <3>2 DEF GetsInv, Started
  <2> QED
    BY <2>2, <2>3
<1> QED
  BY <1>2, <1>3

\* What a session's channel holds next: what it held, or the attach the registry hands it.
LEMMA ControlStep ==
    ASSUME TypeOK, [Next]_vars, NEW n \in Numbers, NEW k \in 1..Len(control'[n])
    PROVE  \/ \E j \in 1..Len(control[n]) : control'[n][k] = control[n][j]
           \/ RegistryHands /\ n = reg.named /\ control'[n][k] = reg.call
<1>1. CASE control'[n] = control[n]
  BY <1>1
<1>2. CASE control'[n] = <<>>
  BY <1>2, EmptySeq
<1>3. control[n] \in Seq(Calls)
  BY DEF TypeOK, SessionsOK
<1>4. CASE control[n] # <<>> /\ control'[n] = Tail(control[n])
  <2>1. k + 1 \in 1..Len(control[n]) /\ control'[n][k] = control[n][k + 1]
    BY <1>3, <1>4, HeadTailProperties
  <2> QED
    BY <2>1
<1>5. CASE RegistryHands
  <2>1. CASE n # reg.named
    BY <1>1, <1>5, <2>1 DEF RegistryHands, TypeOK, SessionsOK
  <2>2. CASE n = reg.named
    <3>1. control'[n] = Append(control[n], reg.call) /\ reg.call \in Calls
      BY <1>5, <2>2 DEF RegistryHands, TypeOK, SessionsOK, TaskOK
    <3>2. CASE k = Len(control[n]) + 1
      BY <1>3, <1>5, <2>2, <3>1, <3>2, AppendProperties
    <3>3. CASE k # Len(control[n]) + 1
      <4>1. k \in 1..Len(control[n]) /\ control'[n][k] = control[n][k]
        BY <1>3, <3>1, <3>3, AppendProperties
      <4> QED
        BY <4>1
    <3> QED
      BY <3>2, <3>3
  <2> QED
    BY <2>1, <2>2
<1>6. CASE RegistryStep
  BY <1>1, <1>2, <1>5, <1>6
     DEF RegistryStep, RegistryTakes, RegistryChooses, RegistryRefuses, RegistryHasNoRoom,
         RegistryStarts, RegistryEnds, RegistryJoins, RegistryStops, RegistryIsDown, Keep,
         sessionVars
<1>7. ASSUME NEW m \in Numbers, SessionStep(m) \/ SessionCloses(m)
      PROVE  \/ control'[n] = control[n]
             \/ control'[n] = <<>>
             \/ /\ control[n] # <<>>
                /\ control'[n] = Tail(control[n])
  BY <1>7
     DEF SessionStep, SessionSpawns, SessionFails, SessionAnswers, SessionUnregistered,
         SessionEnds, SessionCloses, TypeOK, SessionsOK
<1>8. ASSUME NEW c \in Calls, CallAdmitted(c) \/ CallStep(c) \/ CallRevoked(c)
      PROVE  control'[n] = control[n]
  BY <1>8 DEF CallAdmitted, CallStep, CallSends, CallGivesUp, CallRevoked, sessionVars
<1>9. CASE WatcherPublishes \/ (\E p \in Peers : WatcherEnds(p)) \/ Shutdown \/ UNCHANGED vars
  BY <1>1, <1>9 DEF WatcherPublishes, WatcherEnds, Shutdown, vars, sessionVars
<1> QED
  BY <1>1, <1>2, <1>4, <1>6, <1>7, <1>8, <1>9 DEF Next

LEMMA HandedStep == ASSUME TypeOK, GetsInv, [Next]_vars PROVE Handed'
<1>1. control' \in [Numbers -> Seq(Calls)]
  BY TypeStep, RegistryAssumption DEF TypeOK, SessionsOK
<1> SUFFICES ASSUME NEW n \in Numbers, NEW k \in 1..Len(control'[n]),
                    NEW c \in Calls, c = control'[n][k]
             PROVE  MayGet(c, n)'
  <2> SUFFICES ASSUME NEW n \in Numbers, NEW k \in 1..Len(control'[n])
               PROVE  /\ owner'[n] = CallPeer[control'[n][k]]
                      /\ at'[control'[n][k]] # "idle"
                      /\ pick'[control'[n][k]].by = "id" => pick'[control'[n][k]].n = n
    BY DEF Handed, MayGet
  <2>1. control'[n][k] \in Calls
    BY <1>1, ElementOfSeq
  <2> QED
    BY <2>1 DEF MayGet
<1>2. CASE \E j \in 1..Len(control[n]) : control'[n][k] = control[n][j]
  <2>1. MayGet(c, n)
    BY <1>2 DEF GetsInv, Handed
  <2> QED
    BY <2>1, MayGetKept
<1>3. CASE RegistryHands /\ n = reg.named /\ control'[n][k] = reg.call
  <2>1. MayGet(c, n)
    BY <1>3 DEF GetsInv, Handling, RegistryHands
  <2> QED
    BY <2>1, MayGetKept
<1> QED
  BY <1>2, <1>3, ControlStep

\* A call whose attach waits in the registry's channel has begun.
LEMMA QueuedStep == ASSUME TypeOK, GetsInv, [Next]_vars PROVE Queued'
<1> SUFFICES ASSUME NEW k \in 1..Len(queue'), "attach" \in DOMAIN queue'[k]
             PROVE  at'[queue'[k].attach] # "idle"
  BY DEF Queued
<1>1. queue \in Seq(Requests) /\ queue' \in Seq(Requests)
  BY TypeStep, RegistryAssumption DEF TypeOK, QueueOK
<1>2. ASSUME NEW j \in 1..Len(queue), queue'[k] = queue[j]
      PROVE  at'[queue'[k].attach] # "idle"
  <2>1. at[queue[j].attach] # "idle"
    BY <1>2 DEF GetsInv, Queued
  <2>2. queue[j] \in Requests
    BY <1>1, ElementOfSeq
  <2>3. queue[j].attach \in Calls
    BY <1>2, <2>2 DEF Requests
  <2> QED
    BY <1>2, <2>1, <2>3, PickKept
<1>3. CASE UNCHANGED queue \/ queue' = <<>>
  BY <1>2, <1>3, EmptySeq
<1>4. CASE queue # <<>> /\ queue' = Tail(queue)
  <2>1. k + 1 \in 1..Len(queue) /\ queue'[k] = queue[k + 1]
    BY <1>1, <1>4, HeadTailProperties
  <2> QED
    BY <1>2, <2>1
<1>5. ASSUME NEW c \in Calls, CallSends(c) PROVE at'[queue'[k].attach] # "idle"
  <2> DEFINE r == [attach |-> c]
  <2>1. queue' = Append(queue, r) /\ r \in Requests
    BY <1>5 DEF CallSends, Requests
  <2>2. CASE k = Len(queue) + 1
    <3>1. queue'[k].attach = c
      BY <1>1, <2>1, <2>2, AppendProperties
    <3> QED
      BY <1>5, <3>1 DEF CallSends, TypeOK, CallsOK
  <2>3. CASE k # Len(queue) + 1
    <3>1. k \in 1..Len(queue) /\ queue'[k] = queue[k]
      BY <1>1, <2>1, <2>3, AppendProperties
    <3> QED
      BY <1>2, <3>1
  <2> QED
    BY <2>2, <2>3
<1>6. ASSUME NEW p \in Peers, WatcherEnds(p) PROVE at'[queue'[k].attach] # "idle"
  <2> DEFINE r == [end |-> p]
  <2>1. CASE UNCHANGED queue
    BY <1>3, <2>1
  <2>2. CASE queue' = Append(queue, r)
    <3>1. r \in Requests
      BY DEF Requests
    <3>2. k # Len(queue) + 1
      BY <1>1, <2>2, <3>1, AppendProperties
    <3>3. k \in 1..Len(queue) /\ queue'[k] = queue[k]
      BY <1>1, <2>2, <3>1, <3>2, AppendProperties
    <3> QED
      BY <1>2, <3>3
  <2> QED
    BY <1>6, <2>1, <2>2 DEF WatcherEnds
<1>7. CASE RegistryStep
  BY <1>3, <1>4, <1>7
     DEF RegistryStep, RegistryTakes, RegistryChooses, RegistryHands, RegistryRefuses,
         RegistryHasNoRoom, RegistryStarts, RegistryEnds, RegistryJoins, RegistryStops,
         RegistryIsDown, NextAttach, NextEnd
<1>8. ASSUME NEW n \in Numbers, SessionStep(n) \/ SessionCloses(n) PROVE UNCHANGED queue
  BY <1>8
     DEF SessionStep, SessionSpawns, SessionFails, SessionAnswers, SessionUnregistered,
         SessionEnds, SessionCloses
<1>9. ASSUME NEW c \in Calls, CallAdmitted(c) \/ CallGivesUp(c) \/ CallRevoked(c)
      PROVE  UNCHANGED queue
  BY <1>9 DEF CallAdmitted, CallGivesUp, CallRevoked
<1>10. CASE WatcherPublishes \/ Shutdown \/ UNCHANGED vars
  BY <1>3, <1>10 DEF WatcherPublishes, Shutdown, vars
<1> QED
  BY <1>3, <1>5, <1>6, <1>7, <1>8, <1>9, <1>10 DEF Next, CallStep

\* A call is told of a session by that session alone, which was started for it or was handed it.
LEMMA ToldBySession ==
    ASSUME TypeOK, [Next]_vars, NEW c \in Calls, answer'[c].is = "session"
    PROVE  \/ answer'[c] = answer[c]
           \/ \E n \in Numbers :
                 /\ answer'[c].n = n
                 /\ \/ SessionSpawns(n) /\ c = first[n]
                    \/ SessionAnswers(n) /\ c = Head(control[n])
<1> USE DEF TypeOK, CallsOK
<1>1. ASSUME NEW d, NEW what, Told(d, what), what.is # "session" PROVE answer'[c] = answer[c]
  BY <1>1 DEF Told
<1>2. \A why : Close(why).is = why
  BY DEF Close
<1>3. CASE UNCHANGED answer
  BY <1>3
<1>4. CASE RegistryChooses
  <2>1. \/ answer' = answer
        \/ \E d : answer' = [answer EXCEPT ![d] = IF at[d] = "waiting"
                                                    THEN Close("NoSuchSession") ELSE @]
    BY <1>4 DEF RegistryChooses, Keep, Dropped
  <2> QED
    BY <1>2, <2>1
<1>5. CASE RegistryTakes \/ RegistryRefuses \/ RegistryHasNoRoom
  BY <1>1, <1>2, <1>5 DEF RegistryTakes, RegistryRefuses, RegistryHasNoRoom
<1>6. CASE RegistryStep
  BY <1>3, <1>4, <1>5, <1>6
     DEF RegistryStep, RegistryHands, RegistryStarts, RegistryEnds, RegistryJoins, RegistryStops,
         RegistryIsDown, Keep, Dropped, callVars
<1>7. ASSUME NEW n \in Numbers, NEW d, Told(d, Session(n)), answer'[c] # answer[c]
      PROVE  c = d /\ answer'[c].n = n
  BY <1>7 DEF Told, Session
<1>8. ASSUME NEW n \in Numbers, SessionSpawns(n) \/ SessionAnswers(n), answer'[c] # answer[c]
      PROVE  \/ answer'[c].n = n /\ SessionSpawns(n) /\ c = first[n]
             \/ answer'[c].n = n /\ SessionAnswers(n) /\ c = Head(control[n])
  BY <1>7, <1>8 DEF SessionSpawns, SessionAnswers
<1>9. ASSUME NEW n \in Numbers,
             SessionFails(n) \/ SessionUnregistered(n) \/ SessionEnds(n) \/ SessionCloses(n)
      PROVE  answer'[c] = answer[c]
  BY <1>2, <1>9
     DEF SessionFails, SessionUnregistered, SessionEnds, SessionCloses, Dropped, callVars
<1>10. ASSUME NEW d \in Calls, CallAdmitted(d) \/ CallStep(d) \/ CallRevoked(d)
       PROVE  answer'[c] = answer[c]
  BY <1>2, <1>10 DEF CallAdmitted, CallStep, CallSends, CallGivesUp, CallRevoked
<1>11. CASE WatcherPublishes \/ (\E p \in Peers : WatcherEnds(p)) \/ Shutdown \/ UNCHANGED vars
  BY <1>3, <1>11 DEF WatcherPublishes, WatcherEnds, Shutdown, vars, callVars
<1> QED
  <2>1. CASE \E n \in Numbers : SessionStep(n) \/ SessionCloses(n)
    BY <1>8, <1>9, <2>1 DEF SessionStep
  <2> QED
    BY <1>6, <1>10, <1>11, <2>1 DEF Next

LEMMA AnsweredStep == ASSUME TypeOK, GetsInv, [Next]_vars PROVE Answered'
<1>1. answer' \in [Calls -> Answers]
  BY TypeStep, RegistryAssumption DEF TypeOK, CallsOK
<1> SUFFICES ASSUME NEW c \in Calls, answer'[c].is = "session",
                    NEW n \in Numbers, n = answer'[c].n
             PROVE  MayGet(c, n)'
  <2> SUFFICES ASSUME NEW c \in Calls, answer'[c].is = "session"
               PROVE  /\ owner'[answer'[c].n] = CallPeer[c]
                      /\ at'[c] # "idle"
                      /\ pick'[c].by = "id" => pick'[c].n = answer'[c].n
    BY DEF Answered, MayGet
  <2>1. answer'[c].n \in Numbers
    BY <1>1 DEF Answers
  <2> QED
    BY <2>1 DEF MayGet
<1>2. CASE answer'[c] = answer[c]
  <2>1. MayGet(c, n)
    BY <1>2 DEF GetsInv, Answered
  <2> QED
    BY <2>1, MayGetKept
<1>3. CASE SessionSpawns(n) /\ c = first[n]
  <2>1. n <= last
    BY <1>3 DEF SessionSpawns, GetsInv, Started
  <2>2. MayGet(c, n)
    BY <1>3, <2>1 DEF GetsInv, Started, MayGet
  <2> QED
    BY <2>2, MayGetKept
<1>4. CASE SessionAnswers(n) /\ c = Head(control[n])
  <2>1. control[n] \in Seq(Calls) /\ control[n] # <<>>
    BY <1>4 DEF SessionAnswers, TypeOK, SessionsOK
  <2>2. 1 \in 1..Len(control[n]) /\ c = control[n][1]
    <3>1. ASSUME NEW s \in Seq(Calls), s # <<>> PROVE 1 \in 1..Len(s) /\ Head(s) = s[1]
      BY <3>1
    <3> QED
      BY <1>4, <2>1, <3>1
  <2>3. MayGet(c, n)
    BY <2>2 DEF GetsInv, Handed
  <2> QED
    BY <2>3, MayGetKept
<1> QED
  BY <1>2, <1>3, <1>4, ToldBySession

\* What the registry is at.
LEMMA RegStep ==
    ASSUME TypeOK, [Next]_vars
    PROVE  UNCHANGED reg \/ RegistryTakes \/ RegistryChooses \/ reg'.at \in {"idle", "stopping", "down"}
<1>1. CASE RegistryStep
  BY <1>1
     DEF RegistryStep, RegistryHands, RegistryRefuses, RegistryHasNoRoom, RegistryStarts,
         RegistryEnds, RegistryJoins, RegistryStops, RegistryIsDown, Idle
<1>2. ASSUME NEW n \in Numbers, SessionStep(n) \/ SessionCloses(n) PROVE UNCHANGED reg
  BY <1>2
     DEF SessionStep, SessionSpawns, SessionFails, SessionAnswers, SessionUnregistered,
         SessionEnds, SessionCloses
<1>3. ASSUME NEW c \in Calls, CallAdmitted(c) \/ CallStep(c) \/ CallRevoked(c)
      PROVE  UNCHANGED reg
  BY <1>3 DEF CallAdmitted, CallStep, CallSends, CallGivesUp, CallRevoked
<1>4. CASE WatcherPublishes \/ (\E p \in Peers : WatcherEnds(p)) \/ Shutdown \/ UNCHANGED vars
  BY <1>4 DEF WatcherPublishes, WatcherEnds, Shutdown, vars
<1> QED
  BY <1>1, <1>2, <1>3, <1>4 DEF Next

LEMMA HandlingStep == ASSUME TypeOK, GetsInv, [Next]_vars PROVE Handling'
<1> SUFFICES
      /\ reg'.at \in {"choosing", "handing"} => at'[reg'.call] # "idle"
      /\ reg'.at = "handing" =>
            IF reg'.named = None THEN pick'[reg'.call].by # "id"
            ELSE /\ owner'[reg'.named] = CallPeer[reg'.call]
                 /\ at'[reg'.call] # "idle"
                 /\ pick'[reg'.call].by = "id" => pick'[reg'.call].n = reg'.named
  BY DEF Handling, MayGet
<1>1. CASE UNCHANGED reg
  <2>1. CASE reg.at \in {"choosing", "handing"}
    <3>1. reg.call \in Calls
      BY <2>1 DEF TypeOK, TaskOK
    <3>2. at'[reg.call] # "idle" /\ pick'[reg.call] = pick[reg.call]
      BY <2>1, <3>1, PickKept DEF GetsInv, Handling
    <3>3. CASE reg.at = "handing" /\ reg.named # None
      <4>1. reg.named \in Numbers
        BY <3>3 DEF TypeOK, TaskOK
      <4>2. MayGet(reg.call, reg.named)
        BY <3>3 DEF GetsInv, Handling
      <4>3. PICK c \in Calls, n \in Numbers : c = reg.call /\ n = reg.named
        BY <3>1, <4>1
      <4>4. MayGet(c, n)'
        BY <4>2, <4>3, MayGetKept
      <4>5. owner'[reg.named] = CallPeer[reg.call] /\ (pick'[reg.call].by = "id" => pick'[reg.call].n = reg.named)
        BY <4>3, <4>4 DEF MayGet
      <4> QED
        BY <1>1, <3>2, <3>3, <4>5
    <3> QED
      BY <1>1, <3>2, <3>3 DEF GetsInv, Handling
  <2> QED
    BY <1>1, <2>1
<1>2. CASE RegistryTakes
  <2>1. queue \in Seq(Requests) /\ queue # <<>> /\ "attach" \in DOMAIN Head(queue)
    BY <1>2 DEF RegistryTakes, NextAttach, TypeOK, QueueOK
  <2>2. 1 \in 1..Len(queue) /\ Head(queue) = queue[1] /\ Head(queue) \in Requests
    BY <2>1
  <2>3. Head(queue).attach \in Calls
    BY <2>1, <2>2 DEF Requests
  <2>4. at[Head(queue).attach] # "idle"
    BY <2>1, <2>2 DEF GetsInv, Queued
  <2>5. reg = Idle /\ (reg' = [at |-> "choosing", call |-> Head(queue).attach] \/ reg' = reg)
    BY <1>2 DEF RegistryTakes, NextAttach
  <2>6. at'[Head(queue).attach] # "idle"
    BY <2>3, <2>4, PickKept
  <2> QED
    BY <2>5, <2>6 DEF Idle
<1>3. CASE RegistryChooses
  <2>1. reg.call \in Calls /\ at[reg.call] # "idle"
    BY <1>3 DEF RegistryChooses, TypeOK, TaskOK, GetsInv, Handling
  <2>2. UNCHANGED <<pick, owner>> /\ at'[reg.call] # "idle"
    BY <1>3, <2>1, PickKept DEF RegistryChooses
  <2>3. Retained \subseteq Numbers
    BY LiveNumbered DEF Retained
  <2>4. CASE reg' = Idle
    BY <2>4 DEF Idle
  <2>5. ASSUME NEW n \in Numbers \cup {None}, reg' = [at |-> "handing", call |-> reg.call, named |-> n],
               n = None => pick[reg.call].by # "id",
               n # None => /\ owner[n] = CallPeer[reg.call]
                           /\ pick[reg.call].by = "id" => pick[reg.call].n = n
        PROVE  /\ reg'.at = "handing" /\ reg'.call = reg.call /\ reg'.named = n
               /\ IF n = None THEN pick'[reg.call].by # "id"
                  ELSE /\ owner'[n] = CallPeer[reg.call]
                       /\ pick'[reg.call].by = "id" => pick'[reg.call].n = n
    BY <2>2, <2>5
  <2>6. \/ reg' = Idle
        \/ \E n \in Numbers \cup {None} :
              /\ reg' = [at |-> "handing", call |-> reg.call, named |-> n]
              /\ n = None => pick[reg.call].by # "id"
              /\ n # None => /\ owner[n] = CallPeer[reg.call]
                             /\ pick[reg.call].by = "id" => pick[reg.call].n = n
    BY <1>3, <2>3, NumbersOfSessions DEF RegistryChooses, OwnedBy, Named
  <2> QED
    BY <2>2, <2>4, <2>5, <2>6
<1>4. CASE reg'.at \in {"idle", "stopping", "down"}
  BY <1>4
<1> QED
  BY <1>1, <1>2, <1>3, <1>4, RegStep

LEMMA GetsInit == ASSUME Init PROVE GetsInv
  BY NumbersOfSessions, EmptySeq
     DEF Init, GetsInv, Started, Handed, Queued, Answered, Handling, Numbers, Idle, Close

\* Whatever a call is told of, it may get.
LEMMA GetsAlways == Spec => []GetsInv
<1>1. Init => GetsInv
  BY GetsInit
<1>2. TypeOK /\ GetsInv /\ [Next]_vars => GetsInv'
  BY StartedStep, HandedStep, QueuedStep, AnsweredStep, HandlingStep DEF GetsInv
<1> QED
  BY <1>1, <1>2, TypeCorrect, PTL DEF Spec

\* Whatever sessions end and start while an attach is on its way, the session that answers it is
\* its own peer's (Sessions::attach, Session's control loop).
THEOREM OwnSession == Spec => []OwnSessionOnly
<1>1. GetsInv => OwnSessionOnly
  BY DEF GetsInv, Answered, MayGet, OwnSessionOnly
<1> QED
  BY <1>1, GetsAlways, PTL

\* An attach that named its session is answered by that one or by none (Sessions::attach).
THEOREM NamedSession == Spec => []NamedGetsItself
<1>1. GetsInv => NamedGetsItself
  BY DEF GetsInv, Answered, MayGet, NamedGetsItself
<1> QED
  BY <1>1, GetsAlways, PTL

(***************************************************************************)
(* The table.                                                              *)
(***************************************************************************)
\* Sessions enter the table one by one, and as the registry starts them.
LEMMA LiveStep == ASSUME [Next]_vars PROVE live' \subseteq live \/ RegistryStarts
<1>1. CASE RegistryStep
  BY <1>1
     DEF RegistryStep, RegistryTakes, RegistryChooses, RegistryHands, RegistryRefuses,
         RegistryHasNoRoom, RegistryEnds, RegistryJoins, RegistryStops, RegistryIsDown, Keep,
         Retained, KeptAtEnd, KeptAtJoin, KeptAtShutdown, tableVars
<1>2. ASSUME NEW n \in Numbers, SessionStep(n) \/ SessionCloses(n) PROVE UNCHANGED live
  BY <1>2
     DEF SessionStep, SessionSpawns, SessionFails, SessionAnswers, SessionUnregistered,
         SessionEnds, SessionCloses, tableVars
<1>3. ASSUME NEW c \in Calls, CallAdmitted(c) \/ CallStep(c) \/ CallRevoked(c)
      PROVE  UNCHANGED live
  BY <1>3 DEF CallAdmitted, CallStep, CallSends, CallGivesUp, CallRevoked, tableVars
<1>4. CASE WatcherPublishes \/ (\E p \in Peers : WatcherEnds(p)) \/ Shutdown \/ UNCHANGED vars
  BY <1>4 DEF WatcherPublishes, WatcherEnds, Shutdown, vars, tableVars
<1> QED
  BY <1>1, <1>2, <1>3, <1>4 DEF Next

\* The table stays within the cap, whatever attaches, ends and shutdown come in between
\* (SessionSpec.max_sessions, Sessions::attach).
THEOREM CapHeld == Spec => []CapKept
<1>1. MaxSessions \in Nat \ {0}
  BY RegistryAssumption DEF RegistryAssumption
<1>2. Init => CapKept
  BY <1>1, FS_EmptySet DEF Init, CapKept
<1>3. ASSUME TypeOK, CapKept, [Next]_vars PROVE CapKept'
  <2>1. IsFiniteSet(live) /\ Cardinality(live) \in Nat
    <3>1. 1 \in Int /\ last \in Int /\ live \in SUBSET (1..last)
      BY <1>3, NumbersOfSessions DEF TypeOK, TableOK
    <3>2. IsFiniteSet(1..last)
      BY <3>1, FS_Interval
    <3> QED
      BY <3>1, <3>2, FS_Subset, FS_CardinalityType
  <2>2. CASE live' \subseteq live
    <3>1. IsFiniteSet(live') /\ Cardinality(live') <= Cardinality(live)
      BY <2>1, <2>2, FS_Subset
    <3>2. Cardinality(live') \in Nat
      BY <3>1, FS_CardinalityType
    <3> QED
      BY <1>1, <1>3, <2>1, <3>1, <3>2 DEF CapKept
  <2>3. CASE RegistryStarts
    <3>1. live' = live \cup {last + 1} /\ ~(Cardinality(live) >= MaxSessions)
      BY <2>3 DEF RegistryStarts, AtCap
    <3>2. Cardinality(live') = Cardinality(live) \/ Cardinality(live') = Cardinality(live) + 1
      BY <2>1, <3>1, FS_AddElement
    <3> QED
      BY <1>1, <2>1, <3>1, <3>2 DEF CapKept
  <2> QED
    BY <1>3, <2>2, <2>3, LiveStep
<1> QED
  BY <1>2, <1>3, TypeCorrect, PTL DEF Spec

(***************************************************************************)
(* Revocation.  While a dropped peer still has a session, or an attach of  *)
(* its is in the registry's hands, its end is on the way behind it.        *)
(***************************************************************************)
HandledInTime ==
    reg.at \in {"choosing", "handing"} =>
        CallPeer[reg.call] \in allowed \/ EndPending(CallPeer[reg.call])
NoneWhenStopped == reg.at \in {"stopping", "down"} => live = {}

RevokedInv == RevokedHasNone /\ HandledInTime /\ NoneWhenStopped

\* An end on its way stays so until the registry takes it, or is gone.
LEMMA PendingStep ==
    ASSUME TypeOK, [Next]_vars, NEW p \in Peers, EndPending(p)
    PROVE  \/ EndPending(p)'
           \/ RegistryEnds /\ Head(queue) = [end |-> p]
           \/ reg.at \in {"stopping", "down"}
<1> DEFINE r == [end |-> p]
<1>1. queue \in Seq(Requests) /\ r \in Requests
  BY DEF TypeOK, QueueOK, Requests
<1>2. CASE UNCHANGED <<toEnd, queue>>
  BY <1>2 DEF EndPending
<1>3. ASSUME NEW q \in Requests, queue' = Append(queue, q), toEnd' = toEnd \/ q = r
      PROVE  EndPending(p)'
  <2>1. ASSUME NEW k \in 1..Len(queue) PROVE k \in 1..Len(queue') /\ queue'[k] = queue[k]
    BY <1>1, <1>3, AppendProperties
  <2>2. Len(queue') \in 1..Len(queue') /\ queue'[Len(queue')] = q
    BY <1>1, <1>3, AppendProperties
  <2> QED
    BY <1>3, <2>1, <2>2 DEF EndPending
<1>4. ASSUME queue # <<>>, queue' = Tail(queue), toEnd' = toEnd, Head(queue) # r
      PROVE  EndPending(p)'
  <2>1. CASE p \in toEnd
    BY <1>4, <2>1 DEF EndPending
  <2>2. ASSUME NEW k \in 1..Len(queue), queue[k] = r PROVE EndPending(p)'
    <3>1. k # 1
      BY <1>1, <1>4, <2>2
    <3>2. k - 1 \in 1..Len(queue') /\ queue'[k - 1] = queue[k]
      BY <1>1, <1>4, <3>1, HeadTailProperties
    <3> QED
      BY <2>2, <3>2 DEF EndPending
  <2> QED
    BY <2>1, <2>2 DEF EndPending
<1>5. ASSUME NEW c \in Calls, CallSends(c) PROVE EndPending(p)'
  <2>1. [attach |-> c] \in Requests
    BY DEF Requests
  <2> QED
    BY <1>3, <1>5, <2>1 DEF CallSends, listVars
<1>6. ASSUME NEW q \in Peers, WatcherEnds(q), ~Down PROVE EndPending(p)'
  <2> DEFINE e == [end |-> q]
  <2>1. queue' = Append(queue, e) /\ e \in Requests /\ toEnd' = toEnd \ {q}
    BY <1>6 DEF WatcherEnds, Requests
  <2>2. CASE q = p
    <3>1. Len(queue') \in 1..Len(queue') /\ queue'[Len(queue')] = r
      BY <1>1, <2>1, <2>2, AppendProperties
    <3> QED
      BY <3>1 DEF EndPending
  <2>3. CASE q # p
    <3>1. ASSUME NEW k \in 1..Len(queue) PROVE k \in 1..Len(queue') /\ queue'[k] = queue[k]
      BY <1>1, <2>1, AppendProperties
    <3> QED
      BY <2>1, <2>3, <3>1 DEF EndPending
  <2> QED
    BY <2>2, <2>3
<1>7. CASE WatcherPublishes
  <2>1. queue' = queue /\ toEnd = {}
    BY <1>7 DEF WatcherPublishes
  <2> QED
    BY <2>1 DEF EndPending
<1>8. CASE RegistryTakes
  <2>1. r # Head(queue) /\ queue # <<>>
    BY <1>8 DEF RegistryTakes, NextAttach
  <2> QED
    BY <1>4, <1>8, <2>1 DEF RegistryTakes, listVars
<1>9. CASE RegistryEnds
  BY <1>4, <1>9 DEF RegistryEnds, NextEnd, listVars
<1>10. CASE RegistryIsDown
  BY <1>10 DEF RegistryIsDown
<1>11. CASE RegistryStep
  BY <1>2, <1>8, <1>9, <1>10, <1>11
     DEF RegistryStep, RegistryChooses, RegistryHands, RegistryRefuses, RegistryHasNoRoom,
         RegistryStarts, RegistryJoins, RegistryStops, listVars
<1>12. ASSUME NEW n \in Numbers, SessionStep(n) \/ SessionCloses(n)
       PROVE  UNCHANGED <<toEnd, queue>>
  BY <1>12
     DEF SessionStep, SessionSpawns, SessionFails, SessionAnswers, SessionUnregistered,
         SessionEnds, SessionCloses, listVars
<1>13. ASSUME NEW c \in Calls, CallAdmitted(c) \/ CallGivesUp(c) \/ CallRevoked(c)
       PROVE  UNCHANGED <<toEnd, queue>>
  BY <1>13 DEF CallAdmitted, CallGivesUp, CallRevoked, listVars
<1>14. CASE Shutdown \/ UNCHANGED vars
  BY <1>2, <1>14 DEF Shutdown, vars, listVars
<1> QED
  BY <1>2, <1>5, <1>6, <1>7, <1>11, <1>12, <1>13, <1>14 DEF Next, CallStep, Down

\* The list changes by the watcher alone.
LEMMA AllowedStep == ASSUME [Next]_vars PROVE UNCHANGED allowed \/ WatcherPublishes
<1>1. CASE RegistryStep
  BY <1>1
     DEF RegistryStep, RegistryTakes, RegistryChooses, RegistryHands, RegistryRefuses,
         RegistryHasNoRoom, RegistryStarts, RegistryEnds, RegistryJoins, RegistryStops,
         RegistryIsDown, listVars
<1>2. ASSUME NEW n \in Numbers, SessionStep(n) \/ SessionCloses(n) PROVE UNCHANGED allowed
  BY <1>2
     DEF SessionStep, SessionSpawns, SessionFails, SessionAnswers, SessionUnregistered,
         SessionEnds, SessionCloses, listVars
<1>3. ASSUME NEW c \in Calls, CallAdmitted(c) \/ CallStep(c) \/ CallRevoked(c)
      PROVE  UNCHANGED allowed
  BY <1>3 DEF CallAdmitted, CallStep, CallSends, CallGivesUp, CallRevoked, listVars
<1>4. CASE (\E p \in Peers : WatcherEnds(p)) \/ Shutdown \/ UNCHANGED vars
  BY <1>4 DEF WatcherEnds, Shutdown, vars, listVars
<1> QED
  BY <1>1, <1>2, <1>3, <1>4 DEF Next

\* The registry stops by its shutdown alone.
LEMMA StopsAlone ==
    ASSUME TypeOK, [Next]_vars, reg'.at \in {"stopping", "down"},
           reg.at \notin {"stopping", "down"}
    PROVE  RegistryStops
<1>1. ~UNCHANGED reg
  OBVIOUS
<1>2. CASE RegistryStep
  BY <1>1, <1>2
     DEF RegistryStep, RegistryTakes, RegistryChooses, RegistryHands, RegistryRefuses,
         RegistryHasNoRoom, RegistryStarts, RegistryEnds, RegistryJoins, RegistryIsDown, Idle
<1>3. ASSUME NEW n \in Numbers, SessionStep(n) \/ SessionCloses(n) PROVE UNCHANGED reg
  BY <1>3
     DEF SessionStep, SessionSpawns, SessionFails, SessionAnswers, SessionUnregistered,
         SessionEnds, SessionCloses
<1>4. ASSUME NEW c \in Calls, CallAdmitted(c) \/ CallStep(c) \/ CallRevoked(c)
      PROVE  UNCHANGED reg
  BY <1>4 DEF CallAdmitted, CallStep, CallSends, CallGivesUp, CallRevoked
<1>5. CASE WatcherPublishes \/ (\E p \in Peers : WatcherEnds(p)) \/ Shutdown \/ UNCHANGED vars
  BY <1>1, <1>5 DEF WatcherPublishes, WatcherEnds, Shutdown, vars
<1> QED
  BY <1>1, <1>2, <1>3, <1>4, <1>5 DEF Next

LEMMA HandledStep == ASSUME TypeOK, RevokedInv, [Next]_vars PROVE HandledInTime'
<1> SUFFICES ASSUME reg'.at \in {"choosing", "handing"},
                    NEW c \in Calls, c = reg'.call,
                    NEW p \in Peers, p = CallPeer[c], p \notin allowed'
             PROVE  EndPending(p)'
  <2>1. ASSUME reg'.at \in {"choosing", "handing"} PROVE reg'.call \in Calls
    BY <2>1, TypeStep, RegistryAssumption DEF TypeOK, TaskOK
  <2> SUFFICES ASSUME reg'.at \in {"choosing", "handing"}, CallPeer[reg'.call] \notin allowed'
               PROVE  \/ CallPeer[reg'.call] \in toEnd'
                      \/ \E k \in 1..Len(queue') : queue'[k] = [end |-> CallPeer[reg'.call]]
    BY DEF HandledInTime, EndPending
  <2>2. PICK c \in Calls, p \in Peers : c = reg'.call /\ p = CallPeer[c]
    BY <2>1, CallsOfPeers
  <2>3. EndPending(p)'
    BY <2>2
  <2> QED
    BY <2>2, <2>3 DEF EndPending
<1>1. CASE UNCHANGED reg \/ RegistryChooses
  <2>1. reg.at \in {"choosing", "handing"} /\ reg.call = c
    BY <1>1 DEF RegistryChooses, Idle
  <2>2. ASSUME p \notin allowed PROVE EndPending(p)'
    <3>1. EndPending(p)
      BY <2>1, <2>2 DEF RevokedInv, HandledInTime
    <3>2. ~RegistryEnds
      BY <2>1 DEF RegistryEnds, NextEnd, Idle
    <3> QED
      BY <2>1, <3>1, <3>2, PendingStep
  <2>3. ASSUME p \in allowed PROVE EndPending(p)'
    <3>1. WatcherPublishes
      BY <2>3, AllowedStep
    <3> QED
      BY <2>3, <3>1 DEF WatcherPublishes, EndPending
  <2> QED
    BY <2>2, <2>3
<1>2. CASE RegistryTakes
  <2>1. UNCHANGED allowed /\ reg = Idle
    BY <1>2 DEF RegistryTakes, NextAttach, listVars
  <2> QED
    BY <1>2, <2>1 DEF RegistryTakes, Allows, Idle
<1> QED
  BY <1>1, <1>2, RegStep

LEMMA RevokedStep == ASSUME TypeOK, RevokedInv, [Next]_vars PROVE RevokedHasNone'
<1> SUFFICES ASSUME NEW p \in Peers, p \notin allowed', NEW n \in live', owner'[n] = p
             PROVE  EndPending(p)'
  BY DEF RevokedHasNone, OwnedBy, EndPending
<1>1. CASE p \in allowed
  <2>1. WatcherPublishes
    BY <1>1, AllowedStep
  <2> QED
    BY <1>1, <2>1 DEF WatcherPublishes, EndPending
<1>2. CASE p \notin allowed /\ RegistryStarts
  <2>1. CASE n \in live
    <3>1. owner[n] = p
      BY <1>2, <2>1 DEF RegistryStarts, TypeOK, TableOK, SessionsOK
    <3>2. EndPending(p)
      BY <1>2, <2>1, <3>1 DEF RevokedInv, RevokedHasNone, OwnedBy
    <3> QED
      BY <1>2, <3>2 DEF RegistryStarts, EndPending, listVars
  <2>2. CASE n \notin live
    <3>1. n = last + 1 /\ last + 1 \in Numbers
      BY <1>2, <2>2, NumbersOfSessions DEF RegistryStarts, TypeOK, TableOK, Numbers
    <3>2. reg.at = "handing" /\ CallPeer[reg.call] = p
      BY <1>2, <3>1 DEF RegistryStarts, StartsNew, NamedClosed, TypeOK, SessionsOK
    <3>3. EndPending(p)
      BY <1>2, <3>2 DEF RevokedInv, HandledInTime
    <3> QED
      BY <1>2, <3>3 DEF RegistryStarts, EndPending, listVars
  <2> QED
    BY <2>1, <2>2
<1>3. CASE p \notin allowed /\ ~RegistryStarts
  <2>1. n \in live /\ owner[n] = p
    BY <1>3, LiveStep, OwnerKept
  <2>2. EndPending(p)
    BY <1>3, <2>1 DEF RevokedInv, RevokedHasNone, OwnedBy
  <2>3. reg.at \notin {"stopping", "down"}
    BY <2>1 DEF RevokedInv, NoneWhenStopped
  <2>4. ~(RegistryEnds /\ Head(queue) = [end |-> p])
    BY <2>1 DEF RegistryEnds, Keep, KeptAtEnd
  <2> QED
    BY <2>2, <2>3, <2>4, PendingStep
<1> QED
  BY <1>1, <1>2, <1>3

LEMMA StoppedStep == ASSUME TypeOK, RevokedInv, [Next]_vars PROVE NoneWhenStopped'
<1>1. ASSUME reg'.at \in {"stopping", "down"}, reg.at \in {"stopping", "down"}
      PROVE  live' = {}
  <2>1. ~RegistryStarts
    BY <1>1 DEF RegistryStarts, StartsNew, NamedClosed
  <2> QED
    BY <1>1, <2>1, LiveStep DEF RevokedInv, NoneWhenStopped
<1>2. ASSUME reg'.at \in {"stopping", "down"}, reg.at \notin {"stopping", "down"}
      PROVE  live' = {}
  <2>1. RegistryStops
    BY <1>2, StopsAlone
  <2> QED
    BY <2>1 DEF RegistryStops, Keep, KeptAtShutdown
<1> QED
  BY <1>1, <1>2 DEF NoneWhenStopped

\* A peer dropped from the list has no session once its end was taken, whatever attach of its was
\* being served meanwhile (watch_allowlist, Sessions::end).
THEOREM RevokedEnded == Spec => []RevokedHasNone
<1>1. Init => RevokedInv
  BY DEF Init, RevokedInv, RevokedHasNone, HandledInTime, NoneWhenStopped, OwnedBy, Idle
<1>2. TypeOK /\ RevokedInv /\ [Next]_vars => RevokedInv'
  BY RevokedStep, HandledStep, StoppedStep DEF RevokedInv
<1>3. RevokedInv => RevokedHasNone
  BY DEF RevokedInv
<1> QED
  BY <1>1, <1>2, <1>3, TypeCorrect, PTL DEF Spec
=============================================================================
