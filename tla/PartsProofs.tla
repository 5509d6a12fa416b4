----------------------------- MODULE PartsProofs -----------------------------
(***************************************************************************)
(* Proofs about parts of Parts, each for every value of the constants of   *)
(* its instance.                                                           *)
(***************************************************************************)
EXTENDS Parts, SequenceTheorems, TLAPS

\* A step of all the parts is, to each of them, one of its own or changes nothing of it.
LEMMA OwnSteps ==
  ASSUME [Next]_vars
  PROVE  /\ Display!DisplayNext \/ UNCHANGED Display!displayVars
         /\ Link!LinkNext \/ UNCHANGED Link!linkVars
         /\ KeyFile!KeyNext \/ UNCHANGED KeyFile!keyVars
<1>a. \/ UNCHANGED vars
      \/ part \notin {"display", "link", "keys"} /\ OthersRest
      \/ DisplaySteps \/ LinkSteps \/ KeySteps
  BY DEF Next, LogSteps, TypingSteps, FilterSteps, PredictSteps, GlobSteps, PlacesSteps, RedrawSteps
<1>1. Display!DisplayNext \/ UNCHANGED displayVars
  BY <1>a DEF vars, OthersRest, Rest, DisplaySteps, LinkSteps, KeySteps
<1>2. UNCHANGED displayVars => UNCHANGED Display!displayVars
  BY DEF displayVars, Display!displayVars
<1>3. Link!LinkNext \/ UNCHANGED linkVars
  BY <1>a DEF vars, OthersRest, Rest, DisplaySteps, LinkSteps, KeySteps
<1>4. UNCHANGED linkVars => UNCHANGED Link!linkVars
  BY DEF linkVars, Link!linkVars, Link!terminal, Link!wire, Link!redialing, Link!missed, Link!history
<1>5. KeyFile!KeyNext \/ UNCHANGED keyVars
  BY <1>a DEF vars, OthersRest, Rest, DisplaySteps, LinkSteps, KeySteps
<1>6. UNCHANGED keyVars => UNCHANGED KeyFile!keyVars
  BY DEF keyVars, KeyFile!keyVars
<1> QED
  BY <1>1, <1>2, <1>3, <1>4, <1>5, <1>6

(***************************************************************************)
(* Display.  Where a redraw was shown the terminal is the mirror with the  *)
(* overlay over it, so to take the overlay back is to show the mirror, but *)
(* where one was forgotten; elsewhere it is to show what is no overlay.    *)
(***************************************************************************)
Written == Texts \cup {Bare}

DisplayType == term = [c \in Cells |-> term[c]] /\ mirror \in [Cells -> Written]

DisplayInv == DisplayType /\ Display!TerminalIsMirror /\ Display!LeftAsFound

\* Where no overlay was forgotten, none is left once the overlay is taken back, and where the terminal
\* is the mirror it is so without it.
LEMMA TakenBack ==
  ASSUME DisplayInv, NEW c \in Cells, c \notin stray
  PROVE  /\ entered \/ c \in Display!Covered(painted) => Display!Unpainted(term)[c] = mirror[c]
         /\ Display!Unpainted(term)[c] \notin {Display!Guess, Display!Status}
<1>1. /\ entered \/ c \in Display!Covered(painted) => term[c] = Display!Over(mirror, painted)[c]
      /\ term[c] \in {Display!Guess, Display!Status} => c \in Display!Covered(painted)
  BY DEF DisplayInv, Display!TerminalIsMirror
<1>2. Display!Unpainted(term)[c] = IF c \in Display!Covered(painted) THEN mirror[c] ELSE term[c]
  BY DEF Display!Unpainted
<1>3. c \notin Display!Covered(painted) => Display!Over(mirror, painted)[c] = mirror[c]
  BY DEF Display!Over, Display!Covered
<1>4. mirror[c] \notin {Display!Guess, Display!Status}
  BY PartsAssumption DEF DisplayInv, DisplayType, Written, Display!DisplayAssumption
<1> QED
  BY <1>1, <1>2, <1>3, <1>4

\* What others write is no overlay, and moves none, but where one was forgotten.
LEMMA WrittenIsNone ==
  ASSUME DisplayInv, NEW c \in Cells, term' = Display!WrittenOn(Display!Unpainted(term)),
         stray' = Display!Moved(stray), c \notin stray'
  PROVE  term'[c] \notin {Display!Guess, Display!Status}
<1>1. stray = {}
  BY DEF Display!Moved
<1>2. \A d \in Cells : Display!Unpainted(term)[d] \notin {Display!Guess, Display!Status}
  BY <1>1, TakenBack
<1>3. term'[c] = Display!Theirs \/ term'[c] = Display!Unpainted(term)[c]
  BY DEF Display!WrittenOn
<1> QED
  BY <1>2, <1>3 DEF Display!Theirs, Display!Guess, Display!Status

LEMMA DisplayTypeStep == ASSUME DisplayInv, Display!DisplayNext PROVE DisplayType'
<1> USE DEF DisplayInv, DisplayType
<1>1. CASE Display!Paint
  BY <1>1 DEF Display!Paint, Display!Over, Display!Unpainted
<1>2. CASE Display!Predicts \/ Display!SetStatus \/ Display!Holds \/ Display!Resize
  BY <1>2 DEF Display!Predicts, Display!SetStatus, Display!Holds, Display!Resize
<1>3. CASE Display!Output
  <2>1. /\ term' = Display!WrittenOn(Display!Unpainted(term))
           \/ \E d \in Cells, new \in Texts : term' = [Display!Unpainted(term) EXCEPT ![d] = new]
        /\ \E d \in Cells, new \in Texts : mirror' = [mirror EXCEPT ![d] = new]
    BY <1>3 DEF Display!Output, Display!Taken
  <2>2. term' = [d \in Cells |-> term'[d]]
    BY <2>1 DEF Display!WrittenOn, Display!Unpainted
  <2>3. mirror' \in [Cells -> Written]
    BY <2>1 DEF Written
  <2> QED
    BY <2>2, <2>3
<1>4. CASE Display!Mark
  BY <1>4 DEF Display!Mark, Display!Taken, Display!Unpainted
<1>5. CASE Display!Leave
  <2>1. term' = Display!WrittenOn(Display!Unpainted(term)) /\ mirror' \in {mirror} \cup [Cells -> Written]
    BY <1>5 DEF Display!Leave, Written
  <2>2. term' = [d \in Cells |-> term'[d]]
    BY <2>1 DEF Display!WrittenOn
  <2>3. mirror' \in [Cells -> Written]
    BY <2>1
  <2> QED
    BY <2>2, <2>3
<1>6. CASE Display!NewEpoch
  <2>1. term' = mirror' /\ \E d \in Cells, new \in Texts : mirror' = [Display!Screen(Bare) EXCEPT ![d] = new]
    BY <1>6 DEF Display!NewEpoch
  <2> QED
    BY <2>1 DEF Display!Screen, Written
<1>7. ASSUME NEW activity, Display!Report(activity) PROVE DisplayType'
  BY <1>7 DEF Display!Report
<1> QED
  BY <1>1, <1>2, <1>3, <1>4, <1>5, <1>6, <1>7 DEF Display!DisplayNext

LEMMA MirroredStep == ASSUME DisplayInv, Display!DisplayNext PROVE Display!TerminalIsMirror'
<1> DEFINE Covers(over, c) == (over.status /\ c \in StatusRow) \/ c \in over.cells
           Shown(under, over, c) == IF over.status /\ c \in StatusRow THEN Display!Status
                                    ELSE IF c \in over.cells THEN Display!Guess ELSE under[c]
           Overlay == {Display!Guess, Display!Status}
<1>0. \A over, c : (c \in Display!Covered(over)) = Covers(over, c)
  BY DEF Display!Covered
<1> SUFFICES ASSUME NEW c \in Cells, c \notin stray'
             PROVE  /\ entered' \/ Covers(painted', c) => term'[c] = Shown(mirror', painted', c)
                    /\ term'[c] \in Overlay => Covers(painted', c)
  BY <1>0 DEF Display!TerminalIsMirror, Display!Over
<1>a. /\ term = [d \in Cells |-> term[d]] /\ mirror \in [Cells -> Written]
      /\ Written \cap Overlay = {} /\ Bare \in Written /\ Texts \subseteq Written
  BY PartsAssumption DEF DisplayInv, DisplayType, Written, Display!DisplayAssumption
<1>b. c \notin stray =>
        /\ entered \/ Covers(painted, c) => /\ term[c] = Shown(mirror, painted, c)
                                            /\ Display!Unpainted(term)[c] = mirror[c]
        /\ term[c] \in Overlay => Covers(painted, c)
        /\ Display!Unpainted(term)[c] \notin Overlay
  BY <1>0, TakenBack DEF DisplayInv, Display!TerminalIsMirror, Display!Over
<1>c. Covers(painted, c) => Display!Unpainted(term)[c] = mirror[c]
  BY <1>0 DEF Display!Unpainted
<1>d. Display!NoPaint.status = FALSE /\ Display!NoPaint.cells = {} /\ ~Covers(Display!NoPaint, c)
  BY DEF Display!NoPaint
<1>e. mirror[c] \notin Overlay
  BY <1>a
<1>1. CASE Display!Paint
  <2>0. UNCHANGED <<mirror, entered>>
    BY <1>1 DEF Display!Paint
  <2>1. CASE Display!Wanted = Display!NoPaint \/ ~Display!Paintable
    <3>1. /\ painted' = Display!NoPaint /\ term' = Display!Unpainted(term)
          /\ stray' = stray \ Display!Covered(painted')
      BY <1>1, <2>1 DEF Display!Paint
    <3>2. c \notin stray
      BY <1>0, <1>d, <3>1
    <3> QED
      BY <1>b, <1>d, <2>0, <3>1, <3>2
  <2>2. CASE ~(Display!Wanted = Display!NoPaint \/ ~Display!Paintable)
    <3>1. /\ painted' = Display!Wanted /\ term' = Display!Over(Display!Unpainted(term), Display!Wanted)
          /\ stray' = stray \ Display!Covered(painted')
      BY <1>1, <2>2 DEF Display!Paint
    <3>2. term'[c] = Shown(Display!Unpainted(term), painted', c)
      BY <3>1 DEF Display!Over
    <3>3. CASE Covers(painted', c)
      BY <3>2, <3>3
    <3>4. CASE ~Covers(painted', c)
      <4>1. c \notin stray /\ term'[c] = Display!Unpainted(term)[c]
        BY <1>0, <3>1, <3>2, <3>4
      <4> QED
        BY <1>b, <2>0, <3>4, <4>1
    <3> QED
      BY <3>3, <3>4
  <2> QED
    BY <2>1, <2>2
<1>2. CASE Display!Predicts \/ Display!SetStatus \/ Display!Holds
  <2>1. UNCHANGED <<term, mirror, painted, entered, stray>>
    BY <1>2 DEF Display!Predicts, Display!SetStatus, Display!Holds
  <2> QED
    BY <1>b, <2>1
<1>3. CASE Display!Output
  <2>1. CASE entered
    <3> PICK d \in Cells, new \in Texts :
          /\ term' = [Display!Unpainted(term) EXCEPT ![d] = new] /\ mirror' = [mirror EXCEPT ![d] = new]
          /\ painted' = Display!NoPaint /\ stray' = stray \ {d}
      BY <1>3, <2>1 DEF Display!Output, Display!Taken
    <3>1. Display!Unpainted(term) = [e \in Cells |-> Display!Unpainted(term)[e]]
      BY DEF Display!Unpainted
    <3>2. CASE c = d
      BY <1>a, <1>d, <3>1, <3>2
    <3>3. CASE c # d
      BY <1>a, <1>b, <1>d, <2>1, <3>1, <3>3
    <3> QED
      BY <3>2, <3>3
  <2>2. CASE ~entered
    <3>1. /\ term' = Display!WrittenOn(Display!Unpainted(term)) /\ stray' = Display!Moved(stray)
          /\ painted' = Display!NoPaint /\ entered' = entered
      BY <1>3, <2>2 DEF Display!Output, Display!Taken
    <3> QED
      BY <1>d, <2>2, <3>1, WrittenIsNone
  <2> QED
    BY <2>1, <2>2
<1>4. CASE Display!Mark
  <2>1. term' = Display!Unpainted(term) /\ painted' = Display!NoPaint /\ UNCHANGED <<mirror, entered, stray>>
    BY <1>4 DEF Display!Mark, Display!Taken
  <2> QED
    BY <1>b, <1>d, <2>1
<1>5. CASE Display!Leave
  <2>1. /\ term' = Display!WrittenOn(Display!Unpainted(term)) /\ stray' = Display!Moved(stray)
        /\ painted' = Display!NoPaint /\ entered' = FALSE
    BY <1>5 DEF Display!Leave
  <2> QED
    BY <1>d, <2>1, WrittenIsNone
<1>6. CASE Display!NewEpoch
  <2>1. /\ term' = mirror' /\ painted' = Display!NoPaint
        /\ \E d \in Cells, new \in Texts : mirror' = [Display!Screen(Bare) EXCEPT ![d] = new]
    BY <1>6 DEF Display!NewEpoch
  <2>2. mirror'[c] \in Written
    BY <1>a, <2>1 DEF Display!Screen
  <2> QED
    BY <1>a, <1>d, <2>1, <2>2
<1>7. CASE Display!Resize
  <2>1. /\ c \notin stray /\ c \notin Display!Covered(painted) /\ UNCHANGED <<term, mirror, entered>>
        /\ painted' = Display!NoPaint
    BY <1>7 DEF Display!Resize
  <2>2. ~Covers(painted, c)
    BY <1>0, <2>1
  <2> QED
    BY <1>b, <1>d, <2>1, <2>2
<1>8. ASSUME NEW activity, Display!Report(activity) PROVE UNCHANGED <<term, mirror, painted, entered, stray>>
  BY <1>8 DEF Display!Report
<1> QED
  BY <1>1, <1>2, <1>3, <1>4, <1>5, <1>6, <1>7, <1>8, <1>b DEF Display!DisplayNext

LEMMA LeftStep == ASSUME DisplayInv, Display!DisplayNext PROVE Display!LeftAsFound'
<1> USE DEF DisplayInv, Display!LeftAsFound
<1>1. CASE Display!Paint \/ Display!Predicts \/ Display!SetStatus \/ Display!Holds \/ Display!Resize
  <2>1. UNCHANGED <<set, said, report, entered, outside>>
    BY <1>1 DEF Display!Paint, Display!Predicts, Display!SetStatus, Display!Holds, Display!Resize
  <2> QED
    BY <2>1
<1>2. CASE Display!Output
  <2>1. UNCHANGED <<said, report, entered>> /\ (outside' <=> outside \/ ~entered)
    BY <1>2 DEF Display!Output
  <2>2. entered \/ outside'
    BY <2>1
  <2> QED
    BY <2>1, <2>2
<1>3. CASE Display!Mark
  BY <1>3 DEF Display!Mark, Display!Resaid
<1>4. CASE Display!NewEpoch
  BY <1>4 DEF Display!NewEpoch
<1>5. CASE Display!Leave
  BY <1>5 DEF Display!Leave, Display!Cleared
<1>6. ASSUME NEW activity, Display!Report(activity) PROVE Display!LeftAsFound'
  BY <1>6 DEF Display!Report
<1> QED
  BY <1>1, <1>2, <1>3, <1>4, <1>5, <1>6 DEF Display!DisplayNext

\* However output, predictions, marks, epochs, resizes and suspends fall, and whatever the user's shell
\* wrote before the first redraw and in a suspend, the terminal shows the mirror with the overlay over
\* it from a redraw to the next leave; nothing of an overlay is on it once taken back, left or not; and
\* it is in no mode of the program's once left (Display::output, unpaint, leave).
THEOREM ShownAsMirroredAlways == Spec => []ShownAsMirrored
<1>1. Init => DisplayInv
  <2> SUFFICES ASSUME Display!DisplayInit PROVE DisplayInv
    BY DEF Init
  <2> USE PartsAssumption DEF Display!DisplayInit, Display!NoPaint, Display!Screen, Display!Theirs, Display!Guess, Display!Status,
                          Display!DisplayAssumption
  <2>1. DisplayType
    BY DEF DisplayType, Written
  <2>2. Display!TerminalIsMirror /\ Display!LeftAsFound
    BY DEF Display!TerminalIsMirror, Display!Over, Display!Covered, Display!LeftAsFound
  <2> QED
    BY <2>1, <2>2 DEF DisplayInv
<1>2. DisplayInv /\ [Next]_vars => DisplayInv'
  <2>1. ASSUME DisplayInv, UNCHANGED Display!displayVars PROVE DisplayInv'
    BY <2>1 DEF DisplayInv, DisplayType, Display!displayVars, Display!TerminalIsMirror,
                Display!LeftAsFound, Display!Over, Display!Covered
  <2> QED
    BY <2>1, DisplayTypeStep, MirroredStep, LeftStep, OwnSteps DEF DisplayInv
<1>3. DisplayInv => ShownAsMirrored
  BY DEF DisplayInv, ShownAsMirrored
<1> QED
  BY <1>1, <1>2, <1>3, PTL DEF Spec

(***************************************************************************)
(* Link.                                                                   *)
(***************************************************************************)
Lengths == {1, Long}
Message == [is : {"keys", "resize", "redraw", "colours"}, n : Nat, at : Nat, len : Lengths, first : Nat]
Read == [first : Nat, lens : Seq(Lengths), window : Nat]

LinkType ==
    /\ typed \in Nat /\ window \in Nat /\ ticked \in Nat /\ size \in Nat
    /\ resized \in Nat /\ unqueued \in Nat /\ lost \in SUBSET Nat
    /\ chunks \in Seq(Read) /\ net \in {"up", "down"}
    /\ sending \in Seq(Message) /\ queue \in Seq(Message) /\ control \in Seq(Message)
    /\ told \in [n : Nat, size : Nat] /\ dial \in [wait : Nat, size : Nat]

\* Chunk n is of those typed, and before whatever waits for the loop.
Before(n, to, waiting) == n <= to /\ \A k \in 1..Len(waiting) : n < waiting[k].first

\* The chunks that wait for the server.
Keys(q) == {q[i] : i \in {j \in 1..Len(q) : q[j].is = "keys"}}

\* Chunks are numbered as typed: those that wait for the loop, those it is sending, those it queued or
\* dropped before them.  A read's chunks are sent only while none of it was dropped.
ReadsInTurn ==
    /\ \A k \in 1..Len(chunks) : chunks[k].first + Len(chunks[k].lens) <= typed + 1
    /\ \A k, l \in 1..Len(chunks) : k < l => chunks[k].first + Len(chunks[k].lens) <= chunks[l].first

Numbered ==
    /\ ReadsInTurn
    /\ \A k \in 1..Len(sending) :
          /\ sending[k].is = "keys" /\ sending[k].first <= sending[k].n /\ Before(sending[k].n, typed, chunks)
          /\ \A n \in lost : n < sending[k].first
          /\ \A m \in Keys(queue) : m.n < sending[k].n
    /\ \A k, l \in 1..Len(sending) : k < l => sending[k].n < sending[l].n
    /\ \A m \in Keys(queue) : m.first <= m.n /\ Before(m.n, typed, chunks)
    /\ \A n \in lost : Before(n, typed, chunks)

\* A chunk that was dropped was typed after all that waits, which then waits alone, or before all of it.
Holes ==
    \A n \in lost : \/ paused /\ \A m \in Keys(queue) : m.n < n
                   \/ \A m \in Keys(queue) : n < m.first

\* The sizes the server was told, or is to be.
Resizes(q) == {[n |-> q[i].n, size |-> q[i].at] : i \in {j \in 1..Len(q) : q[j].is = "resize"}}
Sizes == Resizes(queue) \cup Resizes(control) \cup {told}

\* Of sizes numbered up to n: they are numbered as the window grew.
Grown(sizes, n, newest) ==
    /\ \A r \in sizes : r.n <= n /\ r.size <= newest
    /\ \A r, s \in sizes : r.n <= s.n => r.size <= s.size

\* The window only grows, the loop knows of every tick of it but one that waits.
WindowOK ==
    /\ ticked <= window /\ size <= window /\ unqueued <= window
    /\ ~tick => ticked <= size
    /\ \A k \in 1..Len(chunks) : chunks[k].window <= ticked

Resized ==
    /\ Grown(Sizes, resized, size)
    /\ net = "down" => resized = 0 /\ dial.size <= size
    /\ WindowOK

\* The server was told size a or a later one, is told by a message of q before the n-th, or will not
\* be among the input, as that resize was dropped.
Reaches(a, n, q, was, missing) ==
    \/ was >= a \/ missing >= a
    \/ \E j \in 1..(n - 1) : q[j].is = "resize" /\ q[j].at >= a

Follows ==
    /\ \A i \in 1..Len(queue) : queue[i].is = "keys" => Reaches(queue[i].at, i, queue, told.size, unqueued)
    /\ \A k \in 1..Len(sending) : sending[k].at <= size
    /\ net = "up" => Reaches(size, Len(queue) + 1, queue, told.size, unqueued)
    /\ sending # <<>> => net = "up"

Redialing ==
    /\ attempt \in Nat /\ attempt = fails
    /\ net = "down" => dial.wait \in {0, Link!Wait(fails)} /\ (dropped <=> lostTyping)

LinkInv == LinkType /\ Numbered /\ Holes /\ Resized /\ Follows /\ Redialing

\* What an append and a take do to a sequence.
LEMMA AtEnd ==
  ASSUME NEW S, NEW q \in Seq(S), NEW x \in S
  PROVE  /\ Append(q, x) \in Seq(S) /\ Len(Append(q, x)) = Len(q) + 1 /\ Len(q) \in Nat
         /\ Append(q, x)[Len(q) + 1] = x /\ \A i \in 1..Len(q) : Append(q, x)[i] = q[i]
  OBVIOUS

LEMMA AtFront ==
  ASSUME NEW S, NEW q \in Seq(S), q # <<>>
  PROVE  /\ Tail(q) \in Seq(S) /\ Len(Tail(q)) = Len(q) - 1 /\ Len(q) \in Nat \ {0}
         /\ Head(q) \in S /\ Head(q) = q[1] /\ \A i \in 1..Len(Tail(q)) : Tail(q)[i] = q[i + 1]
  OBVIOUS

LEMMA ReadFields ==
  ASSUME NEW q \in Seq(Read), NEW k \in 1..Len(q)
  PROVE  /\ q[k].first \in Nat /\ q[k].lens \in Seq(Lengths) /\ q[k].window \in Nat
         /\ Len(q[k].lens) \in Nat
<1>1. q[k] \in Read
  OBVIOUS
<1> QED
  BY <1>1 DEF Read

LEMMA MessageFields ==
  ASSUME NEW q \in Seq(Message), NEW k \in 1..Len(q)
  PROVE  q[k] \in Message /\ q[k].n \in Nat /\ q[k].first \in Nat /\ q[k].at \in Nat
<1>1. q[k] \in Message
  OBVIOUS
<1> QED
  BY <1>1 DEF Message

LEMMA KeysAppended ==
  ASSUME NEW q \in Seq(Message), NEW m \in Message
  PROVE  Keys(Append(q, m)) = Keys(q) \cup (IF m.is = "keys" THEN {m} ELSE {})
<1> DEFINE r == Append(q, m)
<1>1. r \in Seq(Message) /\ Len(r) = Len(q) + 1 /\ Len(q) \in Nat /\ r[Len(q) + 1] = m
      /\ \A i \in 1..Len(q) : r[i] = q[i]
  BY AtEnd
<1> HIDE DEF r
<1>2. ASSUME NEW i \in 1..Len(r), r[i].is = "keys" PROVE r[i] \in Keys(q) \/ (r[i] = m /\ m.is = "keys")
  BY <1>1, <1>2 DEF Keys
<1>3. ASSUME NEW i \in 1..Len(q), q[i].is = "keys" PROVE q[i] \in Keys(r)
  <2>1. i \in 1..Len(r) /\ r[i] = q[i]
    BY <1>1
  <2> QED
    BY <1>3, <2>1 DEF Keys
<1>4. m.is = "keys" => m \in Keys(r)
  BY <1>1 DEF Keys
<1> QED
  BY <1>2, <1>3, <1>4 DEF Keys, r

LEMMA KeysTaken ==
  ASSUME NEW q \in Seq(Message), q # <<>>
  PROVE  Keys(Tail(q)) \subseteq Keys(q) /\ (Head(q).is = "keys" => Head(q) \in Keys(q))
<1> DEFINE r == Tail(q)
<1>1. Len(r) = Len(q) - 1 /\ Len(q) \in Nat \ {0} /\ Head(q) = q[1] /\ \A i \in 1..Len(r) : r[i] = q[i + 1]
  BY AtFront
<1> HIDE DEF r
<1>2. ASSUME NEW i \in 1..Len(r), r[i].is = "keys" PROVE r[i] \in Keys(q)
  <2>1. i + 1 \in 1..Len(q) /\ r[i] = q[i + 1]
    BY <1>1
  <2> QED
    BY <1>2, <2>1 DEF Keys
<1> QED
  BY <1>1, <1>2 DEF Keys, r

LEMMA ResizesAppended ==
  ASSUME NEW q \in Seq(Message), NEW m \in Message
  PROVE  Resizes(Append(q, m))
           \subseteq Resizes(q) \cup (IF m.is = "resize" THEN {[n |-> m.n, size |-> m.at]} ELSE {})
<1> DEFINE r == Append(q, m)
<1>1. r \in Seq(Message) /\ Len(r) = Len(q) + 1 /\ Len(q) \in Nat /\ r[Len(q) + 1] = m
      /\ \A i \in 1..Len(q) : r[i] = q[i]
  BY AtEnd
<1> HIDE DEF r
<1>2. ASSUME NEW i \in 1..Len(r), r[i].is = "resize"
      PROVE  [n |-> r[i].n, size |-> r[i].at] \in Resizes(q) \/ (r[i] = m /\ m.is = "resize")
  BY <1>1, <1>2 DEF Resizes
<1> QED
  BY <1>2 DEF Resizes, r

LEMMA ResizesTaken ==
  ASSUME NEW q \in Seq(Message), q # <<>>
  PROVE  /\ Resizes(Tail(q)) \subseteq Resizes(q)
         /\ Head(q).is = "resize" => [n |-> Head(q).n, size |-> Head(q).at] \in Resizes(q)
<1> DEFINE r == Tail(q)
<1>1. Len(r) = Len(q) - 1 /\ Len(q) \in Nat \ {0} /\ Head(q) = q[1] /\ \A i \in 1..Len(r) : r[i] = q[i + 1]
  BY AtFront
<1> HIDE DEF r
<1>2. ASSUME NEW i \in 1..Len(r), r[i].is = "resize"
      PROVE  [n |-> r[i].n, size |-> r[i].at] \in Resizes(q)
  <2>1. i + 1 \in 1..Len(q) /\ r[i] = q[i + 1]
    BY <1>1
  <2> QED
    BY <1>2, <2>1 DEF Resizes
<1> QED
  BY <1>1, <1>2 DEF Resizes, r

LEMMA NoneOfNothing == Keys(<<>>) = {} /\ Resizes(<<>>) = {}
  BY DEF Keys, Resizes

(***************************************************************************)
(* What a send and a redial do.                                            *)
(***************************************************************************)
LEMMA Made ==
  ASSUME LinkType, NEW s \in Nat
  PROVE  /\ Link!ResizeOf(s) \in Message /\ Link!Redraw \in Message /\ Link!Colours \in Message
         /\ Link!ResizeOf(s).is = "resize" /\ Link!ResizeOf(s).n = resized + 1 /\ Link!ResizeOf(s).at = s
         /\ Link!Redraw.is = "redraw" /\ Link!Colours.is = "colours"
<1>1. Link!Redraw = [is |-> "redraw", n |-> 0, at |-> 0, len |-> 1, first |-> 0] /\ 1 \in Lengths
  BY DEF Link!Redraw, Lengths
<1>2. Link!Colours = [is |-> "colours", n |-> 0, at |-> 0, len |-> 1, first |-> 0]
  BY <1>1 DEF Link!Colours
<1>3. Link!ResizeOf(s) = [is |-> "resize", n |-> resized + 1, at |-> s, len |-> 1, first |-> 0]
  BY DEF Link!ResizeOf
<1>4. resized + 1 \in Nat
  BY DEF LinkType
<1> QED
  BY <1>1, <1>2, <1>3, <1>4 DEF Message

\* A message is queued behind all that waits, none of which is from before a drop, or the queue pauses.
LEMMA Sends ==
  ASSUME LinkType, NEW m \in Message, Link!Send(m)
  PROVE  /\ queue' \in Seq(Message)
         /\ \/ queue' = Append(queue, m) /\ paused' = FALSE /\ Link!HasRoom(m) /\ (paused => queue = <<>>)
            \/ queue' = queue /\ paused' = TRUE /\ ~Link!HasRoom(m)
<1>1. Link!HasRoom(m) => (paused => queue = <<>>)
  BY DEF Link!HasRoom, Link!Paused
<1>2. Append(queue, m) \in Seq(Message) /\ queue \in Seq(Message)
  BY AtEnd DEF LinkType
<1>3. CASE Link!HasRoom(m)
  BY <1>1, <1>2, <1>3 DEF Link!Send
<1>4. CASE ~Link!HasRoom(m)
  BY <1>2, <1>4 DEF Link!Send
<1> QED
  BY <1>3, <1>4

LEMMA OnControlOf ==
  ASSUME NEW q \in Seq(Message), NEW m \in Message
  PROVE  /\ Link!OnControl(q, m) \in Seq(Message)
         /\ Resizes(Link!OnControl(q, m))
              \subseteq Resizes(q) \cup (IF m.is = "resize" THEN {[n |-> m.n, size |-> m.at]} ELSE {})
<1>1. Append(q, m) \in Seq(Message)
  BY AtEnd
<1> QED
  BY <1>1, ResizesAppended DEF Link!OnControl

LEMMA SizeSent ==
  ASSUME LinkType, NEW s \in Nat, NEW redraw \in BOOLEAN, Link!SendSize(s, redraw)
  PROVE  \/ net = "down" /\ UNCHANGED <<resized, queue, paused, control, unqueued>>
         \/ /\ net = "up" /\ resized' = resized + 1 /\ Link!Send(Link!ResizeOf(s))
            /\ control' \in Seq(Message)
            /\ Resizes(control') \subseteq Resizes(control) \cup {[n |-> resized + 1, size |-> s]}
            /\ unqueued' = IF Link!HasRoom(Link!ResizeOf(s)) THEN unqueued ELSE s
<1>1. CASE net = "down"
  BY <1>1 DEF Link!SendSize, Link!missed
<1>2. CASE net # "down"
  <2> DEFINE m == Link!ResizeOf(s)
             sized == Link!OnControl(control, m)
  <2>1. /\ resized' = resized + 1 /\ Link!Send(m)
        /\ control' = IF redraw THEN Link!OnControl(sized, Link!Redraw) ELSE sized
        /\ unqueued' = IF Link!HasRoom(m) THEN unqueued ELSE s
    BY <1>2 DEF Link!SendSize
  <2>2. sized \in Seq(Message) /\ Resizes(sized) \subseteq Resizes(control) \cup {[n |-> resized + 1, size |-> s]}
    BY Made, OnControlOf DEF LinkType
  <2>3. /\ Link!OnControl(sized, Link!Redraw) \in Seq(Message)
        /\ Resizes(Link!OnControl(sized, Link!Redraw)) \subseteq Resizes(sized)
    <3> HIDE DEF sized
    <3> QED
      BY <2>2, Made, OnControlOf
  <2>4. net = "up"
    BY <1>2 DEF LinkType
  <2> QED
    BY <2>1, <2>2, <2>3, <2>4
<1> QED
  BY <1>1, <1>2

LEMMA WaitInNat == \A n \in Nat : Link!Wait(n) \in Nat /\ (n > 0 => Link!Wait(n) > 0) /\ Link!Wait(0) = 0
  BY PartsAssumption DEF Link!LinkAssumption, Link!Wait

LEMMA RedialsOf ==
  ASSUME LinkType, NEW n \in Nat, NEW was, Link!Redials(n, was)
  PROVE  /\ net' = "down" /\ dropped' = was /\ dial' = [wait |-> Link!Wait(n), size |-> size]
         /\ queue' = <<>> /\ control' = <<>> /\ told' = [n |-> 0, size |-> 0]
         /\ lost' = {} /\ unqueued' = 0 /\ resized' = 0
  BY DEF Link!Redials, Link!NoResize

LEMMA LensOf == ASSUME NEW lens \in Link!Typings PROVE lens \in Seq(Lengths)
<1>1. 1 \in Lengths /\ Long \in Lengths
  BY DEF Lengths
<1>2. <<1>> \in Seq(Lengths) /\ <<1, 1>> \in Seq(Lengths) /\ <<Long>> \in Seq(Lengths)
  BY <1>1
<1> QED
  BY <1>2 DEF Link!Typings

\* What a read is sent as.
LEMMA KeysOfRead ==
  ASSUME NEW r \in Read
  PROVE  /\ Link!KeysOf(r) \in Seq(Message) /\ Len(Link!KeysOf(r)) = Len(r.lens)
         /\ \A i \in 1..Len(r.lens) :
               /\ Link!KeysOf(r)[i].is = "keys" /\ Link!KeysOf(r)[i].n = r.first + i - 1
               /\ Link!KeysOf(r)[i].at = r.window /\ Link!KeysOf(r)[i].first = r.first
<1>1. r.lens \in Seq(Lengths) /\ r.first \in Nat /\ r.window \in Nat /\ Len(r.lens) \in Nat
  BY DEF Read
<1> DEFINE m(i) == [is |-> "keys", n |-> r.first + i - 1, at |-> r.window, len |-> r.lens[i],
                    first |-> r.first]
<1>2. \A i \in 1..Len(r.lens) : m(i) \in Message
  <2> TAKE i \in 1..Len(r.lens)
  <2>1. r.lens[i] \in Lengths /\ r.first + i - 1 \in Nat
    BY <1>1
  <2> QED
    BY <1>1, <2>1 DEF Message
<1>3. Link!KeysOf(r) = [i \in 1..Len(r.lens) |-> m(i)]
  BY DEF Link!KeysOf
<1>4. \A i \in 1..Len(r.lens) :
         m(i).is = "keys" /\ m(i).n = r.first + i - 1 /\ m(i).at = r.window /\ m(i).first = r.first
  OBVIOUS
<1> HIDE DEF m
<1>5. Link!KeysOf(r) \in Seq(Message) /\ Len(Link!KeysOf(r)) = Len(r.lens)
  BY <1>1, <1>2, <1>3
<1> QED
  BY <1>3, <1>4, <1>5

LEMMA LinkTypeStep == ASSUME LinkInv, Link!LinkNext PROVE LinkType'
<1> USE DEF LinkType
<1>a. LinkType
  BY DEF LinkInv
<1>1. ASSUME NEW lens \in Link!Typings, Link!Types(lens) PROVE LinkType'
  <2>1. lens \in Seq(Lengths) /\ Len(lens) \in Nat
    BY LensOf
  <2>2. [first |-> typed + 1, lens |-> lens, window |-> ticked] \in Read
    BY <1>a, <2>1 DEF Read
  <2>3. chunks' \in Seq(Read)
    BY <1>1, <1>a, <2>2, AtEnd DEF Link!Types
  <2>4. typed' \in Nat
    BY <1>1, <1>a, <2>1 DEF Link!Types
  <2> QED
    BY <1>1, <1>a, <2>3, <2>4 DEF Link!Types, Link!redialing, Link!wire, Link!history, Link!missed
<1>b. ASSUME window' \in Nat, ticked' \in Nat,
             UNCHANGED <<typed, size, resized, unqueued, lost, chunks, net, sending, queue, control, told, dial>>
      PROVE  LinkType'
  BY <1>a, <1>b
<1>2. CASE Link!WindowChanges \/ Link!Ticks
  <2>1. UNCHANGED <<typed, size, resized, unqueued, lost, chunks, net, sending, queue, control, told, dial>>
    BY <1>2 DEF Link!WindowChanges, Link!Ticks, Link!redialing, Link!wire, Link!history, Link!missed
  <2>2. window' \in {window, window + 1} /\ ticked' \in {ticked, window}
    <3>1. CASE Link!WindowChanges
      BY <3>1 DEF Link!WindowChanges
    <3>2. CASE Link!Ticks
      BY <3>2 DEF Link!Ticks
    <3> QED
      BY <1>2, <3>1, <3>2
  <2>3. window \in Nat /\ ticked \in Nat
    BY <1>a
  <2>4. window' \in Nat /\ ticked' \in Nat
    BY <2>2, <2>3
  <2> QED
    BY <1>b, <2>1, <2>4
<1>c. chunks # <<>> => Tail(chunks) \in Seq(Read) /\ Head(chunks) \in Read
  BY <1>a, AtFront
<1>3. ASSUME NEW redraw \in BOOLEAN, Link!SendSize(window, redraw), size' = window, chunks' \in Seq(Read),
             UNCHANGED <<typed, window, ticked, net, sending, dial, lost, told>>
      PROVE  LinkType'
  <2>1. CASE net = "down" /\ UNCHANGED <<resized, queue, paused, control, unqueued>>
    BY <1>3, <1>a, <2>1
  <2>2. CASE /\ net = "up" /\ resized' = resized + 1 /\ Link!Send(Link!ResizeOf(window))
             /\ control' \in Seq(Message)
             /\ unqueued' = IF Link!HasRoom(Link!ResizeOf(window)) THEN unqueued ELSE window
    <3>1. queue' \in Seq(Message)
      BY <1>a, <2>2, Made, Sends
    <3> QED
      BY <1>3, <1>a, <2>2, <3>1
  <2> QED
    BY <1>3, <1>a, <2>1, <2>2, SizeSent
<1>4. CASE Link!TakeResize
  <2>1. Link!SendSize(window, FALSE) /\ size' = window
        /\ UNCHANGED <<chunks, typed, window, ticked, net, sending, dial, lost, told>>
    BY <1>4 DEF Link!TakeResize, Link!redialing
  <2> QED
    BY <1>3, <1>a, <2>1
<1>5. CASE Link!Suspend
  <2>1. Link!SendSize(window, TRUE) /\ size' = window
        /\ UNCHANGED <<typed, window, ticked, net, sending, dial, lost, told>>
    BY <1>5 DEF Link!Suspend, Link!redialing
  <2>2. chunks' = chunks \/ (chunks # <<>> /\ chunks' = Tail(chunks))
    BY <1>5 DEF Link!Suspend
  <2>3. chunks' \in Seq(Read)
    BY <1>a, <1>c, <2>2
  <2> QED
    BY <1>3, <1>a, <2>1, <2>3
<1>6. CASE Link!TakeTyped
  <2>1. chunks # <<>> /\ chunks' = Tail(chunks) /\ sending' \in {sending, Link!KeysOf(Head(chunks))}
        /\ UNCHANGED <<typed, window, ticked, size, resized, unqueued, lost, net, queue, control, told, dial>>
    BY <1>6 DEF Link!TakeTyped, Link!wire, Link!missed
  <2>2. chunks' \in Seq(Read) /\ Head(chunks) \in Read
    BY <1>c, <2>1
  <2>3. Link!KeysOf(Head(chunks)) \in Seq(Message)
    BY <2>2, KeysOfRead
  <2> QED
    BY <1>a, <2>1, <2>2, <2>3
<1>7. CASE Link!SendChunk
  <2>1. /\ sending # <<>> /\ Link!Send(Head(sending)) /\ sending' \in {Tail(sending), <<>>}
        /\ lost' \in {lost, lost \cup {Head(sending).n}}
        /\ UNCHANGED <<chunks, typed, window, ticked, size, resized, unqueued, net, control, told, dial>>
    BY <1>7 DEF Link!SendChunk, Link!LeftAfter, Link!terminal, Link!redialing, Link!missed
  <2>2. Head(sending) \in Message /\ Tail(sending) \in Seq(Message)
    BY <1>a, <2>1, AtFront
  <2>3. queue' \in Seq(Message)
    BY <1>a, <2>1, <2>2, Sends
  <2>4. Head(sending).n \in Nat
    BY <2>2 DEF Message
  <2>5. lost' \in SUBSET Nat
    BY <1>a, <2>1, <2>4
  <2>6. <<>> \in Seq(Message)
    OBVIOUS
  <2>7. sending' \in Seq(Message)
    BY <2>1, <2>2, <2>6
  <2> QED
    BY <1>a, <2>1, <2>3, <2>5, <2>7
<1>8. CASE Link!TakeColours
  <2>1. Link!Send(Link!Colours) \/ UNCHANGED queue
    BY <1>8 DEF Link!TakeColours
  <2>2. queue' \in Seq(Message)
    BY <1>a, <2>1, Made, Sends
  <2> QED
    BY <1>8, <1>a, <2>2 DEF Link!TakeColours, Link!terminal, Link!redialing, Link!history, Link!missed
<1>9. ASSUME NEW n \in Nat, NEW was, Link!Redials(n, was), chunks' \in Seq(Read),
             UNCHANGED <<typed, window, ticked, size, sending>>
      PROVE  LinkType'
  <2>1. /\ net' = "down" /\ dial' = [wait |-> Link!Wait(n), size |-> size]
        /\ queue' = <<>> /\ control' = <<>> /\ told' = [n |-> 0, size |-> 0]
        /\ lost' = {} /\ unqueued' = 0 /\ resized' = 0
    BY <1>9, <1>a, RedialsOf
  <2>2. dial' \in [wait : Nat, size : Nat] /\ told' \in [n : Nat, size : Nat]
    BY <1>a, <2>1, WaitInNat
  <2> QED
    BY <1>9, <1>a, <2>1, <2>2
<1>10. CASE Link!Lost \/ Link!Unfreezes \/ Link!DialFails
  <2>1. attempt + 1 \in Nat /\ Link!Drops \in Nat
    BY DEF LinkInv, Redialing, Link!Drops
  <2>2. UNCHANGED <<chunks, typed, window, ticked, size, sending>>
    BY <1>10 DEF Link!Lost, Link!Unfreezes, Link!DialFails, Link!terminal
  <2>3. \/ \E n \in Nat : \E was : Link!Redials(n, was)
        \/ UNCHANGED <<net, dial, queue, control, told, resized, lost, unqueued>>
    BY <1>10, <2>1 DEF Link!Lost, Link!Unfreezes, Link!DialFails, Link!wire, Link!history, Link!missed
  <2> QED
    BY <1>9, <1>a, <2>2, <2>3
<1>11. CASE Link!Over
  <2>1. attempt \in Nat
    BY DEF LinkInv, Redialing
  <2>2. Link!Redials(attempt, FALSE) /\ chunks' = <<>> /\ UNCHANGED <<typed, window, ticked, size, sending>>
    BY <1>11 DEF Link!Over
  <2>3. chunks' \in Seq(Read)
    BY <2>2
  <2> QED
    BY <1>9, <2>1, <2>2, <2>3
<1>12. CASE Link!Dialed
  <2>1. /\ net' = "up" /\ dial' = [wait |-> 0, size |-> 0] /\ resized' = 1
        /\ queue' = (IF colours THEN <<Link!Colours>> ELSE <<>>) \o <<Link!ResizeOf(size)>>
        /\ control' = <<Link!ResizeOf(size)>> /\ told' = [n |-> 0, size |-> dial.size]
        /\ UNCHANGED <<chunks, typed, window, ticked, size, sending, lost, unqueued>>
    BY <1>12 DEF Link!Dialed, Link!NoDial, Link!terminal, Link!missed
  <2>2. Link!ResizeOf(size) \in Message /\ Link!Colours \in Message
    BY <1>a, Made
  <2>3. queue' \in Seq(Message) /\ control' \in Seq(Message)
    BY <2>1, <2>2
  <2> QED
    BY <1>a, <2>1, <2>3
<1>13. CASE Link!Write \/ Link!WriteControl
  <2>1. /\ \/ queue # <<>> /\ queue' = Tail(queue) /\ told' = Link!Took(Head(queue)) /\ UNCHANGED control
           \/ control # <<>> /\ control' = Tail(control) /\ told' = Link!Took(Head(control)) /\ UNCHANGED queue
        /\ UNCHANGED <<chunks, typed, window, ticked, size, sending, lost, unqueued, resized, net, dial>>
    BY <1>13 DEF Link!Write, Link!WriteControl, Link!terminal, Link!redialing, Link!history, Link!missed
  <2>2. \A m \in Message : Link!Took(m) \in [n : Nat, size : Nat]
    BY <1>a DEF Message, Link!Took
  <2>3. queue # <<>> => Tail(queue) \in Seq(Message) /\ Head(queue) \in Message
    BY <1>a, AtFront
  <2>4. control # <<>> => Tail(control) \in Seq(Message) /\ Head(control) \in Message
    BY <1>a, AtFront
  <2>5. queue' \in Seq(Message) /\ control' \in Seq(Message) /\ told' \in [n : Nat, size : Nat]
    BY <1>a, <2>1, <2>2, <2>3, <2>4
  <2> QED
    BY <1>a, <2>1, <2>5
<1>14. CASE Link!Lasts \/ Link!Freezes
  BY <1>14, <1>a DEF Link!Lasts, Link!Freezes, Link!terminal, Link!redialing, Link!wire, Link!history, Link!missed
<1> QED
  BY <1>1, <1>2, <1>4, <1>5, <1>6, <1>7, <1>8, <1>10, <1>11, <1>12, <1>13, <1>14 DEF Link!LinkNext

(***************************************************************************)
(* The redial.                                                             *)
(***************************************************************************)
LEMMA RedialingStep == ASSUME LinkInv, Link!LinkNext PROVE Redialing'
<1>a. LinkType /\ Redialing
  BY DEF LinkInv
<1> USE DEF Redialing
<1>1. CASE UNCHANGED <<net, attempt, fails, dial, dropped, lostTyping>>
  BY <1>1, <1>a DEF Link!Wait
<1>2. CASE (\E lens \in Link!Typings : Link!Types(lens)) \/ Link!WindowChanges \/ Link!Ticks
  BY <1>1, <1>2 DEF Link!Types, Link!WindowChanges, Link!Ticks, Link!redialing, Link!history
<1>3. CASE Link!TakeResize \/ Link!TakeColours \/ Link!Suspend
  BY <1>1, <1>3 DEF Link!TakeResize, Link!TakeColours, Link!Suspend, Link!redialing, Link!history
<1>4. CASE Link!SendChunk
  BY <1>1, <1>4 DEF Link!SendChunk, Link!redialing
<1>5. CASE Link!Write \/ Link!WriteControl \/ Link!Lasts \/ Link!Freezes
  BY <1>1, <1>5 DEF Link!Write, Link!WriteControl, Link!Lasts, Link!Freezes, Link!redialing, Link!history
<1>6. CASE Link!TakeTyped
  <2>1. UNCHANGED <<net, attempt, fails, dial>>
    BY <1>6 DEF Link!TakeTyped
  <2>2. net # "up" => dropped' = TRUE /\ lostTyping' = TRUE
    BY <1>6 DEF Link!TakeTyped
  <2> QED
    BY <1>a, <2>1, <2>2 DEF Link!Wait
<1>7. CASE Link!Dialed
  <2>1. net' = "up" /\ attempt' = attempt /\ fails' = fails
    BY <1>7 DEF Link!Dialed, Link!Attempts
  <2> QED
    BY <1>a, <2>1
<1>8. ASSUME NEW n \in Nat, NEW was, Link!Redials(n, was), attempt' \in Nat, fails' = attempt',
             n = attempt' \/ n = 0, was <=> lostTyping'
      PROVE  Redialing'
  <2>1. dial'.wait = Link!Wait(n) /\ dropped' = was
    BY <1>8, <1>a, RedialsOf
  <2>2. dial'.wait \in {0, Link!Wait(fails')}
    BY <1>8, <2>1, WaitInNat
  <2> QED
    BY <1>8, <2>1, <2>2 DEF Link!Wait
<1>9. CASE Link!Lost
  <2>1. Link!Drops \in Nat /\ attempt' = Link!Drops /\ fails' = Link!Drops
    BY <1>9, <1>a DEF Link!Lost, Link!Drops
  <2>2. Link!Redials(Link!Drops, FALSE) /\ ~lostTyping'
    BY <1>9 DEF Link!Lost
  <2> QED
    BY <1>8, <2>1, <2>2
<1>10. CASE Link!Unfreezes
  <2>1. UNCHANGED <<attempt, fails>>
    BY <1>10 DEF Link!Unfreezes
  <2>2. CASE net = "up"
    <3>1. Link!Redials(0, FALSE) /\ ~lostTyping'
      BY <1>10, <2>2 DEF Link!Unfreezes
    <3> QED
      BY <1>8, <1>a, <2>1, <3>1
  <2>3. CASE net # "up"
    BY <1>1, <1>10, <2>1, <2>3 DEF Link!Unfreezes, Link!history
  <2> QED
    BY <2>2, <2>3
<1>11. CASE Link!DialFails
  <2>1. attempt' = attempt + 1 /\ fails' = fails + 1 /\ lostTyping' = lostTyping /\ net = "down"
        /\ Link!Redials(attempt + 1, dropped)
    BY <1>11 DEF Link!DialFails, Link!StillDropped
  <2> QED
    BY <1>8, <1>a, <2>1
<1>12. CASE Link!Over
  <2>1. Link!Redials(attempt, FALSE) /\ ~lostTyping' /\ UNCHANGED <<attempt, fails>>
    BY <1>12 DEF Link!Over
  <2> QED
    BY <1>8, <1>a, <2>1
<1> QED
  BY <1>2, <1>3, <1>4, <1>5, <1>6, <1>7, <1>9, <1>10, <1>11, <1>12 DEF Link!LinkNext

(***************************************************************************)
(* What waits has no hole.                                                 *)
(***************************************************************************)
\* A message that is no chunk queues none, and ends a pause only once nothing waits.
LEMMA SendsNoKey ==
  ASSUME LinkType, NEW m \in Message, m.is # "keys", Link!Send(m)
  PROVE  Keys(queue') = Keys(queue) /\ (paused => paused' \/ Keys(queue') = {})
<1>1. CASE queue' = Append(queue, m) /\ (paused => queue = <<>>)
  <2>1. Keys(queue') = Keys(queue)
    BY <1>1, KeysAppended DEF LinkType
  <2> QED
    BY <1>1, <2>1, NoneOfNothing
<1>2. CASE queue' = queue /\ paused' = TRUE
  BY <1>2
<1> QED
  BY <1>1, <1>2, Sends

\* No step but SendChunk queues a chunk or drops one that counts.
LEMMA OthersQueueNone ==
  ASSUME LinkInv, Link!LinkNext, ~Link!SendChunk
  PROVE  \/ lost' = {} /\ Keys(queue') = {}
         \/ lost' = lost /\ Keys(queue') \subseteq Keys(queue) /\ (paused => paused' \/ Keys(queue') = {})
<1>a. LinkType
  BY DEF LinkInv
<1>1. CASE UNCHANGED <<queue, paused, lost>>
  BY <1>1
<1>2. CASE (\E lens \in Link!Typings : Link!Types(lens)) \/ Link!WindowChanges \/ Link!Ticks
  BY <1>1, <1>2 DEF Link!Types, Link!WindowChanges, Link!Ticks, Link!wire, Link!history
<1>3. CASE Link!TakeTyped \/ Link!WriteControl \/ Link!Lasts \/ Link!Freezes
  BY <1>1, <1>3 DEF Link!TakeTyped, Link!WriteControl, Link!Lasts, Link!Freezes, Link!wire, Link!history
<1>4. CASE Link!TakeResize \/ Link!Suspend
  <2>1. lost' = lost /\ \E redraw \in BOOLEAN : Link!SendSize(window, redraw)
    BY <1>4 DEF Link!TakeResize, Link!Suspend
  <2>2. window \in Nat
    BY <1>a DEF LinkType
  <2>3. UNCHANGED <<queue, paused>> \/ Link!Send(Link!ResizeOf(window))
    BY <1>a, <2>1, <2>2, SizeSent
  <2>4. Link!ResizeOf(window) \in Message /\ Link!ResizeOf(window).is # "keys"
    BY <1>a, <2>2, Made
  <2> QED
    BY <1>1, <1>a, <2>1, <2>3, <2>4, SendsNoKey
<1>5. CASE Link!TakeColours
  <2>1. lost' = lost /\ (UNCHANGED <<queue, paused>> \/ Link!Send(Link!Colours))
    BY <1>5 DEF Link!TakeColours, Link!history
  <2>2. Link!Colours \in Message /\ Link!Colours.is # "keys"
    BY <1>a, Made
  <2> QED
    BY <1>1, <1>a, <2>1, <2>2, SendsNoKey
<1>6. ASSUME NEW n, NEW was, Link!Redials(n, was) PROVE lost' = {} /\ Keys(queue') = {}
  BY <1>6, NoneOfNothing DEF Link!Redials
<1>7. CASE Link!Lost \/ Link!Unfreezes \/ Link!DialFails \/ Link!Over
  BY <1>1, <1>6, <1>7 DEF Link!Lost, Link!Unfreezes, Link!DialFails, Link!Over, Link!wire, Link!history
<1>8. CASE Link!Dialed
  <2>1. lost' = lost /\ queue' = (IF colours THEN <<Link!Colours>> ELSE <<>>) \o <<Link!ResizeOf(size)>>
    BY <1>8 DEF Link!Dialed
  <2>2. Link!ResizeOf(size) \in Message /\ Link!Colours \in Message
        /\ Link!ResizeOf(size).is # "keys" /\ Link!Colours.is # "keys"
    BY <1>a, Made DEF LinkType
  <2>3. queue' \in Seq(Message) /\ \A i \in 1..Len(queue') : queue'[i] \in {Link!Colours, Link!ResizeOf(size)}
    BY <2>1, <2>2
  <2>4. Keys(queue') = {}
    BY <2>2, <2>3 DEF Keys
  <2> QED
    BY <2>1, <2>4
<1>9. CASE Link!Write
  <2>1. queue # <<>> /\ queue' = Tail(queue) /\ UNCHANGED <<paused, lost>>
    BY <1>9 DEF Link!Write, Link!history
  <2>2. Keys(queue') \subseteq Keys(queue)
    BY <1>a, <2>1, KeysTaken DEF LinkType
  <2> QED
    BY <2>1, <2>2
<1> QED
  BY <1>2, <1>3, <1>4, <1>5, <1>7, <1>8, <1>9 DEF Link!LinkNext

\* A chunk sent waits behind all others, or is dropped with what follows it of its read.
LEMMA ChunkSent ==
  ASSUME LinkInv, Link!SendChunk
  PROVE  /\ sending # <<>> /\ UNCHANGED <<chunks, typed>>
         /\ \/ /\ Keys(queue') = Keys(queue) \cup {sending[1]} /\ paused' = FALSE
               /\ paused => Keys(queue) = {}
               /\ sending' = Tail(sending) /\ lost' = lost
            \/ /\ Keys(queue') = Keys(queue) /\ paused' = TRUE
               /\ sending' = <<>> /\ lost' = lost \cup {sending[1].n}
<1>a. LinkType /\ Numbered
  BY DEF LinkInv
<1>1. /\ sending # <<>> /\ Link!Send(Head(sending)) /\ UNCHANGED <<chunks, typed>>
      /\ sending' = Link!LeftAfter(Head(sending))
      /\ lost' = IF Link!HasRoom(Head(sending)) THEN lost ELSE lost \cup {Head(sending).n}
  BY DEF Link!SendChunk, Link!terminal
<1>2. Head(sending) = sending[1] /\ sending[1] \in Message /\ Len(sending) \in Nat \ {0}
  BY <1>a, <1>1, AtFront DEF LinkType
<1>3. sending[1].is = "keys"
  BY <1>a, <1>2 DEF Numbered
<1>4. CASE queue' = Append(queue, sending[1]) /\ paused' = FALSE /\ Link!HasRoom(sending[1]) /\ (paused => queue = <<>>)
  <2>1. Keys(queue') = Keys(queue) \cup {sending[1]}
    BY <1>a, <1>2, <1>3, <1>4, KeysAppended DEF LinkType
  <2> QED
    BY <1>1, <1>2, <1>4, <2>1, NoneOfNothing DEF Link!LeftAfter
<1>5. CASE queue' = queue /\ paused' = TRUE /\ ~Link!HasRoom(sending[1])
  BY <1>1, <1>2, <1>5 DEF Link!LeftAfter
<1> QED
  BY <1>1, <1>2, <1>4, <1>5, <1>a, Sends

LEMMA HolesStep == ASSUME LinkInv, Link!LinkNext PROVE Holes'
<1>a. LinkType /\ Numbered /\ Holes
  BY DEF LinkInv
<1> SUFFICES ASSUME NEW n \in lost'
             PROVE  \/ paused' /\ \A m \in Keys(queue') : m.n < n
                    \/ \A m \in Keys(queue') : n < m.first
  BY DEF Holes
<1>1. CASE ~Link!SendChunk
  BY <1>1, <1>a, OthersQueueNone DEF Holes
<1>2. CASE Link!SendChunk
  <2>1. Len(sending) \in Nat \ {0} /\ 1 \in 1..Len(sending)
    BY <1>2, <1>a, ChunkSent, AtFront DEF LinkType
  <2>2. (\A k \in lost : k < sending[1].first) /\ \A m \in Keys(queue) : m.n < sending[1].n
    BY <1>a, <2>1 DEF Numbered
  <2> QED
    BY <1>2, <1>a, <2>2, ChunkSent DEF Holes
<1> QED
  BY <1>1, <1>2

\* The reads that wait stay in turn as some are typed, taken or dropped.
LEMMA ReadsStep ==
  ASSUME LinkInv, Link!LinkNext
  PROVE  ReadsInTurn' /\ \A n \in Nat : Before(n, typed, chunks) => Before(n, typed', chunks')
<1>a. /\ typed \in Nat /\ chunks \in Seq(Read) /\ Len(chunks) \in Nat /\ ReadsInTurn
      /\ \A k \in 1..Len(chunks) : chunks[k].first \in Nat /\ Len(chunks[k].lens) \in Nat
  BY ReadFields DEF LinkInv, LinkType, Numbered
<1>1. ASSUME NEW d \in {0, 1}, typed' = typed, Len(chunks') \in Nat,
             \A k \in 1..Len(chunks') : k + d \in 1..Len(chunks) /\ chunks'[k] = chunks[k + d]
      PROVE  ReadsInTurn' /\ \A n \in Nat : Before(n, typed, chunks) => Before(n, typed', chunks')
  <2>1. ReadsInTurn'
    <3>1. \A k \in 1..Len(chunks') : chunks'[k].first + Len(chunks'[k].lens) <= typed' + 1
      BY <1>1, <1>a DEF ReadsInTurn
    <3>2. ASSUME NEW k \in 1..Len(chunks'), NEW l \in 1..Len(chunks'), k < l
          PROVE  chunks'[k].first + Len(chunks'[k].lens) <= chunks'[l].first
      <4>1. k + d \in 1..Len(chunks) /\ l + d \in 1..Len(chunks) /\ k + d < l + d
        BY <1>1, <3>2
      <4> QED
        BY <1>1, <1>a, <4>1 DEF ReadsInTurn
    <3> QED
      BY <3>1, <3>2 DEF ReadsInTurn
  <2>2. ASSUME NEW n \in Nat, Before(n, typed, chunks) PROVE Before(n, typed', chunks')
    BY <1>1, <2>2 DEF Before
  <2> QED
    BY <2>1, <2>2
<1>2. CASE UNCHANGED <<typed, chunks>>
  BY <1>a, <1>2 DEF ReadsInTurn, Before
<1>3. ASSUME NEW lens \in Link!Typings, Link!Types(lens)
      PROVE  ReadsInTurn' /\ \A n \in Nat : Before(n, typed, chunks) => Before(n, typed', chunks')
  <2> DEFINE new == [first |-> typed + 1, lens |-> lens, window |-> ticked]
  <2>1. lens \in Seq(Lengths) /\ Len(lens) \in Nat
    BY LensOf
  <2>2. new \in Read /\ new.first = typed + 1 /\ new.lens = lens
    BY <1>a, <2>1 DEF Read, LinkInv, LinkType
  <2>3. typed' = typed + Len(lens) /\ chunks' = Append(chunks, new)
    BY <1>3 DEF Link!Types
  <2> HIDE DEF new
  <2>4. Len(chunks') = Len(chunks) + 1 /\ chunks'[Len(chunks) + 1] = new
        /\ \A k \in 1..Len(chunks) : chunks'[k] = chunks[k]
    BY <1>a, <2>2, <2>3, AtEnd
  <2>5. ReadsInTurn'
    <3>1. \A k \in 1..Len(chunks) : chunks[k].first + Len(chunks[k].lens) <= typed + 1
      BY <1>a DEF ReadsInTurn
    <3>2. \A k \in 1..Len(chunks') : chunks'[k].first + Len(chunks'[k].lens) <= typed' + 1
      <4> TAKE k \in 1..Len(chunks')
      <4>1. CASE k = Len(chunks) + 1
        BY <1>a, <2>1, <2>2, <2>3, <2>4, <4>1
      <4>2. CASE k \in 1..Len(chunks)
        BY <1>a, <2>1, <2>3, <2>4, <3>1, <4>2
      <4> QED
        BY <1>a, <2>4, <4>1, <4>2
    <3>3. ASSUME NEW k \in 1..Len(chunks'), NEW l \in 1..Len(chunks'), k < l
          PROVE  chunks'[k].first + Len(chunks'[k].lens) <= chunks'[l].first
      <4>1. k \in 1..Len(chunks)
        BY <1>a, <2>4, <3>3
      <4>2. CASE l = Len(chunks) + 1
        BY <2>2, <2>4, <3>1, <4>1, <4>2
      <4>3. CASE l \in 1..Len(chunks)
        BY <1>a, <2>4, <3>3, <4>1, <4>3 DEF ReadsInTurn
      <4> QED
        BY <1>a, <2>4, <4>2, <4>3
    <3> QED
      BY <3>2, <3>3 DEF ReadsInTurn
  <2>6. ASSUME NEW n \in Nat, Before(n, typed, chunks) PROVE Before(n, typed', chunks')
    BY <1>a, <2>1, <2>2, <2>3, <2>4, <2>6 DEF Before
  <2> QED
    BY <2>5, <2>6
<1>4. CASE typed' = typed /\ chunks # <<>> /\ chunks' = Tail(chunks)
  <2>1. Len(chunks') = Len(chunks) - 1 /\ Len(chunks) \in Nat \ {0}
        /\ \A k \in 1..Len(chunks') : chunks'[k] = chunks[k + 1]
    BY <1>4, <1>a, AtFront
  <2> QED
    BY <1>1, <1>4, <2>1
<1>5. CASE Link!TakeTyped
  BY <1>4, <1>5 DEF Link!TakeTyped
<1>6. CASE Link!Suspend
  BY <1>2, <1>4, <1>6 DEF Link!Suspend
<1>7. CASE Link!Over
  <2>1. typed' = typed /\ chunks' = <<>> /\ Len(chunks') = 0
    BY <1>7 DEF Link!Over
  <2> QED
    BY <1>1, <2>1
<1>8. CASE Link!WindowChanges \/ Link!Ticks \/ Link!TakeResize \/ Link!SendChunk \/ Link!TakeColours
  BY <1>2, <1>8 DEF Link!WindowChanges, Link!Ticks, Link!TakeResize, Link!SendChunk, Link!TakeColours, Link!terminal
<1>9. CASE Link!Lost \/ Link!Unfreezes \/ Link!DialFails \/ Link!Dialed \/ Link!Write \/ Link!WriteControl
           \/ Link!Lasts \/ Link!Freezes
  BY <1>2, <1>9 DEF Link!Lost, Link!Unfreezes, Link!DialFails, Link!Dialed, Link!Write, Link!WriteControl,
                    Link!Lasts, Link!Freezes, Link!terminal
<1> QED
  BY <1>3, <1>5, <1>6, <1>7, <1>8, <1>9 DEF Link!LinkNext

\* Only a chunk sent and a read taken change what the loop is sending.
LEMMA SendingKept ==
  ASSUME LinkInv, Link!LinkNext, ~Link!SendChunk, ~Link!TakeTyped
  PROVE  sending' = sending
  BY DEF Link!LinkNext, Link!Types, Link!WindowChanges, Link!Ticks, Link!TakeResize, Link!TakeColours,
         Link!Suspend, Link!Lost, Link!Unfreezes, Link!DialFails, Link!Dialed, Link!Over, Link!Write,
         Link!WriteControl, Link!Lasts, Link!Freezes

LEMMA NumberedStep == ASSUME LinkInv, Link!LinkNext PROVE Numbered'
<1>a. LinkType /\ Numbered /\ LinkType' /\ ReadsInTurn' /\ \A n \in Nat : Before(n, typed, chunks) => Before(n, typed', chunks')
  BY LinkTypeStep, ReadsStep DEF LinkInv
<1>b. /\ \A m \in Keys(queue) : m.n \in Nat /\ m.first \in Nat /\ m.first <= m.n /\ Before(m.n, typed, chunks)
      /\ lost \subseteq Nat /\ Len(sending) \in Nat
      /\ \A k \in 1..Len(sending) : sending[k].n \in Nat /\ sending[k].first \in Nat
  <2>1. queue \in Seq(Message) /\ sending \in Seq(Message) /\ lost \subseteq Nat /\ chunks \in Seq(Read)
    BY <1>a DEF LinkType
  <2>2. \A m \in Keys(queue) : m.n \in Nat /\ m.first \in Nat
    BY <2>1, MessageFields DEF Keys
  <2> QED
    BY <1>a, <2>1, <2>2, MessageFields DEF Numbered
<1>1. ASSUME \A k \in 1..Len(sending') :
                /\ sending'[k].is = "keys" /\ sending'[k].first <= sending'[k].n /\ Before(sending'[k].n, typed', chunks')
                /\ \A n \in lost' : n < sending'[k].first
                /\ \A m \in Keys(queue') : m.n < sending'[k].n,
             \A k, l \in 1..Len(sending') : k < l => sending'[k].n < sending'[l].n,
             \A m \in Keys(queue') : m.first <= m.n /\ Before(m.n, typed', chunks'),
             \A n \in lost' : Before(n, typed', chunks')
      PROVE  Numbered'
  <2>1. Keys(queue)' = Keys(queue')
    BY DEF Keys
  <2> QED
    BY <1>1, <1>a, <2>1 DEF Numbered, Before
<1>2. CASE ~Link!SendChunk /\ ~Link!TakeTyped
  <2>1. sending' = sending /\ Keys(queue') \subseteq Keys(queue) /\ lost' \subseteq lost
    BY <1>2, SendingKept, OthersQueueNone
  <2> QED
    BY <1>1, <1>a, <1>b, <2>1 DEF Numbered
<1>3. CASE Link!SendChunk
  <2>a. 1 \in 1..Len(sending) /\ Len(sending) \in Nat \ {0}
    BY <1>3, <1>a, ChunkSent, AtFront DEF LinkType
  <2>1. CASE Keys(queue') = Keys(queue) \cup {sending[1]} /\ sending' = Tail(sending) /\ lost' = lost
    <3>1. Len(sending') = Len(sending) - 1 /\ \A k \in 1..Len(sending') : sending'[k] = sending[k + 1]
      BY <1>3, <1>a, <2>1, ChunkSent, AtFront DEF LinkType
    <3>2. \A k \in 1..Len(sending') : k + 1 \in 1..Len(sending) /\ 1 < k + 1
      BY <2>a, <3>1
    <3> QED
      BY <1>1, <1>a, <1>b, <2>1, <2>a, <3>1, <3>2 DEF Numbered
  <2>2. CASE Keys(queue') = Keys(queue) /\ sending' = <<>> /\ lost' = lost \cup {sending[1].n}
    <3>1. 1..Len(sending') = {}
      BY <2>2
    <3> QED
      BY <1>1, <1>a, <1>b, <2>2, <2>a, <3>1 DEF Numbered
  <2> QED
    BY <1>3, <2>1, <2>2, ChunkSent
<1>4. CASE Link!TakeTyped
  <2> DEFINE r == Head(chunks)
  <2>1. /\ chunks # <<>> /\ chunks' = Tail(chunks) /\ sending = <<>> /\ sending' \in {<<>>, Link!KeysOf(r)}
        /\ UNCHANGED <<typed, queue, lost>>
    BY <1>4 DEF Link!TakeTyped, Link!Other, Link!Turn, Link!wire
  <2>2. /\ Len(chunks) \in Nat \ {0} /\ r = chunks[1] /\ r \in Read /\ Len(chunks') = Len(chunks) - 1
        /\ \A k \in 1..Len(chunks') : chunks'[k] = chunks[k + 1]
    BY <1>a, <2>1, AtFront DEF LinkType
  <2>3. r.first \in Nat /\ Len(r.lens) \in Nat
    BY <2>2 DEF Read
  <2>4. /\ r.first + Len(r.lens) <= typed + 1
        /\ \A l \in 1..Len(chunks') : r.first + Len(r.lens) <= chunks'[l].first /\ chunks'[l].first \in Nat
    <3>1. \A l \in 1..Len(chunks') : l + 1 \in 1..Len(chunks) /\ 1 \in 1..Len(chunks) /\ 1 < l + 1
      BY <2>2
    <3>2. \A l \in 1..Len(chunks) : chunks[l].first \in Nat
      BY <1>a, ReadFields DEF LinkType
    <3>3. ReadsInTurn
      BY <1>a DEF Numbered
    <3>4. r.first + Len(r.lens) <= typed + 1
      BY <2>2, <3>3 DEF ReadsInTurn
    <3>5. ASSUME NEW l \in 1..Len(chunks')
          PROVE  r.first + Len(r.lens) <= chunks'[l].first /\ chunks'[l].first \in Nat
      <4>1. chunks'[l] = chunks[l + 1] /\ r = chunks[1]
        BY <2>2
      <4> HIDE DEF r
      <4> QED
        BY <3>1, <3>2, <3>3, <4>1 DEF ReadsInTurn
    <3> QED
      BY <3>4, <3>5
  <2>5. (\A m \in Keys(queue) : m.n < r.first) /\ \A n \in lost : n < r.first
    <3>1. 1 \in 1..Len(chunks)
      BY <2>2
    <3>2. \A n : Before(n, typed, chunks) => n < r.first
      BY <2>2, <3>1 DEF Before
    <3>3. \A n \in lost : Before(n, typed, chunks)
      BY <1>a DEF Numbered
    <3> QED
      BY <1>b, <3>2, <3>3
  <2>6. CASE sending' = <<>>
    <3>1. 1..Len(sending') = {}
      BY <2>6
    <3> QED
      BY <1>1, <1>a, <1>b, <2>1, <3>1 DEF Numbered
  <2>7. CASE sending' = Link!KeysOf(r)
    <3>1. /\ Len(sending') = Len(r.lens)
          /\ \A k \in 1..Len(sending') : /\ sending'[k].is = "keys" /\ sending'[k].n = r.first + k - 1
                                         /\ sending'[k].first = r.first
      BY <2>2, <2>7, KeysOfRead
    <3> HIDE DEF r
    <3>2. \A k \in 1..Len(sending') : sending'[k].n \in Nat /\ sending'[k].n < r.first + Len(r.lens)
                                     /\ r.first <= sending'[k].n
      BY <2>3, <3>1
    <3>3. ASSUME NEW k \in 1..Len(sending') PROVE Before(sending'[k].n, typed', chunks')
      <4>1. sending'[k].n <= typed'
        <5>1. sending'[k].n < r.first + Len(r.lens) /\ sending'[k].n \in Nat /\ typed' = typed /\ typed \in Nat
          BY <1>a, <2>1, <3>2 DEF LinkType
        <5> QED
          BY <2>3, <2>4, <5>1
      <4>2. \A l \in 1..Len(chunks') : sending'[k].n < chunks'[l].first
        BY <2>3, <2>4, <3>2
      <4> QED
        BY <4>1, <4>2 DEF Before
    <3>4. \A k, l \in 1..Len(sending') : k < l => sending'[k].n < sending'[l].n
      BY <2>3, <3>1
    <3>5. \A k \in 1..Len(sending') : \A m \in Keys(queue') : m.n < sending'[k].n
      BY <1>b, <2>1, <2>3, <2>5, <3>2
    <3> QED
      BY <1>1, <1>a, <1>b, <2>1, <2>5, <3>1, <3>2, <3>3, <3>4, <3>5 DEF Numbered
  <2> QED
    BY <2>1, <2>6, <2>7
<1> QED
  BY <1>2, <1>3, <1>4

(***************************************************************************)
(* What is typed after a resize reaches the server behind it.              *)
(***************************************************************************)
LEMMA SizesInNat == ASSUME LinkType PROVE \A r \in Sizes : r.n \in Nat /\ r.size \in Nat
<1>1. queue \in Seq(Message) /\ control \in Seq(Message) /\ told.n \in Nat /\ told.size \in Nat
  BY DEF LinkType
<1>2. ASSUME NEW q \in Seq(Message), NEW r \in Resizes(q) PROVE r.n \in Nat /\ r.size \in Nat
  <2>1. PICK i \in 1..Len(q) : r = [n |-> q[i].n, size |-> q[i].at]
    BY <1>2 DEF Resizes
  <2> QED
    BY <2>1, MessageFields
<1> QED
  BY <1>1, <1>2 DEF Sizes

LEMMA GrownLess ==
  ASSUME NEW S, NEW T \in SUBSET S, NEW n \in Nat, NEW w \in Nat, NEW v \in Nat, w <= v,
         Grown(S, n, w), \A r \in S : r.n \in Nat /\ r.size \in Nat
  PROVE  Grown(T, n, v)
  BY DEF Grown

LEMMA GrownMore ==
  ASSUME NEW S, NEW n \in Nat, NEW w \in Nat, NEW v \in Nat, w <= v, Grown(S, n, w),
         \A r \in S : r.n \in Nat /\ r.size \in Nat,
         NEW T \in SUBSET (S \cup {[n |-> n + 1, size |-> v]})
  PROVE  Grown(T, n + 1, v)
<1>1. ASSUME NEW r \in T PROVE r.n <= n + 1 /\ r.size <= v /\ (r \in S \/ (r.n = n + 1 /\ r.size = v))
  BY <1>1 DEF Grown
<1>2. ASSUME NEW r \in T, NEW s \in T, r.n <= s.n PROVE r.size <= s.size
  BY <1>1, <1>2 DEF Grown
<1> QED
  BY <1>1, <1>2 DEF Grown

\* The server that takes a message knows a size as new as the one it knew and the one it took.
LEMMA TookOf ==
  ASSUME LinkInv, NEW m \in Message, m.is = "resize" => [n |-> m.n, size |-> m.at] \in Sizes
  PROVE  /\ Link!Took(m) \in Sizes /\ Link!Took(m).size >= told.size
         /\ m.is = "resize" => Link!Took(m).size >= m.at
<1>1. /\ told \in Sizes /\ told.n \in Nat /\ told.size \in Nat /\ m.n \in Nat /\ m.at \in Nat
      /\ \A r, s \in Sizes : r.n <= s.n => r.size <= s.size
  BY DEF LinkInv, LinkType, Resized, Grown, Sizes, Message
<1>2. CASE m.is = "resize" /\ m.n > told.n
  <2>1. Link!Took(m) = [n |-> m.n, size |-> m.at]
    BY <1>2 DEF Link!Took
  <2> QED
    BY <1>1, <1>2, <2>1
<1>3. CASE ~(m.is = "resize" /\ m.n > told.n)
  <2>1. Link!Took(m) = told
    BY <1>3 DEF Link!Took
  <2>2. m.is = "resize" => m.n <= told.n
    BY <1>1, <1>3
  <2> QED
    BY <1>1, <2>1, <2>2
<1> QED
  BY <1>2, <1>3

\* What a send adds to the sizes.
LEMMA SendsSize ==
  ASSUME LinkType, NEW m \in Message, Link!Send(m)
  PROVE  Resizes(queue')
           \subseteq Resizes(queue) \cup (IF m.is = "resize" THEN {[n |-> m.n, size |-> m.at]} ELSE {})
<1>1. queue \in Seq(Message)
  BY DEF LinkType
<1>2. CASE queue' = Append(queue, m)
  BY <1>1, <1>2, ResizesAppended
<1>3. CASE queue' = queue
  BY <1>3
<1> QED
  BY <1>2, <1>3, Sends

\* The sizes after each step, but for those of a send, a redial and a dial, are of those before it.
LEMMA WritesSize ==
  ASSUME LinkInv, Link!Write \/ Link!WriteControl
  PROVE  Resizes(queue') \cup Resizes(control') \cup {told'} \subseteq Sizes /\ told'.size >= told.size
<1>1. queue \in Seq(Message) /\ control \in Seq(Message) /\ LinkType
  BY DEF LinkInv, LinkType
<1>2. CASE Link!Write
  <2>1. queue # <<>> /\ queue' = Tail(queue) /\ told' = Link!Took(Head(queue)) /\ control' = control
    BY <1>2 DEF Link!Write
  <2>2. Head(queue) \in Message /\ Resizes(queue') \subseteq Resizes(queue)
        /\ (Head(queue).is = "resize" => [n |-> Head(queue).n, size |-> Head(queue).at] \in Resizes(queue))
    BY <1>1, <2>1, AtFront, ResizesTaken
  <2>3. told' \in Sizes /\ told'.size >= told.size
    BY <2>1, <2>2, TookOf DEF Sizes
  <2> QED
    BY <2>1, <2>2, <2>3 DEF Sizes
<1>3. CASE Link!WriteControl
  <2>1. control # <<>> /\ control' = Tail(control) /\ told' = Link!Took(Head(control)) /\ queue' = queue
    BY <1>3 DEF Link!WriteControl
  <2>2. Head(control) \in Message /\ Resizes(control') \subseteq Resizes(control)
        /\ (Head(control).is = "resize" => [n |-> Head(control).n, size |-> Head(control).at] \in Resizes(control))
    BY <1>1, <2>1, AtFront, ResizesTaken
  <2>3. told' \in Sizes /\ told'.size >= told.size
    BY <2>1, <2>2, TookOf DEF Sizes
  <2> QED
    BY <2>1, <2>2, <2>3 DEF Sizes
<1> QED
  BY <1>2, <1>3

LEMMA WindowStep == ASSUME LinkInv, Link!LinkNext PROVE WindowOK'
<1>a. /\ LinkType /\ WindowOK /\ LinkType'
      /\ ticked \in Nat /\ window \in Nat /\ size \in Nat /\ unqueued \in Nat /\ chunks \in Seq(Read)
  BY LinkTypeStep DEF LinkInv, LinkType, Resized
<1>1. CASE UNCHANGED <<ticked, window, size, tick, chunks>> /\ unqueued' \in {unqueued, 0}
  BY <1>1, <1>a DEF WindowOK
<1>2. ASSUME chunks # <<>>, chunks' = Tail(chunks), ticked' = ticked
      PROVE  \A k \in 1..Len(chunks') : chunks'[k].window <= ticked'
  <2>1. Len(chunks') = Len(chunks) - 1 /\ Len(chunks) \in Nat \ {0}
        /\ \A k \in 1..Len(chunks') : chunks'[k] = chunks[k + 1]
    BY <1>2, <1>a, AtFront
  <2>2. \A k \in 1..Len(chunks') : k + 1 \in 1..Len(chunks)
    BY <2>1
  <2> QED
    BY <1>2, <1>a, <2>1, <2>2 DEF WindowOK
<1>3. ASSUME NEW lens \in Link!Typings, Link!Types(lens) PROVE WindowOK'
  <2> DEFINE new == [first |-> typed + 1, lens |-> lens, window |-> ticked]
  <2>a. typed + 1 \in Nat
    BY <1>a DEF LinkType
  <2>b. lens \in Seq(Lengths)
    BY LensOf
  <2>1. new \in Read /\ new.window = ticked
    BY <1>a, <2>a, <2>b DEF Read
  <2>2. chunks' = Append(chunks, new) /\ UNCHANGED <<ticked, window, size, tick, unqueued>>
    BY <1>3 DEF Link!Types, Link!history, Link!missed
  <2> HIDE DEF new
  <2>3. Len(chunks') = Len(chunks) + 1 /\ chunks'[Len(chunks) + 1] = new /\ Len(chunks) \in Nat
        /\ \A k \in 1..Len(chunks) : chunks'[k] = chunks[k]
    BY <1>a, <2>1, <2>2, AtEnd
  <2>4. \A k \in 1..Len(chunks') : chunks'[k].window <= ticked
    BY <1>a, <2>1, <2>3 DEF WindowOK
  <2> QED
    BY <1>a, <2>2, <2>4 DEF WindowOK
<1>4. CASE Link!WindowChanges
  BY <1>4, <1>a DEF Link!WindowChanges, Link!history, Link!missed, WindowOK
<1>5. CASE Link!Ticks
  <2>1. ticked' = window /\ tick' = TRUE /\ UNCHANGED <<window, size, unqueued, chunks>>
    BY <1>5 DEF Link!Ticks, Link!history, Link!missed
  <2>2. \A k \in 1..Len(chunks) : chunks[k].window \in Nat
    BY <1>a, ReadFields
  <2>3. \A k \in 1..Len(chunks') : chunks'[k].window <= ticked'
    BY <1>a, <2>1, <2>2 DEF WindowOK
  <2> QED
    BY <1>a, <2>1, <2>3 DEF WindowOK
<1>6. CASE Link!TakeResize \/ Link!Suspend
  <2>1. /\ size' = window /\ UNCHANGED <<window, ticked>>
        /\ \E redraw \in BOOLEAN : Link!SendSize(window, redraw)
        /\ chunks' = chunks \/ (chunks # <<>> /\ chunks' = Tail(chunks))
    BY <1>6 DEF Link!TakeResize, Link!Suspend
  <2>2. unqueued' \in {unqueued, window}
    BY <1>a, <2>1, SizeSent
  <2>3. \A k \in 1..Len(chunks') : chunks'[k].window <= ticked'
    BY <1>2, <1>a, <2>1 DEF WindowOK
  <2> QED
    BY <1>a, <2>1, <2>2, <2>3 DEF WindowOK
<1>7. CASE Link!TakeTyped
  <2>1. chunks # <<>> /\ chunks' = Tail(chunks) /\ UNCHANGED <<ticked, window, size, tick, unqueued>>
    BY <1>7 DEF Link!TakeTyped, Link!missed
  <2>2. \A k \in 1..Len(chunks') : chunks'[k].window <= ticked'
    BY <1>2, <2>1
  <2> QED
    BY <1>a, <2>1, <2>2 DEF WindowOK
<1>8. CASE Link!Over
  <2>1. chunks' = <<>> /\ Len(chunks') = 0 /\ unqueued' = 0 /\ UNCHANGED <<ticked, window, size, tick>>
    BY <1>8 DEF Link!Over, Link!Redials
  <2> QED
    BY <1>a, <2>1 DEF WindowOK
<1>9. CASE Link!SendChunk \/ Link!TakeColours \/ Link!Write \/ Link!WriteControl \/ Link!Lasts \/ Link!Freezes
  BY <1>1, <1>9 DEF Link!SendChunk, Link!TakeColours, Link!Write, Link!WriteControl, Link!Lasts, Link!Freezes,
                    Link!terminal, Link!history, Link!missed
<1>10. CASE Link!Lost \/ Link!Unfreezes \/ Link!DialFails \/ Link!Dialed
  BY <1>1, <1>10 DEF Link!Lost, Link!Unfreezes, Link!DialFails, Link!Dialed, Link!Redials,
                     Link!terminal, Link!history, Link!missed
<1> QED
  BY <1>3, <1>4, <1>5, <1>6, <1>7, <1>8, <1>9, <1>10 DEF Link!LinkNext

LEMMA ResizedStep == ASSUME LinkInv, Link!LinkNext PROVE Resized'
<1>a. /\ LinkType /\ Resized /\ WindowOK' /\ size \in Nat /\ resized \in Nat /\ window \in Nat
      /\ \A r \in Sizes : r.n \in Nat /\ r.size \in Nat
  BY WindowStep, SizesInNat DEF LinkInv, LinkType
<1> DEFINE After == Resizes(queue') \cup Resizes(control') \cup {told'}
<1>b. Sizes' = After
  BY DEF Sizes, Resizes
<1> HIDE DEF After
<1>1. ASSUME After \subseteq Sizes, UNCHANGED <<resized, net, dial>>, size' \in Nat, size <= size'
      PROVE  Resized'
  <2>1. Grown(Sizes, resized, size)
    BY <1>a DEF Resized
  <2>2. Grown(After, resized, size')
    BY <1>1, <1>a, <2>1, GrownLess
  <2>3. net = "down" => resized = 0 /\ dial.size <= size'
    BY <1>1, <1>a DEF Resized, LinkType
  <2> QED
    BY <1>1, <1>a, <1>b, <2>2, <2>3 DEF Resized
<1>2. CASE UNCHANGED <<queue, control, told, resized, net, dial, size>>
  <2>1. After = Sizes
    BY <1>2 DEF After, Sizes
  <2> QED
    BY <1>1, <1>2, <1>a, <2>1
<1>3. CASE (\E lens \in Link!Typings : Link!Types(lens)) \/ Link!WindowChanges \/ Link!Ticks
  BY <1>2, <1>3 DEF Link!Types, Link!WindowChanges, Link!Ticks, Link!redialing, Link!wire
<1>4. CASE Link!TakeTyped \/ Link!Lasts \/ Link!Freezes
  BY <1>2, <1>4 DEF Link!TakeTyped, Link!Lasts, Link!Freezes, Link!redialing, Link!wire
<1>5. CASE Link!TakeResize \/ Link!Suspend
  <2>1. /\ size' = window /\ UNCHANGED <<net, dial, told>>
        /\ \E redraw \in BOOLEAN : Link!SendSize(window, redraw)
    BY <1>5 DEF Link!TakeResize, Link!Suspend, Link!redialing
  <2>2. size <= window
    BY <1>a DEF Resized, WindowOK
  <2>3. CASE UNCHANGED <<resized, queue, control>>
    <3>1. After = Sizes
      BY <2>1, <2>3 DEF After, Sizes
    <3> QED
      BY <1>1, <1>a, <2>1, <2>2, <2>3, <3>1
  <2>4. CASE /\ net = "up" /\ resized' = resized + 1 /\ Link!Send(Link!ResizeOf(window))
             /\ Resizes(control') \subseteq Resizes(control) \cup {[n |-> resized + 1, size |-> window]}
    <3>1. Resizes(queue') \subseteq Resizes(queue) \cup {[n |-> resized + 1, size |-> window]}
      BY <1>a, <2>4, Made, SendsSize
    <3>2. After \subseteq Sizes \cup {[n |-> resized + 1, size |-> window]}
      BY <2>1, <2>4, <3>1 DEF After, Sizes
    <3>3. Grown(After, resized + 1, window)
      BY <1>a, <2>2, <3>2, GrownMore DEF Resized
    <3> QED
      BY <1>a, <1>b, <2>1, <2>4, <3>3 DEF Resized
  <2> QED
    BY <1>a, <2>1, <2>3, <2>4, SizeSent
<1>6. CASE Link!SendChunk \/ Link!TakeColours
  <2>1. UNCHANGED <<control, told, resized, net, dial, size>>
    BY <1>6 DEF Link!SendChunk, Link!TakeColours, Link!redialing
  <2>2. CASE UNCHANGED queue
    BY <1>2, <2>1, <2>2
  <2>3. ASSUME NEW m \in Message, m.is # "resize", Link!Send(m) PROVE Resized'
    <3>1. After \subseteq Sizes
      BY <1>a, <2>1, <2>3, SendsSize DEF After, Sizes
    <3> QED
      BY <1>1, <1>a, <2>1, <3>1
  <2>4. CASE Link!SendChunk
    <3>1. sending # <<>> /\ Link!Send(Head(sending))
      BY <2>4 DEF Link!SendChunk
    <3>2. Head(sending) \in Message /\ Head(sending) = sending[1] /\ 1 \in 1..Len(sending)
      BY <1>a, <3>1, AtFront DEF LinkType
    <3>3. Head(sending).is = "keys"
      BY <3>2 DEF LinkInv, Numbered
    <3> QED
      BY <2>3, <3>1, <3>2, <3>3
  <2>5. CASE Link!TakeColours
    <3>1. UNCHANGED queue \/ Link!Send(Link!Colours)
      BY <2>5 DEF Link!TakeColours
    <3>2. Link!Colours \in Message /\ Link!Colours.is # "resize"
      BY <1>a, Made
    <3> QED
      BY <2>2, <2>3, <3>1, <3>2
  <2> QED
    BY <1>6, <2>4, <2>5
<1>7. CASE Link!Write \/ Link!WriteControl
  <2>1. UNCHANGED <<resized, net, dial, size>>
    BY <1>7 DEF Link!Write, Link!WriteControl, Link!redialing
  <2>2. After \subseteq Sizes
    BY <1>7, WritesSize DEF After
  <2> QED
    BY <1>1, <1>a, <2>1, <2>2
<1>8. ASSUME NEW n \in Nat, NEW was, Link!Redials(n, was), size' = size PROVE Resized'
  <2>1. /\ dial' = [wait |-> Link!Wait(n), size |-> size] /\ queue' = <<>> /\ control' = <<>>
        /\ told' = [n |-> 0, size |-> 0] /\ resized' = 0
    BY <1>8, <1>a, RedialsOf
  <2>2. After = {[n |-> 0, size |-> 0]}
    BY <2>1, NoneOfNothing DEF After
  <2>3. Grown(After, 0, size)
    BY <1>a, <2>2 DEF Grown
  <2> QED
    BY <1>8, <1>a, <1>b, <2>1, <2>3 DEF Resized
<1>9. CASE Link!Lost \/ Link!Unfreezes \/ Link!DialFails \/ Link!Over
  <2>1. attempt \in Nat /\ attempt + 1 \in Nat /\ Link!Drops \in Nat
    BY DEF LinkInv, Redialing, Link!Drops
  <2>2. size' = size
    BY <1>9 DEF Link!Lost, Link!Unfreezes, Link!DialFails, Link!Over
  <2>3. \/ \E n \in Nat : \E was : Link!Redials(n, was)
        \/ UNCHANGED <<net, dial, queue, control, told, resized>>
    BY <1>9, <2>1 DEF Link!Lost, Link!Unfreezes, Link!DialFails, Link!Over, Link!wire
  <2> QED
    BY <1>2, <1>8, <2>2, <2>3
<1>10. CASE Link!Dialed
  <2>1. /\ net = "down" /\ net' = "up" /\ resized' = 1 /\ size' = size
        /\ queue' = (IF colours THEN <<Link!Colours>> ELSE <<>>) \o <<Link!ResizeOf(size)>>
        /\ control' = <<Link!ResizeOf(size)>> /\ told' = [n |-> 0, size |-> dial.size]
    BY <1>10 DEF Link!Dialed
  <2>2. resized = 0 /\ dial.size <= size /\ dial.size \in Nat
    BY <1>a, <2>1 DEF Resized, LinkType
  <2>3. /\ Link!ResizeOf(size) \in Message /\ Link!Colours \in Message /\ Link!Colours.is # "resize"
        /\ Link!ResizeOf(size).n = 1 /\ Link!ResizeOf(size).at = size
    BY <1>a, <2>2, Made
  <2>4. ASSUME NEW q, q = control' \/ q = queue' PROVE Resizes(q) \subseteq {[n |-> 1, size |-> size]}
    <3>1. \A i \in 1..Len(q) : q[i] \in {Link!Colours, Link!ResizeOf(size)}
      BY <2>1, <2>3, <2>4
    <3> QED
      BY <2>3, <3>1 DEF Resizes
  <2>5. After \subseteq {[n |-> 1, size |-> size], [n |-> 0, size |-> dial.size]}
    BY <2>1, <2>4 DEF After
  <2>6. Grown(After, 1, size)
    <3>1. \A r \in After : (r.n = 1 /\ r.size = size) \/ (r.n = 0 /\ r.size = dial.size)
      BY <2>5
    <3> QED
      BY <1>a, <2>2, <3>1 DEF Grown
  <2> QED
    BY <1>a, <1>b, <2>1, <2>6 DEF Resized
<1> QED
  BY <1>3, <1>4, <1>5, <1>6, <1>7, <1>9, <1>10 DEF Link!LinkNext

LEMMA ReachesOn ==
  ASSUME NEW a \in Nat, NEW n \in Nat, NEW k \in Nat, n <= k, NEW q, NEW r,
         NEW w \in Nat, NEW v \in Nat, w <= v, NEW u \in Nat, NEW x \in Nat, u <= x,
         \A j \in 1..(n - 1) : r[j] = q[j],
         Reaches(a, n, q, w, u)
  PROVE  Reaches(a, k, r, v, x)
<1>1. CASE w >= a \/ u >= a
  BY <1>1 DEF Reaches
<1>2. ASSUME NEW j \in 1..(n - 1), q[j].is = "resize", q[j].at >= a PROVE Reaches(a, k, r, v, x)
  <2>1. j \in 1..(k - 1) /\ r[j] = q[j]
    OBVIOUS
  <2> QED
    BY <1>2, <2>1 DEF Reaches
<1> QED
  BY <1>1, <1>2 DEF Reaches

LEMMA ReachesTaken ==
  ASSUME NEW q \in Seq(Message), q # <<>>, NEW a \in Nat, NEW n \in 1..(Len(q) + 1),
         NEW w \in Nat, NEW v \in Nat, w <= v, NEW u \in Nat,
         Head(q).is = "resize" => v >= Head(q).at,
         Reaches(a, n, q, w, u)
  PROVE  Reaches(a, n - 1, Tail(q), v, u)
<1>1. /\ Len(Tail(q)) = Len(q) - 1 /\ Len(q) \in Nat \ {0} /\ Head(q) = q[1]
      /\ \A j \in 1..Len(Tail(q)) : Tail(q)[j] = q[j + 1]
  BY AtFront
<1>2. CASE w >= a \/ u >= a
  BY <1>2 DEF Reaches
<1>3. ASSUME NEW j \in 1..(n - 1), q[j].is = "resize", q[j].at >= a
      PROVE  Reaches(a, n - 1, Tail(q), v, u)
  <2>a. j \in 1..Len(q)
    BY <1>1
  <2>b. q[j].at \in Nat
    BY <2>a, MessageFields
  <2>1. CASE j = 1
    BY <1>1, <1>3, <2>1, <2>b DEF Reaches
  <2>2. CASE j # 1
    <3>1. j - 1 \in 1..((n - 1) - 1) /\ j - 1 \in 1..Len(Tail(q)) /\ (j - 1) + 1 = j
      BY <1>1, <2>2
    <3>2. Tail(q)[j - 1] = q[j]
      BY <1>1, <3>1
    <3> QED
      BY <1>3, <3>1, <3>2 DEF Reaches
  <2> QED
    BY <2>1, <2>2
<1> QED
  BY <1>2, <1>3 DEF Reaches

\* Behind what waits a message finds all that a message there would.
LEMMA ReachesSent ==
  ASSUME LinkInv, NEW m \in Message, Link!Send(m), told' = told, unqueued' \in Nat, unqueued <= unqueued',
         m.is = "keys" => Reaches(m.at, Len(queue) + 1, queue, told.size, unqueued)
  PROVE  /\ \A i \in 1..Len(queue') : queue'[i].is = "keys" =>
                Reaches(queue'[i].at, i, queue', told'.size, unqueued')
         /\ \A a \in Nat : Reaches(a, Len(queue) + 1, queue, told.size, unqueued) =>
                Reaches(a, Len(queue') + 1, queue', told'.size, unqueued')
<1>c. m.at \in Nat
  BY DEF Message
<1>a. /\ LinkType /\ queue \in Seq(Message) /\ Len(queue) \in Nat /\ told.size \in Nat /\ unqueued \in Nat
      /\ told'.size = told.size /\ told.size <= told.size
      /\ \A i \in 1..Len(queue) : queue[i].is = "keys" => Reaches(queue[i].at, i, queue, told.size, unqueued)
  BY DEF LinkInv, LinkType, Follows
<1>b. \A i \in 1..Len(queue) : queue[i].at \in Nat
  BY <1>a, MessageFields
<1>1. CASE queue' = queue
  <2>1. ASSUME NEW a \in Nat, NEW n \in Nat, Reaches(a, n, queue, told.size, unqueued)
        PROVE  Reaches(a, n, queue', told'.size, unqueued')
    <3>1. n <= n /\ \A j \in 1..(n - 1) : queue'[j] = queue[j]
      BY <1>1
    <3>2. Reaches(a, n, queue', told.size, unqueued')
      BY <1>a, <2>1, <3>1, ReachesOn
    <3> QED
      BY <1>a, <3>2
  <2> QED
    BY <1>1, <1>a, <1>b, <2>1
<1>2. CASE queue' = Append(queue, m)
  <2>1. /\ Len(queue') = Len(queue) + 1 /\ queue'[Len(queue) + 1] = m
        /\ \A i \in 1..Len(queue) : queue'[i] = queue[i]
    BY <1>2, <1>a, AtEnd
  <2>2. ASSUME NEW a \in Nat, NEW n \in 1..(Len(queue) + 1), NEW k \in Nat, n <= k,
               Reaches(a, n, queue, told.size, unqueued)
        PROVE  Reaches(a, k, queue', told'.size, unqueued')
    <3>1. n \in Nat /\ \A j \in 1..(n - 1) : queue'[j] = queue[j]
      BY <1>a, <2>1
    <3>2. Reaches(a, k, queue', told.size, unqueued')
      BY <1>a, <2>2, <3>1, ReachesOn
    <3> QED
      BY <1>a, <3>2
  <2>3. ASSUME NEW i \in 1..Len(queue'), queue'[i].is = "keys"
        PROVE  Reaches(queue'[i].at, i, queue', told'.size, unqueued')
    <3>1. CASE i \in 1..Len(queue)
      BY <1>a, <1>b, <2>1, <2>2, <2>3, <3>1
    <3>2. CASE i = Len(queue) + 1
      BY <1>a, <1>c, <2>1, <2>2, <2>3, <3>2
    <3> QED
      BY <1>a, <2>1, <3>1, <3>2
  <2>4. ASSUME NEW a \in Nat, Reaches(a, Len(queue) + 1, queue, told.size, unqueued)
        PROVE  Reaches(a, Len(queue') + 1, queue', told'.size, unqueued')
    BY <1>a, <2>1, <2>2, <2>4
  <2> QED
    BY <2>3, <2>4
<1> QED
  BY <1>1, <1>2, <1>a, Sends

LEMMA FollowsStep == ASSUME LinkInv, Link!LinkNext PROVE Follows'
<1>0. LinkType /\ LinkType' /\ Follows /\ WindowOK /\ WindowOK'
  BY LinkTypeStep, WindowStep DEF LinkInv, Resized
<1>00. /\ queue \in Seq(Message) /\ sending \in Seq(Message) /\ chunks \in Seq(Read) /\ Len(queue) \in Nat
       /\ told.size \in Nat /\ unqueued \in Nat /\ size \in Nat /\ window \in Nat
  BY <1>0 DEF LinkType
<1>a. /\ LinkType /\ LinkType' /\ Follows /\ WindowOK /\ WindowOK'
      /\ queue \in Seq(Message) /\ sending \in Seq(Message) /\ chunks \in Seq(Read) /\ Len(queue) \in Nat
      /\ told.size \in Nat /\ unqueued \in Nat /\ size \in Nat /\ window \in Nat
  BY <1>0, <1>00
<1> DEFINE Behind == \A i \in 1..Len(queue') : queue'[i].is = "keys" =>
                         Reaches(queue'[i].at, i, queue', told'.size, unqueued')
           SizeToo == net' = "up" => Reaches(size', Len(queue') + 1, queue', told'.size, unqueued')
           OnTime == (\A k \in 1..Len(sending') : sending'[k].at <= size') /\ (sending' # <<>> => net' = "up")
<1>b. Behind /\ SizeToo /\ OnTime => Follows'
  BY DEF Follows, Reaches
<1>c. UNCHANGED <<queue, told, unqueued>> => Behind
  BY <1>a DEF Follows
<1>d. UNCHANGED <<queue, told, unqueued, net, size>> => SizeToo
  BY <1>a DEF Follows
<1>e. UNCHANGED <<sending, net, size>> => OnTime
  BY <1>a DEF Follows
<1>f. sending' = <<>> => OnTime
  OBVIOUS
<1> HIDE DEF Behind, SizeToo, OnTime
<1>1. CASE (\E lens \in Link!Typings : Link!Types(lens)) \/ Link!WindowChanges \/ Link!Ticks
  BY <1>1, <1>b, <1>c, <1>d, <1>e DEF Link!Types, Link!WindowChanges, Link!Ticks, Link!wire, Link!history, Link!missed
<1>2. CASE Link!WriteControl
  <2>1. UNCHANGED <<queue, unqueued, sending, net, size>>
    BY <1>2 DEF Link!WriteControl, Link!history, Link!missed
  <2>2. told'.size \in Nat /\ told.size <= told'.size
    BY <1>2, <1>a, WritesSize DEF LinkType
  <2>3. ASSUME NEW a \in Nat, NEW n \in Nat, Reaches(a, n, queue, told.size, unqueued)
        PROVE  Reaches(a, n, queue', told'.size, unqueued')
    <3>1. n <= n /\ unqueued <= unqueued /\ \A j \in 1..(n - 1) : queue[j] = queue[j]
      BY <1>a
    <3>2. Reaches(a, n, queue, told'.size, unqueued)
      BY <1>a, <2>2, <2>3, <3>1, ReachesOn
    <3> QED
      BY <2>1, <3>2
  <2>4. Behind
    <3>1. \A i \in 1..Len(queue) : queue[i].at \in Nat /\ i \in Nat
      BY <1>a, MessageFields
    <3>2. \A i \in 1..Len(queue) : queue[i].is = "keys" => Reaches(queue[i].at, i, queue, told.size, unqueued)
      BY <1>a DEF Follows
    <3>3. \A i \in 1..Len(queue) :
             queue[i].is = "keys" => Reaches(queue[i].at, i, queue', told'.size, unqueued')
      BY <2>3, <3>1, <3>2
    <3>4. queue' = queue
      BY <2>1
    <3> QED
      BY <3>3, <3>4 DEF Behind
  <2>5. SizeToo
    BY <1>a, <2>1, <2>3 DEF SizeToo, Follows
  <2> QED
    BY <1>b, <1>e, <2>1, <2>4, <2>5
<1>3. CASE Link!Write
  <2>1. /\ queue # <<>> /\ queue' = Tail(queue) /\ told' = Link!Took(Head(queue))
        /\ UNCHANGED <<unqueued, sending, net, size>>
    BY <1>3 DEF Link!Write, Link!history, Link!missed
  <2>2. /\ Len(queue') = Len(queue) - 1 /\ Len(queue) \in Nat \ {0} /\ Head(queue) \in Message
        /\ \A i \in 1..Len(queue') : queue'[i] = queue[i + 1]
    BY <1>a, <2>1, AtFront
  <2>3. /\ told'.size \in Nat /\ told.size <= told'.size
        /\ Head(queue).is = "resize" => told'.size >= Head(queue).at
    <3>1. Head(queue).is = "resize" => [n |-> Head(queue).n, size |-> Head(queue).at] \in Sizes
      BY <1>a, <2>1, ResizesTaken DEF Sizes
    <3>2. told' \in Sizes /\ told'.size >= told.size /\ (Head(queue).is = "resize" => told'.size >= Head(queue).at)
      BY <2>1, <2>2, <3>1, TookOf
    <3>3. told'.size \in Nat
      BY <1>a, <3>2, SizesInNat
    <3> QED
      BY <1>a, <3>2, <3>3
  <2>4. ASSUME NEW a \in Nat, NEW n \in 1..(Len(queue) + 1), Reaches(a, n, queue, told.size, unqueued)
        PROVE  Reaches(a, n - 1, queue', told'.size, unqueued')
    <3>1. Reaches(a, n - 1, Tail(queue), told'.size, unqueued)
      BY <1>a, <2>1, <2>3, <2>4, ReachesTaken
    <3> QED
      BY <2>1, <3>1
  <2>5. Behind
    <3> SUFFICES ASSUME NEW i \in 1..Len(queue'), queue'[i].is = "keys"
                 PROVE  Reaches(queue'[i].at, i, queue', told'.size, unqueued')
      BY DEF Behind
    <3>1. i + 1 \in 1..Len(queue) /\ queue'[i] = queue[i + 1] /\ (i + 1) - 1 = i /\ i + 1 \in 1..(Len(queue) + 1)
      BY <2>2
    <3>2. queue[i + 1].at \in Nat
      BY <1>a, <3>1, MessageFields
    <3>3. Reaches(queue[i + 1].at, i + 1, queue, told.size, unqueued)
      BY <1>a, <3>1 DEF Follows
    <3>4. Reaches(queue[i + 1].at, (i + 1) - 1, queue', told'.size, unqueued')
      BY <2>4, <3>1, <3>2, <3>3
    <3> QED
      BY <3>1, <3>4
  <2>6. SizeToo
    <3>1. Len(queue) + 1 \in 1..(Len(queue) + 1) /\ (Len(queue) + 1) - 1 = Len(queue') + 1
      BY <2>2
    <3>2. net = "up" => Reaches(size, (Len(queue) + 1) - 1, queue', told'.size, unqueued')
      BY <1>a, <2>4, <3>1 DEF Follows
    <3> QED
      BY <2>1, <3>1, <3>2 DEF SizeToo
  <2> QED
    BY <1>b, <1>e, <2>1, <2>5, <2>6
<1>4. CASE Link!TakeResize \/ Link!Suspend
  <2>1. /\ size' = window /\ UNCHANGED <<net, told, sending>> /\ sending = <<>>
        /\ \E redraw \in BOOLEAN : Link!SendSize(window, redraw)
    BY <1>4 DEF Link!TakeResize, Link!Suspend, Link!Other, Link!Turn
  <2>2. CASE net = "down" /\ UNCHANGED <<queue, unqueued>>
    BY <1>b, <1>c, <1>f, <2>1, <2>2 DEF SizeToo
  <2>3. CASE /\ net = "up" /\ Link!Send(Link!ResizeOf(window))
             /\ unqueued' = IF Link!HasRoom(Link!ResizeOf(window)) THEN unqueued ELSE window
    <3> DEFINE m == Link!ResizeOf(window)
    <3>1. m \in Message /\ m.is = "resize" /\ m.at = window
      BY <1>a, Made
    <3>2. unqueued' \in Nat /\ unqueued <= unqueued'
      BY <1>a, <2>3 DEF WindowOK
    <3>3. Behind
      BY <2>1, <2>3, <3>1, <3>2, ReachesSent DEF Behind
    <3>4. CASE queue' = Append(queue, m)
      <4>1. Len(queue') = Len(queue) + 1 /\ queue'[Len(queue) + 1] = m
        BY <1>a, <3>1, <3>4, AtEnd
      <4>2. Len(queue) + 1 \in 1..((Len(queue') + 1) - 1) /\ queue'[Len(queue) + 1].at >= window
        BY <1>a, <3>1, <4>1
      <4>3. Reaches(window, Len(queue') + 1, queue', told'.size, unqueued')
        BY <3>1, <4>1, <4>2 DEF Reaches
      <4> QED
        BY <1>b, <1>f, <2>1, <3>3, <4>3 DEF SizeToo
    <3>5. CASE ~Link!HasRoom(m)
      <4>1. Reaches(window, Len(queue') + 1, queue', told'.size, unqueued')
        BY <1>a, <2>3, <3>5 DEF Reaches
      <4> QED
        BY <1>b, <1>f, <2>1, <3>3, <4>1 DEF SizeToo
    <3> HIDE DEF m
    <3> QED
      BY <1>a, <2>3, <3>1, <3>4, <3>5, Sends DEF m
  <2> QED
    BY <1>a, <2>1, <2>2, <2>3, SizeSent
<1>5. CASE Link!TakeTyped
  <2>1. /\ chunks # <<>> /\ ~tick /\ sending = <<>> /\ UNCHANGED <<queue, told, unqueued, net, size>>
        /\ \/ sending' = <<>>
           \/ net = "up" /\ sending' = Link!KeysOf(Head(chunks))
    BY <1>5 DEF Link!TakeTyped, Link!Other, Link!Turn, Link!wire, Link!missed
  <2>2. CASE sending' = <<>>
    BY <1>b, <1>c, <1>d, <1>f, <2>1, <2>2
  <2>3. CASE net = "up" /\ sending' = Link!KeysOf(Head(chunks))
    <3>1. Head(chunks) \in Read /\ Head(chunks) = chunks[1] /\ 1 \in 1..Len(chunks)
      BY <1>a, <2>1, AtFront
    <3>2. chunks[1].window \in Nat /\ chunks[1].window <= ticked /\ ticked <= size /\ ticked \in Nat
      BY <1>a, <2>1, <3>1, ReadFields DEF WindowOK, LinkType
    <3>3. \A k \in 1..Len(sending') : sending'[k].at = chunks[1].window
      BY <2>3, <3>1, KeysOfRead
    <3>4. OnTime
      BY <1>a, <2>1, <2>3, <3>2, <3>3 DEF OnTime
    <3> QED
      BY <1>b, <1>c, <1>d, <2>1, <3>4
  <2> QED
    BY <2>1, <2>2, <2>3
<1>6. ASSUME NEW m \in Message, Link!Send(m), m.is = "keys" => m.at \in Nat /\ m.at <= size /\ net = "up",
             UNCHANGED <<told, unqueued, net, size>>, OnTime
      PROVE  Follows'
  <2>1. m.is = "keys" => Reaches(m.at, Len(queue) + 1, queue, told.size, unqueued)
    <3> SUFFICES ASSUME m.is = "keys" PROVE Reaches(m.at, Len(queue) + 1, queue, told.size, unqueued)
      OBVIOUS
    <3>1. Reaches(size, Len(queue) + 1, queue, told.size, unqueued) /\ m.at \in Nat /\ m.at <= size
      BY <1>6, <1>a DEF Follows
    <3>2. \A j \in 1..((Len(queue) + 1) - 1) : queue[j].at \in Nat
      BY <1>a, MessageFields
    <3> QED
      BY <1>a, <3>1, <3>2 DEF Reaches
  <2>2. unqueued' \in Nat /\ unqueued <= unqueued'
    BY <1>6, <1>a
  <2>3. Behind /\ \A a \in Nat : Reaches(a, Len(queue) + 1, queue, told.size, unqueued) =>
                                  Reaches(a, Len(queue') + 1, queue', told'.size, unqueued')
    BY <1>6, <2>1, <2>2, ReachesSent DEF Behind
  <2>4. SizeToo
    BY <1>6, <1>a, <2>3 DEF SizeToo, Follows
  <2> QED
    BY <1>6, <1>b, <2>3, <2>4
<1>7. CASE Link!SendChunk
  <2>1. sending # <<>> /\ Link!Send(Head(sending)) /\ UNCHANGED <<told, unqueued, net, size>>
        /\ sending' \in {<<>>, Tail(sending)}
    BY <1>7 DEF Link!SendChunk, Link!LeftAfter, Link!missed
  <2>2. /\ Head(sending) \in Message /\ Head(sending) = sending[1] /\ 1 \in 1..Len(sending)
        /\ Len(Tail(sending)) = Len(sending) - 1 /\ Len(sending) \in Nat
        /\ \A k \in 1..Len(Tail(sending)) : Tail(sending)[k] = sending[k + 1]
    BY <1>a, <2>1, AtFront
  <2>3. Head(sending).at \in Nat /\ Head(sending).at <= size /\ net = "up"
    BY <1>a, <2>1, <2>2, MessageFields DEF Follows
  <2>4. CASE sending' = <<>>
    BY <1>6, <1>f, <2>1, <2>2, <2>3, <2>4
  <2>5. CASE sending' = Tail(sending)
    <3>1. \A k \in 1..Len(sending') : k + 1 \in 1..Len(sending) /\ sending'[k] = sending[k + 1]
      BY <2>2, <2>5
    <3>2. OnTime
      BY <1>a, <2>1, <2>3, <3>1 DEF OnTime, Follows
    <3> QED
      BY <1>6, <2>1, <2>2, <2>3, <3>2
  <2> QED
    BY <2>1, <2>4, <2>5
<1>8. CASE Link!TakeColours
  <2>1. UNCHANGED <<told, unqueued, net, size, sending>> /\ (Link!Send(Link!Colours) \/ UNCHANGED queue)
    BY <1>8 DEF Link!TakeColours, Link!history, Link!missed
  <2>2. Link!Colours \in Message /\ Link!Colours.is # "keys"
    BY <1>a, Made
  <2> QED
    BY <1>6, <1>b, <1>c, <1>d, <1>e, <2>1, <2>2
<1>9. ASSUME NEW n \in Nat, NEW was, Link!Redials(n, was), sending' = <<>> PROVE Follows'
  <2>1. net' = "down" /\ queue' = <<>> /\ 1..Len(queue') = {}
    BY <1>9, <1>a, RedialsOf
  <2> QED
    BY <1>9, <1>b, <1>f, <2>1 DEF Behind, SizeToo
<1>10. CASE Link!Lost \/ Link!Unfreezes \/ Link!DialFails \/ Link!Over
  <2>1. attempt \in Nat /\ attempt + 1 \in Nat /\ Link!Drops \in Nat
    BY DEF LinkInv, Redialing, Link!Drops
  <2>2. size' = size /\ sending' = <<>> /\ sending' = sending
    BY <1>10 DEF Link!Lost, Link!Unfreezes, Link!DialFails, Link!Over, Link!Other, Link!Turn
  <2>3. \/ \E n \in Nat : \E was : Link!Redials(n, was)
        \/ UNCHANGED <<net, queue, told, unqueued>>
    BY <1>10, <2>1 DEF Link!Lost, Link!Unfreezes, Link!DialFails, Link!Over, Link!wire, Link!history, Link!missed
  <2> QED
    BY <1>9, <1>b, <1>c, <1>d, <1>f, <2>2, <2>3
<1>11. CASE Link!Dialed
  <2> DEFINE m == Link!ResizeOf(size)
  <2>1. /\ net' = "up" /\ size' = size /\ sending' = <<>>
        /\ queue' = (IF colours THEN <<Link!Colours>> ELSE <<>>) \o <<m>>
    BY <1>11 DEF Link!Dialed, Link!Other, Link!Turn
  <2>2. m \in Message /\ m.is = "resize" /\ m.at = size /\ Link!Colours \in Message /\ Link!Colours.is # "keys"
    BY <1>a, Made
  <2> HIDE DEF m
  <2>3. /\ \A i \in 1..Len(queue') : queue'[i] \in {Link!Colours, m}
        /\ Len(queue') \in Nat \ {0} /\ queue'[Len(queue')] = m
    BY <2>1, <2>2
  <2>4. Behind
    BY <2>2, <2>3 DEF Behind
  <2>5. Len(queue') \in 1..((Len(queue') + 1) - 1) /\ queue'[Len(queue')].at >= size
    BY <1>a, <2>2, <2>3
  <2>6. SizeToo
    BY <2>1, <2>2, <2>3, <2>5 DEF SizeToo, Reaches
  <2> QED
    BY <1>b, <1>f, <2>1, <2>4, <2>6
<1>12. CASE Link!Lasts \/ Link!Freezes
  BY <1>12, <1>b, <1>c, <1>d, <1>e DEF Link!Lasts, Link!Freezes, Link!wire, Link!history, Link!missed
<1> QED
  BY <1>1, <1>2, <1>3, <1>4, <1>5, <1>7, <1>8, <1>10, <1>11, <1>12 DEF Link!LinkNext

LEMMA LinkStarts == Link!LinkInit => LinkInv
<1> SUFFICES ASSUME Link!LinkInit PROVE LinkInv
  OBVIOUS
<1>1. /\ typed = 0 /\ chunks = <<>> /\ window = 0 /\ ~tick /\ ticked = 0 /\ net = "up" /\ sending = <<>>
      /\ size = 0 /\ resized = 0 /\ attempt = 0 /\ fails = 0 /\ queue = <<>> /\ control = <<>>
      /\ told = [n |-> 0, size |-> 0] /\ dial = [wait |-> 0, size |-> 0] /\ lost = {} /\ unqueued = 0
  BY DEF Link!LinkInit, Link!NoResize, Link!NoDial
<1>2. 1..Len(chunks) = {} /\ 1..Len(sending) = {} /\ 1..Len(queue) = {}
  BY <1>1
<1>3. Keys(queue) = {} /\ Sizes = {[n |-> 0, size |-> 0]}
  BY <1>1, NoneOfNothing DEF Sizes
<1>4. LinkType
  <2>1. chunks \in Seq(Read) /\ sending \in Seq(Message) /\ queue \in Seq(Message) /\ control \in Seq(Message)
    BY <1>1
  <2>2. told \in [n : Nat, size : Nat] /\ dial \in [wait : Nat, size : Nat]
    BY <1>1
  <2> QED
    BY <1>1, <2>1, <2>2 DEF LinkType
<1>5. Numbered /\ Holes
  BY <1>1, <1>2, <1>3 DEF Numbered, ReadsInTurn, Holes
<1>6. Resized
  BY <1>1, <1>2, <1>3 DEF Resized, WindowOK, Grown
<1>7. Follows
  BY <1>1, <1>2 DEF Follows, Reaches
<1>8. Redialing
  BY <1>1 DEF Redialing
<1> QED
  BY <1>4, <1>5, <1>6, <1>7, <1>8 DEF LinkInv

LEMMA LinkStep == ASSUME LinkInv, [Next]_vars PROVE LinkInv'
<1>1. ASSUME UNCHANGED Link!linkVars PROVE LinkInv'
  <2>1. /\ UNCHANGED <<typed, window, ticked, size, resized, unqueued, lost, chunks, net, sending, queue, control>>
        /\ UNCHANGED <<told, dial, paused, tick, attempt, fails, dropped, lostTyping>>
    BY <1>1 DEF Link!linkVars, Link!terminal, Link!wire, Link!redialing, Link!missed, Link!history
  <2>2. LinkType'
    BY <2>1 DEF LinkInv, LinkType
  <2>3. Numbered' /\ Holes'
    BY <2>1 DEF LinkInv, Numbered, ReadsInTurn, Before, Holes, Keys
  <2>4. Resized'
    BY <2>1 DEF LinkInv, Resized, WindowOK, Grown, Sizes, Resizes
  <2>5. Follows'
    BY <2>1 DEF LinkInv, Follows, Reaches
  <2>6. Redialing'
    BY <2>1 DEF LinkInv, Redialing, Link!Wait
  <2> QED
    BY <2>2, <2>3, <2>4, <2>5, <2>6 DEF LinkInv
<1>2. ASSUME Link!LinkNext PROVE LinkInv'
  BY <1>2, LinkTypeStep, NumberedStep, HolesStep, ResizedStep, FollowsStep, RedialingStep DEF LinkInv
<1> QED
  BY <1>1, <1>2, OwnSteps

LEMMA LinkKept == ASSUME LinkInv PROVE Link!QueueHasNoGap /\ Link!KeysFollowResize /\ Link!RedialsBackOff
<1>1. Link!QueueHasNoGap
  <2>a. queue \in Seq(Message) /\ lost \subseteq Nat /\ Numbered /\ Holes
    BY DEF LinkInv, LinkType
  <2>b. \A i \in 1..Len(queue) : queue[i].n \in Nat /\ queue[i].first \in Nat
    BY <2>a, MessageFields
  <2>c. \A i \in 1..Len(queue) : queue[i].is = "keys" => queue[i] \in Keys(queue)
    BY DEF Keys
  <2>d. \A n \in lost : \/ \A i \in 1..Len(queue) : queue[i].is = "keys" => queue[i].n < n
                       \/ \A i \in 1..Len(queue) : queue[i].is = "keys" => n < queue[i].first
    BY <2>a, <2>c DEF Holes
  <2>e. \A i \in 1..Len(queue) : queue[i].is = "keys" => queue[i].first <= queue[i].n
    BY <2>a, <2>c DEF Numbered
  <2>2. ASSUME NEW i \in 1..Len(queue), NEW j \in 1..Len(queue), queue[i].is = "keys", queue[j].is = "keys",
               NEW n \in lost
        PROVE  ~(queue[i].n < n /\ n < queue[j].n)
    <3>1. n \in Nat /\ queue[i].first <= queue[i].n
      BY <2>a, <2>e, <2>2
    <3> QED
      BY <2>b, <2>d, <2>2, <3>1
  <2>3. ASSUME NEW i \in 1..Len(queue), queue[i].is = "keys", NEW n \in lost
        PROVE  ~(queue[i].first <= n /\ n < queue[i].n)
    <3>1. n \in Nat
      BY <2>a
    <3> QED
      BY <2>b, <2>d, <2>3, <3>1
  <2> QED
    BY <2>2, <2>3 DEF Link!QueueHasNoGap
<1>2. Link!KeysFollowResize
  BY DEF LinkInv, Follows, Reaches, Link!KeysFollowResize
<1>3. Link!RedialsBackOff
  BY DEF LinkInv, Redialing, Link!RedialsBackOff
<1> QED
  BY <1>1, <1>2, <1>3

\* However typing, resizes, drops, writes, freezes and redials fall: no typing waits behind a hole, what
\* is typed after a resize follows it, and a dial waits for what failed before it, so also after a
\* connection that did not last (Wire::send, Wire::resize, drive, redial).
THEOREM LinkKeepsOrderAlways == Spec => LinkKeepsOrder
<1>1. Init => LinkInv
  BY LinkStarts DEF Init
<1>2. LinkInv /\ [Next]_vars => LinkInv'
  BY LinkStep
<1>3. LinkInv => (part = "link" => Link!QueueHasNoGap /\ Link!KeysFollowResize /\ Link!RedialsBackOff)
  BY LinkKept
<1>4. LinkInv /\ [Next]_vars =>
        [net = "up" /\ net' = "down" /\ run' = "on" /\ ~lasted /\ ~frozen => dial'.wait > 0]_(Link!linkVars)
  <2> SUFFICES ASSUME LinkInv, Link!LinkNext, net = "up", net' = "down", run' = "on", ~lasted, ~frozen
               PROVE  dial'.wait > 0
    BY OwnSteps
  <2>1. Link!Lost
    <3>1. ~Link!Over /\ ~Link!Dialed /\ ~Link!Unfreezes /\ ~Link!DialFails
      BY DEF Link!Over, Link!Dialed, Link!Unfreezes, Link!DialFails
    <3> QED
      BY <3>1 DEF Link!LinkNext, Link!Types, Link!WindowChanges, Link!Ticks, Link!TakeResize, Link!TakeTyped,
             Link!SendChunk, Link!TakeColours, Link!Suspend, Link!Write, Link!WriteControl, Link!Lasts, Link!Freezes
  <2>2. attempt + 1 \in Nat /\ attempt + 1 > 0
    <3>1. attempt \in Nat
      BY DEF LinkInv, Redialing
    <3> QED
      BY <3>1
  <2>3. dial'.wait = Link!Wait(attempt + 1)
    <3>1. Link!Drops = attempt + 1
      BY DEF Link!Drops
    <3>2. Link!Redials(Link!Drops, FALSE)
      BY <2>1 DEF Link!Lost
    <3>3. dial' = [wait |-> Link!Wait(Link!Drops), size |-> size]
      BY <3>2 DEF Link!Redials
    <3> QED
      BY <3>1, <3>3
  <2> QED
    BY <2>2, <2>3, WaitInNat
<1> QED
  BY <1>1, <1>2, <1>3, <1>4, PTL DEF Spec, LinkKeepsOrder, Link!FlapsWait

(***************************************************************************)
(* KeyFile.  The lock is held from the check to the rename, so what was    *)
(* read under it still is when it is written.                              *)
(***************************************************************************)
Entry == [name : Names, id : Ids]
NamesEachOnce(names) == \A e, f \in names : (e.name = f.name \/ e.id = f.id) => e = f

KeyType ==
    /\ key \in Processes \cup {KeyFile!NoKey} /\ lock \in Processes \cup {KeyFile!NoOne}
    /\ at \in [Processes -> {"idle", "read", "lock", "locked", "write", "rename", "rereads", "reset",
                             "done", "failed", "killed"}]
    /\ does \in [Processes -> KeyFile!Ops]
    /\ has \in [Processes -> Processes \cup {KeyFile!NoKey} \cup SUBSET Entry]
    /\ resets \in BOOLEAN
    /\ list \in SUBSET Entry /\ saved = list

\* What each process does where it is.
Does(q) ==
    /\ at[q] = "read" \/ at[q] = "rereads" => does[q] = KeyFile!Load
    /\ at[q] = "reset" => does[q] = KeyFile!Reset
    /\ at[q] \in {"lock", "locked", "write", "rename"} => does[q] # KeyFile!Reset

\* What each process that holds the lock knows, and one that has its key.
Holds(q) ==
    /\ at[q] \in {"locked", "write", "rename", "rereads"} => lock = q
    /\ at[q] \in {"write", "rename"} /\ does[q] = KeyFile!Load => has[q] = q /\ key = KeyFile!NoKey
    /\ at[q] \in {"write", "rename"} /\ does[q] # KeyFile!Load
          => KeyFile!Allowed(list, does[q]) /\ has[q] = KeyFile!Changed(list, does[q])
    /\ at[q] = "rereads" /\ ~resets => key # KeyFile!NoKey
    /\ at[q] = "done" /\ does[q] = KeyFile!Load /\ ~resets => has[q] = key /\ key # KeyFile!NoKey

KeyInv == KeyType /\ NamesEachOnce(list) /\ \A q \in Processes : Does(q) /\ Holds(q)

\* An allowed change of a list is a list, that names each client once if the one before did.
LEMMA ListChanged ==
  ASSUME NEW names \in SUBSET Entry, NamesEachOnce(names), NEW op \in KeyFile!Changes, KeyFile!Allowed(names, op)
  PROVE  KeyFile!Changed(names, op) \in SUBSET Entry /\ NamesEachOnce(KeyFile!Changed(names, op))
<1>1. CASE op.do = "add"
  BY <1>1 DEF KeyFile!Changes, KeyFile!Allowed, KeyFile!Changed, KeyFile!Get, Entry, NamesEachOnce
<1>2. CASE op.do = "remove"
  BY <1>2 DEF KeyFile!Changes, KeyFile!Allowed, KeyFile!Changed, KeyFile!Get, Entry, NamesEachOnce
<1>3. CASE op.do = "rename"
  BY <1>3 DEF KeyFile!Changes, KeyFile!Allowed, KeyFile!Changed, KeyFile!Get, Entry, NamesEachOnce
<1> QED
  BY <1>1, <1>2, <1>3 DEF KeyFile!Changes

LEMMA KeyInvInit == ASSUME KeyFile!KeyInit PROVE KeyInv
BY DEF KeyFile!KeyInit, KeyInv, KeyType, NamesEachOnce, Does, Holds, KeyFile!Ops

\* Changes are neither of the other two things a process does.
LEMMA ChangesDiffer ==
  /\ KeyFile!Load # KeyFile!Reset
  /\ \A op \in KeyFile!Ops : op \in KeyFile!Changes <=> op # KeyFile!Load /\ op # KeyFile!Reset
<1>1. \A op \in KeyFile!Changes : op.do \in {"add", "remove", "rename"}
  BY DEF KeyFile!Changes
<1>2. KeyFile!Load.do = "load" /\ KeyFile!Reset.do = "reset"
  BY DEF KeyFile!Load, KeyFile!Reset
<1> QED
  BY <1>1, <1>2 DEF KeyFile!Ops

LEMMA KeyStep == ASSUME KeyFile!KeyAssumption, KeyInv, KeyFile!KeyNext PROVE KeyInv'
<1> USE DEF KeyInv, KeyType, Does, Holds, KeyFile!Goes, KeyFile!Unlocked
<1>a. Processes \cap {KeyFile!NoKey, KeyFile!NoOne} = {}
  BY DEF KeyFile!KeyAssumption
<1>1. ASSUME NEW q \in Processes, NEW op \in KeyFile!Ops, KeyFile!Start(q, op) PROVE KeyInv'
  BY <1>1, ChangesDiffer DEF KeyFile!Start
<1>2. ASSUME NEW q \in Processes, KeyFile!ReadSecret(q) PROVE KeyInv'
  <2>1. Does(q) /\ Holds(q)
    OBVIOUS
  <2>2. KeyType' /\ NamesEachOnce(list')
    BY <1>2, <2>1, <1>a, ChangesDiffer DEF KeyFile!ReadSecret
  <2>3. ASSUME NEW r \in Processes, r # q PROVE Does(r)' /\ Holds(r)'
    <3> Does(r) /\ Holds(r)
      OBVIOUS
    <3> QED
      BY <1>2, <2>1, <2>3, <1>a, ChangesDiffer DEF KeyFile!ReadSecret
  <2>4. Does(q)' /\ Holds(q)'
    BY <1>2, <2>1, <1>a, ChangesDiffer DEF KeyFile!ReadSecret
  <2> QED
    BY <2>2, <2>3, <2>4
<1>3. ASSUME NEW q \in Processes, KeyFile!Locks(q) PROVE KeyInv'
  BY <1>3, <1>a DEF KeyFile!Locks, KeyFile!LockDir
<1>4. ASSUME NEW q \in Processes, KeyFile!Checks(q) PROVE KeyInv'
  <2>1. Does(q) /\ Holds(q)
    OBVIOUS
  <2>2. KeyType' /\ NamesEachOnce(list')
    BY <1>4, <2>1, <1>a, ChangesDiffer DEF KeyFile!Checks
  <2>3. ASSUME NEW r \in Processes, r # q PROVE Does(r)' /\ Holds(r)'
    <3> Does(r) /\ Holds(r)
      OBVIOUS
    <3> QED
      BY <1>4, <2>1, <2>3, <1>a, ChangesDiffer DEF KeyFile!Checks
  <2>4. Does(q)' /\ Holds(q)'
    BY <1>4, <2>1, <1>a, ChangesDiffer DEF KeyFile!Checks
  <2> QED
    BY <2>2, <2>3, <2>4
<1>5. ASSUME NEW q \in Processes, KeyFile!ReadsAgain(q) PROVE KeyInv'
  <2>1. Does(q) /\ Holds(q)
    OBVIOUS
  <2>2. KeyType' /\ NamesEachOnce(list')
    BY <1>5, <2>1, <1>a DEF KeyFile!ReadsAgain
  <2>3. ASSUME NEW r \in Processes, r # q PROVE Does(r)' /\ Holds(r)'
    <3> Does(r) /\ Holds(r)
      OBVIOUS
    <3> QED
      BY <1>5, <2>1, <2>3, <1>a DEF KeyFile!ReadsAgain
  <2>4. Does(q)' /\ Holds(q)'
    BY <1>5, <2>1, <1>a DEF KeyFile!ReadsAgain
  <2> QED
    BY <2>2, <2>3, <2>4
<1>6. ASSUME NEW q \in Processes, KeyFile!ReadBeside(q) PROVE KeyInv'
  <2>1. Does(q) /\ Holds(q)
    OBVIOUS
  <2>2. KeyType' /\ NamesEachOnce(list')
    <3>1. KeyFile!Allowed(list, does[q]) => KeyFile!Changed(list, does[q]) \in SUBSET Entry
      BY <1>6, ListChanged DEF KeyFile!ReadBeside
    <3> QED
      BY ZenonT(60), <1>6, <2>1, <3>1 DEF KeyFile!ReadBeside
  <2>3. ASSUME NEW r \in Processes, r # q PROVE Does(r)' /\ Holds(r)'
    <3> Does(r) /\ Holds(r)
      OBVIOUS
    <3> QED
      BY <1>6, <2>1, <2>3, <1>a, ChangesDiffer DEF KeyFile!ReadBeside
  <2>4. Does(q)' /\ Holds(q)'
    BY <1>6, <2>1, <1>a, ChangesDiffer, ZenonT(60) DEF KeyFile!ReadBeside
  <2> QED
    BY <2>2, <2>3, <2>4
<1>7. ASSUME NEW q \in Processes, KeyFile!Writes(q) PROVE KeyInv'
  <2>1. Does(q) /\ Holds(q)
    OBVIOUS
  <2>2. KeyType' /\ NamesEachOnce(list')
    BY <1>7, <2>1, <1>a DEF KeyFile!Writes
  <2>3. ASSUME NEW r \in Processes, r # q PROVE Does(r)' /\ Holds(r)'
    <3> Does(r) /\ Holds(r)
      OBVIOUS
    <3> QED
      BY <1>7, <2>1, <2>3, <1>a DEF KeyFile!Writes
  <2>4. Does(q)' /\ Holds(q)'
    BY <1>7, <2>1, <1>a DEF KeyFile!Writes
  <2> QED
    BY <2>2, <2>3, <2>4
<1>8. ASSUME NEW q \in Processes, KeyFile!Renames(q) PROVE KeyInv'
  <2>1. Does(q) /\ Holds(q)
    OBVIOUS
  <2>2. KeyType' /\ NamesEachOnce(list')
    <3>1. CASE does[q] = KeyFile!Load
      <4>1. /\ at' = [at EXCEPT ![q] = "done"] /\ lock' \in Processes \cup {KeyFile!NoOne}
            /\ key' = has[q] /\ UNCHANGED <<list, saved, does, has, resets>>
        BY <1>8, <3>1 DEF KeyFile!Renames
      <4>2. has[q] = q
        BY <1>8, <2>1, <3>1 DEF KeyFile!Renames
      <4> QED
        BY <4>1, <4>2
    <3>2. CASE does[q] # KeyFile!Load
      <4>a. at[q] = "rename" /\ does[q] \in KeyFile!Ops
        BY <1>8 DEF KeyFile!Renames
      <4>1. does[q] \in KeyFile!Changes /\ has[q] = KeyFile!Changed(list, does[q])
        BY <4>a, <2>1, <3>2, ChangesDiffer
      <4>2. has[q] \in SUBSET Entry /\ NamesEachOnce(has[q])
        <5>1. list \in SUBSET Entry /\ NamesEachOnce(list) /\ KeyFile!Allowed(list, does[q])
          BY <4>a, <2>1, <3>2
        <5> QED
          BY ONLY <4>1, <5>1, ListChanged
      <4>3. /\ at' = [at EXCEPT ![q] = "done"] /\ lock' \in Processes \cup {KeyFile!NoOne}
            /\ list' = has[q] /\ saved' = has[q] /\ UNCHANGED <<key, does, has, resets>>
        BY <1>8, <3>2, <4>1 DEF KeyFile!Renames
      <4> QED
        BY <4>2, <4>3 DEF NamesEachOnce
    <3> QED
      BY <3>1, <3>2
  <2>3. ASSUME NEW r \in Processes, r # q PROVE Does(r)' /\ Holds(r)'
    <3> Does(r) /\ Holds(r)
      OBVIOUS
    <3> QED
      BY <1>8, <2>1, <2>3, <1>a, ChangesDiffer DEF KeyFile!Renames
  <2>4. Does(q)' /\ Holds(q)'
    <3>1. at' = [at EXCEPT ![q] = "done"] /\ UNCHANGED <<does, has>>
      BY <1>8 DEF KeyFile!Renames
    <3>2. does[q] = KeyFile!Load => key' = has[q] /\ has[q] = q
      BY <1>8, <2>1 DEF KeyFile!Renames
    <3> QED
      BY ZenonT(60), <3>1, <3>2, <1>a
  <2> QED
    BY <2>2, <2>3, <2>4
<1>9. ASSUME NEW q \in Processes, KeyFile!Resets(q) PROVE KeyInv'
  <2>1. Does(q) /\ Holds(q)
    OBVIOUS
  <2>2. KeyType' /\ NamesEachOnce(list')
    BY <1>9, <2>1, <1>a, ChangesDiffer DEF KeyFile!Resets
  <2>3. ASSUME NEW r \in Processes, r # q PROVE Does(r)' /\ Holds(r)'
    <3> Does(r) /\ Holds(r)
      OBVIOUS
    <3> QED
      BY <1>9, <2>1, <2>3, <1>a, ChangesDiffer DEF KeyFile!Resets
  <2>4. Does(q)' /\ Holds(q)'
    BY <1>9, <2>1, <1>a, ChangesDiffer DEF KeyFile!Resets
  <2> QED
    BY <2>2, <2>3, <2>4
<1>10. ASSUME NEW q \in Processes, KeyFile!Killed(q) PROVE KeyInv'
  BY <1>10, <1>a DEF KeyFile!Killed, KeyFile!Started
<1> QED
  BY <1>1, <1>2, <1>3, <1>4, <1>5, <1>6, <1>7, <1>8, <1>9, <1>10 DEF KeyFile!KeyNext, KeyFile!Step

\* First uses race to one identity, and no confirmed change of the list beside it is lost
\* (create_secret, update_beside: each looks again once it has the directory's lock).
THEOREM KeyIsKeptAlways == Spec => []KeyIsKept
<1>1. Init => KeyInv
  BY KeyInvInit DEF Init
<1>2. KeyInv /\ [Next]_vars => KeyInv'
  <2>1. ASSUME KeyInv, KeyFile!KeyNext PROVE KeyInv'
    BY <2>1, KeyStep, PartsAssumption
  <2>2. ASSUME KeyInv, UNCHANGED KeyFile!keyVars PROVE KeyInv'
    BY <2>2 DEF KeyFile!keyVars, KeyInv, KeyType, NamesEachOnce, Does, Holds
  <2> QED
    BY <2>1, <2>2, OwnSteps
<1>3. KeyInv => KeyIsKept
  BY DEF KeyInv, KeyType, NamesEachOnce, Holds, KeyIsKept, KeyFile!OneIdentity, KeyFile!NoChangeLost
<1> QED
  BY <1>1, <1>2, <1>3, PTL DEF Spec
=============================================================================
