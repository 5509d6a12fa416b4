------------------------------- MODULE Filter -------------------------------
(***************************************************************************)
(* The filter a program's output passes on its way to the user's terminal  *)
(* (stream.rs), on the server and again on the client: whole sequences are *)
(* judged, questions dropped, marks taken out, and what is given out ends  *)
(* where a sequence and a character end.                                   *)
(*                                                                         *)
(* A byte is one of its class: "text", "lead" and "rest" (a character's    *)
(* two), "esc", "can", "ctl", "bel", "enq", "inter", "digit", "csi", "osc", *)
(* "dcs", "st" (the bytes behind ESC that begin or end), "final", and      *)
(* "asks" (a final or a field that makes a sequence a question), "mark".    *)
(***************************************************************************)
EXTENDS Naturals, Sequences, SequencesExt

CONSTANTS Bytes,                   \* the classes written
          MaxCsi, MaxString, MaxOut,  \* MAX_CSI, MAX_STRING and MAX_OUT
          MaxRead                  \* bound of the instance

VARIABLES
    filter,    \* the Filter: where it is, the sequence read, whether too long, what passed, and
               \* what it gave out so far, byte for byte, a mark as one
    read       \* history: all that was fed

filterVars == <<filter, read>>

New == [state |-> "ground", seq |-> <<>>, over |-> FALSE, out |-> <<>>, gave |-> <<>>]
FilterInit == filter = New /\ read = <<>>

Finals == {"final", "asks", "mark", "csi", "osc", "dcs", "st"}

(***************************************************************************)
(* Giving out.                                                             *)
(***************************************************************************)
Incomplete_Not(out) == 0
\* incomplete_utf8.
Incomplete(out) == IF out # <<>> /\ Last(out) = "lead" THEN 1 ELSE 0
Flush(f) ==
    LET at == Len(f.out) - Incomplete(f.out) IN
    [f EXCEPT !.gave = @ \o SubSeq(f.out, 1, at), !.out = SubSeq(@, at + 1, Len(@))]
PassByte(f, b) ==
    LET g == [f EXCEPT !.out = Append(@, b)] IN IF Len(g.out) >= MaxOut THEN Flush(g) ELSE g
Pass(f, bytes) == FoldLeft(PassByte, f, bytes)

Begin(f, state) == [f EXCEPT !.state = state, !.seq = <<"esc">>, !.over = FALSE]
Gather(f, b, max) ==
    LET over == f.over \/ Len(f.seq) >= max IN
    [f EXCEPT !.over = over, !.seq = IF over THEN <<>> ELSE Append(@, b)]

(***************************************************************************)
(* judge: a question is dropped, a mark taken out, the rest passes.        *)
(***************************************************************************)
Holds(seq, b) == \E i \in 1..Len(seq) : seq[i] = b
Judged(seq) ==
    IF seq[2] = "osc" /\ Holds(seq, "mark") THEN "mark"
    ELSE IF \/ seq[2] \in {"osc", "dcs"} /\ Holds(seq, "asks")
            \/ seq[2] \in {"csi", "asks"} /\ Last(seq) = "asks"
    THEN "drop" ELSE "pass"

Finish(f) ==
    LET g == [f EXCEPT !.state = "ground", !.over = FALSE, !.seq = <<>>]
        flushed == Flush(g) IN
    CASE f.over -> g
      [] ~f.over /\ Judged(f.seq) = "pass" -> Pass(g, f.seq)
      [] ~f.over /\ Judged(f.seq) = "drop" -> g
      [] ~f.over /\ Judged(f.seq) = "mark" ->
            [flushed EXCEPT !.gave = (@ \o flushed.out) \o <<"MARK">>, !.out = <<>>]

(***************************************************************************)
(* Filter::byte, by where it is.                                           *)
(***************************************************************************)
Ground(f) == [f EXCEPT !.state = "ground"]
Add(f, b) == [f EXCEPT !.seq = Append(@, b)]
InGround(f, b) == CASE b = "esc" -> Begin(f, "escape") [] b = "enq" -> f [] OTHER -> Pass(f, <<b>>)
InEscape(f, b) ==
    CASE b = "csi" -> [Add(f, b) EXCEPT !.state = "csi"]
      [] b \in {"osc", "dcs"} -> [Add(f, b) EXCEPT !.state = b]
      [] b = "inter" -> [Add(f, b) EXCEPT !.state = "intermediate"]
      [] b \in {"final", "asks", "mark", "st", "digit", "text"} -> Finish(Add(f, b))
      [] b = "esc" -> Begin(Pass(f, <<"esc">>), "escape")
      [] b = "can" -> Ground(f)
      [] OTHER -> Pass(f, <<b>>)
InIntermediate(f, b) ==
    CASE b = "inter" -> Gather(f, b, MaxCsi)
      [] b \in Finals \cup {"digit", "text"} -> Finish(Gather(f, b, MaxCsi))
      [] b = "esc" -> Begin(f, "escape")
      [] b = "can" -> Ground(f)
      [] OTHER -> Pass(f, <<b>>)
InCsi(f, b) ==
    CASE b \in {"inter", "digit"} -> Gather(f, b, MaxCsi)
      [] b \in Finals \cup {"text"} -> Finish(Gather(f, b, MaxCsi))
      [] b = "esc" -> Begin(f, "escape")
      [] b \in {"can", "lead", "rest"} -> Ground(f)
      [] OTHER -> Pass(f, <<b>>)
InText(f, b) ==
    CASE b = "esc" -> [f EXCEPT !.state = IF f.state = "osc" THEN "osc escape" ELSE "dcs escape"]
      [] b = "bel" /\ f.state = "osc" -> Finish(Gather(f, b, MaxString))
      [] b = "can" -> Ground(f)
      [] OTHER -> Gather(f, b, MaxString)
\* ESC and "\" end the string; ESC and anything else drop it, and begin another.
InTextEscape(f, b) ==
    IF b = "st" THEN Finish(Gather(Gather(f, "esc", MaxString), b, MaxString))
    ELSE InEscape(Begin(Finish([f EXCEPT !.over = TRUE]), "escape"), b)

Byte(f, b) ==
    CASE f.state = "ground" -> InGround(f, b)
      [] f.state = "escape" -> InEscape(f, b)
      [] f.state = "intermediate" -> InIntermediate(f, b)
      [] f.state = "csi" -> InCsi(f, b)
      [] f.state \in {"osc", "dcs"} -> InText(f, b)
      [] OTHER -> InTextEscape(f, b)

\* What is unfinished waits for the next read.
Kept(f) == f
FedTo(f, bytes) == Flush(FoldLeft(Byte, f, bytes))

Feed ==
    \E n \in 1..MaxRead - Len(read) : \E bytes \in [1..n -> Bytes] :
        filter' = Kept(FedTo(filter, bytes)) /\ read' = read \o bytes

FilterNext == Feed

(***************************************************************************)
(* Properties.                                                             *)
(***************************************************************************)
\* The terminal, as far as it tells a sequence's end.
Reading(state, b) ==
    IF b = "MARK" THEN state
    ELSE IF b = "esc" THEN IF state \in {"osc", "dcs"} THEN "text escape" ELSE "escape"
    ELSE IF b = "can" THEN "ground"
    ELSE IF state \in {"csi", "intermediate", "escape"} /\ b \in {"ctl", "bel", "enq"} THEN state
    ELSE
    CASE state \in {"escape", "text escape"} ->
            IF b \in {"csi", "osc", "dcs"} THEN b ELSE IF b = "inter" THEN "intermediate"
            ELSE IF b \in {"lead", "rest"} THEN state ELSE "ground"
      [] state = "csi" -> IF b \in {"inter", "digit"} THEN state ELSE "ground"
      [] state = "intermediate" -> IF b = "inter" \/ b \in {"lead", "rest"} THEN state ELSE "ground"
      [] state = "osc" /\ b = "bel" -> "ground"
      [] OTHER -> state

\* An ESC that another follows, with nothing that ends it between: it is passed alone.
LoneEsc ==
    \E i, j \in 1..Len(read) :
        /\ i < j /\ read[i] = "esc" /\ read[j] = "esc"
        /\ \A k \in i + 1..j - 1 : read[k] \in {"ctl", "bel", "enq", "lead", "rest"}

\* What is given out is what the same bytes read at once give, however they were split; but for a
\* lone ESC it ends outside any sequence, and never in a character whose end may come
\* (Filter::feed, flush).
JudgesWhole ==
    /\ filter = FedTo(New, read)
    /\ ~LoneEsc => FoldLeft(Reading, "ground", filter.gave) = "ground"
    /\ read # <<>> /\ Last(read) = "lead" /\ FedTo(New, Front(read)).state = "ground"
            => filter.out = <<"lead">>
    /\ Len(filter.out) <= 1 /\ Len(filter.seq) <= MaxString
=============================================================================
