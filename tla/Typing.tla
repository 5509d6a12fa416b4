------------------------------- MODULE Typing -------------------------------
(***************************************************************************)
(* What koh connect reads from the user's terminal (client/input.rs): a    *)
(* character may be split across reads, an escape sequence ends at a       *)
(* deadline, the escape prefix takes the next key, and the terminal's      *)
(* answers about its colours come among what is typed.                     *)
(*                                                                         *)
(* Bytes are "lead" and "rest", a character's two; "esc", alone the Escape *)
(* key or, with "tail" behind it, one sequence; "mouse", a report that two *)
(* raw bytes follow; the keys "prefix", "dot", "ctrlz", "caret" and "key".  *)
(* The decoder is fux-vt's, here as far as its deadline shows.              *)
(***************************************************************************)
EXTENDS Naturals, Sequences, SequencesExt

CONSTANTS Tokens,              \* what the user types, each a sequence of bytes
          MaxTokens, MaxThemes \* bounds of the instance

VARIABLES
    \* the terminal: bytes written and not yet read, tokens typed, its theme, the questions it is
    \* asked, its answers, and whether it reports new themes
    wire, tokens, theme, asks, answers, reporting,
    \* Keys: the decoder's unfinished sequence, the start of a character, the prefix typed
    decoding, partial, prefix,
    \* its colours: the theme they are of, whether a round of questions is out, or was ever answered
    colours, asked, reports,
    \* what came of it: the events and the commands in order, whether the client detached, the
    \* theme the server was told
    events, quit, told,
    \* history: all the decoder gave; a sequence a character was part of, cut by its deadline; a theme nobody reported
    decoded, cut, unreported

typingVars == <<wire, tokens, theme, asks, answers, reporting, decoding, partial, prefix, colours,
                asked, reports, events, quit, told, decoded, cut, unreported>>
colourVars == <<theme, asks, answers, reporting, colours, asked, reports, told, unreported>>
keyVars == <<wire, tokens, decoding, partial, prefix, events, quit, decoded, cut>>

Unknown == 0
Round == <<"colours", "da">>

TypingInit ==
    /\ wire = <<>> /\ tokens = 0 /\ theme = 1 /\ asks = Round /\ answers = <<>> /\ reporting = FALSE
    /\ decoding = <<>> /\ partial = <<>> /\ prefix = FALSE
    /\ colours = Unknown /\ asked = TRUE /\ reports = FALSE
    /\ events = <<>> /\ quit = FALSE /\ told = Unknown
    /\ decoded = <<>> /\ cut = FALSE /\ unreported = FALSE

Types(token) ==
    /\ tokens < MaxTokens /\ tokens' = tokens + 1 /\ wire' = wire \o token
    /\ UNCHANGED <<colourVars, decoding, partial, prefix, events, quit, decoded, cut>>

(***************************************************************************)
(* The decoder: a state of an unfinished sequence and what it gave.        *)
(***************************************************************************)
Gives(d, left, key) == [left |-> left, out |-> Append(d.out, key)]
Alone(b) == IF b \in {"lead", "rest", "tail"} THEN (IF b = "tail" THEN "key" ELSE "broken")
            ELSE IF b = "esc" THEN "escape" ELSE b
Waits == {"esc", "mouse", "lead"}
Broken(left) == [i \in 1..Len(left) |-> Alone(left[i])]
Decodes(d, b) ==
    CASE d.left = <<>> /\ b \in Waits         -> [d EXCEPT !.left = <<b>>]
      [] d.left = <<>> /\ b \notin Waits      -> Gives(d, <<>>, Alone(b))
      [] d.left = <<"lead">> /\ b = "rest"    -> Gives(d, <<>>, "char")
      [] d.left = <<"esc">> /\ b = "tail"     -> Gives(d, <<>>, "sequence")
      [] d.left = <<"mouse">>                 -> [d EXCEPT !.left = Append(@, b)]
      [] d.left = <<"esc">> /\ b = "lead"     -> [d EXCEPT !.left = Append(@, b)]
      [] Len(d.left) = 2 /\ (d.left[1] = "mouse" \/ b = "rest") -> Gives(d, <<>>, "sequence")
      [] OTHER -> LET e == [left |-> <<>>, out |-> d.out \o Broken(d.left)] IN
                  IF b \in Waits THEN [e EXCEPT !.left = <<b>>] ELSE Gives(e, <<>>, Alone(b))

(***************************************************************************)
(* Keys::take, over what was decoded.                                      *)
(***************************************************************************)
Literal == {"prefix", "caret"}
Take(k, input) ==
    IF k.quit THEN k
    ELSE IF k.prefix
    THEN CASE input = "dot"   -> [k EXCEPT !.quit = TRUE, !.prefix = FALSE]
           [] input = "ctrlz" -> [k EXCEPT !.prefix = FALSE, !.events = Append(@, "suspend")]
           [] input \in Literal -> [k EXCEPT !.prefix = FALSE, !.events = Append(@, "prefix")]
           [] OTHER -> [k EXCEPT !.prefix = FALSE, !.events = @ \o <<"prefix", input>>]
    ELSE IF input = "prefix" THEN [k EXCEPT !.prefix = TRUE]
    ELSE [k EXCEPT !.events = Append(@, input)]

\* The prefix typed in an earlier read still takes the next key.
Before == [events |-> events, prefix |-> prefix, quit |-> quit]
Takes(d) ==
    LET k == FoldLeft(Take, Before, d.out) IN
    /\ events' = k.events /\ prefix' = k.prefix /\ quit' = k.quit
    /\ decoding' = d.left /\ decoded' = decoded \o d.out

(***************************************************************************)
(* Keys::bytes and Keys::timeout.                                          *)
(***************************************************************************)
Idle == [left |-> decoding, out |-> <<>>]
MayHold_Never(d) == FALSE
\* The start of a character waits for its rest, unless a sequence begun may take it.
MayHold(d) == d.left = <<>>

Reads ==
    \E n \in 1..Len(wire) :
        LET bytes == partial \o SubSeq(wire, 1, n)
            split == IF Last(bytes) = "lead" THEN Len(bytes) - 1 ELSE Len(bytes)
            whole == FoldLeft(Decodes, Idle, SubSeq(bytes, 1, split))
            rest == SubSeq(bytes, split + 1, Len(bytes))
        IN /\ wire' = SubSeq(wire, n + 1, Len(wire))
           /\ partial' = IF MayHold(whole) THEN rest ELSE <<>>
           /\ Takes(IF MayHold(whole) THEN whole ELSE FoldLeft(Decodes, whole, rest))
           /\ UNCHANGED <<tokens, cut, colourVars>>

\* The deadline passed: what is unfinished is taken as it is.
Timeout ==
    /\ decoding # <<>>
    /\ Takes([left |-> <<>>, out |-> Broken(decoding)])
    /\ cut' = (cut \/ decoding[1] = "mouse" \/ Len(decoding) = 2)
    /\ UNCHANGED <<wire, tokens, partial, colourVars>>

(***************************************************************************)
(* The colours.                                                            *)
(***************************************************************************)
\* The terminal answers a round of questions at once, in its theme.
Answers ==
    /\ asks # <<>> /\ asks' = Tail(asks)
    /\ IF Head(asks) = "report" THEN reporting' = TRUE /\ UNCHANGED answers
       ELSE answers' = Append(answers, [is |-> Head(asks), theme |-> theme]) /\ UNCHANGED reporting
    /\ UNCHANGED <<keyVars, theme, colours, asked, reports, told, unreported>>

\* Between rounds: its user changes the theme; said once the terminal reports, unless asked now.
ThemeChanges ==
    /\ theme < MaxThemes /\ (\A i \in 1..Len(asks) : i = 1 => asks[i] # "da")
    /\ theme' = theme + 1
    /\ answers' = IF reporting THEN Append(answers, [is |-> "scheme", theme |-> theme + 1]) ELSE answers
    /\ unreported' = ~reporting
    /\ UNCHANGED <<keyVars, asks, reporting, colours, asked, reports, told>>

\* A new scheme asks the colours again, unless a round is out.
AskAgain == ~asked
Reply ==
    /\ answers # <<>> /\ answers' = Tail(answers)
    /\ LET a == Head(answers) IN
       \/ /\ a.is = "colours"
          /\ colours' = a.theme /\ reports' = TRUE
          /\ asks' = IF reports THEN asks ELSE Append(asks, "report")
          /\ UNCHANGED <<asked, told>>
       \/ /\ a.is = "scheme"
          /\ reports' = TRUE
          /\ asks' = (IF reports THEN asks ELSE Append(asks, "report"))
                        \o (IF AskAgain THEN Round ELSE <<>>)
          /\ asked' = (asked \/ AskAgain)
          /\ UNCHANGED <<colours, told>>
       \/ /\ a.is = "da"
          /\ asked' = FALSE /\ told' = IF asked THEN colours ELSE told
          /\ UNCHANGED <<colours, reports, asks>>
    /\ UNCHANGED <<keyVars, theme, reporting, unreported>>

TypingNext ==
    \/ \E token \in Tokens : Types(token)
    \/ (~quit /\ Reads) \/ (~quit /\ Timeout) \/ Answers \/ ThemeChanges \/ Reply

(***************************************************************************)
(* Properties.                                                             *)
(***************************************************************************)
\* A character typed reaches the program whole, however it is split across reads and however long
\* its rest takes, unless a sequence it may belong to was begun and cut.
CharactersWhole == cut \/ \A i \in 1..Len(decoded) : decoded[i] # "broken"

\* What was decoded, but for the prefix's commands, goes on once and in order: a prefix waiting is
\* the last, one forwarded is followed by what was typed after it.
Plain(s) == SelectSeq(s, LAMBDA e : e \notin {"prefix", "caret", "ctrlz", "suspend", "dot"})
TypedOnce ==
    /\ quit \/ Plain(events) = Plain(decoded)
    /\ quit => \E i \in 1..Len(decoded) - 1 : decoded[i] = "prefix" /\ decoded[i + 1] = "dot"
    /\ ~quit => \A i \in 1..Len(decoded) - 1 :
          decoded[i] = "prefix" /\ decoded[i + 1] = "dot"
             => i > 1 /\ decoded[i - 1] = "prefix"

\* Once all is answered the server knows the terminal's theme, unless it was never reported.
ColoursFollow ==
    asks = <<>> /\ answers = <<>> => ~asked /\ (told = theme \/ unreported)
=============================================================================
