-------------------------------- MODULE Glob --------------------------------
(***************************************************************************)
(* `koh cp --exclude`'s patterns (sync/glob.rs): the loop that matches one *)
(* against an entry's name or path, going back to its last `*` only.       *)
(*                                                                         *)
(* A character is its code, so that a range of a class compares; an entry  *)
(* is the names of its path.                                               *)
(***************************************************************************)
EXTENDS Integers, FiniteSets, Sequences, SequencesExt

CONSTANTS Patterns,   \* the patterns given, each 1 to MAX_PATTERN characters
          Paths       \* the paths of entries, each a sequence of names

VARIABLES
    pattern, text,    \* what is matched
    p, t,             \* where in them the loop is (the next character, from 1)
    star,             \* where the last `*` was and where in the text it began; at 0, none yet
    answer,           \* "idle", "running", "yes" or "no"
    turns             \* history: the loop's turns

globVars == <<pattern, text, p, t, star, answer, turns>>

Slash == 47
Star == 42
Question == 63
Opens == 91
Closes == 93
Dash == 45
Negates == {33, 94}

NoStar == [p |-> 0, t |-> 0]
GlobInit ==
    /\ pattern = <<>> /\ text = <<>>
    /\ p = 1 /\ t = 1 /\ star = NoStar
    /\ answer = "idle" /\ turns = 0

(***************************************************************************)
(* Pattern::new and excludes: a `/` at the end says nothing; with another, *)
(* one is matched against the path, without it against the name.           *)
(***************************************************************************)
New(given) == IF Last(given) = Slash THEN Front(given) ELSE given
OfPath(kept) == \E i \in 1..Len(kept) : kept[i] = Slash
Unrooted(kept) == IF kept # <<>> /\ kept[1] = Slash THEN Tail(kept) ELSE kept
Joined(path) == FoldLeft(LAMBDA all, name : all \o <<Slash>> \o name, Head(path), Tail(path))

Excludes(given, path) ==
    /\ pattern' = Unrooted(New(given))
    /\ text' = IF OfPath(New(given)) THEN Joined(path) ELSE Last(path)
    /\ answer' = "running"
    /\ UNCHANGED <<p, t, star, turns>>

(***************************************************************************)
(* class.                                                                  *)
(***************************************************************************)
\* Where a `]` may close the set that begins at `from`: one that comes first is of the set.
Closings(from) == {i \in from + 1 .. Len(pattern) : pattern[i] = Closes}

Hit(set, c) ==
    LET hit[i \in 1 .. Len(set) + 1] ==
            IF i > Len(set) THEN FALSE
            ELSE IF i + 2 <= Len(set) /\ set[i + 1] = Dash
                 THEN c \in set[i] .. set[i + 2] \/ hit[i + 3]
                 ELSE c = set[i] \/ hit[i + 1]
    IN  hit[1]

\* Whether the class at `at` is of `c`, and where the pattern goes on.
Class(at, c) ==
    LET negated == at < Len(pattern) /\ pattern[at + 1] \in Negates
        from == IF negated THEN at + 2 ELSE at + 1
        close == CHOOSE i \in Closings(from) : \A j \in Closings(from) : i <= j
    IN  IF Closings(from) = {}
        THEN [one |-> c = Opens, next |-> at + 1]
        ELSE [one |-> Hit(SubSeq(pattern, from, close - 1), c) # negated /\ c # Slash,
              next |-> close + 1]

One(at, c) ==
    CASE pattern[at] = Opens -> Class(at, c)
      [] pattern[at] = Question -> [one |-> c # Slash, next |-> at + 1]
      [] OTHER -> [one |-> pattern[at] = c, next |-> at + 1]

(***************************************************************************)
(* matches, a turn of its loop at a time.                                  *)
(***************************************************************************)
AtStar == p <= Len(pattern) /\ pattern[p] = Star
Fits == p <= Len(pattern) /\ t <= Len(text) /\ ~AtStar /\ One(p, text[t]).one

Begins ==
    /\ answer = "running" /\ AtStar
    /\ star' = [p |-> p, t |-> t] /\ p' = p + 1
    /\ UNCHANGED <<pattern, text, t, answer>> /\ turns' = turns + 1

Advances ==
    /\ answer = "running" /\ Fits
    /\ p' = One(p, text[t]).next /\ t' = t + 1
    /\ UNCHANGED <<pattern, text, star, answer>> /\ turns' = turns + 1

Answers ==
    /\ answer = "running" /\ p = Len(pattern) + 1 /\ t = Len(text) + 1
    /\ answer' = "yes"
    /\ UNCHANGED <<pattern, text, p, t, star>> /\ turns' = turns + 1

\* The last star takes one more character, unless that would be a `/`.
MayTake == star.p # 0 /\ star.t <= Len(text) /\ text[star.t] # Slash
Taken_OnlyNext == [p |-> star.p + 1, t |-> t + 1]
\* Where the loop goes on: right behind what the star took.
Taken == [p |-> star.p + 1, t |-> star.t + 1]
Mismatch ==
    /\ answer = "running" /\ ~AtStar /\ ~Fits /\ ~(p = Len(pattern) + 1 /\ t = Len(text) + 1)
    /\ IF MayTake
       THEN /\ star' = [star EXCEPT !.t = @ + 1]
            /\ p' = Taken.p /\ t' = Taken.t
            /\ UNCHANGED answer
       ELSE answer' = "no" /\ UNCHANGED <<p, t, star>>
    /\ UNCHANGED <<pattern, text>> /\ turns' = turns + 1

GlobTurn == Begins \/ Advances \/ Answers \/ Mismatch
GlobNext ==
    \/ answer = "idle" /\ \E given \in Patterns, path \in Paths : Excludes(given, path)
    \/ GlobTurn

(***************************************************************************)
(* Properties.                                                             *)
(***************************************************************************)
\* What a pattern means, tried every way, whatever the loop did before: from `i` in the pattern and
\* `j` in the text, a star is nothing or one more character but `/`.
Means ==
    LET m[i \in 1 .. Len(pattern) + 1, j \in 1 .. Len(text) + 1] ==
            IF i > Len(pattern) THEN j > Len(text)
            ELSE IF pattern[i] = Star
                 THEN \/ m[i + 1, j]
                      \/ j <= Len(text) /\ text[j] # Slash /\ m[i, j + 1]
            ELSE /\ j <= Len(text)
                 /\ One(i, text[j]).one
                 /\ m[One(i, text[j]).next, j + 1]
    IN m[1, 1]

\* Going back to the last `*` only (matches), the loop finds a match whenever there is one, stars on
\* either side of a `/` included, never one across a `/`, and takes no more turns than the product
\* of the lengths, as its doc says (of the characters and the ends).
LoopIsExact ==
    /\ answer \in {"yes", "no"} => (answer = "yes") = Means
    /\ turns <= (Len(pattern) + 1) * (Len(text) + 1)

\* No `/` of the text is matched but by a `/` of the pattern: as many in both, once it matched, so a
\* pattern never reaches into a directory beneath the one it names (class, `?` and `*`).
SlashesAgree ==
    answer = "yes" => Cardinality({i \in 1..Len(text) : text[i] = Slash})
                      <= Cardinality({i \in 1..Len(pattern) : pattern[i] = Slash})
=============================================================================
