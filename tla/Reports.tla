-------------------------------- MODULE Reports --------------------------------
(***************************************************************************)
(* When a session reports what its program is doing                        *)
(* (server/session/reports.rs, and the arms of Session::run that probe).   *)
(* Session leaves the time out: there a report may be due at any moment.   *)
(***************************************************************************)
EXTENDS Naturals

CONSTANTS
    Activities, \* what a probe may say
    Spacing     \* SPACING, in moments

VARIABLES
    doing,      \* Activity of the program
    waiting,    \* output waits: no probe is made for a change or an owed report
    attached,   \* a client sees reports
    last,       \* the last report, or NoReport
    age,        \* moments since it, Spacing for that long or more
    owed,       \* Reports.owed
    unanswered, \* input was written, or the screen resized, since the last report
    early       \* the last report, of an unchanged state and no mark, came within Spacing

reportVars == <<doing, waiting, attached, last, age, owed, unanswered, early>>

NoReport == "none"

\* What the proofs assume of the constants.
ReportsAssumption == NoReport \notin Activities /\ Spacing \in Nat

ReportsInit ==
    /\ doing \in Activities /\ waiting = FALSE /\ attached = FALSE
    /\ last = NoReport /\ age = Spacing /\ owed = FALSE /\ unanswered = FALSE
    /\ early = FALSE

Program ==
    /\ doing' \in Activities /\ waiting' \in BOOLEAN
    /\ UNCHANGED <<attached, last, age, owed, unanswered, early>>
Attach ==
    /\ attached' = ~attached /\ UNCHANGED <<doing, waiting, last, age, owed, unanswered, early>>
TimePasses ==
    /\ age < Spacing /\ age' = age + 1
    /\ UNCHANGED <<doing, waiting, attached, last, owed, unanswered, early>>

\* Reports::owe: input was written, or the terminal resized.
Owe ==
    /\ owed' = TRUE /\ unanswered' = TRUE
    /\ UNCHANGED <<doing, waiting, attached, last, age, early>>

\* Reports::due.
Due_Now == owed
Due == owed /\ (last = NoReport \/ age >= Spacing)

\* Reports::probed.
Kept == owed
Probed(marked) ==
    /\ IF last # doing \/ Due \/ marked
       THEN /\ last' = doing /\ age' = 0 /\ owed' = FALSE /\ unanswered' = FALSE
            /\ early' = (last = doing /\ age < Spacing /\ ~marked)
       ELSE owed' = Kept /\ UNCHANGED <<last, age, unanswered, early>>
    /\ UNCHANGED <<doing, waiting, attached>>
ProbeDue == Due /\ ~waiting /\ Probed(FALSE)
Poll == attached /\ ~waiting /\ Probed(FALSE)
Mark == Probed(TRUE)

ReportsNext ==
    \/ Program \/ Attach \/ TimePasses \/ Owe \/ ProbeDue \/ Poll \/ Mark

\* What must be taken: TimePasses, ProbeDue and Poll, each.

\* No state is reported again within SPACING of its last report, but after a mark.
ReportsSpaced == ~early

\* Once output pauses, what is owed is reported, and a change is while a client sees it.
IsOwed == unanswered /\ ~waiting
IsChanged == attached /\ last # doing /\ ~waiting
================================================================================
