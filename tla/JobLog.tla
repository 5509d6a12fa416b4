-------------------------------- MODULE JobLog --------------------------------
(***************************************************************************)
(* A job's log (server/jobs.rs Log, Job) and those that read it while it   *)
(* is written: koh logs, which may follow it, and koh wait for a text      *)
(* (server/wait.rs).                                                       *)
(*                                                                         *)
(* A byte is NewLine or another; the log and the status are written one    *)
(* after the other, each under a lock of its own.                          *)
(***************************************************************************)
EXTENDS Naturals, Sequences, FiniteSets

CONSTANTS
    Bytes, NewLine, \* what a job writes
    Text,           \* what is waited for
    Budget,         \* job_log_bytes
    MostRead,       \* MAX_LOG_CHUNK
    MaxWritten      \* bound: bytes a job writes

VARIABLES
    wrote,     \* all the job ever wrote
    kept,      \* Log.kept
    status,    \* Status.written and .exit, as published
    asked,     \* "logs", "follow" or "text"
    at,        \* how far the reader is
    now,       \* the status it last looked at
    reader,    \* "begins", "looks", "reads", "ends", "waits", or its answer: "told", "told exit", "text", "ended"
    began,     \* where what it is sent begins
    got        \* what it was sent from there; Gone for each byte it was told was dropped

logVars == <<wrote, kept, status, asked, at, now, reader, began, got>>

Gone == "gone"

LogInit ==
    /\ wrote = <<>> /\ kept = <<>> /\ status = [written |-> 0, exit |-> FALSE]
    /\ asked \in {"logs", "follow", "text"} /\ at = 0 /\ now = status
    /\ reader = "begins" /\ began = 0 /\ got = <<>>

Larger(a, b) == IF a > b THEN a ELSE b
Smaller(a, b) == IF a < b THEN a ELSE b
Less(a, b) == Larger(a, b) - b
Newest(s, n) == SubSeq(s, Less(Len(s), n) + 1, Len(s))
From(s, n) == SubSeq(s, n + 1, Len(s))

\* Log::append: dropped in one move once twice the budget is held.
Kept(s) == IF Len(s) > 2 * Budget THEN Newest(s, Budget) ELSE s
Dropped == Less(Len(wrote), Len(kept))

Append_(chunk) ==
    /\ status.written = Len(wrote) /\ ~status.exit /\ Len(wrote) + Len(chunk) <= MaxWritten
    /\ wrote' = wrote \o chunk /\ kept' = Kept(kept \o chunk)
    /\ UNCHANGED <<status, asked, at, now, reader, began, got>>
TellWritten ==
    /\ status.written < Len(wrote) /\ status' = [status EXCEPT !.written = Len(wrote)]
    /\ UNCHANGED <<wrote, kept, asked, at, now, reader, began, got>>
JobEnds ==
    /\ status.written = Len(wrote) /\ ~status.exit /\ status' = [status EXCEPT !.exit = TRUE]
    /\ UNCHANGED <<wrote, kept, asked, at, now, reader, began, got>>

\* Log::read.
Skipped(from) == Less(Dropped, from)
ReadFrom_Anywhere(from) == From(kept, from)
ReadFrom(from) == From(kept, Larger(from, Dropped) - Dropped)

\* Log::tail: past the newline that ends the line before the newest `lines`; a newline that ends
\* the last line is not one of those.
LineEnds(s) == {i \in DOMAIN s : s[i] = NewLine}
Ending(s) == LineEnds(s) \ {Len(s)}
NewestLines(s, lines) ==
    IF lines = 0 THEN Len(s)
    ELSE LET before == {i \in Ending(s) : Cardinality({j \in Ending(s) : j >= i}) = lines} IN
         IF before = {} THEN 0 ELSE CHOOSE i \in before : TRUE

\* koh logs, of the whole log or of its newest lines.
BeginAt(from) ==
    /\ at' = from /\ began' = from /\ reader' = "looks"
    /\ UNCHANGED <<wrote, kept, status, asked, now, got>>
Begin ==
    /\ reader = "begins" /\ asked # "text"
    /\ \/ BeginAt(0)
       \/ \E lines \in 0..2 : BeginAt(Dropped + NewestLines(kept, lines))

\* The status first, then what there is.
LookAtStatus ==
    /\ asked # "text"
    /\ reader = "looks" \/ (reader = "waits" /\ now # status)
    /\ now' = status /\ reader' = "reads"
    /\ UNCHANGED <<wrote, kept, status, asked, at, began, got>>
ReadChunk ==
    /\ reader = "reads" /\ asked # "text"
    /\ LET chunk == SubSeq(ReadFrom(at), 1, Smaller(MostRead, Len(ReadFrom(at)))) IN
          /\ at' = at + Skipped(at) + Len(chunk)
          /\ got' = got \o [i \in 1..Skipped(at) |-> Gone] \o chunk
          /\ reader' = IF chunk = <<>> THEN "ends" ELSE "reads"
    /\ UNCHANGED <<wrote, kept, status, asked, now, began>>
AtEnd == now.exit /\ at >= now.written
EndOrWait ==
    /\ reader = "ends"
    /\ reader' = IF AtEnd THEN "told exit" ELSE IF asked = "logs" THEN "told" ELSE "waits"
    /\ UNCHANGED <<wrote, kept, status, asked, at, now, began, got>>

\* koh wait for a text: searched from where it could begin, each time the status changes and
\* every LOOK; an end counts only after a search that came later.
Begins(s, i) == i + Len(Text) - 1 <= Len(s) /\ SubSeq(s, i, i + Len(Text) - 1) = Text
Occurs(s) == \E i \in DOMAIN s : Begins(s, i)
Searched(from, len) == Larger(from, Less(from + len, Len(Text) - 1))
WaitLooks ==
    /\ asked = "text" /\ reader \in {"begins", "waits"}
    /\ now' = status /\ reader' = "reads"
    /\ UNCHANGED <<wrote, kept, status, asked, at, began, got>>
Find ==
    /\ asked = "text" /\ reader = "reads"
    /\ at' = Searched(at + Skipped(at), Len(ReadFrom(at)))
    /\ reader' = IF Occurs(ReadFrom(at)) THEN "text" ELSE IF now.exit THEN "ended" ELSE "waits"
    /\ UNCHANGED <<wrote, kept, status, asked, now, began, got>>

JobWrites == \E n \in 1..2 : \E chunk \in [1..n -> Bytes] : Append_(chunk)
Reads == LookAtStatus \/ ReadChunk \/ EndOrWait \/ WaitLooks \/ Find
LogNext == JobWrites \/ TellWritten \/ JobEnds \/ Begin \/ Reads

\* What must be taken: the job ends and what it wrote is told; its reader runs.
JobGoes == TellWritten \/ JobEnds
ReaderGoes == Begin \/ Reads

\* A reader is sent the log as it was written, told of each byte it will never be, and an exit only
\* after all of it (jobs.rs logs).
FollowsWhole ==
    /\ at <= Len(wrote) /\ (asked # "text" => at = began + Len(got))
    /\ \A i \in DOMAIN got :
          got[i] = wrote[began + i] \/ (got[i] = Gone /\ began + i <= Dropped)
    /\ reader = "told exit" => at = Len(wrote) /\ status.exit
    /\ reader = "told" => at >= now.written

\* A tail has the lines asked for, or all there are, and is told how many it leaves out
\* (Log::tail).
Lines(s) == Cardinality(LineEnds(s) \cup ({Len(s)} \ {0}))
TailIsLines ==
    \A lines \in 1..MaxWritten :
        LET from == NewestLines(kept, lines) IN
        /\ Lines(From(kept, from)) = Smaller(lines, Lines(kept))
        /\ Cardinality(LineEnds(SubSeq(kept, 1, from))) = Lines(kept) - Lines(From(kept, from))

\* A text the job wrote is found, however its writes break it, unless the log dropped it first; and
\* one it did not write is not (Job::find).
FindsText ==
    /\ reader = "ended" => status.exit /\ ~Occurs(kept)
    /\ reader = "text" => Occurs(wrote)

\* Whoever reads a job that ends is answered.
IsAnswered == reader \in {"told", "told exit", "text", "ended"}
===============================================================================
