-------------------------------- MODULE Parts --------------------------------
(***************************************************************************)
(* The parts that share no state with each other, each on an instance of   *)
(* its own, in one run: what may never happen in each.  `part` says which  *)
(* of them a behaviour is of: that one takes every step, the others rest   *)
(* as they began.  What each part is, and what is promised of it, is in    *)
(* its own module; the properties here say which of its promises are       *)
(* checked.  Those something waits on are in LiveParts.                    *)
(***************************************************************************)
EXTENDS Naturals, Sequences, SequencesExt

CONSTANTS
    Cells, StatusRow, Texts, Bare,                                         \* Display
    MostQueued, Messages, ControlRoom, Long, LongestWait,                   \* Link
    MaxDone, MaxReads, MaxWindows, MaxFails,
    Processes, Names, Ids                                                   \* KeyFile

VARIABLES
    part,
    logged, log, jobStatus, reads, readTo, now, reader, readFrom, readGot,  \* JobLog
    typed, chunks, window, signalled, tick, ticked, run, net, sending, size, resized, colours, attempt, \* Link
    dial, dropped, queue, paused, control, lasted, frozen, told, fails, lostTyping, lost, unqueued,
    uncontrolled,
    term, set, said, mirror, plain, mirrorSet, painted, guesses, line, report, between, entered, stray, \* Display
    outside,
    wire, tokens, theme, asks, answers, reporting, decoding, partial, prefix, palette, asked, reports, \* Typing
    events, quit, heard, decoded, cut, unreported,
    filter, read,                                                           \* Filter
    mode, screen, ever, happened, toProgram, stream, acked, shows, prompted, fresh, keysSent, secrets, \* Predict
    exposed, engine,
    pattern, text, p, t, star, answer, turns,                               \* Glob
    tree, changes, copying, made,                                           \* Places
    rows, terminal, width, writes, known,                                   \* Redraw
    key, list, lock, temporary, at, does, has, resets, saved                \* KeyFile

logVars == <<logged, log, jobStatus, reads, readTo, now, reader, readFrom, readGot>>
linkVars == <<typed, chunks, window, signalled, tick, ticked, run, net, sending, size, resized, colours,
              attempt, dial, dropped, queue, paused, control, lasted, frozen, told, fails, lostTyping,
              lost, unqueued, uncontrolled>>
displayVars == <<term, set, said, mirror, plain, mirrorSet, painted, guesses, line, report, between,
                 entered, stray, outside>>
typingVars == <<wire, tokens, theme, asks, answers, reporting, decoding, partial, prefix, palette, asked,
                reports, events, quit, heard, decoded, cut, unreported>>
filterVars == <<filter, read>>
predictVars == <<mode, screen, ever, happened, toProgram, stream, acked, shows, prompted, fresh,
                 keysSent, secrets, exposed, engine>>
globVars == <<pattern, text, p, t, star, answer, turns>>
placeVars == <<tree, changes, copying, made>>
redrawVars == <<rows, terminal, width, writes, known>>
keyVars == <<key, list, lock, temporary, at, does, has, resets, saved>>
vars == <<part, logVars, linkVars, displayVars, typingVars, filterVars, predictVars, globVars,
          placeVars, redrawVars, keyVars>>

(***************************************************************************)
(* The instances.                                                          *)
(***************************************************************************)
Log == INSTANCE JobLog WITH Bytes <- {"x", "n"}, NewLine <- "n", Text <- <<"x", "n">>, Budget <- 2,
                            MostRead <- 1, MaxWritten <- 5,
                            wrote <- logged, kept <- log, status <- jobStatus, asked <- reads,
                            at <- readTo, began <- readFrom, got <- readGot
Link == INSTANCE Link WITH reads <- chunks
Display == INSTANCE Display WITH status <- line
Tokens == {<<"lead", "rest">>, <<"esc">>, <<"esc", "tail">>, <<"mouse", "lead", "rest">>, <<"prefix">>,
           <<"dot">>, <<"ctrlz">>, <<"caret">>, <<"key">>}
Typing == INSTANCE Typing WITH MaxTokens <- 3, MaxThemes <- 2, colours <- palette, told <- heard
Bytes == {"text", "lead", "esc", "can", "csi", "osc", "st", "asks", "mark", "bel"}
Filter == INSTANCE Filter WITH MaxCsi <- 3, MaxString <- 4, MaxOut <- 3, MaxRead <- 5
Modes == {"echo", "editor", "silent", "password"}
Predict == INSTANCE Predict WITH Cols <- 3, Keys <- {"glyph", "backspace", "left", "enter"},
                                 MaxKeys <- 3, MaxEvents <- 2, MaxBoth <- 5, events <- happened, mirror <- shows,
                                 sent <- keysSent

\* Characters: a * ? / [ ] and classes of them, of which each pattern is one to three.
Pieces == {<<97>>, <<42>>, <<63>>, <<47>>, <<91>>, <<93>>, <<91, 97, 45, 99, 93>>, <<91, 33, 98, 93>>,
           <<91, 93, 97, 93>>, <<91, 43, 45, 57, 93>>, <<47, 97>>}
Patterns == {FlattenSeq(pieces) : pieces \in UNION {[1..n -> Pieces] : n \in 1..3}}
FileNames == {<<97>>, <<98>>, <<97, 98>>, <<98, 97>>, <<91>>, <<97, 97, 98>>}
Paths == {<<name>> : name \in FileNames} \cup {<<dir, name>> : dir \in {<<97>>, <<97, 98>>}, name \in FileNames}
Glob == INSTANCE Glob

A(absolute, tilde, names, slash) ==
    [absolute |-> absolute, tilde |-> tilde, names |-> names, slash |-> slash]
Entries == {<<"srv", "a">>, <<"srv", "a", "b">>, <<"home", "a">>, <<"home", "a", "b">>}
Asked ==
    {A(FALSE, FALSE, names, slash) : slash \in BOOLEAN,
         names \in {<<>>, <<"a">>, <<"a", "b">>, <<"..", "home", "a">>}}
      \cup {A(FALSE, TRUE, <<"a">>, FALSE), A(TRUE, FALSE, <<"srv", "a">>, FALSE),
            A(TRUE, FALSE, <<"home", "a">>, TRUE), A(FALSE, FALSE, <<"a", "..">>, FALSE)}
Places == INSTANCE Places WITH Counts <- {1, 2}, MaxChanges <- 2, job <- copying

Redraw == INSTANCE Redraw WITH Glyphs <- {"narrow", "odd", "joins", "wide"}, Rows <- 2, Cols <- 3,
                               History <- 1, MaxWrites <- 5, screen <- rows

KeyFile == INSTANCE KeyFile WITH asked <- does

\* What the proofs assume of the constants.
ASSUME PartsAssumption == Display!DisplayAssumption /\ Link!LinkAssumption /\ KeyFile!KeyAssumption

(***************************************************************************)
(* Together.                                                               *)
(***************************************************************************)
Init ==
    /\ part \in {"log", "link", "display", "typing", "filter", "predict", "glob", "places", "redraw",
                 "keys"}
    /\ Log!LogInit /\ Link!LinkInit /\ Display!DisplayInit /\ Typing!TypingInit
    /\ Filter!FilterInit /\ Predict!PredictInit /\ Glob!GlobInit
    /\ Places!PlacesInit /\ Redraw!RedrawInit /\ KeyFile!KeyInit
    /\ part # "log" => reads = "logs"
    /\ part # "predict" => mode = "echo"

Rest(name, its) == IF part = name THEN TRUE ELSE UNCHANGED its
OthersRest ==
    /\ UNCHANGED part
    /\ Rest("log", logVars) /\ Rest("link", linkVars)
    /\ Rest("display", displayVars) /\ Rest("typing", typingVars) /\ Rest("filter", filterVars)
    /\ Rest("predict", predictVars) /\ Rest("glob", globVars)
    /\ Rest("places", placeVars) /\ Rest("redraw", redrawVars)
    /\ Rest("keys", keyVars)

LogSteps == part = "log" /\ Log!LogNext /\ OthersRest
LinkSteps == part = "link" /\ Link!LinkNext /\ OthersRest
DisplaySteps == part = "display" /\ Display!DisplayNext /\ OthersRest
TypingSteps == part = "typing" /\ Typing!TypingNext /\ OthersRest
FilterSteps == part = "filter" /\ Filter!FilterNext /\ OthersRest
PredictSteps == part = "predict" /\ Predict!PredictNext /\ OthersRest
GlobSteps == part = "glob" /\ Glob!GlobNext /\ OthersRest
PlacesSteps == part = "places" /\ Places!PlacesNext /\ OthersRest
RedrawSteps == part = "redraw" /\ Redraw!RedrawNext /\ OthersRest
KeySteps == part = "keys" /\ KeyFile!KeyNext /\ OthersRest

Next == \/ LogSteps \/ LinkSteps \/ DisplaySteps \/ TypingSteps \/ FilterSteps \/ PredictSteps
        \/ GlobSteps \/ PlacesSteps \/ RedrawSteps \/ KeySteps

Spec == Init /\ [][Next]_vars

(***************************************************************************)
(* Properties: each in its module.                                         *)
(***************************************************************************)
\* A log's readers are sent it whole, its tail is whole lines, a text in it is found (jobs.rs).
LogIsRead == part = "log" => Log!FollowsWhole /\ Log!TailIsLines /\ Log!FindsText
\* What waits for the server has no hole, and what is typed after a resize reaches it after that; a
\* redial waits the longer the more failed, and one after a connection that did not last waits at all
\* (client/mod.rs).
LinkKeepsOrder == [](part = "link" => Link!QueueHasNoGap /\ Link!KeysFollowResize /\ Link!RedialsBackOff)
                  /\ Link!FlapsWait
\* The terminal is the mirror with the overlay over it, and is left as it was found (display.rs).
ShownAsMirrored == part = "display" => Display!TerminalIsMirror /\ Display!LeftAsFound
\* What is typed goes on whole, once, in order, and the terminal's colours with it (input.rs, probe.rs).
TypedGoesOn == part = "typing" => Typing!CharactersWhole /\ Typing!TypedOnce /\ Typing!ColoursFollow
\* Output is judged the same however its reads split it (stream.rs).
JudgesWhole == part = "filter" => Filter!JudgesWhole
\* No secret is shown, no guess that was not earned, and none is left (predict.rs).
GuessesAreSafe == part = "predict" => Predict!SecretHidden /\ Predict!TrustIsEarned /\ Predict!NothingIsLeft
\* A pattern matches what it means, and no further than its own slashes (glob.rs).
GlobIsExact == part = "glob" => Glob!LoopIsExact /\ Glob!SlashesAgree
\* A copy lands where cp would put it, beneath its scope's directory, and counts truly what it makes
\* (place.rs, Target::resolve, fsat).
CopyLandsWell == part = "places" => Places!StaysBeneath /\ Places!LandsAsCp /\ Places!CountsWhatItMakes
\* First uses race to one identity, and no change of the list beside it is lost (key_file.rs).
KeyIsKept == part = "keys" => KeyFile!OneIdentity /\ KeyFile!NoChangeLost
\* A client that attaches is shown the screen, and glyphs of unsure width move no other (redraw).
RedrawIsExact == part = "redraw" => Redraw!ShowsTheScreen /\ Redraw!OthersStayPut
=============================================================================
