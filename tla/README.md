# koh, specified

koh serves detachable shells, commands and copies to known client keys over QUIC (iroh). This
directory holds TLA+ modules of its concurrent core, the TLC configurations that check them on small
instances, and theorems about them that TLAPS proves for every value of the constants. Paths below
are relative to the repository (`src/server/session.rs` is `src/src/server/session.rs` of the tree
that `PROJECT.json` maps).

Run a check with `tlc -config <run>.cfg <module>` and a proof with `tlapm <module>.tla`.

## The system

| Part | State it keeps | Operations | Meets |
|---|---|---|---|
| Session task (`server/session.rs`) | emulator, held output, pending input, echoes, modes, the program's end, its attachments | the arms of one `select!`: output, settling, echoes, input, asks (redraw, resize, ended, describe), attach, presence, tick, report, TTL | PTY threads, connections (handles `SessionClient`), registry (control channel) |
| PTY (`pty.rs`) | reader and writer threads, write budget, child | write, read, keys_left, activity, close; the reaper | session, kernel terminal |
| Connection, server side (`server/attach.rs`) | epoch and its stream, pace, redraw asked, whether the end was sent | write an event, redraw, take a control message, tell the end, leave | session's broadcast, QUIC streams, gate |
| Client link (`client/mod.rs`) | wire, epoch heard, input numbers, what waits to be sent, dialing | hear, type, tick, redial, suspend | connection, display, predictor |
| Registry (`server/session/sessions.rs`) | table of sessions, last number, attach order | attach, end a peer's, list, join, shut down | connections, sessions, watcher |
| Gate and watcher (`server/cli.rs`) | handshakes, permits, settling connections, the published allowlist | admit, wait for a permit, serve until revoked; publish a list, end what it drops | all server tasks |
| Jobs (`server/jobs.rs`, `server/exec.rs`) | table by peer and name, a log, status and signals per job, count of processes | reserve, start, kill, logs, end a peer's, run, drain | blocking workers, watcher, shutdown |
| Copy (`sync/*`) | walk, window of files, part files, reply queue | send, receive, resume | a stream of a connection, the file system |
| Destinations, globs (`server/place.rs`, `sync/fsat.rs`, `sync/glob.rs`) | none of their own | resolve, walk, make, match | the tree of files, which others change |
| Predictor (`predict.rs`) | predicted cells, epochs of trust, echo seen | type, output, report, modes, reset | client link, display |
| Input and display (`client/input.rs`, `client/display.rs`, `client/probe.rs`) | the decoder, the escape prefix, the colours' round; a mirror of the terminal, what is painted over it | read, time out, reply; output, mark, report, paint, leave | the user's terminal, client link |
| Filter and redraw (`stream.rs`, `terminal/redraw.rs`) | a sequence under way, what waits to be given out; none | feed; redraw | session, display |
| Reaper (`pty.rs`) | children hung up and when to kill each | hang up, kill, reap, drain | sessions, jobs, commands |
| Client's commands (`client/cli.rs`, `client/exec.rs`) | one connection for each request | dial, ask, stop, show, exit | gate, jobs, waits |
| Wait, reports, marks, exec | small state machines over the above | | session, jobs |
| Keys and names (`identity/*`, `names.rs`) | a directory of files | open, reset, update beside | every koh process of a user |

The client keeps one connection at a time and redials; the server keeps the program and its screen
whatever becomes of connections. Everything on the server is a tokio task that owns its state and
talks by bounded channels, but for the PTY's two threads, the reaper's, and blocking workers.
Behaviours that are hard to get right: several things ready in one `select!` in any order; facts
learnt at different moments (exit reaped, output drained, keys read); a connection replaced while the
old one still speaks; a channel that closes as something is put in it; a future dropped at an await;
an allowlist that changes under all of it; queues at their bounds.

What makes each correct:

- *Session*: every attachment shows exactly the output told; held output is told; the end is last
  and reaches all; input is written in order with no gap; an acknowledgement or a claim is true; a
  session is ended by its TTL only when nobody is attached.
- *Connection*: what the terminal shows is always a prefix of the output and only grows, the end
  after all of it (module `View`); the session forgets an end only once the client has it; a slow
  client bounds what is in flight and is never left behind; both sides end.
- *Registry*: a call gets its own peer's session, the one it named, or an answer why not; the cap;
  a revoked peer has no session; every call answered; the shutdown ends.
- *Jobs*: a running job keeps name and place; one process of a name; a stopped one is hung up;
  no process outlives a drained shutdown.
- *Copy*: a file is what it was or whole, wherever a copy is cut; one said done is; neither end waits
  for ever; it lands where `cp` would put it and beneath its scope's directory.
- *Gate, watcher, reaper*: a flood gives up its own; a save of the list locks no one out; no signal
  goes to what another process is by now.
- *Commands, logs, waits*: a status comes after the output; a reader gets the log whole from where it
  began; a wait ends with the command it waited for.
- *Client*: what waits for the server has no hole; no secret is guessed at, no guess is left; the
  terminal is the program's with the overlay over it.

`PROJECT.json` lists the parts with what is modelled of each, and the hazards of the code at their
lines with the properties that cover them.

## The modules

**`Session`** is `Session::run`. `phase` is where the task stands: at the top of its loop, in the
`select!`, closing, or gone. The top is `TopEnds` (the end is due or its grace is over: what is held
is told, then `Shown::Exit`), `TopIdle`, and `PendingInput::flush` (`TopWrites`, `TopDiscards`); each
arm of the `select!` is an action `Arm...`, whole: an arm that releases held output, reads the modes
and reports does so in one step, as the code does without awaiting. `Break` is every way out of the
loop and `Closes` the teardown (`Pty::close`). Between them step the program and the holders of its
terminal, the PTY's writer thread, the clients' handles and the registry. A chunk of output is its
number: `told <= processed <= out` are written by the program, fed to the emulator, published;
`shown[a]` counts what attachment `a` shows once it reads all it was sent. An input is the attachment
and its number; `typed`, `wrote`, `read`, `lost` record what became of it (history, no guard of the
code's own reads them but through the queues). Timers may fire at any moment they are armed.

**`Connection`** is `serve` of `attach.rs` with `write_epoch`, the streams of its epochs, and the
client's `read_epochs` and `Client::heard`/`lost`. An epoch's stream is the sequence of messages
written on it; streams are accepted in any order and the reader of a replaced epoch may read on. The
session appears as what it publishes (`published`, `over`, `gone`). Lag is being more than `Events`
behind. `dropped` (history) is the last report of each epoch that found the control queue full. **`View`** is the abstract specification: what a terminal may show. `Connection` is checked to
implement it under `view <- display, end <- (client = "has_end")`.

**`Registry`** is `registry_task` and `Sessions`: one request at a time, an attach cut at the places
where a session may end meanwhile (`RegistryTakes`, `Chooses`, `Hands`/`Refuses`/`HasNoRoom`/
`Starts`), the calls of connections (`Registry::attach`, with its tries), the sessions as far as their
control channel goes, and the allowlist's watcher, whose publishing and ending are two steps.

**`Jobs`** is the table of jobs with `exec::spawn` and `finish`: a start is cut at its one await and
where other threads may come between (the token counted, the shutdown looked at, the blocking worker,
the failed entry removed), and may be dropped at its await only.

**`Sync`** is a copy: the sender's walk with its window (`SendEntry`, `SentAll`, the answers and the
bytes), the receiver's reading and landing (`receive.rs`), and between them two bounded queues, each
of which stands for a channel, its stream and the channel at the other end. The initial states are
every leftover: files there already, parts of copies cut short, of this content or another. One thing
may go wrong in a copy, anywhere. Blocks stand for bytes and a file's content for its hash.

The other parts share no state with each other, and each has a module of its own, small enough to be
read beside its code:

| Module | Code | State and actions |
|---|---|---|
| `Gate` | `server/cli.rs` `serve_endpoint`, `Pending`, `handshake`, `admit` | each connection from its handshake on, those under way and which came first, by source, the permits and who waits; arrivals, the one given up, a handshake's end or timeout, the wait and its end |
| `Allowlist` | `watch_allowlist`, `Settling` | the file before and after a save, what is allowed, what is to be dropped if the next read agrees |
| `JobLog` | `jobs.rs` `Log`, `Job`, `wait.rs` | the log's kept bytes and their offset, the status, a reader (tail, follower, or search) between two looks |
| `Reaper` | `pty.rs` `Program`, `Stopping`, `Reaper` | processes and groups, what is held, hung up and given to the thread, pids given anew |
| `Marks` | `marks.rs` END, PS0, PS1, `wait.rs` | a bash's lines, its prompt's steps, the marks on their way, the session's count, what is published of it, a wait |
| `Exec` | `server/exec.rs`, `client/exec.rs` | the command and a background job, a pipe and a stream for each output, the drain, stdin, the status |
| `Reports` | `session/reports.rs` | a time since the last report, what is owed, what the program does |
| `Commands` | `client/cli.rs` with what answers it | a request's steps at the client and at the server, the time's end, the interrupt, the exit |
| `Link` | `client/mod.rs` `drive`, `Wire`, `redial` | reads and resizes, the two queues, what is paused and lost, attempts |
| `Display` | `client/display.rs` | the terminal and its mirror, cell by cell, what is painted, status, report, an epoch, a suspension |
| `Typing` | `client/input.rs`, `probe.rs` | the bytes of a read, the decoder, the prefix, a round of colours |
| `Filter` | `stream.rs` | the state between two bytes and what is given out of each read |
| `Predict` | `predict.rs` | a row of cells, the engine's predictions, cursors and epochs; the program and its modes |
| `Glob` | `sync/glob.rs` | the loop's two places and its star, against what a pattern means |
| `KeyFile` | `identity.rs`, `identity/key_file.rs`, `names.rs` | a directory, its lock, and processes between any two of their steps, or killed there |
| `Places` | `server/place.rs`, `receive.rs` `Target::resolve`, `fsat.rs` | a tree of directories and a symlink, a copy between its calls, what it made |
| `Redraw` | `terminal/redraw.rs` | the screen with its history, a terminal that may count some glyphs otherwise |

`LiveParts` and `Parts` run these modules: each is instantiated there, and one variable, `part`, says
which of them a behaviour is of; that one steps, the others rest. So one run checks many small state
machines, and the number of its states is the sum of theirs. The constants of the parts with theorems
are `LiveParts`' or `Parts`' own, with a `PartsAssumption` in each; the other instances are fixed.

`MCRegistry`, `MCJobs` and `MCSync` give the constants that are functions. In every module a
definition `X_Fault` beside `X` is `X` with a plausible fault; with it in place of `X` the property it
stands for in `PROJECT.json` fails, so each property is known to depend on the code it is about.

## What the runs show

| Run | Instance | Shows |
|---|---|---|
| `Session_input` | one client, two attachments, two inputs, every queue of one | no gaps in what was written, echoes and claims true, no TTL under an attached client |
| `Session_output` | one client, two attachments, two chunks, redraws and resizes, echo on and off | `ShownExact`, `HeldIsSettling`, `EndReachesAll`, `EndIsLast` |
| `Session_live` | as above, one chunk, fair | the exit, output and modes are told; a detached session ends |
| `Connection` | three chunks, two epochs, a broadcast of one event, a budget of two, a control queue of one, fair | refines `View`; the end kept until delivered; the pace honest and bounded; nobody waits for ever but where a last report was dropped |
| `Registry` | two peers, three calls, two places, any list at first and a change of it | own session, named session, revoked peers, cap |
| `Registry_live` | one peer, three calls that meet in a session's full channel, one change, a shutdown, fair | every call answered, revoked peers' programs end, the shutdown ends |
| `Jobs` | one peer with two scopes, two starts with two names, room for one, a signal, a change, a shutdown, fair | names, places, drained shutdown, stopped jobs end |
| `Sync` | trees of two or three files, or with a symlink, dry, with `--delete` or exclusions, a directory there that the source lacks, over 427 leftovers; a window of two, pipes of three, a fault anywhere, fair | `WholeFiles`; a copy said done is, one that fails met a fault, closed directories are left alone, both ends end |
| `LiveParts` | four dials for one permit and three handshakes; three saves; a log of two bytes with three written; two programs, one a group; a shell's three lines; a command's two streams, of a byte each; a job that exits with 0 or with the status of a timeout; four resizes or reads; a link whose queue holds one message | each part ends what it began (`AllEnd`), and floods, saves, signals, marks, output, reports and exits are as promised |
| `Parts` | five bytes in a log of two; a queue of two messages; two cells; three tokens; reads of up to five bytes; three keys and one prompt, mode or redraw, or one key and two of those, at four kinds of program; patterns of up to three pieces; two changes of a tree; a screen of two by three with a row of history, written, moved over and erased; three processes and two names beside a key | one property for each part, in its module |

In `LiveParts` and `Parts` a property is a conjunction of the part's own, each stated in its module:
`GateKeeps` is `PermitsAddUp` and `FloodGivesUpItsOwn` of `Gate`, `LinkKeepsOrder` is `QueueHasNoGap`,
`KeysFollowResize`, `RedialsBackOff` and `FlapsWait` of `Link`, and so on. So are `KeysAreTrue`,
`ToldInTheEnd`, `AccountIsTrue`, `NeitherWaitsOn`, `NothingLeftUndone`, `TableIsTrue`,
`RunsAsLongAsItMay` and `CopyIsTrue` of the named properties before them.

The bounds are the least at which the cases meet. Queues of one are full as soon as anything waits,
which is the case worth checking; two attachments are a reconnect that races the old connection's
teardown; two inputs are one dropped before one kept; two chunks are one held and one after it; a
budget of two with three chunks closes and opens again; two epochs are one replaced; a control queue of
one, smaller than that budget as 64 reports are smaller than 4 MiB of chunks, is filled by one report of
an epoch that was replaced, so that all of the next one's may be dropped. (With a queue of two, a
budget of three, four chunks and two messages for the client's loop the run passes too.) Two places
for three calls, and one for two starts, are the cap and the eviction. A window of two with three
files is one that fills and moves on. What the bounds cut off is repetition of those. Of `Predict`'s keys
`Parts` types glyphs, backspaces, arrows to the left and Enters; a paste or another key, which is never
predicted, is modelled but not in the instance.

Two runs find a violation, where the code does not do what it says:

- `Sync_cut` (`SenderEnds`): `send_on` awaits its blocking sender while it holds the other ends of the
  channels the sender waits on. A stream cut with either full or empty leaves `koh cp` waiting until
  it is interrupted, though "the stream gone cuts the copy short".
- `Redraw_history` (`ShowsWithHistory`): an attach with history paints the rows of the screen while
  they scroll in, but moves within them as if they stood where they end up. `RedrawIsExact` is
  checked of redraws without history.

Other places where a comment, a document or the code's own intent is not met, found while modelling
(all in `findings` of `PROJECT.json`, with the lines):

- Reports and the exit carry one input number to every attachment, though numbers are per client; with
  two client processes of one peer attached, one takes another's. `ClaimsButLost` fails with two
  clients in the configuration of `Session_input`, and holds with one.
- Keys the PTY's writer drops at the hang-up count as read in `Shown::Exit` (`ClaimsTrue` of `Session`).
- An attach or redraw tells held output before the modes it was written with (`NeverToldBeforeModes`).
- An end read in a redraw is never acknowledged to the session, which is kept until its TTL
  (`EndReadIsTold` of `Connection`).
- A job's start dropped at its await after its peer's jobs were ended leaves an entry that says it
  runs until the server ends (`RunningIsRun` of `Jobs`).
- Two sources of one name over a part that a cut copy left: the second's start is zeros (`WholeFiles`
  fails of `TwoOfAName` over `PartOfX` of `MCSync`).
- `--delete` takes a directory that the source lacks whole, with what the exclusions name in it
  (`ExcludedStays` of `Sync`, which fails in the configuration of the run of that name).
- A dry run may make a parent that was removed under it; `made_dirs` counts `..` behind what is missing.
- A command's drain waits anew for every read, so a background job that writes keeps it from ending;
  hence the bound on what it writes in `Exec`.
- What is painted at a resize is not taken back, and an old epoch's output after a suspension may set
  modes that are then left set; `Display` leaves both out of `ShownAsMirrored` by name.
- From a suspension to its redraw the terminal is not the mirror: leave's fresh line, koh's message and the
  user's shell write on it alone, and what comes before the new epoch falls where that left the
  cursor. In `Display` such a terminal holds `Theirs`, and `ShownAsMirrored` promises of it only that no
  overlay stays that was taken back.
- A client's `Read` is dropped where its control queue is full and never sent again. If those of a
  replaced epoch fill it while the next one's whole budget is read, the server waits for room for ever:
  no output, no heartbeat, no end of the session (`Starved` of `Connection`). `NeitherWaitsOn` shows that
  nothing else makes either side wait, and without `Starved` it fails in the run `Connection`.
- A line that bash cannot parse and does not keep in its history (HISTCONTROL) gets no marks, so it is
  not counted and no wait sees it end; `CommandsCounted` of `Marks` counts those that were kept.
- A password prompt on a row the cursor was on for longer than `PROMPT_HOLD`, read before its modes, holds no
  key: one typed before the modes come may be shown until they do. `SecretHidden` of `Predict` leaves out
  the keys typed so (`exposed`) until the modes come, and fails with them.
- A soft-wrapped row before one of which nothing is left (erased) is followed by no line feed in a redraw,
  so all below is painted one row too high. `RedrawIsExact` leaves such screens out (`Hollow`), and fails
  with them.
- A sequence longer than `MAX_OUT` is given out in pieces that end inside it.
- `ask_until` leaves a pending dial's endpoint open; a wait's status is replaced by a later failure, and
  masked to 8 bits.

### Fairness

`Session`: `select!` polls its arms from a random one on, so an arm that is ready again and again is
run (`SF`); the top of the loop always goes on (`WF`); strong fairness of `TopEnds` is its grace
timer, which passes while the loop goes round. `Connection`: each arm of the same kind of loop, the
client's reader and loop, and QUIC's delivery of streams while the connection lasts; that a link
breaks or a client leaves is owed by nobody. `Registry`: its task, the calls' retries, the watcher's
ending of what it dropped, and sessions' spawning and teardown. `Jobs`: futures that are not dropped,
blocking workers, runners, the shutdown's wait. `Sync`: each end takes its next step where it has one. In
`LiveParts` what must be taken of a part is its action `Goes` (or that of its name), and `Goes`,
`AlsoGoes` and `GoesToo` gather those of all parts. As one part alone steps, weak fairness of a
gathering is that of its part's action; a part has two or three where one of its actors could
otherwise keep another waiting (a job that writes and a reader, two programs' graces, the client and
the server, time and a probe). The link's control stream has one by its own variables: the server
takes control messages always, and input only as it likes. No program is ever assumed to exit, read or write, no
client to type, attach or leave, and no list to change.

Deadlock is checked for `Session` and `Connection`. The others may really stop, when all calls, starts,
copies or commands are over, so it is not checked there; their liveness properties say what must not be
left waiting.

## What is proved

`SessionProofs` proves, for any clients, bounds and queue sizes that meet `SessionAssumption`:

- `TypeCorrect`: `Spec => []TypeOK`. `TypeOK` is not inductive as it stands: that `echo` holds
  numbers of real inputs needs that the input pending was typed and that every input in the channel
  came from an attachment there is. `TypeInvariant` adds those; one lemma per action, one step per
  group of variables.

`SessionToldProofs` builds on it:

- `ShowsExactly` (`ShownExact`), `HeldSettles` (`HeldIsSettling`), `EndReaches` (`EndReachesAll`):
  their conjunction, with what ties them to the loop (nothing is held once the end was told, the
  settling only runs while the program is hosted), is inductive relative to `TypeInvariant`: every
  action that tells output adds the same amount to each live attachment or starts one at the new
  `told`; every one that holds output arms the settling; the only ones that add a live attachment
  after the end also make it know the end.
- `EndLast` (`EndIsLast`), an action property, from the same invariant.
- `WritesWithoutGaps` (`WrittenWithoutGaps`), of any clients: `WritesInv` says that what an attachment
  typed leaves its queue in its order (`InTurn`), that all before the pending input is written or read
  (`PendingNext`), and that nothing the newest attachment typed is missing (`NoneDropped`). These last two
  are only so while the task goes on and the PTY takes input (`MayWrite`): an input is dropped only as
  the writer stops or the program's end is told, and nothing is written after that; what an attach drops is
  the replaced attachment's, which sends no more.
- `KeysTrue` (`KeysAreTrue`) and `ClaimsHold` (`ClaimsButLost`), of one client process over any attachments
  (`OneClient`): that process numbers on across its attachments (`Rising`), all it typed up to a number
  that an echo or a report may name is done (`NamesDone`), and what was written is read, lost to the
  hang-up or in one of the two queues before the program (`WrittenStands`). The hypothesis is not for
  the proof's sake: with two clients the properties are false of the code, see the findings above. It is a
  hypothesis of these two theorems, and no assumption of `Session`.
- `KeptAttached` (`KeptWhileAttached`), an action property: a session counts as detached, which is what
  its TTL ends, only while nobody is attached (`DetachedIsEmpty`), as taking an attach clears that.

`RegistryProofs` proves, for any peers, calls, caps and changes of the list
that meet `RegistryAssumption`:

- `TypeCorrect`: here `TypeOK` is inductive; one lemma per group of variables.
- `OwnSession` (`OwnSessionOnly`) and `NamedSession` (`NamedGetsItself`): neither is inductive, as an
  answer is decided long before it is told. `GetsInv` says of every place where a call and a session
  meet (the registry's hands, a control channel, the call that a session was started for, an answer)
  that the call may get it (`MayGet`); a call that began keeps what it picked and a session its owner,
  so what was right when decided stays right (`MayGetKept`).
- `RevokedEnded` (`RevokedHasNone`): needs, of the attach in the registry's hands, that its peer is
  allowed or its end is on the way behind it (`HandledInTime`), and that a registry that stops has no
  session left as its channel goes (`NoneWhenStopped`). An end on its way stays so until the registry
  takes it (`PendingStep`).
- `CapHeld` (`CapKept`), from the same step lemmas.

`JobsProofs` proves, for any starts of any peers, any cap and any changes of the list that meet
`JobsAssumption`:

- `TableAlways` (`TableIsTrue`): `JobsInv` says for each place a start may stand at what its worker, its
  process and its entry are (`StartOf`), that whatever may still have a process is counted and whatever
  runs is in the table until it is told to stop (`Accounted`), and that no two running entries of a peer
  have a name; so a shutdown that saw the count at zero left no process behind.
- `RunningKeepsItsPlaceAlways`, an action property: no step takes a running job's entry away but the one
  that stops it.

`ConnectionProofs` proves, for any budget, queues, number of epochs and broadcast that meet
`ConnectionAssumption`:

- `AccountIsTrueAlways` (`AccountIsTrue`: the types, `EndKeptTillDelivered`, `PacedWasRead`,
  `InFlightBounded`).
- `ShowsAsPromisedAlways` (`ShowsAsPromised`): every step of a connection is a step of `View` or leaves
  what `View` sees as it was.

Both follow from `ConnInv`. The pace is honest because every report on its way is of something read
(`ReadInv`), which is so because what waits for the client's loop was read (`QueueInv`). What is shown is
right because each epoch's stream is its screen, then each chunk after it in turn, then the end after all
of them (`IsStream`); an epoch's screen shows all that the ones before it had (`AfterInv`); what the server
writes next follows what it wrote, unless a redraw is due (`NextInv`); and of each epoch the client
heard a prefix, with what waits for its loop the rest of what was read, in order, whatever the order in
which the epochs' readers put it there (`ClientInv`, which says that there is such a count: the model keeps
none). `DueInv` bounds the epochs: the redraws on their way are counted as a cardinality, with
lemmas for what an append and a take do to it (`RedrawsAppended`, `RedrawsTaken`).

`LivePartsProofs` proves, of each part for every value of its constants that meets `PartsAssumption`:

- `GateKeepsAlways` (`GateKeeps`), for any connections dialled from any addresses, room and permits, of
  `GateInv`. Those shaking hands are in the table, and of any two there one is noted as before the other
  (`TableInv`): so a handshake given up, being none that another of its address came before, came before
  all of them. Of the permits each is free or held, who waits stands in the queue once, and there is a
  queue only while none is free (`PermitInv`). `TakenOut` and `PutLast` say what leaving and joining a
  queue do to who is in it, and `OneShakesNot`, `NoneShaken` and `PermitsRest` what most steps keep.
- `StatusAfterOutputAlways` (`StatusAfterOutput`): of each stream, what the client has, what is on its way
  and what is in the pipe are together all the command wrote, in order (`Carries` of `Flow`); the pump ends
  only with none of it left in the pipe, and the status is the last to come.
- `ReapsItsOwnAlways` (`ReapsItsOwn`): a pid is kept by an unreaped leader or by its group for as long as
  the reaper may signal it (`Pids`), and what was given to the thread before a drain is taken before
  it (`Queued`, `Drains`).
- `CommandsExitAlways` (`CommandsExit`): a task of the server's says only what happened (`Task`), and so does
  the client's exit (`Asker`); a job may itself exit with the status of a timeout, 124.
- `SaveLocksNoOneOutAlways` (`SaveLocksNoOneOut`), an action property: a set that waits to be agreed on
  holds every listed key, or was read from a file being saved, in which case the next read differs.
- `ReportsSpacedAlways` (`ReportsSpaced`).
- `MarksAreTrueAlways` (`MarksAreTrue`): parsed one after another from what was counted so far, the marks still
  in the terminal come to what bash itself counts (`Reads`, which says that there are such counts between:
  the model keeps none), and history tells a line that bash could not parse and kept from an empty one
  (`PromptKnown`). One that it did not keep is told from an empty one by nobody, and counted by none.

`PartsProofs` proves, of three parts of `Parts` likewise:

- `ShownAsMirroredAlways` (`ShownAsMirrored`), for any cells, status row and texts: `DisplayInv` is the two
  properties with the types. Where no overlay was forgotten, to take it back leaves none on the
  terminal, and leaves the mirror on one that is the program's (`TakenBack`), which every paint, output,
  mark and leave starts with; what others write on a terminal that was left is no overlay
  (`WrittenIsNone`).
- `LinkKeepsOrderAlways` (`LinkKeepsOrder`), for any queue, room, chunks and longest wait, of `LinkInv`. Chunks
  are numbered as typed, and those in the queue come before those being sent, and those before what
  waits for the loop (`Numbered`). A dropped chunk is after all that waits, and then the queue takes no more until it
  is empty, or before all of it (`Holes`). What the server was told of the window, or is to be, on
  whichever stream, is numbered as the window grew (`Resized`), so that a message overtaken by the
  control stream changes nothing. The loop's size is told, waits, or was dropped (`Follows`), so what is
  sent next is behind it. A dial's wait is that of the failures so far (`Redialing`), and more than none
  after one (`WaitInNat`), which is `FlapsWait`, a property of steps. `AtEnd` and `AtFront` say what an append and a
  take do to a sequence, `KeysAdded` and the like what they do to these sets.
- `KeyIsKeptAlways` (`KeyIsKept`), for any processes and names: whoever is between the check and the rename
  holds the lock, what it is about to publish was made of the list that is still there, and a key that was
  loaded is the file's until a reset (`Holds`).

A step of `LiveParts`, or of `Parts`, is a step of one part and leaves the others' variables as they
were; `OwnSteps` says so once, and each part's theorem uses its own conclusion of it.

`SyncProofs` proves, of any copies and leftovers that meet `SyncAssumption` and `CopiesAssumption`:

- `WholeFilesAlways` (`WholeFiles`): wherever a copy is cut, each file is as it was or whole, what is kept
  of one under way is its start, a dry run changes nothing, and nothing goes but what `--delete` takes.
- `DoneIsDoneAlways` (`DoneIsDone`, of `CopyIsTrue`): a copy said done landed every entry, closed every
  directory, counted every file once and, with `--delete`, left nothing else.
- `ClosedIsQuietAlways` (`ClosedIsQuiet`, of `CopyIsTrue`): once a directory has its mode and time nothing
  lands in it or goes from it.
- `FailsByFaultAlways` (`FailsByFault`, of `CopyIsTrue`): a copy that ends ended well, unless a fault came
  between: whatever the two ends' order, neither takes what the other sends for malformed, closes before
  the answers due, or gives up.
- `TypeOKAlways` (`TypeOK`, of `CopyIsTrue`): every queue keeps its bound, no more files wait for an answer
  than a window, at either end, and no directory is closed twice.

The first three follow from `Inv`. What is ahead of the receiver, that is the file it lands, what is in the pipe and what
the sender gathered, is a stream: its headers come in the order of the walk with none left out, and the
chunks after a file's data go on where the data says (`Stream`, `Runs`, `Hand`). Data says to go on from a
start only while the part has that start (`Fits`), which it keeps until then because `--delete` spares the
parts of files under way (`Spared`). Nothing that was sent goes, as a directory's end comes after all that
is in it, and each was noted in that directory when it came (`Opened`). What has landed agrees with the last
header read (`Landed`): each entry up to it is there but the files under way, which are the files not
counted, and a directory that ended is closed unless a file under way is beneath it. A file is settled as
the same only while it is what the sender compared (`Same`), and the sender's last word comes after every
entry (`Finished`): read with nothing under way, all has landed (`FinishDone`).

That a copy fails by a fault alone takes an account of each file in the window (`Accounts`): the files that
will be awaited when the receiver reads an item are those awaited now, less those answered before the item,
and those whose headers come before it (`Out`). With it each answer queued is of a file that will then be
awaited and of no other's, each header finds room in the window, and `pending` is what will be awaited after
the last item, so that a sender that closes with nothing pending leaves the receiver with nothing awaited.
`Honest` says so of every state before a fault, and that neither end has given up; the bounds
(`SenderBounds`, `QueueBounds`, `ReceiverBounds`) are inductive with it.

The theorems are of trees no two entries of which land as one path (`OneOfAName`): of two sources of one
name `WholeFiles` is not true, see above.
`CopiesAssumption` says what a walk is: entries as `Sender::dir` yields them, each between its directory
and that directory's end, and no excluded directory gone into.

The assumptions on constants are: that sizes and bounds are numbers, those of queues not zero; that
sets of peers, calls, starts and connections are finite where one is counted; that a connection comes from one address; that a redial's longest wait is not zero; that `NoReport`, `NoKey`, `NoOne`, `Garbled`
and the like are none of the values they stand beside, nor is an overlay's cell what a program writes; that exit statuses are 0 to 255; and what a walk is. TLC evaluates
each in the run of its module.

Out of the prover's reach and left to TLC:

- everything under fairness: `ToldInTheEnd`, `NeitherWaitsOn`, `NothingLeftUndone`, `RunsAsLongAsItMay`,
  `CopyEnds` of `CopyIsTrue` (the rest of it is proved), `AllEnd`;
- what is computed over a sequence of any length, by a fold or a recursion, which would need induction over
  data: `Log`'s tails and searches, `Glob`'s loop against what a pattern means, `Filter`'s pieces against
  the bytes, `Redraw`'s painting against the screen, `Predict`'s row.

The safety of `Typing` and `Places` could be proved and is model-checked only. In `Typing` what became of a
token is told by filtered sequences, which is a recursion. In `Places` a tree is small and fixed, and to
state it for any tree would take a theory of paths. With `Log`, `Glob`, `Filter`, `Redraw` and `Predict`
these are the properties without a theorem: `TypedGoesOn`, `CopyLandsWell`, `LogIsRead`, `GlobIsExact`,
`JudgesWhole`, `RedrawIsExact` and `GuessesAreSafe`.

## The plan

The modules planned are written, and each component's main safety is proved, or listed above as out of
reach. What could be added: a composition of `Link`'s queue with `Session`'s input, so that what is typed
across a redial is written without gaps from end to end.

## What is not modelled

- The wire's encodings and their bounds (`proto.rs`, `request.rs`, `bounded.rs`), arguments, menus,
  logging and wording: functions of one value, with no state.
- The emulator (the crate fux-vt) and what redraws and the overlay look like: attributes, links, the
  alternate screen, margins, palettes. `Redraw` has glyphs and where they stand.
- iroh, QUIC and the kernel, beyond what the code sees of them: a connection may be lost at any moment,
  streams keep their order, `rename` and `flock` are what they are.
- What makes a key file private (owners, modes, links), a directory of sockets or marks safe, and what
  a name may be: checks of one value. Raw mode and the terminal's own settings.
- A wait for a file, which polls the disk.
- Time is never counted, but for `Reports`' spacing and the attempts of a redial; timers fire whenever
  they are armed.
- The parts are checked each for itself: that two of them meet only by what each says of the other
  (a published list, a token, a status channel) is read off the code, not checked.
