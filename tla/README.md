# discodb2: TLA+ models, model checking and proofs

discodb2 is a CAN-bus reverse-engineering tool. A Python backend reads frames
from a CAN adapter (or a capture, or a simulator) and streams them over one
WebSocket per client; a browser "cockpit" buffers and analyses them and hosts
guided experiments; a phone "copilot" views the stream and answers the
experiments' questions. This directory holds TLA+ modules translated from that
source, the TLC configurations that check them, and TLAPS proofs about them.
`PROJECT.json` ties every definition to the source lines it models, a
declaration together with the comment that documents it.

## 1. Inventory

### Backend (`src/backend/discodb2_backend`)

| component | state | operations | hard behaviour | what makes it correct |
|---|---|---|---|---|
| stream engine `engine.py` | source state, reader thread, frame queue, batcher task, client queues, counters | `start`, `stop`, `add_client`, `remove_client`, reader loop, batcher loop, recording proxies | a *thread* races the asyncio loop; `stop()` blocks the loop in `join(2.0)`; three bounded queues in a row; tasks that die | one live reader; sources never mix; ordered, lossy, counted delivery; stop ends; a slow client harms only itself |
| batch codec `protocol.py` | none | `encode_batch`, `decode_batch` | u16 count, u32 offsets, base must be the earliest stamp | what the batcher hands it is encodable |
| recorder `recorder.py`, `candump_log.py` | open file, counters | `start`, `write`, `stop`, `list_files` | a write may raise in the middle of a batch | the file has at least what was streamed |
| adapters `adapters/*` | device handles, replay cursor | `open_bus`, `recv`, `shutdown` | `recv` blocks, raises, or rewinds its stamps | stamps handed up are monotonic |
| stats, health `stats.py`, `healthlog.py` | counters, rates | `record_*`, `health` | written by two threads | the status is truthful |
| server `server.py` | connections, client kinds | control messages, relay, status broadcast, periodic status | slow peers; handler awaits between a change and its broadcast; partial failures | every client learns the latest state; relays arrive in order and only at others |
| config, main, clock | none at run time | | | |

### Shared (`src/frontend/shared`) and cockpit (`src/frontend/cockpit`)

| component | state | operations | hard behaviour | what makes it correct |
|---|---|---|---|---|
| wizard reducer `wizard-fsm.ts` | phase, test index, good count, silence count | `step(state, event)` | total on late events | counts, guard-rail, termination |
| wizard host `wizardHost.ts` | reducer state, two timers, ledger | `start`, verdicts, `reset`, `destroy`, timer callbacks | timeouts race buttons and relayed verdicts | exactly one live timer; honest ledger and reason |
| hunt panel `HuntPanel.svelte`, `FeedbackOverlay.svelte` | marks being gathered, captures, questions under way, promoted slots | phase observer, buttons, relay in/out, captures, scans, promotions | infers what happened from snapshots; answers come late and in between edits | a mark per confirmed test and no other; what is listed answers what was asked last |
| frame ring `ringBuffer.ts` | circular arrays, cursor, generation | `push`, `clear`, `since`, windows | wrap-around, lapped readers, clear between two reads | a reader misses nothing it is not told about |
| protocol client `protocol/client.ts` | socket, backoff timer | connect, disconnect, callbacks | reconnect races, stale callbacks | one socket, backoff bounded |
| store and workers `state/store.ts`, `worker/*` | selection, project, what each worker was told last, pending requests, message model | edits, selection, connect, load, subscriptions, request and answer | one thread, but each reply and snapshot is about an earlier state; subscriptions run in the middle of a handler | workers, panels and link agree with the stores once nothing is under way |
| project `protocol/datamodel.ts`, `state/store.ts` | frames, signals, messages, tabs, formulas, scenarios, field runs, findings | every edit | invariants kept by hand in each edit; files of older versions | one multiplexor per frame, one canonical tab, the open tab exists |
| link in the address bar `state/urlState.ts` | the hash | build, apply | applied in steps that set each other off | a link leads back to what it was written for |
| logbook run `logbook/runEngine.ts`, `runController.ts` | phase index, windows, timers | arm, start, next, stop, tick | operator races the clock; asynchronous analysis | windows tile the run; the result shown belongs to the run shown |
| library and field runs `LogbookPanel`, `MarkhuntPanel`, `FindingsPanel` | scenarios, labels, spans, the run that is recorded | edit, paint, link, analyse, promote | every list stays in reach while a run is recorded | spans fit their labels and do not overlap |
| analysis algorithms `shared/analysis/*`, `hunt/*` | none | pure functions of a window of frames | each exists twice, over frames and over packed columns; slots longer than the payload; ties, short frames, degenerate ranks | the two agree; counters and checksums are never offered; a field reads the same in every program |
| signals, DBC `protocol/decode.ts`, `protocol/formula.ts`, `dbc/dbc.ts` | none | decode, formula, export, import | three readings of one bit range; names are rewritten | all readings agree; a file keeps the meaning |
| parsers `protocol/parseBatch.ts`, `shared/protocol.ts` | none | encode, decode | four decoders of one format | they read every batch alike |
| diagnostic lens `shared/diagnostic.ts` | none | ISO-TP frames, reassembly, service | frames lost, other frames between, sequence numbers that wrap | a transfer shown as complete is the one that was sent |
| audio `logbook/audio.ts`, `hunt/cuePlayer.ts` | voice, mute, timers | cue, melody, dispose | a cue that never reports its end; a melody that outlives its phase | the melody tells the phase; one beep per cue |
| charts, heat maps, colours, downloads | view state | | only rendered | |

### Copilot (`src/frontend/copilot`)

| component | state | operations | hard behaviour |
|---|---|---|---|
| stream client `protocol/client.ts` | socket, backoff, stall watchdog | connect, visibility, stall | background suspension, forced reconnects |
| wizard overlay, `store.svelte.ts` | last relayed state, last cue that beeped | parse relay, send verdict or stop, dismiss | acts on a phase that is already over; relays and verdicts are lost |
| rings, watches | tiles, the gauge's line | frame callback, add, remove, pick | one payload buffer is used for all frames | a tile shows the newest value, the gauge only its own |
| logbook overlay, wake lock, PWA | view state | | only rendered |

### How they interact

The reader thread shares only the frame queue, the stop event and the counters
with the loop. The batcher reads the engine's source state and writes the client
queues; a writer task per connection drains its queue into the socket. Control
messages run inside the connection's reader coroutine and call the engine
directly. The wizard host publishes snapshots to the panel (callbacks in the
same task, re-rendering in the microtask after it) and to viewers (a relayed
message); viewers answer with `trialFeedback` messages that the panel feeds to
the host in whatever phase it is.

## 2. Modules

Each module is described below under the part it belongs to.

| module | models | built on |
|---|---|---|
| `Engine` | `engine.py`, the writer of `server.py`, the recorder's calls | |
| `LossyStream` | what the engine promises one viewer (abstract) | |
| `EngineProofs` | theorems about `Engine` | `Engine` |
| `Server` | control messages, relay and status broadcasts of `server.py` | |
| `ServerProofs` | theorems about `Server` | `Server` |
| `WizardFsm` | `wizard-fsm.ts`, the reducer | |
| `WizardHost` | `wizardHost.ts` and the guided part of `HuntPanel.svelte` | `WizardFsm` |
| `WizardRelay` | the host beside a phone: the relay and the copilot's `store.svelte.ts`, `WizardOverlay.svelte` | `WizardHost` |
| `WizardProofs` | theorems about `WizardHost` and `WizardRelay` | `WizardRelay` |
| `Logbook` | `runEngine.ts`, `runController.ts`, the arming and the buttons of `LogbookPanel.svelte`, the melodies of `audio.ts` | |
| `LogbookProofs` | theorems about `Logbook` | `Logbook` |
| `CockpitLink` | the cockpit's `protocol/client.ts` and the store's connect/disconnect | |
| `CopilotLink` | the copilot's `protocol/client.ts` | |
| `Links` | both on one backend | `CockpitLink`, `CopilotLink` |
| `LinksProofs` | theorems about `Links` | `Links` |
| `FrameRing` | `ringBuffer.ts` | |
| `BoundedLog` | what a ring promises: the newest frames and a cursor (abstract) | |
| `MessageModel` | `messageModel.ts` and its use in `analysis.worker.ts` | `FrameRing` |
| `ModelProofs` | theorems about `FrameRing`, the refinement among them, and about `MessageModel` | `MessageModel` |
| `Codec` | the batch (`protocol.py`, `shared/protocol.ts`, both parsers) and the candump line | |
| `Diagnostic` | `shared/diagnostic.ts` | `Codec` |
| `Wire` | a frame's way from the bus to the Inspector and to the phone's tiles, and through a recording | `Diagnostic` |
| `WireProofs` | theorems about `Wire` | `Wire` |
| `Frames` | windows, packed columns, fractions and orders of `shared/analysis` | |
| `Tagger`, `Scorers`, `Experiment`, `Scans` | the analyses of `shared/analysis` | `Frames`, in a chain |
| `Signals` | `decode.ts`, `formula.ts`, the promotions, `dbc.ts` | `Scans` |
| `Hunt` | `runHuntScan` of the worker with the adapters in `hunt/`, over a recording, and what is promoted from its answers | `Signals`, `Experiment` |
| `Project` | `datamodel.ts` and the store's edits | |
| `Cockpit` | the stores, the subscriptions, the link in the address bar, the two workers as the page sees them | `Project` |
| `Workbench` | the panels of Explore | `Cockpit` |
| `HuntDesk` | `HuntPanel.svelte` without the guided series | `Cockpit` |
| `Library`, `FieldDesk` | the libraries of the Logbook and `MarkhuntPanel.svelte` | `Cockpit` |
| `Desks` | the page with all its panels, and what it promises | the four |
| `DesksProofs` | theorems about `Desks` | `Desks` |
| `MC*` | the constants of the TLC instances | the module they are named for; `MCAnalysis` joins `MessageModel` and `Wire` |

A definition whose comment begins with "Mutant" (and one that stands just before
a definition with the same parameters and is used nowhere else) is a plausible
error: put in place of the definition that follows it, it makes the property named
in `PROJECT.json` fail.

### Engine

A reader thread is a record in `reader`, one per source opened, with a program
counter for the three points where it can be interrupted: the test of the stop
event, `recv()`, `put_nowait()`. Everything else runs on the asyncio loop, and
`loop` says what occupies it: `free` between tasks, `batch` while the batcher
drains and encodes, `join`, `drain` and `open` inside `start()`/`stop()`, which
do not await and so keep every other task out. The threads interleave with all
of it. Since `join(2.0)` may give up, `JoinReturns` waits for the thread only
if `PunctualRecv` holds; otherwise a late thread may find the stop event
cleared by the next `start()` and go on beside the new one.

A frame is its number, the source that delivered it and its stamp. The batch
codec is reduced to the two conditions under which it raises (`Encodable`); what
it does to a frame is `Codec`'s subject. `out` is what reached a peer, `queue` and
`wire` what is on its way. `received`, `offered`, `overflow` and `streamed` are
history for the properties.

Abstract specification: `LossyStream` has a source that counts up and, for each
viewer, a log that may grow only by a batch of numbers larger than all before.
`Promise` maps the engine's `received` and `out` to it.

### Server

A task is blocked on the connections in `on[t]` and has still to visit those in
`left[t]`. A relay sends to all peers at once and waits for all (`gather`), a
status broadcast visits one connection after the other with the snapshot it
took first. `queue[c]` holds the sends that wait for connection `c`'s buffer,
first come first served. A behaviour takes one of three workloads: changes of
state under broadcasts, relays between three clients, and requests that fail.

### WizardFsm, WizardHost, WizardRelay

`step(s, e)` is the reducer, arm by arm. It returns the next state and the
effects the host acts on. One browser task is one action of the host, with the
panel's phase observer in the same action, as Svelte flushes it in the
microtask after the task. `Press(e)` stands for the cockpit's buttons and, if
`LateVerdicts`, for a verdict relayed by a viewer, which the panel forwards in
whatever phase it is. The clock of marks counts cues. `confirmed` and
`silentRun` are history.

`WizardRelay` puts the phone where those verdicts come from. The host relays a
snapshot after each dispatch (`toPhone`), the phone keeps the newest (`wizard`),
beeps once per cue (`cueKey`) and sends what its overlay offers in the phase it
shows (`toHost`). Neither message says which test it is about. While the way is
down, sends are lost on both sides. Every step of it is a step of `WizardHost`
(proved), so the channel adds behaviours to check and no assumption.

### Logbook

The engine of a run is a record transformed by pure functions (`Started`,
`Ticked`, `Confirmed`, `Stopped`), as in the source. `Ticked` is the code's
loop as a recursive function of its turns, with the code's guard and its `break`. The controller's two timers are `lead` and `looping`. The
panel's reactive statement is `Flush`, due (`dirty`) after every handler that
changed what it reads, and run before the next task. Analyses are asked for in
order and answered in order, at any time. `voice` is the melody that sounds; `muted`
is the operator's choice, `hushed` is history: the present phase was muted at some time.

### CockpitLink, CopilotLink, Links

Every press of Connect makes another `ProtocolClient`, so `client` is a
function over them, and each may still have a socket that closes or (were it
not for `disconnect()`) a timer. A socket is `none`, `connecting`, `open` or
`closing`. On the phone a socket may also be `lost`: it claims to be open and
nothing comes, the case the stall watchdog is for. `Links` adds who started the
source that runs, since a phone's `onopen` sends a start.

### FrameRing, MessageModel

Frames are opaque in `FrameRing`; the parallel typed arrays are one array. The
two packed spans, the frame-by-frame walk and `since()` are operators over the
state. `BoundedLog` keeps the sequence of all frames since the last clear, and
the ring implements it under `from the oldest slot, count frames`.
`MessageModel` puts the worker on top: `Ingest`, `Select`, `Reset` and `Tick` are its
message handlers, `Sync` the model's `sync()`. A message-id field is a function
from payloads to keys, and the detector may answer with any of them, so that
nothing depends on how good its guess is.

### Codec, Diagnostic, Wire

A batch is a header and a sequence of records whose fields have their widths
(`IdMod`, `CountMod`, `DtMod`); byte offsets are left out. There is one decoder per
program. The phone's parser overwrites one payload buffer for every frame
(`scratch`), so what it hands on is only good during the callback. A candump line
keeps the width of its id, its stamp and either bytes or a remote request, and no
error flag. `Diagnostic` classifies ids and frames and reassembles the newest
transfer in the frames it is given.

`Wire` runs frames along these roads: the backend reads and records one by one,
a batch is delivered to both viewers or dropped as a whole, a recording may begin
and end between any two batches, and is replayed in the end. `came` in a tile and
in the gauge is history. `bus` says what was sent; `ShownIsSent` and `RoadsAgree`
compare what is shown with it.

### Frames, Tagger, Scorers, Experiment, Scans

Pure operators, one per exported function. A double that is a quotient or a
product of such becomes an exact fraction in lowest terms; a square root is
avoided by comparing squares (a rank correlation is kept as its sign and its
square); a segment's confidence, which orders nothing, is left out. Sorting is by the comparator of the code with the order of
insertion for ties.

The packed analysers are operators of their own next to those that take frames
(`HistogramAtPacked`, `ActivityAtPacked`, `CoTallyPacked`, `ScoreLocusPacked`,
`CorrelateLocusPacked`, `TagOneIdPacked`): each goes over the indices of an id, tests
the length column itself, and reads bytes with `ByteAt`, which beyond the length finds
those of an older frame. The two are shared only where the code shares them
(`finishCandidate`, `finishCorrelation`, `findGroups`, `findHubs`, the detectors of the
tagger, the comparators), and in what is derived from a tally, written twice in the
code to the same effect.

### Signals, Hunt

`Signals` has the bit order of a signal, decoding, the formula text as the terms
that are evaluated, each panel's way from a candidate to a signal, and the DBC
file as what it keeps. In `Hunt` a behaviour picks a recording and a project, asks
questions (an experiment, every scan of the panel, a correlation with a signal,
segments, message ids, a logbook run, a field run), and promotes from the answers;
`ReloadDbc` takes the project through a file. The dependence test may refuse any
byte over which it has something to judge (`Refusable`): its statistic is free.

### Project, Cockpit, Workbench, HuntDesk, Library, FieldDesk, Desks

`Project` has an operator per edit of the store, a function of the project before
it; the signals of a frame are a set, told apart by their ids, for nothing here depends on the
order they are listed in. So are the spans of a field run, which the panel appends and never
moves: their list is the order of their ids, a later one being the larger number, and those
of a file have numbers below the session's. `Cockpit` adds the stores that are not the project, and the messages between
the page and its workers. A handler is one step with every subscription it sets
off (`Posted` is a recursive function over the values a handler gives the stores in turn, for a
subscription may see a state in the middle). A message to a worker is handled when
it is posted: the page learns of the worker only by replies, and these wait in
`bridge.replies` for as long as they like, as do the parser's snapshots. A reply
is known by what it is about; what it says is `Hunt`'s or `MessageModel`'s subject.

`HuntDesk` keeps captures, questions under way and what is listed; `last` is the
experiment asked last and `moot` excuses what the operator discarded and what a
worker error lost. `FieldDesk` keeps the field run that is recorded; `strayed` and
`astray` mark recordings during which the operator changed run, project or session.
Panels are unmounted when their mode is left (`PanelFollows`, `FieldFollows`).

`desk` is a bound. The product of all that the operator may do is out of reach, so
a behaviour keeps to one part of the page: editing signals, tabs, following links
and loading, captures, scans, painting a field run, reviewing it, the libraries.
The store, its subscriptions and the workers are the same in all of them.

## 3. Runs

"States" are distinct states. Every property of a passing run is shown to be
breakable by a mutant of the code it is about.

| run | instance | question | states |
|---|---|---|---|
| `engine_restart` | 1 viewer, 3 frames, 2 sources, 1 recording, disk may fill | Sources are started over each other, stopped, fail to open, while a recording runs. Does anything of one source show up under the next, is the replay flag of each batch true, does the file have what was streamed? Is the whole a `LossyStream`? | 549 726 |
| `engine_live` | 2 viewers, one never reads; `recv()` may hang | Are all losses counted, does `stop()` give the loop back, is the viewer that reads served? | 119 454 |
| `engine_rewind` (violated) | a looping unpaced replay | Is the first frame of a batch the earliest? | |
| `wizard_relay` | 2 series of 2 repetitions, guard 2; 1 relay under way, 1 tap, 1 outage | Do timers match phases, counts, reason and marks agree with what was pressed, on either device? Does the phone tell the truth, beep once per cue, stop the series? Does an unattended series end? | 918 585 |
| `wizard_wedge` (violated) | 1 series, 1 tap | Has every phase its timer in the presence of late verdicts? | |
| `analysis_worker` | ring of 2, 3 pushes, 2 ids, 3 payloads, at most 2 messages, 1 clear; or two buses of 12 and 11 frames, batches of 2, 2 events | Is the ring a bounded log, and are the rows exact through laps, resets, re-detections and too wide splits? Is a transfer shown the one that was sent, and does every road carry the same frame? | 131 330 (up to a renaming of the payloads) |
| `server` | 3 workloads of up to 3 clients, buffers of 1, 1 prompt client, ticker | Does each pair keep its order without a gap, does the client that reads end up with the current state, does every handler come back? | 246 947 |
| `logbook_run` | 2 scenarios (timed, timed, input, timed; and one timed), 2 starts, ticks late by 1 | Do windows tile, is each run analysed once and whole and shown its own result, does the melody tell the phase, does the run move on? | 710 848 |
| `links` | 3 presses of Connect, 2 doublings of each backoff | Is there one stream, one socket or one timer, and does each side recover? | 142 897 |
| `analysis` | 3 recordings of 12 to 24 frames, 2 questions, 2 things kept | Do all programs read a field the same, do counters and checksums stay out of every answer, do the packed analysers agree with the others, is a copy of a signal found, does a DBC file keep the meaning? | 2 357 |
| `hunt_seam` (violated) | the same | Does every promoted candidate read as it was scored? | |
| `cockpit` | 8 parts of the page, 2 frames, 1 message id, up to 3 edits, 2 sessions | Do workers, editors and link agree with the stores, does the project keep its shape, does what is listed answer what was asked, do spans fit their labels? | 418 621 |

### Why the bounds are enough

- Queues are as short as they can be (1 or 2), so that full, empty and one more
  all occur, and so does every order of a put with a drain. Nothing in the code
  depends on a length other than full, not full and empty.
- Two sources are what a mix-up takes, and the second may start while the
  first's thread is anywhere. Three frames give two in one batch and one more.
- `BatchMax` is 2 where three frames can be drained at once, so that a batch that
  cannot be encoded occurs.
- `server`: its relays need three clients for a sender and two peers of different
  speed. The three relayed messages of one sender are what a gap takes.
- The ring of two slots wraps, is lapped by one and by a whole turn, and a
  cleared ring climbs back to an old cursor. Three payloads against two groups
  make a split too wide in the middle of a delta.
- Two series with a guard of two and a target of two reach done, abandoned by
  guard, and abandoned by press, and start again after each. One tap that is
  delayed meets every later phase, and one outage every place of a relay.
- In `logbook_run` a tick that is late by one finds two timed phases due at once.
- Three clients of the cockpit: one retired and closing, one retired before it
  opened, one current.
- A nibble of two bits makes sequence numbers wrap in a transfer of five
  consecutive frames. Two lost batches of two are the loss that joins two
  transfers and the loss that is noticed; the same two events toggle a recording
  inside a transfer or touch the tiles. Tiles change between batches of the live
  bus only, as nothing else reads them.
- The recordings of `analysis` hold a ramp, its copy under another id, a counter, a
  checksum, a switch that follows cues, a value that crosses a byte, short frames,
  standard and extended ids. `Stride` and the thresholds are scaled with the length of
  the recordings so that each is met and missed; `MCHunt` has them.
- In `cockpit` two edits are what makes one reply, snapshot or subscription stale;
  `painting`, `review` and `library` have three, for a span needs a run and a
  label first. A session is two where a second connect may meet replies of the first.

`MaxFrames`, `MaxSessions`, `MaxRecordings`, `MaxLedger`, `MaxSeries`, `MaxInFlight`,
`MaxTaps`, `MaxOutages`, `MaxPushed`, `MaxGen`, `InboxCap`, `Workloads`, `MaxRuns`,
`MaxAsked`, `MaxLate`, `MaxWait`, `MaxClients`, `MaxBatch` and `MaxEvents` of the wire, `MaxKept`,
`MaxRow`, `Desks`, `MaxEdits`, `MaxBatches`, `MaxBehind`, `Visited`, `MaxMarks` and `MaxTurns` are
bounds of the models, not of the program; `FrameQueueMax`, `ClientQueueMax`, `BatchMax`,
`Repetitions`, `SilenceGuard`, `Cap`, `MaxMessages`, `LeadIn`, `MaxBackoff`, `PhoneBackoff`,
`NibBits`, `MaxDlc`, `GaugeCap`, `InspectorWindow`, `Stride` and the thresholds of the
analyses are constants of the program made small.

### Deadlock

It is checked for the engine and the cockpit, where some action of the operator is
always possible. `CHECK_DEADLOCK FALSE` is set where the system really stops: a
panel that was destroyed (`wizard_*`, `logbook_run`), a bound that was reached with
every client gone (`server`), a recording that was played to its end
(`analysis_worker`), a phone closed beside a cockpit out of presses (`links`), an
operator with no more questions (`analysis`, `hunt_seam`).

### Fairness

- Threads run, and the loop runs what is ready: weak fairness for a step that
  stays enabled. asyncio takes ready callbacks in turn, so a task that is ready
  over and over, while others occupy the loop in between, gets its turn: strong
  fairness for `BatcherWakes`, `WriterGets` and `WriterSends`.
- `recv()` returns only if `PunctualRecv`: an adapter may hang, and
  `StopReturns` must not depend on it.
- Only a viewer in `Prompt` reads its socket. The others owe nothing in the
  engine; in `Server` they are disconnected in the end, which the websockets
  library's keepalive does.
- Operators and drivers owe nothing anywhere: no button, no verdict and no command
  is fair. A radio that fails need not return.
- A message that is under way while both sockets stay open arrives (weak fairness
  of both directions of the relay).
- Browsers run timers that are due and come back to them whatever else happens
  (weak for one-shot timers, strong for the logbook's intervals, which other
  handlers disable for a moment by leaving reactive statements due).
- A server that is tried over and over accepts in the end (strong fairness of an
  opening socket); a `close()` is answered or given up; time passes on a silent
  socket. Nothing is owed about a dead socket's close event.
- The cockpit's page and the analyses have no liveness property: that a worker
  answers at all is a matter of arithmetic that ends.

## 4. Proofs

The prover checks these for every value of the constants that satisfies the
named assumptions of the modules. The bounds appear in the guards, and the
theorems hold for all their values. A leaf that takes more than a second or so
names the prover that finds it and the time it may take (`SMTT(60)`, `ZenonT(90)`), so
that a slow machine proves it too.

`EngineProofs`
- `TypeCorrect`: `TypeOK`, action by action.
- `IsolationInductive`, and from it `OneReader`, `SourcesIsolated` and
  `StatusIsTruthful`, under `PunctualRecv`. `SessionIsolation` alone is not
  inductive: a frame a thread holds must be its own source's (`HeldInv`), a
  live thread must be the one `stop()` joins (`NoStrayReader`), the batcher's list
  must be empty outside its step and the queue empty when a source opens
  (`ControlInv`). The condition is needed: `join(2.0)` gives up after two
  seconds, the stop event is shared, and a late thread then revives.

- `KeepsItsPromise`, the refinement of `LossyStream`, under `PunctualRecv`: frames get newer
  from the thread's hands through the frame queue to the batcher (`SourceOrder`), and what a
  viewer has or will get is in order and older than all of that (`ViewerOrder`), so that a
  peer's log can only grow by newer frames. A thread must hold at most one frame, and only on
  its way to the queue (`HandsInv`).
- `ReplayFlagHolds` (`ReplayFlagTruthful`), under `PunctualRecv`: the flag read when a batch is
  encoded is the latest source's, and the frames in the batcher's hands are of no other
  (`ReplayInv` with the isolation invariant).
- `RecordingComplete` (`RecordedBeforeStreamed`), without a condition: a frame is in one place
  only, once (`OncePlaced`), and an increasing map finds each streamed frame in the file
  (`Embeds`). An exception of the disk or of the encoder leaves frames written that are never
  streamed, never the other way.
- `DropsCounted` (`DropsAccounted`), without a condition: the counter is the cardinality of what
  the frame queue and each client's queue refused (`DropsInv`).

`WizardProofs`
- `TypeCorrect`, `TimersMatchPhases`, `CountsAreHonest` and `ReasonIsHonest`, from one
  invariant `IInv`. The shapes a result of the reducer can have (`StepShape`) are proved
  first, once per arm; the host's invariant then never looks into the reducer.
  `ReasonHonest` speaks of the history of the operator's presses and needs
  `silentRun = fsm.silence` while a series runs; `CountsAgree` needs that the
  target ends a series in the same step as the last good trial.
- `ConfirmedGetMarks` (`ConfirmedAreMarked`): the panel has seen the phase the host is in, takes
  marks while a series runs, and knows which cue a verdict is about (`MarksInv`), so that the
  cue that is confirmed is the one marked.
- `RelayIsHost`: a series beside a phone implements `WizardHost` (`ImplementsHost`).
  The refinement mapping is the identity; what has to be shown is that a verdict
  off the channel is one a viewer can press (`HearsPresses`).
- `HostStaysSound`: hence the invariants of the host hold beside a phone.
- `ViewerIsTold`: `ViewerTruthful`, from the strengthening `Told`: the newest relay
  under way is the host's present state, and nothing is under way on a dead link.
- `CuesBeepOnce`: the action property `EachCueBeepsOnce`. The phone's key is that of the cue
  it shows, and every relay under way follows the state before it (`BeepInv`).

`ModelProofs`, of the frame ring
- `TypeCorrect`: indices stay in range and a ring that is not full begins at
  slot 0 (`Wrapped`), for every capacity.
- `RingIsBoundedLog`: the ring implements `BoundedLog`. Each push and clear is
  matched position by position: logical index `i` is slot
  `(oldest + i) % Cap`, and only that modular arithmetic is about the ring.
- `PackedCopyIsTheRing`, `SinceIsExact`: the reads agree with the log.

`ModelProofs`, of the messages
- `WorkerRingIsBoundedLog`: whatever the worker does, its ring makes the steps of a ring, and so
  implements `BoundedLog`.
- `RowsStayExact` (`RowsAreExact`), if `~Rewinds`: in a capture whose stamps do not step back. The
  invariant `ModelInv` says that the ring holds the end of the log in the order of the stamps
  (`RingLog`); that a selection is one the model has seen with this ring's generation
  (`SelectionSeen`); and that a model which has seen this generation and folds has counted every
  frame of its id from some point no later than the oldest frame retained up to its cursor, and
  no further (`GroupsCount`). `SyncCounts` is the heart: rebuilt, extended by a delta or
  regrouped, the result is the same count. It rests on `FoldCounts` (folding the frames after a
  point into the count up to it gives the count up to the end), an induction over the
  frames. Under a looping unpaced replay the invariant is false, as section 6 says of
  `lastSeconds()`, and the theorem makes no claim.

`WireProofs`
- `RoadsStayAgreed` (`RoadsAgree`), from `WireInv`, in two halves. `FramesInv`: a frame
  read, in a batch or still to be read is the one of the bus at its place (`Genuine`), and a
  line of the recording tells of it all but the error flag (`TellsOf`). Encoding and
  decoding are then lemmas about a batch that can be encoded: each decoder gives the frames
  back, their bytes filled up or cut (`CockpitReads`, `SharedReads`, `BackendReads`,
  `PhoneReads`), and a line read back and re-anchored is such a frame again
  (`LineIsPlayed`). `PhoneInv`: a tile shows the last value its watch reads in the frames
  that came since, the gauge's line the last of its own (`Latest`, `Line`), there is a gauge
  as soon as there is a tile, and it is that of one. A batch is followed frame by frame
  (`Shows`, `TakesFrame`): the payload buffer of the phone's parser holds, at each turn,
  nothing but the frame it is at (`ScratchFilled`). Assumed of the bus (`BusAssumption`): a
  frame carries as many bytes as its length says, a remote request none, and an id of more
  than 11 bits is an extended one.

`ServerProofs`
- `WaitsAreForSends`: the type invariant, whose point is that a task waits on a connection exactly
  while one send of its own is queued there.
- `RelayIsGapless` (`RelayGapless`): of each sender, what a client has heard, what is on its socket,
  in its queue and in the sender's inbox follow one another in this order and, while the
  client is connected, together have no hole and reach up to the last message sent (`RelayInv`).
  Relays to several peers wait for the slowest, so the inbox is what keeps the last part.

`LogbookProofs`
- `LogbookInvariant`: `LogInv`, which joins types, timers (a lead-in belongs to a scenario), `Covered`
  (the windows tile the run up to the phase that is on, and that phase began by now),
  `Concluding` (nothing is asked of a run before it has ended, and then once) and the melody.
  From it `LogbookTypes`, `WindowsAlwaysTile`, `RunsGetTheirOwn` and `MelodyIsOfThePhase`.
- `TickLeavesNothingDue`: however late a tick comes, its loop ends because nothing is due, never
  because of its guard: each turn ends a phase, and there is one turn more than phases.

`LinksProofs`
- `PhoneSafe`, `PhoneKeepsHealthy`: the phone's type invariant with `NoRivalTimer`
  is inductive, and without a rival timer no step gives up a healthy socket.
- `CockpitSafe`: `CockpitTypeOK`, `OneStream` and `PillNeverClaims`, from `Held`,
  which adds that nothing is reported before the first client is made. One
  lemma per method of the client says what it leaves of a sound client, and
  one (`BecomesKeeps`) what a step of one client leaves of the whole.

`DesksProofs`
- `LinkLeadsBack` (`LinkRestores`), from `LinkInv`: a link nobody pasted is the one the stores
  would write, and without a frame they hold neither message nor signal. Each action of the
  page leaves the link and what it says, writes the link anew, or pastes one (`LinkStep`). It
  assumes that a pasted link names a sub-tab there is (`CockpitConstants`), as `parseHash` sees to.
- `AnswersAlwaysSettle` (`AnswersSettle`), from `HuntInv`: unless the operator discarded it or a worker
  error lost it, the newest question of a kind is the last experiment asked, or is about the
  reference picked; with none under way, what is listed is its answer (`Settled`). That the
  window holds the marks needs the captures' types (`Typed`) and the clock's (`ClockInv`).
  Answers come in the order of the questions, so that one that is followed by another of its
  kind is listed for a moment only, while something is awaited.

- `ProjectStaysSound` (`ProjectSound`), from `ProjInv`. That a frame keeps one multiplexor needs that
  ids tell its signals apart, that a signal the Inspector adds or edits is none of those there
  are, and that ids still to be made are not in use (`Unused`); that the open tab exists needs the one
  canonical tab, which no edit takes away and to which the page falls back. `Fits` says all
  this of a project, part by part; one lemma per edit of `Project` says what it leaves of the
  parts, and each action of the page replaces the project by such an edit (`Replaces`) or leaves it
  (`Rests`). Assumed of the constants: a bound is a number (`EditsConstants`), and a file was
  written by a cockpit, old or new, with ids other than this session's (`LoadsConstants`). A DBC
  file of another tool that marks two multiplexors in one frame is beyond the theorem: the importer
  takes it as it is.
- `PageStaysInStep` (`InStep`), from `StepInv`, in two halves that share only the stores. `Tells`:
  the bridge remembers what it last told the worker, the worker works on that, and the last
  rows among the replies still on their way are about it; with no such reply it is what the
  list shows (`Comes`). So a reply however late is overtaken by one about the present
  selection. `Reflect`: an editor is mounted for the present target and shows the text kept
  for it, except one whose text was changed elsewhere (`excused`, as are the cluster cards of a
  session that begins while the tiles are shown). A handler gives the stores one value, two or
  three in turn, and a subscription is told of each: a step
  keeps the first half if the project rests while the tiles are shown (`Calm`, `BridgeFollows`),
  for the cluster cards are told anew only when the mode changes, and the second if what
  is kept for a target that stays, stays (`Reads`, `TextsRead`). One lemma per action shows
  the values it gives (`Followed`) or that it leaves all of this alone (`Idle`). Assumed: the mark for
  nothing is neither a sub-tab nor a number (`CockpitConstants`).
- `SpansStayFit` (`SpansFitLabels`), from `SpanInv`. `RunsFit`: ids tell the runs apart, none is an id
  still to come, no span is younger than the last edit, and spans follow. `PanelFits`, of the
  run that is recorded: its spans end by now, and by the beginning of the one that is open,
  whose label is one of the run's; a run that warms up has none. The last part is
  claimed only of a recording during which the operator has not changed run, project or
  session (`strayed`); what is painted after that is excused (`astray`). That a run keeps its
  labels while it is recorded, that deleting one deletes its spans, and that a span painted
  has the largest id are the facts a step could spoil; moving, copying and deleting runs
  gives a list of runs from among those there were (`Among`). It needs `ProjInv` for the ids
  and assumes of a file that its own spans follow, with ids below the session's, and that its
  runs have ids the session does not make (`LoadsConstants`).

`LinkInv`, `HuntInv`, `ProjInv`, `StepInv` and `SpanInv` are inductive over the same actions; the last two
lean on `ProjInv`. What a step may do to the project is proved once (`StaysSound`: the project stays
sound, edits are only counted up, ids still to come only get fewer).

Three modules need induction over data: what `tick()`'s loop has done after so many turns,
what a fold gives after so many frames, and what the phone shows after a batch. The
library's induction theorems take an operator as a parameter, which no installed prover
instantiates. `LeastNumber` and `Induction` do without: the numbers for which a claim holds
form a set, and a set of numbers that holds 0 and with each number the next is `Nat`,
because `<` is well-founded on sets (`WFMin`). A recursive function is then unfolded in two
steps: a function that satisfies its equation exists (`LoopExists`, `FoldExists`), and one
that does goes turn by turn (`Turns`, `Steps`).

Only model-checked: every liveness property (the prover has no rule for fairness and
`ENABLED`); `ShownIsSent`, which says of a reassembly, and of the numbers of its frames
round their wrap, what folds over the frames shown (`SelectSeq` with a `LAMBDA`, `FoldLeft`)
compute for every input; and the analyses, with `ReadersAgree`, `RollingNeverSurfaces`,
`PackedAgrees` and `CopyIsFound`, which do the same, sort, and compute exclusive ors with
`Bitwise`, which the prover does not read (`DbcKeepsMeaning`, an action property over the
same modules, stays with them). Every invariant of the other modules that a run checks is
proved.

## 5. Findings

Three runs refute what a comment or a document of the repository says; the
details and the quotations are in `PROJECT.json`.

- `engine_rewind`: a looping `--replay-fast` capture re-anchors its stamps behind
  those it has already given out, the batcher's base is then not the earliest,
  the encoder raises and the batcher task ends for good.
- `wizard_wedge`: a verdict that reaches the host one phase late is ignored by
  the reducer, but its dispatch has cleared the phase's timer; the series hangs
  until somebody presses a button.
- `hunt_seam`: a candidate that is scored big-endian is promoted with its lowest bit
  as its start, which the decoder takes for its highest, so that the signal reads
  other bits than those that followed the ramp.

## 6. Further disagreements and limits seen while modelling

These were met while the code was read. No run is devoted to them, and the
properties are stated so as not to deny them.

Backend
- After a reader error the bus state stays `ERROR` until the next start, though
  frames flow again (`engine.py:182`).
- A relay waits for its slowest peer before the sender's next message is read
  (`server.py:236`), although `:234-235` is concerned with head-of-line blocking.
- `self.dropped += n` (`stats.py:110`) runs in the reader thread and in the event loop
  without a lock. It is one step of `Engine`, so `DropsAccounted` is about what is counted
  and not about a lost update. CPython from 3.10 (`pyproject.toml:10`) changes threads at
  calls and backward jumps, and the addition has none between its read and its write; an
  interpreter without the global lock could lose a count there.
- A start that fails has already stopped the running source, and only its
  sender is told; the others learn it from the next periodic status
  (`server.py:175`, against `:153-154`).

Codec and recording
- A recording loses the error flag of a frame (`candump_log.py`).
- Three parsers refuse a batch of another version; the contract's own `decodeBatch`
  ignores the version, and the Python decoder alone refuses trailing bytes.
- `encodeBatch` claims to reject an id with stray bits (`shared/protocol.ts:127-133`); for
  a positive id with flag bits the check never fires and they are masked silently.
- A remote request for a watched frame sets the phone's tile to zero, as its
  payload is zeros on the wire.

Diagnostic lens
- "FC frames are ignored" (`diagnostic.ts`, about `:339`), while the loop stops at one
  (`:377-383`).
- `decodeDiagnostic` of a short single frame reads an identifier out of its padding
  (`decodeServicePayload`'s comment at `:240-243` speaks of the payload).
- Sequence numbers have four bits: a transfer of `n` consecutive frames and a later one
  are joined unnoticed if `((n - 1) mod 16) + 2` frames in a row are lost, also over the
  seam of a looping replay (`Confusable` in `Wire`).
- A consecutive frame whose first frame was lost leaves the single frame before it on
  show as a complete transfer.

Wizard
- The ledger files a good or skipped trial under the *next* test's index, since
  the state is replaced before the effects read it (`wizardHost.ts:274`, `:43`).
- A window that times out after an earlier good trial leaves a mark, because the
  panel looks at the newest ledger entry and not at what just happened
  (`HuntPanel.svelte:233`, `:123-126`).
- A viewer's verdict carries no test index, so a late one can confirm the next
  test, and a late STOP ends the next series.
- A relay that arrives after `requestStop` puts the overlay up again
  (`store.svelte.ts`, comment at `:371`).
- "A viewer will catch up on the next transition's snapshot" (`client.ts:283-284`), but
  not after the last transition.
- The phone's store relies on `cueSeq` (`store.svelte.ts:270-276`), which the cockpit
  never sends; `repIndex` does the work.
- A panel that is unmounted in a cue tells the phone nothing. If it is mounted again and a
  series is started whose first test has the number of that cue, the phone still holds its
  key and does not beep (`store.svelte.ts:289-291`). `Destroy` ends a behaviour of
  `WizardHost`; a second mount is not modelled.

Message model
- Counts of the incremental path keep frames that have fallen off the ring until
  the next rebuild (`messageModel.ts:264` against `:16-18` and `:25-27`).
- `lastSeconds()` ends at the newest frame's stamp; after an unpaced replay starts
  again, a rebuild leaves out buffered frames with later stamps (`ringBuffer.ts:208`).

Analyses
- "Slope exactly 0 ... |rho| ~ 0 keeps it below threshold anyway" (`trend-scorer.ts:242-243`):
  the median of all slopes is 0 for a field with many ties whose rank correlation is high.
- The conditional coupling of two bytes divides by all changes of the first
  (`co-occurrence.ts:472-480`), also in frames too short to hold the second, although
  `:38-40` says that each ratio divides by what could have been observed.
- The control of a field of 16 bits looks at its first byte alone
  (`field-run.ts:222-228`; `:20-23` speaks of the candidate).
- Standard and extended ids of one number are merged by every analysis.
- `knownSignalsAt` treats a big-endian signal as linear bits.
- Names of promoted signals may collide after a DBC file was read again.

Cockpit
- Loading a project in Cluster mode leaves the worker's watch on the cards of the old
  project (`store.ts:1280`, `:1296` against the comment at `:1292`), and the first connect
  made in Cluster mode posts no watch.
- "Discard this capture and its results" (`HuntPanel.svelte:349`) and picking "none" as
  reference are undone by an answer that was under way.
- A worker error without a request id leaves its promise pending (`store.ts:428`, `:437`).
- Spans that are painted while another field run is selected land in that run;
  `stopRun` throws if the run was deleted; an analysis that comes late is shown for, and
  promoted to, another run. `delLabel` leaves spans linked to spans that are gone. Two taps
  in one snapshot make spans that overlap by a microsecond ("never overlapping",
  `MarkhuntPanel.svelte:142`).
- In `FrameTable` a shift-click throws when its anchor is beyond rows that became fewer,
  and a sorted, frozen order outlives a connect. `tagAllVisible` ignores the name filter.
- `ViewAssign` cannot take a frame out of a tab of which one of its messages is a member.
- `ComputeEditor` and `FilterBar` keep the old project's text when a project is loaded
  under the same target.
- `messageSignals` decodes a newly selected frame with the previous payload until its
  rows arrive. The session clock's origin is fixed by a snapshot that precedes frames.
- `setMessageIdMode` keeps two multiplexors of equal geometry (only loaded files have
  them); `loadProject` leaves `selectedScenarioId` on a scenario that is gone.
- That the mode does not change during a guided run is the modal scrim's merit alone:
  `finishGuided` (`HuntPanel.svelte:303-315`) asks the experiment of whatever mode is set,
  and so it does in `HuntDesk`.

Logbook
- Between the start of a run and its own answer, the answer of an earlier run
  is shown as its result (`runController.ts:198-199`, `:223`).
- `next()` while armed or in the lead-in publishes `idle` (`:237-242`), whereupon
  the reactive arm may cancel a remotely started lead-in (`LogbookPanel.svelte:186-192`).
- After a viewer's run of another scenario has finished, the panel re-arms and
  wipes `done` and its result. `stop()` after `done` overrides it (`:245-251`).
- A START after a viewer's start may run the viewer's scenario, not the one
  shown (`LogbookPanel.svelte:173`, `:189`, against `:186-187`).
- The first phase has no melody, as `beginRun` seeds `lastIndex` with 0, though
  `runController.ts:136-139` gives each phase its voice; a second input phase in a row
  has no double beep on entry.
- A tone that was scheduled before `dispose()` opens a new `AudioContext`
  (`audio.ts:187-192`, `:243`).

Links
- The copilot asks for the simulator whenever its socket opens (`client.ts:208`,
  `App.svelte:49`), which stops whatever the cockpit was capturing (against
  `docs/DESIGN.md:64-65`).
- A retired client's late close report puts `closed` in the pill over an open
  connection (`store.ts:565-568`, `client.ts:171-175`), and the Connect button is
  then shown.
- `huntMark` is relayed (`docs/DESIGN.md:78-90`), but a cockpit that receives one
  reports an unrecognized message; `logbook` snapshots reach other cockpits too.

## 7. Not modelled, and what comes next

`PROJECT.json` lists every component with its status. Left out for good: drivers and
hardware, drawing, colours, charts, wording and layout, installation, firmware, offline
tools, the code's configuration. Left out although it could be modelled, because no
property here would tell it apart: `j1939.ts` (no state, no caller that keeps any), the
statistic of the discriminator dependence (logarithms), the compiled co-occurrence
kernel (the same sums), rates and ages of the frame table, the message filter of the
list, renaming a tab, the exclusion window of a finding across series, comment lines and
malformed candump files.

In this order:

1. The store's `huntScan` bookkeeping composed with `Logbook` in place of its free answers.
2. A second viewer beside the phone of `WizardRelay`.
