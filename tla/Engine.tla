------------------------------- MODULE Engine -------------------------------
(***************************************************************************)
(* The stream engine of backend/discodb2_backend/engine.py: the reader     *)
(* THREAD that takes frames from the bus, the frame queue it shares with   *)
(* the asyncio loop, the batcher TASK that drains the queue into one batch *)
(* and offers it to every client, the per-client writer of server.py, the  *)
(* recorder, and start()/stop(), which block the asyncio loop while the    *)
(* reader thread keeps running.                                            *)
(*                                                                         *)
(* Everything but the reader threads runs on the asyncio loop, so a step   *)
(* of a task needs the loop to be "free"; the variable loop is the program *)
(* counter of whatever currently occupies it.  The reader threads          *)
(* interleave with every one of these steps.                               *)
(***************************************************************************)
EXTENDS Integers, Sequences, FiniteSets

CONSTANTS
  Clients,        \* WebSocket connections, each used for one connection
  Prompt,         \* the clients whose peer keeps reading its socket
  FrameQueueMax,  \* maxsize of _frame_q (100_000)
  ClientQueueMax, \* CLIENT_QUEUE_MAX (64)
  BatchMax,       \* largest count the u16 batch header holds (0xFFFF)
  PunctualRecv,   \* recv() honours its timeout, so join(2.0) never gives up
  Rewinds,        \* the source is a looping --replay-fast capture
  DiskFills,      \* a recorder write may raise OSError
  MaxFrames,      \* bound: frames the buses deliver in all
  MaxSessions,    \* bound: successful start() calls
  MaxRecordings   \* bound: recordings

ASSUME EngineConstants ==
  /\ IsFiniteSet(Clients) /\ Prompt \subseteq Clients
  /\ FrameQueueMax \in Nat \ {0} /\ ClientQueueMax \in Nat \ {0}
  /\ BatchMax \in Nat \ {0}
  /\ PunctualRecv \in BOOLEAN /\ Rewinds \in BOOLEAN
  /\ DiskFills \in BOOLEAN
  /\ MaxFrames \in Nat /\ MaxSessions \in Nat /\ MaxRecordings \in Nat

VARIABLES
  loop,      \* what occupies the asyncio loop
  op,        \* the call in progress while loop is in start()/stop()
  session,   \* number of sources opened so far; names the latest one
  running,   \* SourceState.running
  busState,  \* BusStats.state
  replay,    \* _is_replay_source
  stopFlag,  \* the threading.Event shared by all reader threads
  readerRef, \* _reader_thread: the session it was started for, 0 = None
  reader,    \* per session: its thread's program counter, frame and clock
  batcher,   \* the batcher task
  frameQ,    \* _frame_q
  taken,     \* the batcher's local list of drained frames
  conn,      \* per client: has it connected, is it still there
  queue,     \* per client: _Client.queue
  wire,      \* per client: the batch its writer is sending, if any
  out,       \* per client: batches that reached the peer
  dropped,   \* StreamStats.dropped
  recording, \* Recorder.active
  file,      \* frames in the current recording
  records,   \* history: recordings begun
  received,  \* history: frames received from the buses so far
  overflow,  \* history: frames the full frame queue turned away
  offered,   \* history: per client, batches broadcast while it was subscribed
  streamed   \* history: frames broadcast since the recording began

sourceVars == <<session, running, replay, readerRef>>
clientVars == <<conn, queue, wire, out, offered>>
recordVars == <<recording, file, records, streamed>>
vars == <<loop, op, sourceVars, busState, stopFlag, reader, batcher, frameQ,
          taken, clientVars, dropped, recordVars, received, overflow>>

-----------------------------------------------------------------------------
Sessions == 1 .. MaxSessions

\* id: arrival number, src: the session whose bus delivered it, t: t_us.
Frames  == [id : Nat, src : Sessions, t : Nat]
Batches == [frames : Seq(Frames), replay : BOOLEAN]
\* replay is its bus's is_replay marker, clock its latest stamp.
IdleReader == [pc |-> "none", held |-> <<>>, clock |-> 0, replay |-> FALSE]
Readers == [pc : {"none", "check", "recv", "put", "dead"},
            held : Seq(Frames), clock : Nat, replay : BOOLEAN]

Ids(fs) == [i \in DOMAIN fs |-> fs[i].id]
Subscribed == {c \in Clients : conn[c] = "open"}

TypeOK ==
  /\ loop \in {"free", "batch", "join", "drain", "open"}
  /\ op \in {"start", "stop"}
  /\ session \in 0 .. MaxSessions
  /\ running \in BOOLEAN /\ replay \in BOOLEAN /\ stopFlag \in BOOLEAN
  /\ busState \in {"IDLE", "LIVE", "REPLAY", "ERROR"}
  /\ readerRef \in 0 .. MaxSessions
  /\ reader \in [Sessions -> Readers]
  /\ batcher \in {"none", "alive", "crashed"}
  /\ frameQ \in Seq(Frames) /\ taken \in Seq(Frames)
  /\ conn \in [Clients -> {"new", "open", "gone"}]
  /\ queue \in [Clients -> Seq(Batches)]
  /\ wire \in [Clients -> Seq(Batches)]
  /\ out \in [Clients -> Seq(Batches)]
  /\ dropped \in Nat /\ overflow \in Nat /\ received \in Nat
  /\ recording \in BOOLEAN /\ records \in Nat
  /\ file \in Seq(Frames) /\ streamed \in Seq(Frames)
  /\ offered \in [Clients -> Nat]

Init ==
  /\ loop = "free" /\ op = "stop"
  /\ session = 0 /\ running = FALSE /\ busState = "IDLE" /\ replay = FALSE
  /\ stopFlag = FALSE /\ readerRef = 0
  /\ reader = [s \in Sessions |-> IdleReader]
  /\ batcher = "none" /\ frameQ = <<>> /\ taken = <<>>
  /\ conn = [c \in Clients |-> "new"]
  /\ queue = [c \in Clients |-> <<>>]
  /\ wire = [c \in Clients |-> <<>>]
  /\ out = [c \in Clients |-> <<>>]
  /\ offered = [c \in Clients |-> 0]
  /\ dropped = 0 /\ received = 0 /\ overflow = 0
  /\ recording = FALSE /\ file = <<>> /\ records = 0 /\ streamed = <<>>

-----------------------------------------------------------------------------
(* stop(), and start(), which begins with stop().                          *)

\* Set the event, cancel the batcher, then block in join() if there is a
\* thread to join.
BeginStop(o) ==
  /\ loop = "free"
  /\ op' = o
  /\ stopFlag' = TRUE
  /\ batcher' = "none"
  /\ loop' = IF readerRef # 0 THEN "join" ELSE "drain"
  /\ UNCHANGED <<sourceVars, busState, reader, frameQ, taken, clientVars,
                 dropped, recordVars, received, overflow>>

\* join() returns when the thread has ended, or after two seconds; then the
\* bus is shut down.
ReaderJoined == reader[readerRef].pc = "dead"
JoinForever ==
  /\ loop = "join" /\ ReaderJoined
  /\ readerRef' = 0
  /\ loop' = "drain"
  /\ UNCHANGED <<op, session, running, replay, busState, stopFlag, reader,
                 batcher, frameQ, taken, clientVars, dropped, recordVars,
                 received, overflow>>
JoinReturns ==
  /\ loop = "join"
  /\ PunctualRecv => ReaderJoined
  /\ readerRef' = 0
  /\ loop' = "drain"
  /\ UNCHANGED <<op, session, running, replay, busState, stopFlag, reader,
                 batcher, frameQ, taken, clientVars, dropped, recordVars,
                 received, overflow>>

\* BusStats.stop().
Stopped == "IDLE"

\* What _drain_queue_nowait leaves in the queue.
LeftoverKept == frameQ
AfterDrain == <<>>

\* Discard the leftover frames, bus_stats.stop(), running = False.
DrainLeftover ==
  /\ loop = "drain"
  /\ frameQ' = AfterDrain
  /\ busState' = Stopped
  /\ running' = FALSE
  /\ loop' = IF op = "start" THEN "open" ELSE "free"
  /\ UNCHANGED <<op, session, replay, readerRef, stopFlag, reader, batcher,
                 taken, clientVars, dropped, recordVars, received, overflow>>

\* The rest of start(): the bus opens, the counters restart, the event is
\* cleared, and a new reader thread and a new batcher task start.
OpenBus(isReplay) ==
  /\ loop = "open"
  /\ session < MaxSessions
  /\ session' = session + 1
  /\ running' = TRUE
  /\ replay' = isReplay
  /\ busState' = IF isReplay THEN "REPLAY" ELSE "LIVE"
  /\ stopFlag' = FALSE
  /\ readerRef' = session + 1
  /\ reader' = [reader EXCEPT ![session + 1] =
                  [IdleReader EXCEPT !.pc = "check", !.replay = isReplay]]
  /\ batcher' = "alive"
  /\ loop' = "free"
  /\ UNCHANGED <<op, frameQ, taken, clientVars, dropped, recordVars,
                 received, overflow>>

\* open_bus raises (no device, no file, ...): start() leaves the engine stopped.
OpenFails ==
  /\ loop = "open"
  /\ loop' = "free"
  /\ UNCHANGED <<op, sourceVars, busState, stopFlag, reader, batcher, frameQ,
                 taken, clientVars, dropped, recordVars, received, overflow>>

-----------------------------------------------------------------------------
(* _reader_loop, one thread per session.                                   *)

readerOnly == <<loop, op, sourceVars, stopFlag, batcher, taken, clientVars,
                recordVars>>

\* "while not stop.is_set()"
ReaderChecks(s) ==
  /\ reader[s].pc = "check"
  /\ reader' = [reader EXCEPT ![s].pc = IF stopFlag THEN "dead" ELSE "recv"]
  /\ UNCHANGED <<readerOnly, busState, frameQ, dropped, received, overflow>>

\* recv() times out.
RecvNothing(s) ==
  /\ reader[s].pc = "recv"
  /\ reader' = [reader EXCEPT ![s].pc = "check"]
  /\ UNCHANGED <<readerOnly, busState, frameQ, dropped, received, overflow>>

\* recv() raises: the bus is marked errored and the thread keeps looping.
RecvRaises(s) ==
  /\ reader[s].pc = "recv"
  /\ busState' = "ERROR"
  /\ reader' = [reader EXCEPT ![s].pc = "check"]
  /\ UNCHANGED <<readerOnly, frameQ, dropped, received, overflow>>

\* Stamps grow, except that a capture replayed unpaced and in a loop starts
\* again from "now" when its last frame has been sent (ReplayBus._restart).
Stamps(s) == {reader[s].clock + 1} \cup (IF Rewinds /\ reader[s].replay THEN {0} ELSE {})

RecvFrame(s) ==
  /\ reader[s].pc = "recv"
  /\ received < MaxFrames
  /\ received' = received + 1
  /\ \E t \in Stamps(s) :
       reader' = [reader EXCEPT
         ![s].pc = "put", ![s].clock = t,
         ![s].held = << [id |-> received + 1, src |-> s, t |-> t] >>]
  /\ UNCHANGED <<readerOnly, busState, frameQ, dropped, overflow>>

\* put_nowait: the frame enters the queue or is counted as a drop.
ReaderPuts(s) ==
  /\ reader[s].pc = "put"
  /\ IF Len(frameQ) < FrameQueueMax
     THEN /\ frameQ' = frameQ \o reader[s].held
          /\ UNCHANGED <<dropped, overflow>>
     ELSE /\ dropped' = dropped + 1
          /\ overflow' = overflow + 1
          /\ UNCHANGED frameQ
  /\ reader' = [reader EXCEPT ![s].pc = "check", ![s].held = <<>>]
  /\ UNCHANGED <<readerOnly, busState, received>>

-----------------------------------------------------------------------------
(* _batcher_loop.                                                          *)

\* The batch interval has elapsed.
BatcherWakes ==
  /\ loop = "free" /\ batcher = "alive"
  /\ loop' = "batch"
  /\ UNCHANGED <<op, sourceVars, busState, stopFlag, reader, batcher, frameQ,
                 taken, clientVars, dropped, recordVars, received, overflow>>

\* One get_nowait of _drain_frames; the reader may put between two of them.
BatcherTakes ==
  /\ loop = "batch" /\ frameQ # <<>>
  /\ taken' = Append(taken, Head(frameQ))
  /\ frameQ' = Tail(frameQ)
  /\ UNCHANGED <<loop, op, sourceVars, busState, stopFlag, reader, batcher,
                 clientVars, dropped, recordVars, received, overflow>>

\* The queue is empty and nothing was taken: sleep again.
BatcherIdles ==
  /\ loop = "batch" /\ frameQ = <<>> /\ taken = <<>>
  /\ loop' = "free"
  /\ UNCHANGED <<op, sourceVars, busState, stopFlag, reader, batcher, frameQ,
                 taken, clientVars, dropped, recordVars, received, overflow>>

\* What encode_batch(frames, frames[0].t_us) accepts.
BaseIsEarliest(fs) == \A i \in DOMAIN fs : fs[1].t <= fs[i].t
Encodable(fs) == Len(fs) <= BatchMax /\ BaseIsEarliest(fs)

\* client.queue.put_nowait would accept one more batch.
HasRoom(c) == Len(queue[c]) < ClientQueueMax

\* recorder.write of fs, in order; a no-op when nothing is being recorded.
RecordedOnlyIfHeard(fs) == IF \E c \in Subscribed : HasRoom(c) THEN fs ELSE <<>>
Written(fs) == fs

\* One drop for each client whose queue is full.
LossesOnce == IF \E c \in Subscribed : ~HasRoom(c) THEN 1 ELSE 0
Losses == Cardinality({c \in Subscribed : ~HasRoom(c)})

Broadcast(batch) ==
  /\ queue' = [c \in Clients |->
                 IF c \in Subscribed /\ HasRoom(c)
                 THEN Append(queue[c], batch) ELSE queue[c]]
  /\ dropped' = dropped + Losses
  /\ offered' = [c \in Clients |->
                   IF c \in Subscribed THEN offered[c] + 1 ELSE offered[c]]
  /\ streamed' = IF recording THEN streamed \o batch.frames ELSE streamed

\* Record every taken frame, encode one batch, broadcast it.
BatcherEmits ==
  /\ loop = "batch" /\ frameQ = <<>> /\ taken # <<>>
  /\ Encodable(taken)
  /\ file' = IF recording THEN file \o Written(taken) ELSE file
  /\ Broadcast([frames |-> taken, replay |-> replay])
  /\ taken' = <<>>
  /\ loop' = "free"
  /\ UNCHANGED <<op, sourceVars, busState, stopFlag, reader, batcher, frameQ,
                 conn, wire, out, recording, records, received, overflow>>

\* The task dies: encode_batch raises after everything was written, or a
\* recorder write raises after a strict prefix was.
BatcherDies ==
  /\ loop = "batch" /\ frameQ = <<>> /\ taken # <<>>
  /\ \/ /\ ~Encodable(taken)
        /\ file' = IF recording THEN file \o Written(taken) ELSE file
     \/ /\ DiskFills /\ recording
        /\ \E n \in 0 .. Len(taken) - 1 :
             file' = file \o SubSeq(taken, 1, n)
  /\ batcher' = "crashed"
  /\ taken' = <<>>
  /\ loop' = "free"
  /\ UNCHANGED <<op, sourceVars, busState, stopFlag, reader, frameQ,
                 clientVars, dropped, recording, records, streamed, received,
                 overflow>>

-----------------------------------------------------------------------------
(* Clients: add_client, remove_client and server.py's _writer.             *)

clientOnly == <<loop, op, sourceVars, busState, stopFlag, reader, batcher,
                frameQ, taken, dropped, recordVars, received, overflow>>

AddClient(c) ==
  /\ loop = "free" /\ conn[c] = "new"
  /\ conn' = [conn EXCEPT ![c] = "open"]
  /\ UNCHANGED <<clientOnly, queue, wire, out, offered>>

\* The connection ends: the writer is cancelled with whatever it holds.
RemoveClient(c) ==
  /\ loop = "free" /\ conn[c] = "open"
  /\ conn' = [conn EXCEPT ![c] = "gone"]
  /\ UNCHANGED <<clientOnly, queue, wire, out, offered>>

\* payload = await client.queue.get()
WriterGetsInTurn(c) ==
  /\ loop = "free" /\ conn[c] = "open"
  /\ \A d \in Clients : wire[d] = <<>>
  /\ queue[c] # <<>>
  /\ wire' = [wire EXCEPT ![c] = << Head(queue[c]) >>]
  /\ queue' = [queue EXCEPT ![c] = Tail(@)]
  /\ UNCHANGED <<clientOnly, conn, out, offered>>
WriterPeeks(c) ==
  /\ loop = "free" /\ conn[c] = "open"
  /\ wire[c] = <<>> /\ queue[c] # <<>>
  /\ wire' = [wire EXCEPT ![c] = << Head(queue[c]) >>]
  /\ UNCHANGED <<clientOnly, conn, queue, out, offered>>
WriterGets(c) ==
  /\ loop = "free" /\ conn[c] = "open"
  /\ wire[c] = <<>> /\ queue[c] # <<>>
  /\ wire' = [wire EXCEPT ![c] = << Head(queue[c]) >>]
  /\ queue' = [queue EXCEPT ![c] = Tail(@)]
  /\ UNCHANGED <<clientOnly, conn, out, offered>>

\* await ws.send(payload) completes.
WriterSends(c) ==
  /\ loop = "free" /\ conn[c] = "open"
  /\ wire[c] # <<>>
  /\ out' = [out EXCEPT ![c] = @ \o wire[c]]
  /\ wire' = [wire EXCEPT ![c] = <<>>]
  /\ UNCHANGED <<clientOnly, conn, queue, offered>>

-----------------------------------------------------------------------------
(* record_start / record_stop.  A new recording ends the one in progress.  *)

recordOnly == <<loop, op, sourceVars, busState, stopFlag, reader, batcher,
                frameQ, taken, clientVars, dropped, received, overflow>>

RecordStart ==
  /\ loop = "free"
  /\ records < MaxRecordings
  /\ records' = records + 1
  /\ recording' = TRUE /\ file' = <<>> /\ streamed' = <<>>
  /\ UNCHANGED recordOnly

RecordStop ==
  /\ loop = "free" /\ recording
  /\ recording' = FALSE /\ file' = <<>> /\ streamed' = <<>>
  /\ UNCHANGED <<recordOnly, records>>

-----------------------------------------------------------------------------
ReaderReturns(s) == RecvNothing(s) \/ RecvRaises(s) \/ RecvFrame(s)
Reader(s) == ReaderChecks(s) \/ ReaderReturns(s) \/ ReaderPuts(s)
OpenEnds == OpenFails \/ \E r \in BOOLEAN : OpenBus(r)
StopRuns == JoinReturns \/ DrainLeftover \/ OpenEnds
BatcherRuns == BatcherTakes \/ BatcherIdles \/ BatcherEmits \/ BatcherDies

Next ==
  \/ \E o \in {"start", "stop"} : BeginStop(o)
  \/ StopRuns
  \/ \E s \in Sessions : Reader(s)
  \/ BatcherWakes \/ BatcherRuns
  \/ \E c \in Clients :
       AddClient(c) \/ RemoveClient(c) \/ WriterGets(c) \/ WriterSends(c)
  \/ RecordStart \/ RecordStop

Spec == Init /\ [][Next]_vars

(* Fairness: threads and the loop keep running; a punctual recv() returns; *)
(* the loop serves ready tasks round-robin, so a task that is *)
(* ready over and over gets its turn (SF).  Operators (start, stop, record,*)
(* connect, disconnect) owe nothing, and only a Prompt client's socket is  *)
(* assumed to drain.                                                       *)
Fairness ==
  /\ WF_vars(StopRuns) /\ WF_vars(BatcherRuns)
  /\ \A s \in Sessions :
       /\ WF_vars(ReaderChecks(s)) /\ WF_vars(ReaderPuts(s))
       /\ PunctualRecv => WF_vars(ReaderReturns(s))
  /\ SF_vars(BatcherWakes)
  /\ \A c \in Prompt : SF_vars(WriterGets(c)) /\ SF_vars(WriterSends(c))

FairSpec == Spec /\ Fairness

-----------------------------------------------------------------------------
(* Properties.                                                             *)

\* Everything on its way to client c, oldest first.
Pipeline(c) == out[c] \o wire[c] \o queue[c]

\* start() "stops any current source first" (engine.py:110): the only thread
\* that still reads a bus is the one stop() would join, the latest source's.
NoStrayReader ==
  \A s \in Sessions :
    reader[s].pc \in {"check", "recv", "put"} => s = session /\ readerRef = s

\* A frame of a stopped source never enters a later session's batches: what
\* waits in _frame_q or in the batcher's hands came from the latest source.
SessionIsolation ==
  /\ \A i \in DOMAIN frameQ : frameQ[i].src = session
  /\ \A i \in DOMAIN taken : taken[i].src = session

\* The replay bit of a batch tells the truth about every frame in it, although
\* it is read from the engine when the batch is encoded, not per frame.
ReplayFlagTruthful ==
  \A c \in Clients : \A i \in DOMAIN Pipeline(c) :
    LET b == Pipeline(c)[i] IN
      \A j \in DOMAIN b.frames : reader[b.frames[j].src].replay = b.replay

\* The recording is at least as complete as the live stream: the frames
\* broadcast since it began are all in its file, once and in the same order,
\* even when a write or the encoder raises in the middle of a batch.
RecordedBeforeStreamed ==
  recording =>
    \E at \in [DOMAIN streamed -> DOMAIN file] :
      /\ \A i, j \in DOMAIN streamed : i < j => at[i] < at[j]
      /\ \A i \in DOMAIN streamed : \A k \in DOMAIN file :
           file[k] = streamed[i] <=> k = at[i]

\* stream.dropped (engine.py:14, README.md:246) counts exactly the frames the
\* full frame queue turned away and the batches full client queues did: what
\* was offered to a client and is not on its way to it, numbered from 1.
Lost(c) == 1 .. offered[c] - Len(Pipeline(c))
DropsAccounted ==
  /\ \A c \in Clients : Len(Pipeline(c)) <= offered[c]
  /\ dropped = overflow + Cardinality(UNION {{c} \X Lost(c) : c \in Clients})

\* Between two operations the reported bus state is IDLE exactly when no
\* source is running, and a running source has a thread that stop() joins.
StatusTruthful ==
  loop = "free" => /\ running <=> busState # "IDLE"
                   /\ running <=> readerRef # 0

\* protocol.py:122, "Pick a base <= the earliest frame's t_us (the batcher
\* uses the first frame's timestamp)": the first drained frame is the earliest.
FirstFrameIsEarliest ==
  loop = "batch" /\ frameQ = <<>> => BaseIsEarliest(taken)

\* A call to stop() or start() gives the asyncio loop back: after an adapter
\* error too, the thread notices the event ("so stop() can join cleanly",
\* engine.py:181).
StopReturns == (loop = "join") ~> (loop = "free")


\* "head-of-line blocking is not [acceptable]" (engine.py:14): a client whose
\* peer reads gets every batch its queue accepted, though others never read.
PromptClientServed ==
  \A c \in Prompt : \A n \in 1 .. MaxFrames :
    (\E i \in DOMAIN queue[c] : queue[c][i].frames[1].id = n) ~>
      (conn[c] = "gone" \/ \E i \in DOMAIN out[c] : out[c][i].frames[1].id = n)

\* The promise to one viewer: see LossyStream.
Promise == INSTANCE LossyStream WITH
  sent <- received,
  got  <- [c \in Clients |-> [i \in DOMAIN out[c] |-> Ids(out[c][i].frames)]]

\* Whatever the threads, queues and restarts do, each client observes a lossy
\* but ordered stream of whole batches (engine.py:11-14).
ImplementsLossyStream == Promise!Spec
=============================================================================
