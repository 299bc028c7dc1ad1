---------------------------- MODULE EngineProofs ----------------------------
(***************************************************************************)
(* Proofs about Engine: type correctness; when recv() honours its timeout, *)
(* the separation of one source from the next, the order of what a viewer  *)
(* gets (the refinement of LossyStream) and the truth of its replay bit;   *)
(* and, whatever recv() does, the completeness of a recording and the      *)
(* exactness of the drop counter.                                          *)
(***************************************************************************)
EXTENDS Engine, SequenceTheorems, FiniteSetTheorems, TLAPS

\* What a call of stop() knows: it owns the loop and the thread it joins is
\* the latest one.
ControlInv ==
  /\ readerRef \in {0, session}
  /\ loop \in {"drain", "open"} => readerRef = 0
  /\ loop = "join" => readerRef # 0
  /\ loop # "batch" => taken = <<>>
  /\ loop = "open" => frameQ = <<>>

\* The reported state away from the middle of stop().
StatusInv ==
  /\ loop \in {"free", "batch", "join"} => (running <=> readerRef # 0)
  /\ loop = "open" => ~running
  /\ loop # "drain" => (running <=> busState # "IDLE")

\* The frame a thread holds came from its own bus.
HeldInv == \A s \in Sessions : \A i \in DOMAIN reader[s].held :
             reader[s].held[i].src = s

IsolationInv ==
  /\ TypeOK
  /\ ControlInv
  /\ NoStrayReader
  /\ HeldInv
  /\ SessionIsolation
  /\ StatusInv

-----------------------------------------------------------------------------
(* Type correctness.                                                       *)

\* The empty sequence is a sequence of anything.
LEMMA EmptySeqs == <<>> \in Seq(Frames) /\ <<>> \in Seq(Batches)
  OBVIOUS

\* The initial state is well typed.
LEMMA TypeInit == Init => TypeOK
<1>1. IdleReader \in Readers
  BY EmptySeqs DEF IdleReader, Readers
<1>2. 0 \in 0 .. MaxSessions
  BY EngineConstants
<1>3. /\ [s \in Sessions |-> IdleReader] \in [Sessions -> Readers]
      /\ [c \in Clients |-> <<>>] \in [Clients -> Seq(Batches)]
      /\ [c \in Clients |-> "new"] \in [Clients -> {"new", "open", "gone"}]
      /\ [c \in Clients |-> 0] \in [Clients -> Nat]
  BY <1>1, EmptySeqs
<1> SUFFICES ASSUME Init PROVE TypeOK
  OBVIOUS
<1>4. /\ loop \in {"free", "batch", "join", "drain", "open"}
      /\ op \in {"start", "stop"}
      /\ session \in 0 .. MaxSessions
      /\ running \in BOOLEAN /\ replay \in BOOLEAN /\ stopFlag \in BOOLEAN
      /\ busState \in {"IDLE", "LIVE", "REPLAY", "ERROR"}
      /\ readerRef \in 0 .. MaxSessions
  BY <1>2 DEF Init
<1>5. /\ reader \in [Sessions -> Readers]
  /\ batcher \in {"none", "alive", "crashed"}
  /\ frameQ \in Seq(Frames) /\ taken \in Seq(Frames)
  BY <1>3, EmptySeqs DEF Init
<1>6. /\ conn \in [Clients -> {"new", "open", "gone"}]
  /\ queue \in [Clients -> Seq(Batches)]
  /\ wire \in [Clients -> Seq(Batches)]
  /\ out \in [Clients -> Seq(Batches)]
  /\ offered \in [Clients -> Nat]
  BY <1>3 DEF Init
<1>7. /\ dropped \in Nat /\ overflow \in Nat /\ received \in Nat
  /\ recording \in BOOLEAN /\ records \in Nat
  /\ file \in Seq(Frames) /\ streamed \in Seq(Frames)
  BY <1>3, EmptySeqs DEF Init
<1>8. QED
  BY <1>4, <1>5, <1>6, <1>7 DEF TypeOK

\* A step of start() or stop() keeps the types.
LEMMA TypeStop ==
  TypeOK /\ ((\E o \in {"start", "stop"} : BeginStop(o)) \/ StopRuns) => TypeOK'
<1> SUFFICES ASSUME TypeOK PROVE
      ((\E o \in {"start", "stop"} : BeginStop(o)) \/ StopRuns) => TypeOK'
  OBVIOUS
<1> USE EngineConstants DEF TypeOK
<1>1. ASSUME NEW o \in {"start", "stop"}, BeginStop(o) PROVE TypeOK'
  BY <1>1 DEF BeginStop, sourceVars, clientVars, recordVars
<1>2. ASSUME JoinReturns PROVE TypeOK'
  BY <1>2 DEF JoinReturns, clientVars, recordVars
<1>3. ASSUME DrainLeftover PROVE TypeOK'
  BY <1>3, EmptySeqs DEF DrainLeftover, AfterDrain, Stopped, clientVars, recordVars
<1>4. ASSUME NEW r \in BOOLEAN, OpenBus(r) PROVE TypeOK'
  <2>1. session + 1 \in Sessions
    BY SMTT(60), <1>4 DEF OpenBus, Sessions
  <2> DEFINE opened == [IdleReader EXCEPT !.pc = "check", !.replay = r]
  <2>2. opened \in Readers
    BY <1>4, EmptySeqs DEF IdleReader, Readers
  <2>3. reader' = [reader EXCEPT ![session + 1] = opened]
    BY <1>4 DEF OpenBus
  <2>4. reader' \in [Sessions -> Readers]
    <3> HIDE DEF opened
    <3> QED BY <2>1, <2>2, <2>3
  <2>5. session + 1 \in 0 .. MaxSessions
    BY <2>1 DEF Sessions
  <2>6. QED
    BY <1>4, <2>4, <2>5 DEF OpenBus, clientVars, recordVars
<1>5. ASSUME OpenFails PROVE TypeOK'
  BY <1>5 DEF OpenFails, sourceVars, clientVars, recordVars
<1>6. QED
  BY <1>1, <1>2, <1>3, <1>4, <1>5 DEF StopRuns, OpenEnds

\* A step of a reader thread keeps the types.
LEMMA TypeReader == TypeOK /\ (\E s \in Sessions : Reader(s)) => TypeOK'
<1> SUFFICES ASSUME TypeOK, NEW s \in Sessions PROVE Reader(s) => TypeOK'
  OBVIOUS
<1> USE DEF TypeOK, readerOnly, sourceVars, clientVars, recordVars
<1>1. CASE ReaderChecks(s)
  <2>1. reader' \in [Sessions -> Readers]
    BY ZenonT(90), <1>1 DEF ReaderChecks, Readers
  <2>2. QED
    BY <1>1, <2>1 DEF ReaderChecks
<1>2. CASE RecvNothing(s)
  <2>1. reader' \in [Sessions -> Readers]
    BY ZenonT(90), <1>2 DEF RecvNothing, Readers
  <2>2. QED
    BY <1>2, <2>1 DEF RecvNothing
<1>3. CASE RecvRaises(s)
  <2>1. reader' \in [Sessions -> Readers]
    BY ZenonT(90), <1>3 DEF RecvRaises, Readers
  <2>2. QED
    BY <1>3, <2>1 DEF RecvRaises
<1>4. CASE RecvFrame(s)
  <2>1. PICK t \in Stamps(s) :
          reader' = [reader EXCEPT
            ![s].pc = "put", ![s].clock = t,
            ![s].held = << [id |-> received + 1, src |-> s, t |-> t] >>]
    BY <1>4 DEF RecvFrame
  <2>2. t \in Nat
    BY DEF Stamps, Readers
  <2>3. << [id |-> received + 1, src |-> s, t |-> t] >> \in Seq(Frames)
    BY <2>2 DEF Frames
  <2>4. [reader[s] EXCEPT
           !.pc = "put", !.clock = t,
           !.held = << [id |-> received + 1, src |-> s, t |-> t] >>]
        \in Readers
    BY ZenonT(90), <2>2, <2>3 DEF Readers
  <2>5. reader' \in [Sessions -> Readers]
    BY <2>1, <2>4
  <2>6. QED
    BY SMTT(60), <1>4, <2>5 DEF RecvFrame
<1>5. CASE ReaderPuts(s)
  <2>1. reader' \in [Sessions -> Readers]
    BY ZenonT(90), <1>5, EmptySeqs DEF ReaderPuts, Readers
  <2>2. frameQ \o reader[s].held \in Seq(Frames)
    BY ConcatProperties DEF Readers
  <2>3. frameQ' \in Seq(Frames) /\ dropped' \in Nat /\ overflow' \in Nat
    <3>1. CASE Len(frameQ) < FrameQueueMax
      BY <1>5, <2>2, <3>1 DEF ReaderPuts
    <3>2. CASE ~(Len(frameQ) < FrameQueueMax)
      BY SMTT(60), <1>5, <3>2 DEF ReaderPuts
    <3>3. QED
      BY <3>1, <3>2
  <2>4. UNCHANGED <<readerOnly, busState, received>>
    BY <1>5 DEF ReaderPuts
  <2>5. QED
    BY <2>1, <2>3, <2>4
<1>6. QED
  BY <1>1, <1>2, <1>3, <1>4, <1>5 DEF Reader, ReaderReturns

\* Broadcasting a batch keeps the client queues and the counters well typed.
LEMMA TypeBroadcast ==
  ASSUME TypeOK, NEW b \in Batches, Broadcast(b)
  PROVE  /\ queue' \in [Clients -> Seq(Batches)]
         /\ offered' \in [Clients -> Nat]
         /\ dropped' \in Nat
         /\ streamed' \in Seq(Frames)
<1> DEFINE full == {c \in Subscribed : ~HasRoom(c)}
<1>1. IsFiniteSet(full)
  BY EngineConstants, FS_Subset DEF Subscribed
<1>2. Cardinality(full) \in Nat
  BY <1>1, FS_CardinalityType
<1>3. dropped' \in Nat
  BY <1>2 DEF Broadcast, Losses, TypeOK
<1>4. streamed' \in Seq(Frames)
  BY ConcatProperties DEF Broadcast, TypeOK, Batches
<1>5. QED
  BY <1>3, <1>4, AppendProperties DEF Broadcast, TypeOK

\* A step of the batcher task keeps the types.
LEMMA TypeBatcher == TypeOK /\ (BatcherWakes \/ BatcherRuns) => TypeOK'
<1> SUFFICES ASSUME TypeOK PROVE BatcherWakes \/ BatcherRuns => TypeOK'
  OBVIOUS
<1> USE DEF sourceVars, clientVars, recordVars
<1>1. CASE BatcherWakes
  BY <1>1 DEF BatcherWakes, TypeOK
<1>2. CASE BatcherTakes
  <2>1. Head(frameQ) \in Frames /\ Tail(frameQ) \in Seq(Frames)
    BY <1>2, HeadTailProperties DEF BatcherTakes, TypeOK
  <2>2. QED
    BY <1>2, <2>1, AppendProperties DEF BatcherTakes, TypeOK
<1>3. CASE BatcherIdles
  BY <1>3 DEF BatcherIdles, TypeOK
<1>4. file \o taken \in Seq(Frames)
  BY ConcatProperties DEF TypeOK
<1>5. CASE BatcherEmits
  <2>1. [frames |-> taken, replay |-> replay] \in Batches
    BY DEF TypeOK, Batches
  <2>2. file' \in Seq(Frames)
    BY <1>4, <1>5 DEF BatcherEmits, Written, TypeOK
  <2>3. QED
    BY <1>5, <2>1, <2>2, TypeBroadcast, EmptySeqs DEF BatcherEmits, TypeOK
<1>6. CASE BatcherDies
  <2>1. ASSUME NEW n \in 0 .. Len(taken) - 1
        PROVE  file \o SubSeq(taken, 1, n) \in Seq(Frames)
    BY ConcatProperties, SubSeqProperties DEF TypeOK
  <2>2. file' \in Seq(Frames)
    BY <1>4, <1>6, <2>1 DEF BatcherDies, Written, TypeOK
  <2>3. QED
    BY <1>6, <2>2, EmptySeqs DEF BatcherDies, TypeOK
<1>7. QED
  BY <1>1, <1>2, <1>3, <1>5, <1>6 DEF BatcherRuns

\* A client or recorder operation keeps the types.
LEMMA TypeClient ==
  TypeOK /\ (\E c \in Clients : AddClient(c) \/ RemoveClient(c)
                                \/ WriterGets(c) \/ WriterSends(c)) => TypeOK'
<1> SUFFICES ASSUME TypeOK, NEW c \in Clients
             PROVE  AddClient(c) \/ RemoveClient(c) \/ WriterGets(c)
                      \/ WriterSends(c) => TypeOK'
  OBVIOUS
<1> USE DEF TypeOK, clientOnly, sourceVars, recordVars
<1>1. CASE AddClient(c)
  BY <1>1 DEF AddClient
<1>2. CASE RemoveClient(c)
  BY <1>2 DEF RemoveClient
<1>3. CASE WriterGets(c)
  <2>1. Head(queue[c]) \in Batches /\ Tail(queue[c]) \in Seq(Batches)
    BY <1>3, HeadTailProperties DEF WriterGets
  <2>2. QED
    BY SMTT(60), <1>3, <2>1 DEF WriterGets
<1>4. CASE WriterSends(c)
  <2>1. out[c] \o wire[c] \in Seq(Batches)
    BY ConcatProperties
  <2>2. QED
    BY <1>4, <2>1, EmptySeqs DEF WriterSends
<1>5. QED
  BY <1>1, <1>2, <1>3, <1>4

\* Starting and stopping a recording keeps the types.
LEMMA TypeRecord == TypeOK /\ (RecordStart \/ RecordStop) => TypeOK'
<1> SUFFICES ASSUME TypeOK PROVE RecordStart \/ RecordStop => TypeOK'
  OBVIOUS
<1> USE EmptySeqs DEF TypeOK, recordOnly, sourceVars, clientVars
<1>1. CASE RecordStart
  BY <1>1 DEF RecordStart
<1>2. CASE RecordStop
  BY <1>2 DEF RecordStop
<1>3. QED
  BY <1>1, <1>2

\* Nothing changes: nothing changes type.
LEMMA TypeStutter == TypeOK /\ UNCHANGED vars => TypeOK'
BY DEF TypeOK, vars, sourceVars, clientVars, recordVars

\* Every variable of the engine keeps its type: in particular reader threads
\* and the loop only ever stop at the program points modelled.
THEOREM TypeCorrect == Spec => []TypeOK
<1>1. TypeOK /\ [Next]_vars => TypeOK'
  BY TypeStop, TypeReader, TypeBatcher, TypeClient, TypeRecord, TypeStutter
     DEF Next
<1>2. QED
  BY TypeInit, <1>1, PTL DEF Spec

-----------------------------------------------------------------------------
(* One source is separated from the next.                                  *)

Separation == ControlInv /\ NoStrayReader /\ HeldInv /\ SessionIsolation
              /\ StatusInv

\* A step of start() or stop() keeps the sources apart: this is where join()
\* matters, for the thread it waits for is the only live one.
LEMMA SeparationStop ==
  ASSUME PunctualRecv, IsolationInv,
         (\E o \in {"start", "stop"} : BeginStop(o)) \/ StopRuns
  PROVE  Separation'
<1> USE DEF IsolationInv, Separation, ControlInv, NoStrayReader, HeldInv,
            SessionIsolation, StatusInv, sourceVars
<1>1. ASSUME NEW o \in {"start", "stop"}, BeginStop(o) PROVE Separation'
  BY <1>1 DEF BeginStop
<1>2. CASE JoinReturns
  BY <1>2 DEF JoinReturns, ReaderJoined
<1>3. CASE DrainLeftover
  BY <1>3 DEF DrainLeftover, AfterDrain, Stopped
<1>4. ASSUME NEW r \in BOOLEAN, OpenBus(r) PROVE Separation'
  <2>1. session + 1 \in Sessions /\ session \in Nat
    BY SMTT(60), <1>4, EngineConstants DEF OpenBus, Sessions, TypeOK
  <2>2. frameQ' = <<>> /\ taken' = <<>>
    BY <1>4 DEF OpenBus
  <2>3. NoStrayReader'
    <3>1. \A s \in Sessions : reader[s].pc \notin {"check", "recv", "put"}
      BY <1>4 DEF OpenBus, Sessions
    <3>2. \A s \in Sessions \ {session + 1} : reader'[s] = reader[s]
      BY <1>4 DEF OpenBus, TypeOK
    <3>3. QED
      BY <1>4, <3>1, <3>2 DEF OpenBus
  <2>4. HeldInv'
    <3>1. reader'[session + 1].held = <<>>
      BY <1>4, <2>1 DEF OpenBus, TypeOK, IdleReader
    <3>2. \A s \in Sessions \ {session + 1} : reader'[s] = reader[s]
      BY <1>4 DEF OpenBus, TypeOK
    <3>3. ASSUME NEW s \in Sessions, NEW i \in DOMAIN reader'[s].held
          PROVE  reader'[s].held[i].src = s
      BY <3>1, <3>2
    <3>4. QED
      BY <3>3
  <2>5. ControlInv' /\ StatusInv'
    BY <1>4, <2>1 DEF OpenBus, TypeOK
  <2>6. QED
    BY <2>2, <2>3, <2>4, <2>5
<1>5. CASE OpenFails
  BY <1>5 DEF OpenFails
<1>6. QED
  BY <1>1, <1>2, <1>3, <1>4, <1>5 DEF StopRuns, OpenEnds

\* A step of a reader thread keeps the sources apart: a live thread is the
\* latest source's, so what it puts in the queue is that source's.
LEMMA SeparationReader ==
  ASSUME IsolationInv, NEW s \in Sessions, Reader(s)
  PROVE  Separation'
<1> USE DEF readerOnly, sourceVars
<1>1. reader[s].pc \in {"check", "recv", "put"}
  BY DEF Reader, ReaderReturns, ReaderChecks, RecvNothing, RecvRaises,
         RecvFrame, ReaderPuts
<1>2. s = session /\ readerRef = s /\ readerRef # 0
  BY <1>1 DEF IsolationInv, NoStrayReader, Sessions
<1>3. /\ UNCHANGED <<loop, op, session, running, readerRef, taken>>
      /\ busState' \in {busState, "ERROR"}
  BY DEF Reader, ReaderReturns, ReaderChecks, RecvNothing, RecvRaises,
         RecvFrame, ReaderPuts
<1>4. \A r \in Sessions : r # s => reader'[r] = reader[r]
  BY DEF Reader, ReaderReturns, ReaderChecks, RecvNothing, RecvRaises,
         RecvFrame, ReaderPuts, IsolationInv, TypeOK
<1>5. NoStrayReader'
  BY <1>2, <1>3, <1>4 DEF IsolationInv, NoStrayReader
<1>6. \A i \in DOMAIN reader'[s].held : reader'[s].held[i].src = s
  <2> USE DEF IsolationInv, HeldInv, TypeOK, Readers
  <2>1. CASE ReaderChecks(s) \/ RecvNothing(s) \/ RecvRaises(s)
    <3>1. reader'[s].held = reader[s].held
      BY SMTT(60), <2>1 DEF ReaderChecks, RecvNothing, RecvRaises
    <3>2. QED
      BY <3>1
  <2>2. CASE RecvFrame(s)
    <3>1. PICK t \in Stamps(s) : reader'[s].held =
                        << [id |-> received + 1, src |-> s, t |-> t] >>
      BY <2>2 DEF RecvFrame
    <3>2. QED
      BY <3>1
  <2>3. CASE ReaderPuts(s)
    <3>1. reader'[s].held = <<>>
      BY <2>3 DEF ReaderPuts
    <3>2. QED
      BY <3>1
  <2>4. QED
    BY <2>1, <2>2, <2>3 DEF Reader, ReaderReturns
<1>7. HeldInv'
  BY <1>4, <1>6 DEF IsolationInv, HeldInv
<1>8. ControlInv' /\ StatusInv'
  <2>1. loop \notin {"drain", "open"}
    BY <1>2 DEF IsolationInv, ControlInv
  <2>2. ControlInv'
    BY <1>2, <1>3, <2>1 DEF IsolationInv, ControlInv
  <2>3. running /\ busState # "IDLE"
    BY SMTT(60), <1>2, <2>1 DEF IsolationInv, StatusInv, TypeOK
  <2>4. QED
    BY <1>2, <1>3, <2>1, <2>2, <2>3 DEF StatusInv
<1>9. SessionIsolation'
  <2>1. CASE frameQ' = frameQ
    BY <1>3, <2>1 DEF IsolationInv, SessionIsolation
  <2>2. CASE frameQ' = frameQ \o reader[s].held
    <3>1. frameQ \in Seq(Frames) /\ reader[s].held \in Seq(Frames)
      BY DEF IsolationInv, TypeOK, Readers
    <3>2. ASSUME NEW i \in DOMAIN frameQ' PROVE frameQ'[i].src = session
      BY SMTT(60), <1>2, <2>2, <3>1, <3>2 DEF IsolationInv, SessionIsolation, HeldInv
    <3>3. QED
      BY <1>3, <3>2 DEF IsolationInv, SessionIsolation
  <2>3. QED
    BY <2>1, <2>2 DEF Reader, ReaderReturns, ReaderChecks, RecvNothing,
                      RecvRaises, RecvFrame, ReaderPuts
<1>10. QED
  BY <1>5, <1>7, <1>8, <1>9 DEF Separation

\* A step of the batcher moves frames of the one source it serves.
LEMMA SeparationBatcher ==
  ASSUME IsolationInv, BatcherWakes \/ BatcherRuns
  PROVE  Separation'
<1> USE DEF IsolationInv, Separation, ControlInv, NoStrayReader, HeldInv,
            SessionIsolation, StatusInv, sourceVars
<1>1. CASE BatcherWakes
  BY <1>1 DEF BatcherWakes
<1>2. CASE BatcherTakes
  <2>1. /\ frameQ \in Seq(Frames) /\ taken \in Seq(Frames) /\ frameQ # <<>>
        /\ taken' = Append(taken, Head(frameQ)) /\ frameQ' = Tail(frameQ)
        /\ \A i \in DOMAIN frameQ : frameQ[i].src = session
        /\ \A i \in DOMAIN taken : taken[i].src = session
    BY <1>2 DEF BatcherTakes, TypeOK
  <2>2. Head(frameQ).src = session
    BY <2>1, HeadTailProperties
  <2>3. ASSUME NEW i \in DOMAIN taken' PROVE taken'[i].src = session
    <3>1. i \in DOMAIN taken \/ i = Len(taken) + 1
      BY <2>1, <2>3
    <3>2. CASE i \in DOMAIN taken
      <4>1. taken'[i] = taken[i]
        BY <2>1, <3>2
      <4>2. QED
        BY <2>1, <3>2, <4>1
    <3>3. CASE i = Len(taken) + 1
      <4>1. taken'[i] = Head(frameQ)
        BY <2>1, <3>3
      <4>2. QED
        BY <2>2, <4>1
    <3>4. QED
      BY <3>1, <3>2, <3>3
  <2>4. ASSUME NEW i \in DOMAIN frameQ' PROVE frameQ'[i].src = session
    <3>1. i + 1 \in DOMAIN frameQ /\ frameQ'[i] = frameQ[i + 1]
      BY <2>1, <2>4
    <3>2. QED
      BY <2>1, <3>1
  <2>5. QED
    BY <1>2, <2>3, <2>4 DEF BatcherTakes
<1>3. CASE BatcherIdles
  BY <1>3 DEF BatcherIdles
<1>4. CASE BatcherEmits
  BY <1>4 DEF BatcherEmits
<1>5. CASE BatcherDies
  BY <1>5 DEF BatcherDies
<1>6. QED
  BY <1>1, <1>2, <1>3, <1>4, <1>5 DEF BatcherRuns

\* Clients and the recorder touch none of it.
LEMMA SeparationOthers ==
  ASSUME IsolationInv,
         \/ \E c \in Clients : AddClient(c) \/ RemoveClient(c)
                               \/ WriterGets(c) \/ WriterSends(c)
         \/ RecordStart \/ RecordStop \/ UNCHANGED vars
  PROVE  Separation'
<1>1. UNCHANGED <<loop, op, session, running, readerRef, busState, reader,
                  frameQ, taken>>
  BY DEF AddClient, RemoveClient, WriterGets, WriterSends, clientOnly,
         RecordStart, RecordStop, recordOnly, vars, sourceVars
<1>2. QED
  BY <1>1 DEF IsolationInv, Separation, ControlInv, NoStrayReader, HeldInv,
              SessionIsolation, StatusInv

\* The strengthened invariant holds of every behaviour whose recv() is
\* punctual.
THEOREM IsolationInductive == PunctualRecv => (Spec => []IsolationInv)
<1> SUFFICES ASSUME PunctualRecv PROVE Spec => []IsolationInv
  OBVIOUS
<1>1. Init => IsolationInv
  BY TypeInit DEF Init, IsolationInv, ControlInv, NoStrayReader, HeldInv,
                  SessionIsolation, StatusInv, IdleReader
<1>2. IsolationInv /\ [Next]_vars => IsolationInv'
  <2> SUFFICES ASSUME IsolationInv, [Next]_vars PROVE IsolationInv'
    OBVIOUS
  <2>1. TypeOK'
    BY TypeStop, TypeReader, TypeBatcher, TypeClient, TypeRecord,
       TypeStutter DEF Next, IsolationInv
  <2>2. Separation'
    BY SeparationStop, SeparationReader, SeparationBatcher,
       SeparationOthers DEF Next
  <2>3. QED
    BY <2>1, <2>2 DEF IsolationInv, Separation
<1>3. QED
  BY <1>1, <1>2, PTL DEF Spec

\* When recv() honours its timeout, at most one thread reads a bus and it is
\* the one stop() joins (engine.py:110 "Stops any current source first").
THEOREM OneReader == PunctualRecv => (Spec => []NoStrayReader)
BY IsolationInductive, PTL DEF IsolationInv

\* Under the same condition no frame crosses from one source to the next.
THEOREM SourcesIsolated == PunctualRecv => (Spec => []SessionIsolation)
BY IsolationInductive, PTL DEF IsolationInv

\* Under the same condition the health report tells a running engine from a
\* stopped one whenever the loop is free to report.
THEOREM StatusIsTruthful == PunctualRecv => (Spec => []StatusTruthful)
<1>1. IsolationInv => StatusTruthful
  BY DEF IsolationInv, StatusInv, StatusTruthful
<1>2. QED
  BY <1>1, IsolationInductive, PTL

-----------------------------------------------------------------------------
(* Order: what is on its way to a viewer is sorted by arrival.             *)

IdsIn(fs) == {fs[i].id : i \in DOMAIN fs}
Below(A, B) == \A x \in A, y \in B : x < y
Rising(fs) == \A i, j \in DOMAIN fs : i < j => fs[i].id < fs[j].id

\* The frames of a sequence of batches, and when they are in order.
IdsOf(bs) == UNION {IdsIn(bs[i].frames) : i \in DOMAIN bs}
InOrder(bs) ==
  /\ \A i \in DOMAIN bs : Rising(bs[i].frames)
  /\ \A i, j \in DOMAIN bs :
       i < j => Below(IdsIn(bs[i].frames), IdsIn(bs[j].frames))

\* The frames in the hands of reader threads.
HeldIds == UNION {IdsIn(reader[s].held) : s \in Sessions}

\* A thread holds at most one frame, and only on its way to the queue.
HandsInv ==
  \A s \in Sessions : /\ Len(reader[s].held) <= 1
                      /\ reader[s].pc # "put" => reader[s].held = <<>>

\* From the thread through the queue to the batcher the frames are newer and
\* newer.
SourceOrder ==
  /\ Rising(frameQ) /\ Rising(taken)
  /\ Below(IdsIn(taken), IdsIn(frameQ))
  /\ Below(IdsIn(taken) \cup IdsIn(frameQ), HeldIds)
  /\ IdsIn(taken) \cup IdsIn(frameQ) \cup HeldIds \subseteq 1 .. received

\* What a viewer has or will get is in order, and older than all of that.
ViewerOrder ==
  \A c \in Clients :
    /\ Len(wire[c]) <= 1
    /\ InOrder(Pipeline(c))
    /\ IdsOf(Pipeline(c)) \subseteq 1 .. received
    /\ Below(IdsOf(Pipeline(c)), IdsIn(taken) \cup IdsIn(frameQ) \cup HeldIds)

OrderInv == HandsInv /\ SourceOrder /\ ViewerOrder

\* The frames of a concatenation are those of its parts, and it is rising when
\* both are and the first is below the second.
LEMMA RisingConcat ==
  ASSUME NEW fs \in Seq(Frames), NEW gs \in Seq(Frames)
  PROVE  /\ IdsIn(fs \o gs) = IdsIn(fs) \cup IdsIn(gs)
         /\ Rising(fs) /\ Rising(gs) /\ Below(IdsIn(fs), IdsIn(gs))
              => Rising(fs \o gs)
<1> DEFINE hs == fs \o gs
<1>1. /\ hs \in Seq(Frames) /\ Len(hs) = Len(fs) + Len(gs)
      /\ \A i \in 1 .. Len(fs) : hs[i] = fs[i]
      /\ \A i \in 1 .. Len(gs) : hs[Len(fs) + i] = gs[i]
  BY ConcatProperties
<1>2. /\ DOMAIN hs = 1 .. Len(fs) + Len(gs) /\ Len(fs) \in Nat /\ Len(gs) \in Nat
      /\ DOMAIN fs = 1 .. Len(fs) /\ DOMAIN gs = 1 .. Len(gs)
  BY <1>1
<1> HIDE DEF hs
<1>3. \A i \in DOMAIN hs : \/ i \in DOMAIN fs /\ hs[i] = fs[i]
                           \/ i - Len(fs) \in DOMAIN gs /\ hs[i] = gs[i - Len(fs)]
  <2> SUFFICES ASSUME NEW i \in DOMAIN hs, i \notin DOMAIN fs
               PROVE  i - Len(fs) \in DOMAIN gs /\ hs[i] = gs[i - Len(fs)]
    BY <1>1, <1>2
  <2>1. i - Len(fs) \in 1 .. Len(gs) /\ Len(fs) + (i - Len(fs)) = i
    BY <1>2
  <2>2. QED
    BY <2>1, <1>1, <1>2
<1>4. IdsIn(hs) \subseteq IdsIn(fs) \cup IdsIn(gs)
  BY <1>3 DEF IdsIn
<1>5. IdsIn(fs) \subseteq IdsIn(hs)
  BY <1>1, <1>2 DEF IdsIn
<1>6. IdsIn(gs) \subseteq IdsIn(hs)
  <2> SUFFICES ASSUME NEW i \in DOMAIN gs PROVE gs[i].id \in IdsIn(hs)
    BY DEF IdsIn
  <2>1. Len(fs) + i \in DOMAIN hs /\ hs[Len(fs) + i] = gs[i]
    BY <1>1, <1>2
  <2>2. QED
    BY <2>1 DEF IdsIn
<1>7. ASSUME Rising(fs), Rising(gs), Below(IdsIn(fs), IdsIn(gs))
      PROVE  Rising(hs)
  <2> SUFFICES ASSUME NEW i \in DOMAIN hs, NEW j \in DOMAIN hs, i < j
               PROVE  hs[i].id < hs[j].id
    BY DEF Rising
  <2>1. CASE i \in DOMAIN fs /\ hs[i] = fs[i] /\ j \in DOMAIN fs /\ hs[j] = fs[j]
    BY <1>7, <2>1 DEF Rising
  <2>2. CASE /\ i \in DOMAIN fs /\ hs[i] = fs[i]
             /\ j - Len(fs) \in DOMAIN gs /\ hs[j] = gs[j - Len(fs)]
    BY <1>7, <2>2 DEF Below, IdsIn
  <2>3. CASE /\ i - Len(fs) \in DOMAIN gs /\ hs[i] = gs[i - Len(fs)]
             /\ j - Len(fs) \in DOMAIN gs /\ hs[j] = gs[j - Len(fs)]
    <3>1. i - Len(fs) < j - Len(fs)
      BY <1>2
    <3>2. QED
      BY <1>7, <2>3, <3>1 DEF Rising
  <2>4. CASE /\ i - Len(fs) \in DOMAIN gs /\ j \in DOMAIN fs
    BY <1>2, <2>4
  <2>5. QED
    BY <1>3, <2>1, <2>2, <2>3, <2>4
<1>8. QED
  BY <1>4, <1>5, <1>6, <1>7 DEF hs

\* A frame by itself.
LEMMA RisingOne ==
  ASSUME NEW f PROVE IdsIn(<<f>>) = {f.id} /\ Rising(<<f>>)
<1>1. DOMAIN <<f>> = {1} /\ <<f>>[1] = f
  OBVIOUS
<1>2. QED
  BY <1>1 DEF IdsIn, Rising

\* Nothing at all.
LEMMA RisingNone == IdsIn(<<>>) = {} /\ Rising(<<>>)
BY DEF IdsIn, Rising

\* Taking the head of a rising sequence takes its least frame.
LEMMA RisingTail ==
  ASSUME NEW fs \in Seq(Frames), fs # <<>>, Rising(fs)
  PROVE  /\ IdsIn(fs) = {Head(fs).id} \cup IdsIn(Tail(fs))
         /\ Below({Head(fs).id}, IdsIn(Tail(fs)))
         /\ Rising(Tail(fs))
<1>1. /\ DOMAIN fs = 1 .. Len(fs) /\ Len(fs) \in Nat \ {0}
      /\ Head(fs) = fs[1] /\ Tail(fs) \in Seq(Frames)
      /\ DOMAIN Tail(fs) = 1 .. Len(fs) - 1
      /\ \A i \in 1 .. Len(fs) - 1 : Tail(fs)[i] = fs[i + 1]
  BY HeadTailProperties
<1>2. \A i \in DOMAIN Tail(fs) : i + 1 \in DOMAIN fs /\ 1 < i + 1
  BY <1>1
<1>3. \A i \in DOMAIN fs : i = 1 \/ (i - 1 \in DOMAIN Tail(fs) /\ (i - 1) + 1 = i)
  BY <1>1
<1>4. IdsIn(fs) \subseteq {Head(fs).id} \cup IdsIn(Tail(fs))
  <2> SUFFICES ASSUME NEW i \in DOMAIN fs, i # 1
               PROVE  fs[i].id \in IdsIn(Tail(fs))
    BY <1>1 DEF IdsIn
  <2>1. i - 1 \in DOMAIN Tail(fs) /\ Tail(fs)[i - 1] = fs[i]
    BY <1>1, <1>3
  <2>2. QED
    BY <2>1 DEF IdsIn
<1>5. 1 \in DOMAIN fs
  BY <1>1
<1>6. {Head(fs).id} \cup IdsIn(Tail(fs)) \subseteq IdsIn(fs)
  BY <1>1, <1>2, <1>5 DEF IdsIn
<1>7. Below({Head(fs).id}, IdsIn(Tail(fs)))
  BY <1>1, <1>2, <1>5 DEF Below, IdsIn, Rising
<1>8. Rising(Tail(fs))
  <2> SUFFICES ASSUME NEW i \in DOMAIN Tail(fs), NEW j \in DOMAIN Tail(fs), i < j
               PROVE  Tail(fs)[i].id < Tail(fs)[j].id
    BY DEF Rising
  <2>1. i + 1 < j + 1
    BY <1>1
  <2>2. QED
    BY <1>1, <1>2, <2>1 DEF Rising
<1>9. QED
  BY <1>4, <1>6, <1>7, <1>8

\* A batch newer than all before it goes to the end of a pipeline.
LEMMA InOrderAppend ==
  ASSUME NEW bs \in Seq(Batches), NEW b \in Batches
  PROVE  /\ IdsOf(Append(bs, b)) = IdsOf(bs) \cup IdsIn(b.frames)
         /\ InOrder(bs) /\ Rising(b.frames) /\ Below(IdsOf(bs), IdsIn(b.frames))
              => InOrder(Append(bs, b))
<1> DEFINE cs == Append(bs, b)
<1>1. /\ DOMAIN cs = 1 .. Len(bs) + 1 /\ Len(bs) \in Nat /\ DOMAIN bs = 1 .. Len(bs)
      /\ \A i \in 1 .. Len(bs) : cs[i] = bs[i]
      /\ cs[Len(bs) + 1] = b
  BY AppendProperties
<1> HIDE DEF cs
<1>2. \A i \in DOMAIN cs : \/ i \in DOMAIN bs /\ cs[i] = bs[i]
                           \/ i = Len(bs) + 1 /\ cs[i] = b
  BY <1>1
<1>3. IdsOf(cs) \subseteq IdsOf(bs) \cup IdsIn(b.frames)
  BY <1>2 DEF IdsOf
<1>4. IdsIn(b.frames) \subseteq IdsOf(cs)
  <2>1. Len(bs) + 1 \in DOMAIN cs
    BY <1>1
  <2>2. QED
    BY <1>1, <2>1 DEF IdsOf
<1>5. IdsOf(bs) \subseteq IdsOf(cs)
  <2>1. \A i \in DOMAIN bs : i \in DOMAIN cs /\ cs[i] = bs[i]
    BY <1>1
  <2>2. QED
    BY <2>1 DEF IdsOf
<1>6. ASSUME InOrder(bs), Rising(b.frames), Below(IdsOf(bs), IdsIn(b.frames))
      PROVE  InOrder(cs)
  <2>1. \A i \in DOMAIN cs : Rising(cs[i].frames)
    BY <1>2, <1>6 DEF InOrder
  <2>2. ASSUME NEW i \in DOMAIN cs, NEW j \in DOMAIN cs, i < j
        PROVE  Below(IdsIn(cs[i].frames), IdsIn(cs[j].frames))
    <3>1. i \in DOMAIN bs /\ cs[i] = bs[i]
      BY <1>1, <1>2, <2>2
    <3>2. CASE j \in DOMAIN bs /\ cs[j] = bs[j]
      BY <1>6, <2>2, <3>1, <3>2 DEF InOrder
    <3>3. CASE cs[j] = b
      <4>1. IdsIn(cs[i].frames) \subseteq IdsOf(bs)
        BY <3>1 DEF IdsOf
      <4>2. QED
        BY <1>6, <3>3, <4>1 DEF Below
    <3>4. QED
      BY <1>2, <3>2, <3>3
  <2>3. QED
    BY <2>1, <2>2 DEF InOrder
<1>7. QED
  BY <1>3, <1>4, <1>5, <1>6 DEF cs

-----------------------------------------------------------------------------
\* What a pipeline loses nothing by: the writer taking the head of the queue,
\* and the send of what the writer holds.
LEMMA PipelineMoves ==
  ASSUME NEW xs \in Seq(Batches), NEW ys \in Seq(Batches)
  PROVE  /\ ys # <<>> => (xs \o <<>>) \o ys = (xs \o <<Head(ys)>>) \o Tail(ys)
         /\ \A zs \in Seq(Batches) : (xs \o zs) \o ys = ((xs \o zs) \o <<>>) \o ys
         /\ \A b \in Batches : xs \o Append(ys, b) = Append(xs \o ys, b)
<1>1. xs \o <<>> = xs /\ \A zs \in Seq(Batches) : (xs \o zs) \o <<>> = xs \o zs
  BY ConcatProperties, EmptySeqs
<1>2. ASSUME ys # <<>> PROVE (xs \o <<>>) \o ys = (xs \o <<Head(ys)>>) \o Tail(ys)
  <2>1. Head(ys) \in Batches /\ Tail(ys) \in Seq(Batches)
    BY <1>2, HeadTailProperties
  <2>2. <<Head(ys)>> \in Seq(Batches) /\ ys = <<Head(ys)>> \o Tail(ys)
    BY <1>2, <2>1, HeadTailProperties
  <2>3. (xs \o <<Head(ys)>>) \o Tail(ys) = xs \o (<<Head(ys)>> \o Tail(ys))
    BY <2>1, <2>2, ConcatAssociative
  <2>4. QED
    BY <1>1, <2>2, <2>3
<1>3. \A b \in Batches : xs \o Append(ys, b) = Append(xs \o ys, b)
  BY ConcatProperties, AppendProperties
<1>4. QED
  BY <1>1, <1>2, <1>3

Upstream == IdsIn(taken) \cup IdsIn(frameQ) \cup HeldIds

\* A step that leaves the clients alone and lets at most the newest frame in
\* keeps what they see in order.
LEMMA ViewerKept ==
  ASSUME TypeOK, ViewerOrder, UNCHANGED <<queue, wire, out>>,
         received' \in {received, received + 1},
         Upstream' \subseteq Upstream \cup {received + 1}
  PROVE  ViewerOrder'
<1> SUFFICES ASSUME NEW c \in Clients
             PROVE  /\ Len(wire'[c]) <= 1
                    /\ InOrder(Pipeline(c)')
                    /\ IdsOf(Pipeline(c)') \subseteq 1 .. received'
                    /\ Below(IdsOf(Pipeline(c)'), Upstream')
  BY DEF ViewerOrder, Upstream
<1>1. Pipeline(c)' = Pipeline(c)
  BY DEF Pipeline
<1>2. /\ Len(wire[c]) <= 1
      /\ InOrder(Pipeline(c))
      /\ IdsOf(Pipeline(c)) \subseteq 1 .. received
      /\ Below(IdsOf(Pipeline(c)), Upstream)
  BY DEF ViewerOrder, Upstream
<1>3. received \in Nat
  BY DEF TypeOK
<1>4. IdsOf(Pipeline(c)) \subseteq 1 .. received'
  BY <1>2, <1>3
<1>5. Below(IdsOf(Pipeline(c)), Upstream')
  BY <1>2, <1>3 DEF Below
<1>6. QED
  BY <1>1, <1>2, <1>4, <1>5

\* start() and stop() only throw frames away.
LEMMA OrderStop ==
  ASSUME IsolationInv, OrderInv,
         (\E o \in {"start", "stop"} : BeginStop(o)) \/ StopRuns
  PROVE  OrderInv'
<1> USE DEF IsolationInv, OrderInv
<1>1. /\ UNCHANGED <<taken, queue, wire, out, received>>
      /\ frameQ' \in {frameQ, <<>>}
  BY DEF BeginStop, StopRuns, OpenEnds, JoinReturns, DrainLeftover, AfterDrain,
         OpenBus, OpenFails, clientVars
<1>2. HandsInv' /\ HeldIds' \subseteq HeldIds
  <2>1. CASE reader' = reader
    BY <2>1 DEF HandsInv, HeldIds
  <2>2. ASSUME NEW r \in BOOLEAN, OpenBus(r)
        PROVE  HandsInv' /\ HeldIds' \subseteq HeldIds
    <3>1. session + 1 \in Sessions
      BY SMTT(60), <2>2, EngineConstants DEF OpenBus, Sessions, TypeOK
    <3>2. /\ \A s \in Sessions \ {session + 1} : reader'[s] = reader[s]
          /\ reader'[session + 1].held = <<>>
      BY <2>2, <3>1 DEF OpenBus, TypeOK, IdleReader
    <3>3. HandsInv'
      BY <3>2 DEF HandsInv
    <3>4. HeldIds' \subseteq HeldIds
      BY <3>2, RisingNone DEF HeldIds
    <3>5. QED
      BY <3>3, <3>4
  <2>3. QED
    BY <2>1, <2>2 DEF BeginStop, StopRuns, OpenEnds, JoinReturns,
                      DrainLeftover, OpenFails
<1>3. Rising(frameQ') /\ IdsIn(frameQ') \subseteq IdsIn(frameQ)
  BY <1>1, RisingNone DEF SourceOrder
<1>4. SourceOrder'
  BY <1>1, <1>2, <1>3 DEF SourceOrder, Below
<1>5. ViewerOrder'
  BY <1>1, <1>2, <1>3, ViewerKept DEF Upstream
<1>6. QED
  BY <1>2, <1>4, <1>5

\* A frame a thread receives is the newest, and the only live thread puts it
\* behind the frames it put before.
LEMMA OrderReader ==
  ASSUME IsolationInv, OrderInv, NEW s \in Sessions, Reader(s)
  PROVE  OrderInv'
<1> USE DEF IsolationInv, OrderInv
<1>1. reader[s].pc \in {"check", "recv", "put"}
  BY DEF Reader, ReaderReturns, ReaderChecks, RecvNothing, RecvRaises,
         RecvFrame, ReaderPuts
<1>2. \A r \in Sessions \ {s} : reader[r].held = <<>>
  BY <1>1 DEF NoStrayReader, HandsInv, TypeOK, Readers
<1>3. HeldIds = IdsIn(reader[s].held)
  BY <1>2, RisingNone DEF HeldIds
<1>4. UNCHANGED <<taken, queue, wire, out>>
  BY DEF Reader, ReaderReturns, ReaderChecks, RecvNothing, RecvRaises,
         RecvFrame, ReaderPuts, readerOnly, clientVars
<1>5. \A r \in Sessions \ {s} : reader'[r] = reader[r]
  BY DEF Reader, ReaderReturns, ReaderChecks, RecvNothing, RecvRaises,
         RecvFrame, ReaderPuts, TypeOK
<1>6. HeldIds' = IdsIn(reader'[s].held)
  BY <1>2, <1>5, RisingNone DEF HeldIds
<1>7. received \in Nat
  BY DEF TypeOK
<1>8. CASE ReaderChecks(s) \/ RecvNothing(s) \/ RecvRaises(s)
  <2>1. UNCHANGED <<frameQ, received>> /\ reader[s].held = <<>>
    BY <1>8 DEF ReaderChecks, RecvNothing, RecvRaises, HandsInv
  <2>2. reader'[s].held = reader[s].held
    BY <1>8 DEF ReaderChecks, RecvNothing, RecvRaises, TypeOK, Readers
  <2>3. HandsInv'
    BY <1>5, <2>1, <2>2 DEF HandsInv
  <2>4. UNCHANGED HeldIds
    BY <1>3, <1>6, <2>2
  <2>5. SourceOrder'
    BY <1>4, <2>1, <2>4 DEF SourceOrder
  <2>6. ViewerOrder'
    BY <1>4, <2>1, <2>4, ViewerKept DEF Upstream
  <2>7. QED
    BY <2>3, <2>5, <2>6
<1>9. CASE RecvFrame(s)
  <2>1. UNCHANGED frameQ /\ received' = received + 1
    BY <1>9 DEF RecvFrame
  <2>2. PICK t \in Stamps(s) :
          reader' = [reader EXCEPT
            ![s].pc = "put", ![s].clock = t,
            ![s].held = << [id |-> received + 1, src |-> s, t |-> t] >>]
    BY <1>9 DEF RecvFrame
  <2>3. /\ reader'[s].held = << [id |-> received + 1, src |-> s, t |-> t] >>
        /\ reader'[s].pc = "put"
    BY <2>2 DEF TypeOK, Readers
  <2>4. HandsInv'
    <3>1. Len(reader'[s].held) <= 1
      BY <2>3
    <3>2. QED
      BY <1>5, <2>3, <3>1 DEF HandsInv
  <2>5. HeldIds' = {received + 1}
    BY <1>6, <2>3, RisingOne
  <2>6. SourceOrder'
    BY <1>4, <1>7, <2>1, <2>5 DEF SourceOrder, Below
  <2>7. ViewerOrder'
    BY <1>4, <2>1, <2>5, ViewerKept DEF Upstream
  <2>8. QED
    BY <2>4, <2>6, <2>7
<1>10. CASE ReaderPuts(s)
  <2>1. reader'[s].held = <<>> /\ received' = received
    BY <1>10 DEF ReaderPuts, TypeOK
  <2>2. HandsInv'
    BY <1>2, <1>5, <2>1 DEF HandsInv
  <2>3. HeldIds' = {}
    BY <1>6, <2>1, RisingNone
  <2>4. Rising(reader[s].held)
    <3>1. reader[s].held \in Seq(Frames) /\ Len(reader[s].held) <= 1
      BY DEF HandsInv, TypeOK, Readers
    <3>2. QED
      BY <3>1 DEF Rising
  <2>5. /\ frameQ \in Seq(Frames) /\ reader[s].held \in Seq(Frames)
        /\ frameQ' = frameQ \/ frameQ' = frameQ \o reader[s].held
    BY <1>10 DEF ReaderPuts, TypeOK, Readers
  <2>6. Rising(frameQ') /\ IdsIn(frameQ') \subseteq IdsIn(frameQ) \cup HeldIds
    BY <1>3, <2>4, <2>5, RisingConcat DEF SourceOrder, Below
  <2>7. SourceOrder'
    BY <1>4, <2>1, <2>3, <2>6 DEF SourceOrder, Below
  <2>8. ViewerOrder'
    BY <1>4, <2>1, <2>3, <2>6, ViewerKept DEF Upstream
  <2>9. QED
    BY <2>2, <2>7, <2>8
<1>11. QED
  BY <1>8, <1>9, <1>10 DEF Reader, ReaderReturns

\* A batch a client's queue accepts goes behind all the client was sent before.
LEMMA PipelineQueued ==
  ASSUME TypeOK, NEW b \in Batches, Broadcast(b), UNCHANGED <<wire, out>>,
         NEW c \in Clients
  PROVE  Pipeline(c)' \in {Pipeline(c), Append(Pipeline(c), b)}
<1>1. queue'[c] = queue[c] \/ queue'[c] = Append(queue[c], b)
  BY DEF Broadcast
<1>2. /\ queue[c] \in Seq(Batches) /\ wire[c] \in Seq(Batches)
      /\ out[c] \in Seq(Batches) /\ out[c] \o wire[c] \in Seq(Batches)
  BY ConcatProperties DEF TypeOK
<1>3. (out[c] \o wire[c]) \o Append(queue[c], b)
        = Append((out[c] \o wire[c]) \o queue[c], b)
  BY ZenonT(90), <1>2, PipelineMoves
<1>4. QED
  BY <1>1, <1>3 DEF Pipeline

\* Draining the queue keeps the order, and so does handing what was drained to
\* the clients that have room.
LEMMA OrderBatcher ==
  ASSUME IsolationInv, OrderInv, BatcherWakes \/ BatcherRuns
  PROVE  OrderInv'
<1> USE DEF IsolationInv, OrderInv
<1>1. UNCHANGED <<reader, wire, out, received>> /\ UNCHANGED HeldIds
  BY DEF BatcherWakes, BatcherRuns, BatcherTakes, BatcherIdles, BatcherEmits,
         BatcherDies, clientVars, HeldIds
<1>2. HandsInv'
  BY <1>1 DEF HandsInv
<1>3. taken \in Seq(Frames) /\ frameQ \in Seq(Frames) /\ received \in Nat
  BY DEF TypeOK
<1>4. CASE BatcherWakes \/ BatcherIdles
  <2>1. UNCHANGED <<frameQ, taken, queue>>
    BY <1>4 DEF BatcherWakes, BatcherIdles, clientVars
  <2>2. QED
    BY <1>1, <1>2, <2>1, ViewerKept DEF SourceOrder, Upstream
<1>5. CASE BatcherTakes
  <2>1. /\ frameQ # <<>> /\ UNCHANGED queue
        /\ taken' = Append(taken, Head(frameQ)) /\ frameQ' = Tail(frameQ)
    BY <1>5 DEF BatcherTakes, clientVars
  <2>2. Head(frameQ) \in Frames /\ <<Head(frameQ)>> \in Seq(Frames)
    BY <1>3, <2>1, HeadTailProperties
  <2>3. taken' = taken \o <<Head(frameQ)>>
    BY <1>3, <2>1, <2>2, AppendProperties
  <2>4. /\ IdsIn(frameQ) = {Head(frameQ).id} \cup IdsIn(frameQ')
        /\ Below({Head(frameQ).id}, IdsIn(frameQ'))
        /\ Rising(frameQ')
    BY <1>3, <2>1, RisingTail DEF SourceOrder
  <2>5. /\ IdsIn(taken') = IdsIn(taken) \cup {Head(frameQ).id}
        /\ Rising(taken')
    <3>1. Below(IdsIn(taken), IdsIn(<<Head(frameQ)>>))
      BY <2>4, RisingOne DEF SourceOrder, Below
    <3>2. QED
      BY ZenonT(90), <1>3, <2>2, <2>3, <3>1, RisingConcat, RisingOne DEF SourceOrder
  <2>6. SourceOrder'
    BY <1>1, <2>4, <2>5 DEF SourceOrder, Below
  <2>7. ViewerOrder'
    BY <1>1, <2>1, <2>4, <2>5, ViewerKept DEF Upstream
  <2>8. QED
    BY <1>2, <2>6, <2>7
<1>6. CASE BatcherEmits
  <2> DEFINE b == [frames |-> taken, replay |-> replay]
  <2>1. Broadcast(b) /\ taken' = <<>> /\ frameQ' = frameQ /\ b \in Batches
    BY <1>3, <1>6 DEF BatcherEmits, Batches, TypeOK
  <2>2. b.frames = taken
    OBVIOUS
  <2> HIDE DEF b
  <2>3. SourceOrder'
    BY <1>1, <2>1, RisingNone DEF SourceOrder, Below
  <2>4. Upstream' = IdsIn(frameQ) \cup HeldIds
    BY <1>1, <2>1, RisingNone DEF Upstream
  <2>5. ASSUME NEW c \in Clients
        PROVE  /\ Len(wire'[c]) <= 1
               /\ InOrder(Pipeline(c)')
               /\ IdsOf(Pipeline(c)') \subseteq 1 .. received'
               /\ Below(IdsOf(Pipeline(c)'), Upstream')
    <3>1. /\ Len(wire[c]) <= 1
          /\ InOrder(Pipeline(c))
          /\ IdsOf(Pipeline(c)) \subseteq 1 .. received
          /\ Below(IdsOf(Pipeline(c)), IdsIn(taken) \cup IdsIn(frameQ) \cup HeldIds)
      BY DEF ViewerOrder
    <3>2. CASE Pipeline(c)' = Pipeline(c)
      BY <1>1, <2>4, <3>1, <3>2 DEF Below
    <3>3. CASE Pipeline(c)' = Append(Pipeline(c), b)
      <4>1. Pipeline(c) \in Seq(Batches)
        BY ConcatProperties DEF Pipeline, TypeOK
      <4>2. /\ Rising(b.frames) /\ IdsIn(b.frames) = IdsIn(taken)
            /\ Below(IdsOf(Pipeline(c)), IdsIn(b.frames))
        BY <2>2, <3>1 DEF SourceOrder, Below
      <4>3. /\ IdsOf(Pipeline(c)') = IdsOf(Pipeline(c)) \cup IdsIn(taken)
            /\ InOrder(Pipeline(c)')
        BY <2>1, <3>1, <3>3, <4>1, <4>2, InOrderAppend
      <4>4. IdsOf(Pipeline(c)') \subseteq 1 .. received
        BY <3>1, <4>3 DEF SourceOrder
      <4>5. Below(IdsOf(Pipeline(c)'), Upstream')
        BY <2>4, <3>1, <4>3 DEF SourceOrder, Below
      <4>6. QED
        BY <1>1, <3>1, <4>3, <4>4, <4>5
    <3>4. QED
      BY <1>1, <2>1, <3>2, <3>3, PipelineQueued
  <2>6. ViewerOrder'
    BY <2>5 DEF ViewerOrder, Upstream
  <2>7. QED
    BY <1>2, <2>3, <2>6
<1>7. CASE BatcherDies
  <2>1. taken' = <<>> /\ frameQ' = frameQ /\ UNCHANGED queue
    BY <1>7 DEF BatcherDies, clientVars
  <2>2. SourceOrder'
    BY <1>1, <2>1, RisingNone DEF SourceOrder, Below
  <2>3. ViewerOrder'
    BY <1>1, <2>1, RisingNone, ViewerKept DEF Upstream
  <2>4. QED
    BY <1>2, <2>2, <2>3
<1>8. QED
  BY <1>4, <1>5, <1>6, <1>7 DEF BatcherRuns

\* A client's writer moves batches along its pipeline and changes none.
LEMMA PipelineKept ==
  ASSUME TypeOK, NEW c \in Clients,
         AddClient(c) \/ RemoveClient(c) \/ WriterGets(c) \/ WriterSends(c),
         NEW d \in Clients
  PROVE  /\ Pipeline(d)' = Pipeline(d)
         /\ Len(wire[d]) <= 1 => Len(wire'[d]) <= 1
<1> USE DEF TypeOK
<1>1. CASE AddClient(c) \/ RemoveClient(c)
  BY <1>1 DEF AddClient, RemoveClient, Pipeline
<1>2. CASE d # c
  BY <1>2 DEF AddClient, RemoveClient, WriterGets, WriterSends, Pipeline
<1>3. CASE d = c /\ WriterGets(c)
  <2>1. /\ wire[c] = <<>> /\ queue[c] # <<>> /\ out' = out
        /\ wire'[c] = << Head(queue[c]) >> /\ queue'[c] = Tail(queue[c])
    BY <1>3 DEF WriterGets
  <2>2. (out[c] \o <<>>) \o queue[c] = (out[c] \o <<Head(queue[c])>>) \o Tail(queue[c])
    BY <2>1, PipelineMoves
  <2>3. Len(wire'[c]) <= 1
    BY <2>1
  <2>4. QED
    BY <1>3, <2>1, <2>2, <2>3 DEF Pipeline
<1>4. CASE d = c /\ WriterSends(c)
  <2>1. /\ out'[c] = out[c] \o wire[c] /\ wire'[c] = <<>> /\ queue' = queue
    BY <1>4 DEF WriterSends
  <2>2. (out[c] \o wire[c]) \o queue[c] = ((out[c] \o wire[c]) \o <<>>) \o queue[c]
    BY PipelineMoves
  <2>3. QED
    BY <1>4, <2>1, <2>2 DEF Pipeline
<1>5. QED
  BY <1>1, <1>2, <1>3, <1>4

\* So what a client sees stays in order.
LEMMA OrderClient ==
  ASSUME IsolationInv, OrderInv, NEW c \in Clients,
         AddClient(c) \/ RemoveClient(c) \/ WriterGets(c) \/ WriterSends(c)
  PROVE  OrderInv'
<1> USE DEF IsolationInv, OrderInv
<1>1. UNCHANGED <<reader, taken, frameQ, received>>
  BY DEF AddClient, RemoveClient, WriterGets, WriterSends, clientOnly
<1>2. HandsInv' /\ SourceOrder' /\ HeldIds' = HeldIds
  BY <1>1 DEF HandsInv, SourceOrder, HeldIds
<1>3. \A d \in Clients : Pipeline(d)' = Pipeline(d) /\ Len(wire'[d]) <= 1
  BY PipelineKept DEF ViewerOrder
<1>4. QED
  BY <1>1, <1>2, <1>3 DEF ViewerOrder

\* The order holds of every behaviour whose recv() is punctual.  (A thread that
\* outlives its join could put an old frame behind newer ones.)
THEOREM OrderInductive == PunctualRecv => (Spec => []OrderInv)
<1> SUFFICES ASSUME PunctualRecv PROVE Spec => []OrderInv
  OBVIOUS
<1>1. Init => OrderInv
  <2> SUFFICES ASSUME Init PROVE OrderInv
    OBVIOUS
  <2>1. HandsInv /\ HeldIds = {}
    BY RisingNone DEF Init, IdleReader, HandsInv, HeldIds
  <2>2. SourceOrder
    BY <2>1, RisingNone DEF Init, SourceOrder, Below
  <2>3. \A c \in Clients : Pipeline(c) = <<>> /\ Len(wire[c]) = 0
    BY DEF Init, Pipeline
  <2>4. IdsOf(<<>>) = {} /\ InOrder(<<>>)
    BY DEF IdsOf, InOrder
  <2>5. ViewerOrder
    BY <2>3, <2>4 DEF ViewerOrder, Below
  <2>6. QED
    BY <2>1, <2>2, <2>5 DEF OrderInv
<1>2. IsolationInv /\ OrderInv /\ [Next]_vars => OrderInv'
  <2> SUFFICES ASSUME IsolationInv, OrderInv, [Next]_vars PROVE OrderInv'
    OBVIOUS
  <2>1. CASE RecordStart \/ RecordStop \/ UNCHANGED vars
    <3>1. UNCHANGED <<reader, taken, frameQ, received, queue, wire, out>>
      BY <2>1 DEF RecordStart, RecordStop, recordOnly, clientVars, vars
    <3>2. QED
      BY ZenonT(90), <3>1 DEF OrderInv, HandsInv, SourceOrder, HeldIds, ViewerOrder, Pipeline
  <2>2. QED
    BY <2>1, OrderStop, OrderReader, OrderBatcher, OrderClient DEF Next
<1>3. QED
  BY <1>1, <1>2, IsolationInductive, PTL DEF Spec

-----------------------------------------------------------------------------
(* The refinement of LossyStream.                                          *)

\* A concatenation begins with its first part.
LEMMA Beginning ==
  ASSUME NEW xs \in Seq(Batches), NEW ys \in Seq(Batches)
  PROVE  /\ xs \o ys \in Seq(Batches)
         /\ Len(xs \o ys) = Len(xs) + Len(ys)
         /\ \A i \in 1 .. Len(xs) : (xs \o ys)[i] = xs[i]
BY ConcatProperties

\* Of three parts in a row, the first is the beginning and a single batch in
\* the middle comes right after it.
LEMMA MiddlePart ==
  ASSUME NEW xs \in Seq(Batches), NEW b \in Batches, NEW ys \in Seq(Batches)
  PROVE  /\ Len(xs) + 1 \in DOMAIN ((xs \o <<b>>) \o ys)
         /\ ((xs \o <<b>>) \o ys)[Len(xs) + 1] = b
         /\ \A i \in DOMAIN xs : /\ i \in DOMAIN ((xs \o <<b>>) \o ys)
                                /\ i < Len(xs) + 1
                                /\ ((xs \o <<b>>) \o ys)[i] = xs[i]
<1> DEFINE zs == xs \o <<b>>
           ps == zs \o ys
<1>1. /\ zs \in Seq(Batches) /\ Len(zs) = Len(xs) + 1
      /\ \A i \in 1 .. Len(xs) : zs[i] = xs[i]
      /\ zs[Len(xs) + 1] = b
  OBVIOUS
<1> HIDE DEF zs
<1>2. /\ ps \in Seq(Batches) /\ Len(ps) = Len(zs) + Len(ys)
      /\ \A i \in 1 .. Len(zs) : ps[i] = zs[i]
  BY <1>1, Beginning
<1> HIDE DEF ps
<1>3. /\ Len(xs) \in Nat /\ Len(ys) \in Nat /\ DOMAIN xs = 1 .. Len(xs)
      /\ DOMAIN ps = 1 .. Len(ps)
  BY <1>2
<1>4. /\ Len(xs) + 1 \in 1 .. Len(zs) /\ Len(xs) + 1 \in DOMAIN ps
      /\ \A i \in DOMAIN xs : i \in 1 .. Len(zs) /\ i \in DOMAIN ps /\ i < Len(xs) + 1
  BY <1>1, <1>2, <1>3
<1>5. QED
  BY <1>1, <1>2, <1>3, <1>4 DEF ps, zs

\* What has reached a peer is the oldest part of its pipeline, and what its
\* writer holds comes next.
LEMMA PipelineParts ==
  ASSUME TypeOK, NEW c \in Clients, NEW b \in Batches, wire[c] = <<b>>
  PROVE  /\ Len(out[c]) + 1 \in DOMAIN Pipeline(c)
         /\ Pipeline(c)[Len(out[c]) + 1] = b
         /\ \A i \in DOMAIN out[c] : /\ i \in DOMAIN Pipeline(c)
                                     /\ i < Len(out[c]) + 1
                                     /\ Pipeline(c)[i] = out[c][i]
<1>1. out[c] \in Seq(Batches) /\ queue[c] \in Seq(Batches)
  BY DEF TypeOK
<1> DEFINE xs == out[c]
           ys == queue[c]
<1>2. Pipeline(c) = (xs \o <<b>>) \o ys
  BY DEF Pipeline
<1>3. xs \in Seq(Batches) /\ ys \in Seq(Batches)
  BY <1>1
<1> HIDE DEF xs, ys
<1>4. QED
  <2>1. /\ Len(xs) + 1 \in DOMAIN Pipeline(c)
        /\ Pipeline(c)[Len(xs) + 1] = b
        /\ \A i \in DOMAIN xs : /\ i \in DOMAIN Pipeline(c)
                               /\ i < Len(xs) + 1
                               /\ Pipeline(c)[i] = xs[i]
    BY SMTT(60), <1>2, <1>3, MiddlePart
  <2>2. QED
    BY <2>1 DEF xs

\* A send hands its client one more batch, newer than all before it.
LEMMA SendDelivers ==
  ASSUME IsolationInv, OrderInv, NEW c \in Clients, WriterSends(c)
  PROVE  Promise!Deliver(c)
<1> DEFINE view(bs) == [i \in DOMAIN bs |-> Ids(bs[i].frames)]
           got  == [d \in Clients |-> view(out[d])]
           b    == wire[c][1]
           n    == Len(out[c])
<1>1. /\ wire[c] \in Seq(Batches) /\ wire[c] # <<>> /\ Len(wire[c]) <= 1
      /\ out[c] \in Seq(Batches) /\ queue[c] \in Seq(Batches)
  BY DEF WriterSends, IsolationInv, TypeOK, OrderInv, ViewerOrder
<1>2. wire[c] = <<b>> /\ b \in Batches
  BY <1>1
<1> HIDE DEF b
<1>3. out' = [out EXCEPT ![c] = Append(@, b)] /\ received' = received
  <2>1. out[c] \o <<b>> = Append(out[c], b)
    BY <1>1, <1>2
  <2>2. QED
    BY <1>2, <2>1 DEF WriterSends, clientOnly
<1>4. view(Append(out[c], b)) = Append(view(out[c]), Ids(b.frames))
  BY <1>1, <1>2
<1>5. got' = [got EXCEPT ![c] = Append(@, Ids(b.frames))]
  <2>1. out'[c] = Append(out[c], b) /\ \A d \in Clients \ {c} : out'[d] = out[d]
    BY <1>3 DEF IsolationInv, TypeOK
  <2> HIDE DEF view
  <2>2. QED
    BY <1>4, <2>1
<1>6. /\ Len(got[c]) = n /\ Len(got'[c]) = n + 1
      /\ got'[c][n + 1] = Ids(b.frames)
  BY <1>1, <1>5
<1>7. /\ InOrder(Pipeline(c)) /\ IdsOf(Pipeline(c)) \subseteq 1 .. received
  BY DEF OrderInv, ViewerOrder
<1>8. /\ n + 1 \in DOMAIN Pipeline(c) /\ Pipeline(c)[n + 1] = b
      /\ \A i \in DOMAIN out[c] : /\ i \in DOMAIN Pipeline(c) /\ i < n + 1
                                  /\ Pipeline(c)[i] = out[c][i]
  BY <1>2, PipelineParts DEF IsolationInv
<1>9. IdsIn(b.frames) \subseteq 1 .. received /\ Rising(b.frames)
  BY <1>7, <1>8 DEF InOrder, IdsOf
<1>10. \A i \in DOMAIN out[c] : Below(IdsIn(out[c][i].frames), IdsIn(b.frames))
  BY <1>7, <1>8 DEF InOrder
<1>11. Promise!Newer(got[c], Ids(b.frames))
  <2>1. /\ got[c] = view(out[c]) /\ DOMAIN got[c] = DOMAIN out[c]
        /\ \A i \in DOMAIN out[c] : got[c][i] = Ids(out[c][i].frames)
    OBVIOUS
  <2>2. \A fs : /\ DOMAIN Ids(fs) = DOMAIN fs
                /\ \A k \in DOMAIN fs : Ids(fs)[k] = fs[k].id /\ fs[k].id \in IdsIn(fs)
    BY DEF Ids, IdsIn
  <2> DEFINE bs == got[c]
             f  == Ids(b.frames)
  <2> HIDE DEF got, view, bs, f
  <2>3. /\ DOMAIN f = DOMAIN b.frames
        /\ \A k \in DOMAIN f : f[k] = b.frames[k].id /\ f[k] \in IdsIn(b.frames)
    BY <2>2 DEF f
  <2>4. \A k \in DOMAIN f : f[k] \in 1 .. received
    BY <1>9, <2>3
  <2>5. \A k, m \in DOMAIN f : k < m => f[k] < f[m]
    BY <1>9, <2>3 DEF Rising
  <2>6. \A i \in DOMAIN bs : \A j \in DOMAIN bs[i] : bs[i][j] \in IdsIn(out[c][i].frames)
    <3> SUFFICES ASSUME NEW i \in DOMAIN bs, NEW j \in DOMAIN bs[i]
                 PROVE  bs[i][j] \in IdsIn(out[c][i].frames)
      OBVIOUS
    <3>1. bs[i] = Ids(out[c][i].frames)
      BY <2>1 DEF bs
    <3>2. QED
      BY ZenonT(90), <2>2, <3>1
  <2>7. \A i \in DOMAIN bs : \A j \in DOMAIN bs[i] : \A k \in DOMAIN f : bs[i][j] < f[k]
    BY <1>10, <2>1, <2>3, <2>6 DEF Below, bs
  <2>8. QED
    BY <2>4, <2>5, <2>7 DEF Promise!Newer, bs, f
<1> HIDE DEF got
<1>12. QED
  BY <1>3, <1>5, <1>6, <1>11 DEF Promise!Deliver, got

\* The engine implements the promise: each client is handed batches of frames
\* that have arrived, in order, none twice and none late, whatever the threads,
\* queues and restarts do (engine.py:11-14).
THEOREM KeepsItsPromise == PunctualRecv => (Spec => ImplementsLossyStream)
<1> SUFFICES ASSUME PunctualRecv PROVE Spec => ImplementsLossyStream
  OBVIOUS
<1> DEFINE got == [c \in Clients |-> [i \in DOMAIN out[c] |-> Ids(out[c][i].frames)]]
<1>1. Init => Promise!Init
  BY DEF Init, Promise!Init
<1>2. IsolationInv /\ OrderInv /\ [Next]_vars => [Promise!Next]_<<received, got>>
  <2> SUFFICES ASSUME IsolationInv, OrderInv, [Next]_vars
               PROVE  Promise!Next \/ UNCHANGED <<received, out>>
    OBVIOUS
  <2>1. ASSUME NEW s \in Sessions, RecvFrame(s) PROVE Promise!Arrive
    BY <2>1 DEF RecvFrame, Promise!Arrive, readerOnly, clientVars
  <2>2. ASSUME NEW c \in Clients, WriterSends(c) PROVE Promise!Next
    BY SMTT(60), <2>2, SendDelivers DEF Promise!Next
  <2>3. CASE \/ \E o \in {"start", "stop"} : BeginStop(o)
             \/ StopRuns
             \/ BatcherWakes \/ BatcherRuns
             \/ RecordStart \/ RecordStop
             \/ UNCHANGED vars
    BY <2>3 DEF BeginStop, StopRuns, OpenEnds, JoinReturns, DrainLeftover,
                OpenBus, OpenFails, BatcherWakes, BatcherRuns, BatcherTakes,
                BatcherIdles, BatcherEmits, BatcherDies, RecordStart,
                RecordStop, recordOnly, clientVars, vars
  <2>4. ASSUME NEW s \in Sessions,
               ReaderChecks(s) \/ RecvNothing(s) \/ RecvRaises(s) \/ ReaderPuts(s)
        PROVE  UNCHANGED <<received, out>>
    BY <2>4 DEF ReaderChecks, RecvNothing, RecvRaises, ReaderPuts, readerOnly,
                clientVars
  <2>5. ASSUME NEW c \in Clients, AddClient(c) \/ RemoveClient(c) \/ WriterGets(c)
        PROVE  UNCHANGED <<received, out>>
    BY <2>5 DEF AddClient, RemoveClient, WriterGets, clientOnly
  <2>6. QED
    BY <2>1, <2>2, <2>3, <2>4, <2>5 DEF Next, Reader, ReaderReturns, Promise!Next
<1>3. QED
  BY <1>1, <1>2, IsolationInductive, OrderInductive, PTL
     DEF Spec, ImplementsLossyStream, Promise!Spec

-----------------------------------------------------------------------------
(* The replay bit.                                                         *)

\* Every frame of b came from a source already opened, of the kind b says.
Truthful(b) ==
  \A j \in DOMAIN b.frames :
    b.frames[j].src <= session /\ reader[b.frames[j].src].replay = b.replay

\* The flag read when a batch is encoded is the latest source's.
ReplayInv ==
  /\ session # 0 => replay = reader[session].replay
  /\ \A c \in Clients : \A i \in DOMAIN Pipeline(c) : Truthful(Pipeline(c)[i])

\* A source's kind is settled when it is opened, and only the latest source's
\* kind is the engine's.
LEMMA KindsSettled ==
  ASSUME TypeOK, ReplayInv, [Next]_vars
  PROVE  /\ session' # 0 => replay' = reader'[session'].replay
         /\ session <= session'
         /\ \A s \in Sessions : s <= session => reader'[s].replay = reader[s].replay
<1>1. CASE UNCHANGED <<session, replay, reader>>
  BY <1>1, EngineConstants DEF ReplayInv, TypeOK
<1>2. ASSUME NEW r \in BOOLEAN, OpenBus(r)
      PROVE  /\ session' # 0 => replay' = reader'[session'].replay
             /\ session <= session'
             /\ \A s \in Sessions : s <= session => reader'[s].replay = reader[s].replay
  <2>1. session + 1 \in Sessions /\ session \in Nat
    BY SMTT(60), <1>2, EngineConstants DEF OpenBus, Sessions, TypeOK
  <2>2. /\ session' = session + 1 /\ replay' = r
        /\ reader'[session + 1].replay = r
        /\ \A s \in Sessions \ {session + 1} : reader'[s] = reader[s]
    BY <1>2, <2>1 DEF OpenBus, TypeOK, IdleReader
  <2>3. \A s \in Sessions : s <= session => s # session + 1
    BY <2>1 DEF Sessions
  <2>4. QED
    BY <2>1, <2>2, <2>3
<1>3. ASSUME NEW s \in Sessions, Reader(s)
      PROVE  /\ UNCHANGED <<session, replay>>
             /\ \A r \in Sessions : reader'[r].replay = reader[r].replay
  <2>1. UNCHANGED <<session, replay>>
    BY <1>3 DEF Reader, ReaderReturns, ReaderChecks, RecvNothing, RecvRaises,
                RecvFrame, ReaderPuts, readerOnly, sourceVars
  <2>2. reader \in [Sessions -> Readers]
    BY DEF TypeOK
  <2>3. CASE ReaderChecks(s) \/ RecvNothing(s) \/ RecvRaises(s) \/ ReaderPuts(s)
    BY ZenonT(90), <2>1, <2>2, <2>3 DEF ReaderChecks, RecvNothing, RecvRaises, ReaderPuts, Readers
  <2>4. CASE RecvFrame(s)
    <3>1. PICK t \in Stamps(s) :
            reader' = [reader EXCEPT
              ![s].pc = "put", ![s].clock = t,
              ![s].held = << [id |-> received + 1, src |-> s, t |-> t] >>]
      BY <2>4 DEF RecvFrame
    <3>2. reader'[s].replay = reader[s].replay
      BY <2>2, <3>1 DEF Readers
    <3>3. QED
      BY <2>1, <2>2, <3>1, <3>2
  <2>5. QED
    BY <1>3, <2>3, <2>4 DEF Reader, ReaderReturns
<1>4. ASSUME NEW s \in Sessions, Reader(s)
      PROVE  /\ session' # 0 => replay' = reader'[session'].replay
             /\ session <= session'
             /\ \A r \in Sessions : r <= session => reader'[r].replay = reader[r].replay
  <2>1. session \in Nat /\ (session # 0 => session \in Sessions)
    BY EngineConstants DEF TypeOK, Sessions
  <2>2. QED
    BY <1>3, <1>4, <2>1 DEF ReplayInv
<1>5. \/ UNCHANGED <<session, replay, reader>>
      \/ \E r \in BOOLEAN : OpenBus(r)
      \/ \E s \in Sessions : Reader(s)
  BY DEF Next, BeginStop, StopRuns, OpenEnds, JoinReturns, DrainLeftover,
         OpenFails, BatcherWakes, BatcherRuns, BatcherTakes, BatcherIdles,
         BatcherEmits, BatcherDies, AddClient, RemoveClient, WriterGets,
         WriterSends, RecordStart, RecordStop, clientOnly, recordOnly, vars,
         sourceVars
<1>6. QED
  BY <1>1, <1>2, <1>4, <1>5

\* A step leaves a client's pipeline as it is or adds the drained frames under
\* the current flag.
LEMMA PipelineSteps ==
  ASSUME TypeOK, [Next]_vars, NEW c \in Clients
  PROVE  Pipeline(c)' \in {Pipeline(c),
           Append(Pipeline(c), [frames |-> taken, replay |-> replay])}
<1>1. CASE UNCHANGED <<queue, wire, out>>
  BY <1>1 DEF Pipeline
<1>2. CASE BatcherEmits
  <2>1. [frames |-> taken, replay |-> replay] \in Batches
    BY DEF TypeOK, Batches
  <2>2. QED
    BY <1>2, <2>1, PipelineQueued DEF BatcherEmits
<1>3. ASSUME NEW d \in Clients,
             AddClient(d) \/ RemoveClient(d) \/ WriterGets(d) \/ WriterSends(d)
      PROVE  Pipeline(c)' = Pipeline(c)
  BY <1>3, PipelineKept
<1>4. \/ UNCHANGED <<queue, wire, out>>
      \/ BatcherEmits
      \/ \E d \in Clients :
           AddClient(d) \/ RemoveClient(d) \/ WriterGets(d) \/ WriterSends(d)
  BY ZenonT(90) DEF Next, BeginStop, StopRuns, OpenEnds, OpenBus, JoinReturns,
         DrainLeftover, OpenFails, Reader, ReaderReturns, ReaderChecks,
         RecvNothing, RecvRaises, RecvFrame, ReaderPuts, readerOnly,
         BatcherWakes, BatcherRuns, BatcherTakes, BatcherIdles, BatcherDies,
         RecordStart, RecordStop, recordOnly, clientVars, vars
<1>5. QED
  BY <1>1, <1>2, <1>3, <1>4

\* Every frame of a sequence names one of the sources.
LEMMA FrameSources ==
  ASSUME NEW fs \in Seq(Frames)
  PROVE  \A j \in DOMAIN fs : fs[j].src \in Sessions
<1>1. \A j \in DOMAIN fs : fs[j] \in Frames
  OBVIOUS
<1>2. QED
  BY <1>1 DEF Frames

\* The replay bit of every batch tells the truth about each frame in it,
\* although it is read from the engine when the batch is encoded.
THEOREM ReplayFlagHolds == PunctualRecv => (Spec => []ReplayFlagTruthful)
<1> SUFFICES ASSUME PunctualRecv PROVE Spec => []ReplayFlagTruthful
  OBVIOUS
<1>1. Init => ReplayInv
  BY DEF Init, ReplayInv, Pipeline
<1>2. IsolationInv /\ ReplayInv /\ [Next]_vars => ReplayInv'
  <2> SUFFICES ASSUME IsolationInv, ReplayInv, [Next]_vars,
                      NEW c \in Clients, NEW i \in DOMAIN Pipeline(c)'
               PROVE  Truthful(Pipeline(c)[i])'
    BY KindsSettled DEF ReplayInv, IsolationInv
  <2> DEFINE b == [frames |-> taken, replay |-> replay]
  <2>1. /\ session <= session' /\ session \in Nat /\ session' \in Nat
        /\ \A s \in Sessions : s <= session => reader'[s].replay = reader[s].replay
    <3>1. TypeOK'
      BY TypeStop, TypeReader, TypeBatcher, TypeClient, TypeRecord, TypeStutter
         DEF Next, IsolationInv
    <3>2. session \in Nat /\ session' \in Nat
      BY <3>1, EngineConstants DEF IsolationInv, TypeOK
    <3>3. QED
      BY <3>2, KindsSettled DEF IsolationInv
  <2>2. ASSUME NEW d \in Batches, Truthful(d)
        PROVE  /\ \A j \in DOMAIN d.frames : d.frames[j].src <= session'
               /\ \A j \in DOMAIN d.frames : reader'[d.frames[j].src].replay = d.replay
    <3>1. d.frames \in Seq(Frames)
      BY DEF Batches
    <3>2. \A j \in DOMAIN d.frames : d.frames[j].src \in Sessions
      BY <3>1, FrameSources
    <3>3. QED
      BY <2>1, <2>2, <3>2 DEF Truthful, Sessions
  <2>3. b \in Batches /\ Truthful(b)
    <3>1. b \in Batches /\ b.frames = taken /\ b.replay = replay
      BY DEF IsolationInv, TypeOK, Batches
    <3>2. taken \in Seq(Frames)
      BY DEF IsolationInv, TypeOK
    <3>3. \A j \in DOMAIN taken : taken[j].src \in Sessions
      BY <3>2, FrameSources
    <3>4. \A j \in DOMAIN taken : taken[j].src = session /\ session # 0
      BY <3>3 DEF IsolationInv, SessionIsolation, Sessions
    <3>5. QED
      BY <2>1, <3>1, <3>4 DEF Truthful, ReplayInv
  <2>4. Pipeline(c) \in Seq(Batches)
    BY ConcatProperties DEF Pipeline, IsolationInv, TypeOK
  <2> HIDE DEF b
  <2>5. Pipeline(c)'[i] = b \/ \E j \in DOMAIN Pipeline(c) : Pipeline(c)'[i] = Pipeline(c)[j]
    <3>1. Pipeline(c)' = Pipeline(c) \/ Pipeline(c)' = Append(Pipeline(c), b)
      BY PipelineSteps DEF IsolationInv, b
    <3>2. QED
      BY <2>3, <2>4, <3>1
  <2>6. Pipeline(c)'[i] \in Batches /\ Truthful(Pipeline(c)'[i])
    BY <2>3, <2>4, <2>5 DEF ReplayInv
  <2>7. QED
    BY <2>2, <2>6 DEF Truthful
<1>3. ReplayInv => ReplayFlagTruthful
  BY DEF ReplayInv, ReplayFlagTruthful, Truthful
<1>4. QED
  BY <1>1, <1>2, <1>3, IsolationInductive, PTL DEF Spec

-----------------------------------------------------------------------------
(* The recording.                                                          *)

Distinct(fs) == \A i, j \in DOMAIN fs : fs[i].id = fs[j].id => i = j
Apart(A, B) == A \cap B = {}

\* No frame is in two places, or twice in one: in a thread's hands, in the
\* frame queue, with the batcher or in the file.
OncePlaced ==
  /\ Distinct(file) /\ Distinct(taken) /\ Distinct(frameQ)
  /\ Apart(IdsIn(file), IdsIn(taken)) /\ Apart(IdsIn(file), IdsIn(frameQ))
  /\ Apart(IdsIn(taken), IdsIn(frameQ))
  /\ IdsIn(file) \cup IdsIn(taken) \cup IdsIn(frameQ) \subseteq 1 .. received
  /\ \A s \in Sessions :
       /\ Distinct(reader[s].held)
       /\ IdsIn(reader[s].held) \subseteq 1 .. received
       /\ Apart(IdsIn(reader[s].held), IdsIn(file) \cup IdsIn(taken) \cup IdsIn(frameQ))
  /\ \A r, s \in Sessions :
       r # s => Apart(IdsIn(reader[r].held), IdsIn(reader[s].held))

\* at finds each frame of s in f, in the order of s.
Embeds(at, s, f) ==
  /\ at \in [DOMAIN s -> DOMAIN f]
  /\ \A i, j \in DOMAIN s : i < j => at[i] < at[j]
  /\ \A i \in DOMAIN s : f[at[i]] = s[i]

RecordInv == OncePlaced /\ \E at : Embeds(at, streamed, file)

\* Distinct parts that share nothing are distinct together.
LEMMA DistinctConcat ==
  ASSUME NEW fs \in Seq(Frames), NEW gs \in Seq(Frames),
         Distinct(fs), Distinct(gs), Apart(IdsIn(fs), IdsIn(gs))
  PROVE  Distinct(fs \o gs)
<1> DEFINE hs == fs \o gs
<1>1. /\ hs \in Seq(Frames) /\ Len(hs) = Len(fs) + Len(gs)
      /\ \A i \in 1 .. Len(fs) : hs[i] = fs[i]
      /\ \A i \in 1 .. Len(gs) : hs[Len(fs) + i] = gs[i]
  BY ConcatProperties
<1>2. /\ DOMAIN hs = 1 .. Len(fs) + Len(gs) /\ Len(fs) \in Nat /\ Len(gs) \in Nat
      /\ DOMAIN fs = 1 .. Len(fs) /\ DOMAIN gs = 1 .. Len(gs)
  BY <1>1
<1> HIDE DEF hs
<1>3. \A i \in DOMAIN hs : \/ i \in DOMAIN fs /\ hs[i] = fs[i]
                           \/ i - Len(fs) \in DOMAIN gs /\ hs[i] = gs[i - Len(fs)]
  <2> SUFFICES ASSUME NEW i \in DOMAIN hs, i \notin DOMAIN fs
               PROVE  i - Len(fs) \in DOMAIN gs /\ hs[i] = gs[i - Len(fs)]
    BY <1>1, <1>2
  <2>1. i - Len(fs) \in 1 .. Len(gs) /\ Len(fs) + (i - Len(fs)) = i
    BY <1>2
  <2>2. QED
    BY <2>1, <1>1, <1>2
<1> SUFFICES ASSUME NEW i \in DOMAIN hs, NEW j \in DOMAIN hs, hs[i].id = hs[j].id
             PROVE  i = j
  BY DEF Distinct, hs
<1>4. CASE i \in DOMAIN fs /\ hs[i] = fs[i] /\ j \in DOMAIN fs /\ hs[j] = fs[j]
  BY <1>4 DEF Distinct
<1>5. CASE /\ i - Len(fs) \in DOMAIN gs /\ hs[i] = gs[i - Len(fs)]
           /\ j - Len(fs) \in DOMAIN gs /\ hs[j] = gs[j - Len(fs)]
  <2>1. i - Len(fs) = j - Len(fs)
    BY <1>5 DEF Distinct
  <2>2. QED
    BY <2>1, <1>2
<1>6. CASE /\ i \in DOMAIN fs /\ hs[i] = fs[i]
           /\ j - Len(fs) \in DOMAIN gs /\ hs[j] = gs[j - Len(fs)]
  BY <1>6 DEF Apart, IdsIn
<1>7. CASE /\ j \in DOMAIN fs /\ hs[j] = fs[j]
           /\ i - Len(fs) \in DOMAIN gs /\ hs[i] = gs[i - Len(fs)]
  BY <1>7 DEF Apart, IdsIn
<1>8. QED
  BY <1>3, <1>4, <1>5, <1>6, <1>7

\* Taking the head leaves the other frames.
LEMMA DistinctTail ==
  ASSUME NEW fs \in Seq(Frames), fs # <<>>, Distinct(fs)
  PROVE  /\ IdsIn(fs) = {Head(fs).id} \cup IdsIn(Tail(fs))
         /\ Head(fs).id \notin IdsIn(Tail(fs))
         /\ Distinct(Tail(fs))
<1>1. /\ DOMAIN fs = 1 .. Len(fs) /\ Len(fs) \in Nat \ {0}
      /\ Head(fs) = fs[1] /\ Tail(fs) \in Seq(Frames)
      /\ DOMAIN Tail(fs) = 1 .. Len(fs) - 1
      /\ \A i \in 1 .. Len(fs) - 1 : Tail(fs)[i] = fs[i + 1]
  BY HeadTailProperties
<1>2. \A i \in DOMAIN Tail(fs) : i + 1 \in DOMAIN fs /\ 1 # i + 1
  BY <1>1
<1>3. \A i \in DOMAIN fs : i = 1 \/ (i - 1 \in DOMAIN Tail(fs) /\ (i - 1) + 1 = i)
  BY <1>1
<1>4. IdsIn(fs) \subseteq {Head(fs).id} \cup IdsIn(Tail(fs))
  <2> SUFFICES ASSUME NEW i \in DOMAIN fs, i # 1
               PROVE  fs[i].id \in IdsIn(Tail(fs))
    BY <1>1 DEF IdsIn
  <2>1. i - 1 \in DOMAIN Tail(fs) /\ Tail(fs)[i - 1] = fs[i]
    BY <1>1, <1>3
  <2>2. QED
    BY <2>1 DEF IdsIn
<1>5. 1 \in DOMAIN fs
  BY <1>1
<1>6. {Head(fs).id} \cup IdsIn(Tail(fs)) \subseteq IdsIn(fs)
  BY <1>1, <1>2, <1>5 DEF IdsIn
<1>7. Head(fs).id \notin IdsIn(Tail(fs))
  BY <1>1, <1>2, <1>5 DEF IdsIn, Distinct
<1>8. Distinct(Tail(fs))
  <2> SUFFICES ASSUME NEW i \in DOMAIN Tail(fs), NEW j \in DOMAIN Tail(fs),
                      Tail(fs)[i].id = Tail(fs)[j].id
               PROVE  i = j
    BY DEF Distinct
  <2>1. i + 1 = j + 1
    BY <1>1, <1>2 DEF Distinct
  <2>2. QED
    BY <1>1, <2>1
<1>9. QED
  BY <1>4, <1>6, <1>7, <1>8

\* The beginning of a sequence has some of its frames, each once.
LEMMA DistinctPrefix ==
  ASSUME NEW fs \in Seq(Frames), NEW n \in 0 .. Len(fs), Distinct(fs)
  PROVE  /\ SubSeq(fs, 1, n) \in Seq(Frames)
         /\ Distinct(SubSeq(fs, 1, n))
         /\ IdsIn(SubSeq(fs, 1, n)) \subseteq IdsIn(fs)
<1> DEFINE gs == SubSeq(fs, 1, n)
<1>1. /\ gs \in Seq(Frames) /\ DOMAIN gs = 1 .. n
      /\ \A i \in 1 .. n : gs[i] = fs[i] /\ i \in DOMAIN fs
  BY SubSeqProperties
<1> HIDE DEF gs
<1>2. QED
  BY SMTT(60), <1>1 DEF Distinct, IdsIn, gs

\* What follows the file does not move the frames found in it.
LEMMA EmbedsLonger ==
  ASSUME NEW s \in Seq(Frames), NEW f \in Seq(Frames), NEW g \in Seq(Frames),
         NEW at, Embeds(at, s, f)
  PROVE  Embeds(at, s, f \o g)
<1>1. \A i \in DOMAIN f : i \in DOMAIN (f \o g) /\ (f \o g)[i] = f[i]
  BY ConcatProperties
<1>2. QED
  BY <1>1 DEF Embeds

\* Frames added to both are found where they were added.
LEMMA EmbedsBoth ==
  ASSUME NEW s \in Seq(Frames), NEW f \in Seq(Frames), NEW g \in Seq(Frames),
         NEW at, Embeds(at, s, f)
  PROVE  \E to : Embeds(to, s \o g, f \o g)
<1> DEFINE n  == Len(s)
           m  == Len(f)
           k  == Len(g)
           sg == s \o g
           fg == f \o g
           to == [i \in DOMAIN sg |-> IF i <= n THEN at[i] ELSE m + (i - n)]
<1>1. /\ n \in Nat /\ m \in Nat /\ k \in Nat
      /\ DOMAIN s = 1 .. n /\ DOMAIN f = 1 .. m /\ DOMAIN g = 1 .. k
  OBVIOUS
<1>2. /\ DOMAIN sg = 1 .. n + k /\ DOMAIN fg = 1 .. m + k
      /\ \A i \in 1 .. n + k : sg[i] = IF i <= n THEN s[i] ELSE g[i - n]
      /\ \A i \in 1 .. m + k : fg[i] = IF i <= m THEN f[i] ELSE g[i - m]
  BY ConcatProperties
<1>3. \A i \in 1 .. n : at[i] \in 1 .. m /\ f[at[i]] = s[i]
  BY <1>1 DEF Embeds
<1>4. \A i, j \in 1 .. n : i < j => at[i] < at[j]
  BY <1>1 DEF Embeds
<1> HIDE DEF n, m, k, sg, fg
<1>5. \A i \in 1 .. n + k : to[i] \in 1 .. m + k /\ fg[to[i]] = sg[i]
  <2> SUFFICES ASSUME NEW i \in 1 .. n + k
               PROVE  to[i] \in 1 .. m + k /\ fg[to[i]] = sg[i]
    OBVIOUS
  <2>1. CASE i <= n
    <3>1. to[i] = at[i] /\ at[i] \in 1 .. m /\ f[at[i]] = s[i]
      BY <1>1, <1>2, <1>3, <2>1
    <3>2. QED
      BY <1>1, <1>2, <2>1, <3>1
  <2>2. CASE ~(i <= n)
    <3>1. to[i] = m + (i - n) /\ i - n \in 1 .. k
      BY <1>1, <1>2, <2>2
    <3>2. to[i] \in 1 .. m + k /\ ~(to[i] <= m) /\ to[i] - m = i - n
      BY <1>1, <3>1
    <3>3. QED
      BY <1>1, <1>2, <2>2, <3>2
  <2>3. QED
    BY <2>1, <2>2
<1>6. \A i, j \in 1 .. n + k : i < j => to[i] < to[j]
  <2> SUFFICES ASSUME NEW i \in 1 .. n + k, NEW j \in 1 .. n + k, i < j
               PROVE  to[i] < to[j]
    OBVIOUS
  <2>1. CASE j <= n
    BY <1>1, <1>2, <1>4, <2>1
  <2>2. CASE i <= n /\ ~(j <= n)
    <3>1. to[i] \in 1 .. m /\ to[j] = m + (j - n) /\ j - n \in 1 .. k
      BY <1>1, <1>2, <1>3, <2>2
    <3>2. QED
      BY <1>1, <3>1
  <2>3. CASE ~(i <= n) /\ ~(j <= n)
    BY <1>1, <1>2, <2>3
  <2>4. QED
    BY <1>1, <2>1, <2>2, <2>3
<1>7. Embeds(to, sg, fg)
  BY <1>2, <1>5, <1>6 DEF Embeds
<1>8. QED
  BY <1>7 DEF sg, fg

\* No frame at all.
LEMMA DistinctNone == IdsIn(<<>>) = {} /\ Distinct(<<>>)
BY DEF IdsIn, Distinct

\* Throwing frames away, or leaving them, puts none in two places.
LEMMA PlacedFewer ==
  ASSUME OncePlaced, received' = received,
         file' \in {file, <<>>}, taken' \in {taken, <<>>}, frameQ' \in {frameQ, <<>>},
         \A s \in Sessions : reader'[s].held \in {reader[s].held, <<>>}
  PROVE  OncePlaced'
BY DistinctNone DEF OncePlaced, Apart

\* A received frame is a new one, and putting it in the queue leaves the hand
\* empty.
LEMMA PlacedReader ==
  ASSUME TypeOK, OncePlaced, NEW s \in Sessions, Reader(s)
  PROVE  OncePlaced'
<1>1. UNCHANGED <<file, taken>>
  BY DEF Reader, ReaderReturns, ReaderChecks, RecvNothing, RecvRaises,
         RecvFrame, ReaderPuts, readerOnly, recordVars
<1>2. reader \in [Sessions -> Readers] /\ received \in Nat
  BY DEF TypeOK
<1>3. \A r \in Sessions \ {s} : reader'[r] = reader[r]
  BY DEF Reader, ReaderReturns, ReaderChecks, RecvNothing, RecvRaises,
         RecvFrame, ReaderPuts, TypeOK
<1>4. CASE ReaderChecks(s) \/ RecvNothing(s) \/ RecvRaises(s)
  <2>1. UNCHANGED <<frameQ, received>>
    BY <1>4 DEF ReaderChecks, RecvNothing, RecvRaises
  <2>2. reader'[s].held = reader[s].held
    BY <1>2, <1>4 DEF ReaderChecks, RecvNothing, RecvRaises, Readers
  <2>3. QED
    BY <1>1, <1>3, <2>1, <2>2, PlacedFewer
<1>5. CASE RecvFrame(s)
  <2>1. UNCHANGED frameQ /\ received' = received + 1
    BY <1>5 DEF RecvFrame
  <2>2. PICK t \in Stamps(s) :
          reader' = [reader EXCEPT
            ![s].pc = "put", ![s].clock = t,
            ![s].held = << [id |-> received + 1, src |-> s, t |-> t] >>]
    BY <1>5 DEF RecvFrame
  <2>3. reader'[s].held = << [id |-> received + 1, src |-> s, t |-> t] >>
    BY <1>2, <2>2 DEF Readers
  <2>4. IdsIn(reader'[s].held) = {received + 1}
    BY <2>3, RisingOne
  <2>5. Distinct(reader'[s].held)
    BY <2>3 DEF Distinct
  <2>6. received + 1 \notin 1 .. received /\ 1 .. received \subseteq 1 .. received'
    BY <1>2, <2>1
  <2>7. received + 1 \in 1 .. received'
    BY <1>2, <2>1
  <2>8. QED
    BY <1>1, <1>3, <2>1, <2>4, <2>5, <2>6, <2>7 DEF OncePlaced, Apart
<1>6. CASE ReaderPuts(s)
  <2>1. reader'[s].held = <<>> /\ received' = received
    BY <1>2, <1>6 DEF ReaderPuts
  <2>2. CASE frameQ' = frameQ
    BY <1>1, <1>3, <2>1, <2>2, PlacedFewer
  <2>3. CASE frameQ' = frameQ \o reader[s].held
    <3>1. frameQ \in Seq(Frames) /\ reader[s].held \in Seq(Frames)
      BY DEF TypeOK, Readers
    <3>2. /\ IdsIn(frameQ') = IdsIn(frameQ) \cup IdsIn(reader[s].held)
          /\ Distinct(frameQ')
      BY <2>3, <3>1, RisingConcat, DistinctConcat DEF OncePlaced, Apart
    <3>3. QED
      BY ZenonT(90), <1>1, <1>3, <2>1, <3>2, DistinctNone DEF OncePlaced, Apart
  <2>4. QED
    BY <1>6, <2>2, <2>3 DEF ReaderPuts
<1>7. QED
  BY <1>4, <1>5, <1>6 DEF Reader, ReaderReturns

\* The batcher moves frames, and writes each one it drained at most once.
LEMMA RecordBatcher ==
  ASSUME TypeOK, RecordInv, BatcherWakes \/ BatcherRuns
  PROVE  RecordInv'
<1> USE DEF RecordInv
<1>1. UNCHANGED <<reader, received>>
  BY DEF BatcherWakes, BatcherRuns, BatcherTakes, BatcherIdles, BatcherEmits,
         BatcherDies
<1>2. /\ taken \in Seq(Frames) /\ frameQ \in Seq(Frames)
      /\ file \in Seq(Frames) /\ streamed \in Seq(Frames)
  BY DEF TypeOK
<1>3. PICK at : Embeds(at, streamed, file)
  OBVIOUS
<1>4. CASE BatcherWakes \/ BatcherIdles
  <2>1. UNCHANGED <<file, streamed, taken, frameQ>>
    BY <1>4 DEF BatcherWakes, BatcherIdles, recordVars
  <2>2. QED
    BY <1>1, <1>3, <2>1, PlacedFewer
<1>5. CASE BatcherTakes
  <2>1. /\ frameQ # <<>> /\ UNCHANGED <<file, streamed>>
        /\ taken' = Append(taken, Head(frameQ)) /\ frameQ' = Tail(frameQ)
    BY <1>5 DEF BatcherTakes, recordVars
  <2>2. Head(frameQ) \in Frames /\ <<Head(frameQ)>> \in Seq(Frames)
    BY <1>2, <2>1, HeadTailProperties
  <2>3. taken' = taken \o <<Head(frameQ)>>
    BY <1>2, <2>1, <2>2, AppendProperties
  <2>4. /\ IdsIn(frameQ) = {Head(frameQ).id} \cup IdsIn(frameQ')
        /\ Head(frameQ).id \notin IdsIn(frameQ')
        /\ Distinct(frameQ')
    BY <1>2, <2>1, DistinctTail DEF OncePlaced
  <2>5. /\ IdsIn(taken') = IdsIn(taken) \cup {Head(frameQ).id}
        /\ Distinct(taken')
    <3>1. IdsIn(<<Head(frameQ)>>) = {Head(frameQ).id} /\ Distinct(<<Head(frameQ)>>)
      BY RisingOne DEF Distinct
    <3>2. Apart(IdsIn(taken), IdsIn(<<Head(frameQ)>>))
      BY <2>4, <3>1 DEF OncePlaced, Apart
    <3>3. QED
      BY ZenonT(90), <1>2, <2>2, <2>3, <3>1, <3>2, RisingConcat, DistinctConcat DEF OncePlaced
  <2>6. OncePlaced'
    BY ZenonT(90), <1>1, <2>1, <2>4, <2>5 DEF OncePlaced, Apart
  <2>7. QED
    BY <1>3, <2>1, <2>6
<1>6. ASSUME NEW gs \in Seq(Frames), Distinct(gs), IdsIn(gs) \subseteq IdsIn(taken),
             file' = file \o gs, taken' = <<>>, frameQ' = frameQ
      PROVE  OncePlaced'
  <2>1. /\ IdsIn(file') = IdsIn(file) \cup IdsIn(gs)
        /\ Distinct(file')
    BY <1>2, <1>6, RisingConcat, DistinctConcat DEF OncePlaced, Apart
  <2>2. QED
    BY <1>1, <1>6, <2>1, DistinctNone DEF OncePlaced, Apart
<1>7. Distinct(taken)
  BY DEF OncePlaced
<1>8. CASE BatcherEmits
  <2>1. /\ taken' = <<>> /\ frameQ' = frameQ
        /\ file' = IF recording THEN file \o taken ELSE file
        /\ streamed' = IF recording THEN streamed \o taken ELSE streamed
    BY <1>8 DEF BatcherEmits, Broadcast, Written
  <2>2. CASE recording
    BY <1>2, <1>3, <1>6, <1>7, <2>1, <2>2, EmbedsBoth
  <2>3. CASE ~recording
    BY <1>1, <1>3, <2>1, <2>3, PlacedFewer
  <2>4. QED
    BY <2>2, <2>3
<1>9. CASE BatcherDies
  <2>1. taken' = <<>> /\ frameQ' = frameQ /\ streamed' = streamed
    BY <1>9 DEF BatcherDies
  <2>2. CASE file' = file
    BY <1>1, <1>3, <2>1, <2>2, PlacedFewer
  <2>3. CASE file' = file \o taken
    BY <1>2, <1>3, <1>6, <1>7, <2>1, <2>3, EmbedsLonger
  <2>4. ASSUME NEW n \in 0 .. Len(taken) - 1, file' = file \o SubSeq(taken, 1, n)
        PROVE  RecordInv'
    <3>1. n \in 0 .. Len(taken)
      BY <1>2
    <3>2. /\ SubSeq(taken, 1, n) \in Seq(Frames) /\ Distinct(SubSeq(taken, 1, n))
          /\ IdsIn(SubSeq(taken, 1, n)) \subseteq IdsIn(taken)
      BY <1>2, <1>7, <3>1, DistinctPrefix
    <3>3. Embeds(at, streamed', file')
      BY <1>2, <1>3, <2>1, <2>4, <3>2, EmbedsLonger
    <3>4. QED
      BY <1>6, <2>1, <2>4, <3>2, <3>3
  <2>5. QED
    BY <1>9, <2>2, <2>3, <2>4 DEF BatcherDies, Written
<1>10. QED
  BY <1>4, <1>5, <1>8, <1>9 DEF BatcherRuns

\* Whatever is broadcast while a recording runs is in its file, once and in
\* order, even when a write or the encoder raises in the middle of a batch;
\* this needs no punctual recv().
THEOREM RecordingComplete == Spec => []RecordedBeforeStreamed
<1>1. Init => RecordInv
  <2> SUFFICES ASSUME Init PROVE RecordInv
    OBVIOUS
  <2>1. OncePlaced
    BY DistinctNone DEF Init, OncePlaced, IdleReader, Apart
  <2>2. Embeds(<<>>, streamed, file)
    BY DEF Init, Embeds
  <2>3. QED
    BY <2>1, <2>2 DEF RecordInv
<1>2. TypeOK /\ RecordInv /\ [Next]_vars => RecordInv'
  <2> SUFFICES ASSUME TypeOK, RecordInv, [Next]_vars PROVE RecordInv'
    OBVIOUS
  <2> USE DEF RecordInv
  <2>1. CASE \/ \E c \in Clients : AddClient(c) \/ RemoveClient(c)
                                   \/ WriterGets(c) \/ WriterSends(c)
             \/ UNCHANGED vars
    <3>1. UNCHANGED <<reader, received, taken, frameQ, file, streamed>>
      BY <2>1 DEF AddClient, RemoveClient, WriterGets, WriterSends, clientOnly,
                  recordVars, vars
    <3>2. QED
      BY <3>1, PlacedFewer
  <2>2. CASE RecordStart \/ RecordStop
    <3>1. /\ UNCHANGED <<reader, received, taken, frameQ>>
          /\ file' = <<>> /\ streamed' = <<>>
      BY <2>2 DEF RecordStart, RecordStop, recordOnly
    <3>2. Embeds(<<>>, streamed', file')
      BY <3>1 DEF Embeds
    <3>3. QED
      BY <3>1, <3>2, PlacedFewer
  <2>3. CASE (\E o \in {"start", "stop"} : BeginStop(o)) \/ StopRuns
    <3>1. /\ UNCHANGED <<received, taken, file, streamed>>
          /\ frameQ' \in {frameQ, <<>>}
      BY <2>3 DEF BeginStop, StopRuns, OpenEnds, JoinReturns, DrainLeftover,
                  AfterDrain, OpenBus, OpenFails, recordVars
    <3>2. \A s \in Sessions : reader'[s].held \in {reader[s].held, <<>>}
      <4>1. CASE reader' = reader
        BY <4>1
      <4>2. ASSUME NEW r \in BOOLEAN, OpenBus(r), NEW s \in Sessions
            PROVE  reader'[s].held \in {reader[s].held, <<>>}
        BY <4>2 DEF OpenBus, IdleReader, TypeOK
      <4>3. QED
        BY <2>3, <4>1, <4>2 DEF BeginStop, StopRuns, OpenEnds, JoinReturns,
                                DrainLeftover, OpenFails
    <3>3. QED
      BY <3>1, <3>2, PlacedFewer
  <2>4. ASSUME NEW s \in Sessions, Reader(s) PROVE RecordInv'
    <3>1. UNCHANGED <<file, streamed>>
      BY <2>4 DEF Reader, ReaderReturns, ReaderChecks, RecvNothing, RecvRaises,
                  RecvFrame, ReaderPuts, readerOnly, recordVars
    <3>2. QED
      BY <2>4, <3>1, PlacedReader
  <2>5. QED
    BY <2>1, <2>2, <2>3, <2>4, RecordBatcher DEF Next
<1>3. RecordInv => RecordedBeforeStreamed
  <2> SUFFICES ASSUME OncePlaced, NEW at, Embeds(at, streamed, file)
               PROVE  RecordedBeforeStreamed
    BY DEF RecordInv
  <2>1. \A i \in DOMAIN streamed : \A k \in DOMAIN file :
          file[k] = streamed[i] => file[k].id = file[at[i]].id /\ at[i] \in DOMAIN file
    BY DEF Embeds
  <2>2. \A i \in DOMAIN streamed : \A k \in DOMAIN file :
          file[k] = streamed[i] <=> k = at[i]
    BY <2>1 DEF OncePlaced, Distinct, Embeds
  <2>3. QED
    BY <2>2 DEF RecordedBeforeStreamed, Embeds
<1>4. QED
  BY <1>1, <1>2, <1>3, TypeCorrect, PTL DEF Spec

-----------------------------------------------------------------------------
(* The drop counter.                                                       *)

Refused == UNION {{c} \X Lost(c) : c \in Clients}

DropsInv ==
  /\ \A c \in Clients : Len(Pipeline(c)) <= offered[c]
  /\ IsFiniteSet(Refused)
  /\ dropped = overflow + Cardinality(Refused)

\* A set with one more element for each of F has that many more.
LEMMA OneForEach ==
  ASSUME NEW S, IsFiniteSet(S), NEW F, IsFiniteSet(F), NEW f,
         \A x \in F : <<x, f[x]>> \notin S
  PROVE  /\ IsFiniteSet(S \cup {<<x, f[x]>> : x \in F})
         /\ Cardinality(S \cup {<<x, f[x]>> : x \in F})
              = Cardinality(S) + Cardinality(F)
<1> DEFINE N == {<<x, f[x]>> : x \in F}
           g == [x \in F |-> <<x, f[x]>>]
<1>1. g \in Bijection(F, N)
  BY DEF Bijection, Injection, IsInjective, Surjection
<1>2. IsFiniteSet(N) /\ Cardinality(N) = Cardinality(F)
  BY <1>1, FS_Bijection DEF ExistsBijection
<1>3. S \cap N = {}
  OBVIOUS
<1>4. Cardinality(S) \in Nat /\ Cardinality(N) \in Nat /\ Cardinality({}) = 0
  BY <1>2, FS_CardinalityType, FS_EmptySet
<1> HIDE DEF N
<1>5. /\ IsFiniteSet(S \cup N)
      /\ Cardinality(S \cup N)
           = Cardinality(S) + Cardinality(N) - Cardinality(S \cap N)
  BY <1>2, FS_Union
<1>6. QED
  <2>1. Cardinality(S \cap N) = 0
    BY <1>3, <1>4
  <2>2. Cardinality(S \cup N) = Cardinality(S) + Cardinality(F)
    BY <1>2, <1>4, <1>5, <2>1
  <2>3. QED
    BY <1>5, <2>2 DEF N

\* Offering a batch to everyone loses it for exactly the clients it counts.
LEMMA BroadcastCounts ==
  ASSUME TypeOK, DropsInv, BatcherEmits
  PROVE  DropsInv'
<1> USE DEF DropsInv
<1> DEFINE b    == [frames |-> taken, replay |-> replay]
           full == {c \in Subscribed : ~HasRoom(c)}
           n(c) == offered[c] - Len(Pipeline(c))
           next == [c \in Clients |-> n(c) + 1]
<1>1. b \in Batches /\ Broadcast(b) /\ UNCHANGED <<wire, out, overflow>>
  BY DEF BatcherEmits, TypeOK, Batches
<1> HIDE DEF b
<1>2. \A c \in Clients : /\ Pipeline(c) \in Seq(Batches) /\ Len(Pipeline(c)) \in Nat
                         /\ offered[c] \in Nat
  <2>1. \A c \in Clients : Pipeline(c) \in Seq(Batches)
    BY ConcatProperties DEF Pipeline, TypeOK
  <2>2. QED
    BY <2>1 DEF TypeOK
<1>3. ASSUME NEW c \in Clients
      PROVE  Pipeline(c)' = IF c \in Subscribed /\ HasRoom(c)
                            THEN Append(Pipeline(c), b) ELSE Pipeline(c)
  <2>1. /\ queue[c] \in Seq(Batches) /\ wire[c] \in Seq(Batches)
        /\ out[c] \in Seq(Batches) /\ out[c] \o wire[c] \in Seq(Batches)
    BY ConcatProperties DEF TypeOK
  <2>2. (out[c] \o wire[c]) \o Append(queue[c], b)
          = Append((out[c] \o wire[c]) \o queue[c], b)
    BY ZenonT(90), <1>1, <2>1, PipelineMoves
  <2>3. queue'[c] = IF c \in Subscribed /\ HasRoom(c)
                    THEN Append(queue[c], b) ELSE queue[c]
    BY <1>1 DEF Broadcast
  <2>4. QED
    BY <1>1, <2>2, <2>3 DEF Pipeline
<1>4. ASSUME NEW c \in Clients
      PROVE  Len(Pipeline(c)') = IF c \in Subscribed /\ HasRoom(c)
                                 THEN Len(Pipeline(c)) + 1 ELSE Len(Pipeline(c))
  BY <1>1, <1>2, <1>3, AppendProperties
<1>5. ASSUME NEW c \in Clients
      PROVE  offered'[c] = IF c \in Subscribed THEN offered[c] + 1 ELSE offered[c]
  BY <1>1 DEF Broadcast
<1>6. \A c \in Clients : /\ Len(Pipeline(c)') <= offered'[c]
                         /\ c \notin full => Lost(c)' = Lost(c)
                         /\ c \in full => Lost(c)' = Lost(c) \cup {n(c) + 1}
                         /\ n(c) + 1 \notin Lost(c)
  <2> SUFFICES ASSUME NEW c \in Clients
               PROVE  /\ Len(Pipeline(c)') <= offered'[c]
                      /\ c \notin full => Lost(c)' = Lost(c)
                      /\ c \in full => Lost(c)' = Lost(c) \cup {n(c) + 1}
                      /\ n(c) + 1 \notin Lost(c)
    OBVIOUS
  <2>1. /\ Len(Pipeline(c)) <= offered[c]
        /\ Len(Pipeline(c)) \in Nat /\ offered[c] \in Nat
    BY <1>2
  <2>2. CASE c \in full
    <3>1. /\ Len(Pipeline(c)') = Len(Pipeline(c)) /\ offered'[c] = offered[c] + 1
      BY <1>4, <1>5, <2>2
    <3>2. QED
      BY <2>1, <2>2, <3>1 DEF Lost
  <2>3. CASE c \notin full
    <3>1. \/ /\ Len(Pipeline(c)') = Len(Pipeline(c)) /\ offered'[c] = offered[c]
          \/ /\ Len(Pipeline(c)') = Len(Pipeline(c)) + 1 /\ offered'[c] = offered[c] + 1
      BY <1>4, <1>5, <2>3
    <3>2. QED
      BY <2>1, <2>3, <3>1 DEF Lost
  <2>4. QED
    BY <2>2, <2>3
<1>7. full \subseteq Clients /\ IsFiniteSet(full)
  BY EngineConstants, FS_Subset DEF Subscribed
<1>8. \A c \in full : next[c] = n(c) + 1
  BY <1>7
<1> HIDE DEF full, next, n
<1>9. Refused' = Refused \cup {<<c, next[c]>> : c \in full}
  <2>1. Refused' \subseteq Refused \cup {<<c, next[c]>> : c \in full}
    BY <1>6, <1>7, <1>8 DEF Refused
  <2>2. Refused \cup {<<c, next[c]>> : c \in full} \subseteq Refused'
    BY <1>6, <1>7, <1>8 DEF Refused
  <2>3. QED
    BY <2>1, <2>2
<1>10. \A c \in full : <<c, next[c]>> \notin Refused
  <2> SUFFICES ASSUME NEW c \in full, <<c, next[c]>> \in Refused PROVE FALSE
    OBVIOUS
  <2>1. n(c) + 1 \in Lost(c)
    BY <1>8 DEF Refused
  <2>2. QED
    BY <1>6, <1>7, <2>1
<1>11. /\ IsFiniteSet(Refused')
       /\ Cardinality(Refused') = Cardinality(Refused) + Cardinality(full)
  BY <1>7, <1>9, <1>10, OneForEach
<1>12. dropped' = dropped + Cardinality(full)
  BY <1>1 DEF Broadcast, Losses, full
<1>13. /\ Cardinality(full) \in Nat /\ Cardinality(Refused) \in Nat /\ overflow \in Nat
  BY <1>7, FS_CardinalityType DEF TypeOK
<1>14. QED
  <2>1. dropped' = overflow' + Cardinality(Refused')
    BY <1>1, <1>11, <1>12, <1>13
  <2>2. QED
    BY <1>6, <1>11, <2>1

\* The drop counter counts exactly the frames and the batches that were turned
\* away; this needs no punctual recv().
THEOREM DropsCounted == Spec => []DropsAccounted
<1>1. Init => DropsInv
  <2> SUFFICES ASSUME Init PROVE DropsInv
    OBVIOUS
  <2>1. \A c \in Clients : Len(Pipeline(c)) = 0 /\ offered[c] = 0
    BY DEF Init, Pipeline
  <2>2. Refused = {}
    BY <2>1 DEF Refused, Lost
  <2>3. QED
    BY <2>1, <2>2, FS_EmptySet DEF Init, DropsInv
<1>2. TypeOK /\ DropsInv /\ [Next]_vars => DropsInv'
  <2> SUFFICES ASSUME TypeOK, DropsInv, [Next]_vars PROVE DropsInv'
    OBVIOUS
  <2>1. ASSUME UNCHANGED offered, \A c \in Clients : Pipeline(c)' = Pipeline(c)
        PROVE  /\ \A c \in Clients : Len(Pipeline(c)') <= offered'[c]
               /\ Refused' = Refused
    BY <2>1 DEF Refused, Lost, DropsInv
  <2>2. CASE UNCHANGED <<clientVars, dropped, overflow>>
    BY <2>1, <2>2 DEF DropsInv, clientVars, Pipeline
  <2>3. ASSUME NEW s \in Sessions, ReaderPuts(s) PROVE DropsInv'
    <3>1. UNCHANGED clientVars
      BY <2>3 DEF ReaderPuts, readerOnly
    <3>2. Refused' = Refused /\ \A c \in Clients : Len(Pipeline(c)') <= offered'[c]
      BY <2>1, <3>1 DEF clientVars, Pipeline
    <3>3. \/ dropped' = dropped /\ overflow' = overflow
          \/ dropped' = dropped + 1 /\ overflow' = overflow + 1
      BY <2>3 DEF ReaderPuts
    <3>4. Cardinality(Refused) \in Nat /\ dropped \in Nat /\ overflow \in Nat
      BY FS_CardinalityType DEF DropsInv, TypeOK
    <3>5. dropped' = overflow' + Cardinality(Refused)
      BY <3>3, <3>4 DEF DropsInv
    <3>6. QED
      BY <3>2, <3>5 DEF DropsInv
  <2>4. ASSUME NEW c \in Clients,
               AddClient(c) \/ RemoveClient(c) \/ WriterGets(c) \/ WriterSends(c)
        PROVE  DropsInv'
    <3>1. \A d \in Clients : Pipeline(d)' = Pipeline(d)
      BY <2>4, PipelineKept
    <3>2. UNCHANGED <<offered, dropped, overflow>>
      BY <2>4 DEF AddClient, RemoveClient, WriterGets, WriterSends, clientOnly
    <3>3. QED
      BY <2>1, <3>1, <3>2 DEF DropsInv
  <2>5. \/ UNCHANGED <<clientVars, dropped, overflow>>
        \/ BatcherEmits
        \/ \E s \in Sessions : ReaderPuts(s)
        \/ \E d \in Clients :
             AddClient(d) \/ RemoveClient(d) \/ WriterGets(d) \/ WriterSends(d)
    BY DEF Next, BeginStop, StopRuns, OpenEnds, OpenBus, JoinReturns,
           DrainLeftover, OpenFails, Reader, ReaderReturns, ReaderChecks,
           RecvNothing, RecvRaises, RecvFrame, readerOnly, BatcherWakes,
           BatcherRuns, BatcherTakes, BatcherIdles, BatcherDies, RecordStart,
           RecordStop, recordOnly, vars
  <2>6. QED
    BY <2>2, <2>3, <2>4, <2>5, BroadcastCounts
<1>3. DropsInv => DropsAccounted
  BY DEF DropsInv, DropsAccounted, Refused
<1>4. QED
  BY <1>1, <1>2, <1>3, TypeCorrect, PTL DEF Spec
=============================================================================
