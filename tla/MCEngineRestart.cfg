SPECIFICATION Spec
CONSTANTS
  Clients = {c1}
  Prompt = {}
  FrameQueueMax = 2
  ClientQueueMax = 1
  BatchMax = 2
  PunctualRecv = TRUE
  Rewinds = FALSE
  DiskFills = TRUE
  MaxFrames = 3
  MaxSessions = 2
  MaxRecordings = 1
INVARIANTS
  SessionIsolation
  ReplayFlagTruthful
  RecordedBeforeStreamed
PROPERTIES
  ImplementsLossyStream
