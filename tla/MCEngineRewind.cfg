SPECIFICATION Spec
CONSTANTS
  Clients = {c1}
  Prompt = {}
  FrameQueueMax = 2
  ClientQueueMax = 1
  BatchMax = 3
  PunctualRecv = TRUE
  Rewinds = TRUE
  DiskFills = FALSE
  MaxFrames = 3
  MaxSessions = 1
  MaxRecordings = 0
INVARIANTS
  FirstFrameIsEarliest
