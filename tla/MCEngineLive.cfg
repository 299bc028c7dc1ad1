SPECIFICATION FairSpec
CONSTANTS
  Clients = {c1, c2}
  Prompt = {c1}
  FrameQueueMax = 1
  ClientQueueMax = 1
  BatchMax = 3
  PunctualRecv = FALSE
  Rewinds = FALSE
  DiskFills = FALSE
  MaxFrames = 2
  MaxSessions = 1
  MaxRecordings = 0
INVARIANTS
  DropsAccounted
PROPERTIES
  StopReturns
  PromptClientServed
