CONSTANTS
  Keys <- MCKeys
  Muxes = {m1}
  Texts = {"a"}
  Null = none
  m1 = m1
  none = none
  Windows = {1, 2}
  Loads <- MCLoads
  Pasted <- MCPasted
  Desks <- MCDesks
  MaxEdits <- MCEdits
  MaxBatches <- MCBatches
  MaxSessions <- MCSessions
  MaxBehind <- MCBehind
  Visited <- MCVisited
  Bytes = {0, 1}
  MaxMarks = 1
  MaxAsked = 2
  MaxTurns <- MCTurns
  StepKinds = {"stimulus", "observe"}
  SpanTypes = {"level"}
SPECIFICATION Spec
INVARIANTS InStep ProjectSound LinkRestores AnswersSettle SpansFitLabels
