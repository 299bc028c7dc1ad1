SPECIFICATION Spec
CONSTANTS
  long = long
  short = short
  Scenarios = {long, short}
  Phases <- MCPhases
  None = none
  LeadIn = 2
  MaxRuns = 2
  MaxAsked = 2
  MaxLate = 1
  MaxWait = 2
INVARIANTS
  WindowsTile
  AnalysisIsItsOwn
  MelodyTellsPhase
PROPERTIES
  RunMovesOn
CHECK_DEADLOCK FALSE
