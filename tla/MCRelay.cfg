SPECIFICATION RelayFairSpec
CONSTANTS
  Repetitions = 2
  SilenceGuard = 2
  LateVerdicts = TRUE
  MaxLedger = 2
  MaxSeries = 2
  MaxInFlight = 1
  MaxTaps = 1
  MaxOutages = 1
INVARIANTS
  NoStaleTimer
  CountsAgree
  ReasonHonest
  ConfirmedAreMarked
  ViewerTruthful
PROPERTIES
  EachCueBeepsOnce
  StopEndsSeries
  UnattendedEnds
CHECK_DEADLOCK FALSE
