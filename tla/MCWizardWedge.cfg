SPECIFICATION RelaySpec
CONSTANTS
  Repetitions = 2
  SilenceGuard = 2
  LateVerdicts = TRUE
  MaxLedger = 2
  MaxSeries = 1
  MaxInFlight = 1
  MaxTaps = 1
  MaxOutages = 0
INVARIANTS
  ClockIsLive
CHECK_DEADLOCK FALSE
