SPECIFICATION MCSpec
CONSTANTS
  a = a
  b = b
  p1 = p1
  p2 = p2
  p3 = p3
  other = other
  Frames <- Steady
  NoFrame = none
  NoDef = undefined
  Open = open
  Null = null
  Keys <- MCKeys
  Fields <- MCFields
  Whole <- MCWhole
  Forced <- MCForced
  MaxMessages = 2
  Cap = 2
  MaxPushed = 3
  MaxGen = 1
  Rewinds = FALSE
  NibBits = 2
  MaxDlc = 5
  StdMax = 15
  IdMod = 64
  CountMod = 16
  DtMod = 64
  Version = 1
  Refused = refused
  Broadcast = 12
  Requests = {13}
  Responses = {14, 15}
  Negative = 7
  Answer = 4
  OnePid = {1}
  TwoByteDid = {2}
  None = none
  Buses <- MCBuses
  DiagId = 14
  InspectorWindow = 9
  Watches <- MCWatches
  NoKey = nokey
  NoValue = novalue
  GaugeCap = 2
  ReplayAt = 50
  MaxBatch = 2
  MaxEvents = 2
INVARIANTS
  RowsAreExact
  ShownIsSent
  RoadsAgree
PROPERTIES
  ImplementsBoundedLog
SYMMETRY Alike
CHECK_DEADLOCK FALSE
