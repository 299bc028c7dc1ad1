SPECIFICATION FairSpec
CONSTANTS
  MaxClients = 3
  MaxBackoff = 2
  PhoneBackoff = 2
INVARIANTS
  OneStream
  NoRivalTimer
PROPERTIES
  CockpitReconnects
  PhoneRecovers
CHECK_DEADLOCK FALSE
