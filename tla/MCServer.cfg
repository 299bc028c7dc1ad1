SPECIFICATION FairSpec
CONSTANTS
  c1 = c1
  c2 = c2
  c3 = c3
  Clients = {c1, c2, c3}
  Prompt = {c1}
  Ticker = ticker
  Null = null
  SocketCap = 1
  InboxCap = 1
  Workloads <- MCWorkloads
INVARIANTS
  RelayGapless
PROPERTIES
  StatusConverges
  HandlersReturn
CHECK_DEADLOCK FALSE
