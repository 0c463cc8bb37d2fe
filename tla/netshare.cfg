SPECIFICATION FairSpec
CONSTANTS
  c1 = c1 c2 = c2 own = own h1 = h1 h2 = h2
  Cards = {c1, c2}
  Holders = {own, h1, h2}
  Owner = own
  Tap = Tap
  Uplink = Uplink
  Overlap = FALSE
  MaxCalls = 2
  MaxOps = 2
  MaxFailures = 1
  MaxStops = 1
  SwitchOp = SwitchOp
  None = None
CHECK_DEADLOCK FALSE
INVARIANTS
  BridgeIsRecorded
  NetworksApart
  LentCardIsBridged
PROPERTIES
  CardsComeBack
