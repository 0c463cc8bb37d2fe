SPECIFICATION FairSpec
CONSTANTS
  c1 = c1 c2 = c2
  Cards = {c1, c2}
  MaxTaps = 2
  MaxAttaches = 2
  MaxFailures = 1
  MaxStops = 1
  Attempts = 2
  MaxFalls = 1
  Overlap = FALSE
  Devcon = FALSE
  None = None
CHECK_DEADLOCK FALSE
INVARIANTS
  TapHasOneUser
  PathIsWhole
  AdapterHasAttachment
PROPERTIES
  PathHeals
  LeavesNothing
