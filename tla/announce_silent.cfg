SPECIFICATION Spec
CONSTANTS
  Circles = {c1}
  Contents = {0, 1}
  Gap = 1
  Base = 6
  Idle = 24
  Spread = 15
  Patience = 24
  Slack = 4
  MaxMisses = 1
  MaxSwitches = 1
  None = None
CHECK_DEADLOCK FALSE
INVARIANT TicksOn
