SPECIFICATION FairSpec
CONSTANTS
  n1 = n1 n2 = n2 n3 = n3
  Nodes <- TwoNodes
  Order <- Place2
  MaxVersion = 3
  CanaryTime = 3
  StepTime = 1
  TrialTime = 1
  Timeout = 1
  Slots = 1
  MaxTests = 2
  MaxActs = 0
  MaxMishaps = 1
  None = None
PROPERTIES
  GoodVersionSpreads
