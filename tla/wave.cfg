SPECIFICATION Spec
CONSTANTS
  n1 = n1 n2 = n2 n3 = n3
  Nodes <- ThreeNodes
  Order <- Place3
  MaxVersion = 2
  CanaryTime = 3
  StepTime = 1
  TrialTime = 1
  Timeout = 1
  Slots = 1
  MaxTests = 1
  MaxActs = 1
  MaxMishaps = 1
  None = None
INVARIANTS
  FaultyStaysWithItsTester
  
PROPERTIES
  HeedsReports
