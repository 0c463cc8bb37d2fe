SPECIFICATION FairSpec
CONSTANTS
  Versions = {1, 2, 3}
  First = 1
  MaxAttempts = 2
  CrashLimit = 3
  Mishaps = {"power", "damage", "stop", "installer"}
  MaxMishaps = 3
  UserActs = {"rollback", "retry"}
  None = None
INVARIANTS
  OnlyProvenWithoutTrial
  
  NoReturnOverNetwork
  
PROPERTIES
  TrialEnds
