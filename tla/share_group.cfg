SPECIFICATION Spec
CONSTANTS
  owner = owner
  n1 = n1
  n2 = n2
  d1 = d1
  d2 = d2
  g1 = g1
  t1 = t1
  t2 = t2
  t3 = t3
  None = None
  Owner = owner
  Nodes = {owner, n1, n2}
  Devices = {d1, d2}
  NetDevs = {}
  Groups = {g1}
  InitMembers <- Pair
  Unpluggable = {}
  OwnerEdits = {}
  Asking = FALSE
  DriverFails = TRUE
  Tasks = {t1, t2}
SYMMETRY Symmetry
INVARIANTS
  PreparingIsALock
  NoRivalOfAClaim
  BoundIsReal
PROPERTIES
  HandsOverThroughFree
