SPECIFICATION FairSpec
CONSTANTS
  owner = owner
  n1 = n1
  n2 = n2
  d1 = d1
  d2 = d2
  g1 = g1
  t1 = t1
  t2 = t2
  t3 = t3
  None = None
  Owner = owner
  Nodes = {owner, n1}
  Devices = {d1}
  NetDevs = {}
  Groups = {g1}
  InitMembers <- EmptyGroup
  Unpluggable = {}
  OwnerEdits = {"share", "publish", "group"}
  Asking = FALSE
  DriverFails = FALSE
  Tasks = {t1, t2}
PROPERTIES
  
  PreparingEnds
