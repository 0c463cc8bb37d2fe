SPECIFICATION Spec
CONSTANTS
  owner = owner
  n1 = n1
  n2 = n2
  d1 = d1
  d2 = d2
  g1 = g1
  t1 = t1
  t2 = t2
  t3 = t3
  None = None
  Owner = owner
  Nodes = {owner, n1, n2}
  Devices = {d1}
  NetDevs = {d1}
  Groups = {}
  InitMembers <- NoGroups
  Unpluggable = {d1}
  OwnerEdits = {}
  Asking = TRUE
  DriverFails = TRUE
  Tasks = {t1, t2, t3}
SYMMETRY Symmetry
INVARIANTS
  WholeOrBridge
PROPERTIES
  ImplementsLease
  PromiseKept
