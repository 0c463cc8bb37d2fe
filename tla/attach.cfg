SPECIFICATION FairSpec
CONSTANTS
  None = None
  Nodes = {a}
  MaxRecords = 2
  MaxTasks = 2
  Faults = {"lost", "crash", "usbip", "bind", "unbind", "cut", "refresh"}
  MaxFaults = 1
  MaxLate = 0
  MaxUnbinds = 1
  MaxFails = 2
PROPERTIES
  StaleAttachmentEnds
  SurvivorIsAdopted
