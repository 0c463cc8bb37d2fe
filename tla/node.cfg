SPECIFICATION FairSpec
CONSTANTS
  AnnCircles = {c1}
  AnnContents = {0, 1}
  AnnGap = 1
  AnnBase = 4
  AnnIdle = 16
  AnnSpread = 15
  AnnPatience = 16
  AnnSlack = 2
  AnnMaxMisses = 1
  AnnMaxSwitches = 1
  LegNets = {n1, n2}
  LegTransports = {{"multicast", "broadcast"}, {"multicast"}}
  LegMaxJobs = 2
  LegMaxFaults = 1
  LegMaxChanges = 1
  TunKeys = {k1, k2, k3}
  TunMaxTunnels = 2
  TunIdle = 4
  TunGrace = 2
  MetHolders = {h1, h2}
  MetConns = {t1, t2}
  InsRuntime = "nodejs"
  InsServer = "usbipd"
  InsClient = "usbip"
  InsMaxRounds = 2
  InsMaxFaults = 2
  DrvRequests = {r1, r2}
  DrvInfs = {i1, i2, i3}
  DrvBound = {i1}
  DrvNewest = i2
  DrvMaxPackages = 2
  DrvTtl = 1
  DrvMaxAge = 2
  NetGuids = {o1, f1}
  NetForeign = {f1}
  NetSwitches = {s1, s2}
  NetMaxOps = 3
  NetMaxFaults = 2
  NetMaxStarts = 1
  NetMaxFalls = 1
  SwiPorts = {p1, p2}
  SwiStations = {a1, a2, a3}
  SwiAgeLimit = 1
  SwiMaxMacs = 2
  SplConns = {t1, t2}
  SplHigh = 2
  ScnFresh = 1
  ScnFull = 2
  ScnMaxChanges = 2
  ScnMaxFaults = 1
  ReqIds = {1, 2}
  ReqTtl = 1
  ReqKeep = 3
  ReqTries = 2
  CfgKeys = {k1}
  CfgMaxStarts = 3
  CfgMaxSets = 2
  CfgMaxFaults = 1
  CirKeys = {c1}
  CirIds = {i1}
  CirLimit = 3
  CirMaxMisses = 1
  CirMaxChanges = 2
  Loose = Loose
  Torn = Torn
  None = None
INVARIANTS
  NothingLeftBehind
  WordIsKept
  FramesArrive
PROPERTIES
  SettlesDown
  MendsItself
  LostIsReleased
  ReleasedIsFree
  
  NewsArrives
CHECK_DEADLOCK FALSE
