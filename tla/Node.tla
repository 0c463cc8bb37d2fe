-------------------------------- MODULE Node --------------------------------
(***************************************************************************)
(* The parts of a node that share no state with each other, checked in one *)
(* run: a behaviour follows one of them (focus), the others rest in an     *)
(* initial state.  Nothing is lost by that, since no step of one reads or  *)
(* writes what belongs to another.                                         *)
(***************************************************************************)
EXTENDS Naturals

CONSTANTS
  AnnCircles, AnnContents, AnnGap, AnnBase, AnnIdle, AnnSpread, AnnPatience, AnnSlack,
  AnnMaxMisses, AnnMaxSwitches,
  LegNets, LegTransports, LegMaxJobs, LegMaxFaults, LegMaxChanges,
  TunKeys, TunMaxTunnels, TunIdle, TunGrace,
  MetHolders, MetConns,
  InsRuntime, InsServer, InsClient, InsMaxRounds, InsMaxFaults,
  DrvRequests, DrvInfs, DrvBound, DrvNewest, DrvMaxPackages, DrvTtl, DrvMaxAge,
  NetGuids, NetForeign, NetSwitches, NetMaxOps, NetMaxFaults, NetMaxStarts, NetMaxFalls,
  SwiPorts, SwiStations, SwiAgeLimit, SwiMaxMacs,
  SplConns, SplHigh,
  ScnFresh, ScnFull, ScnMaxChanges, ScnMaxFaults,
  ReqIds, ReqTtl, ReqKeep, ReqTries,
  CfgKeys, CfgMaxStarts, CfgMaxSets, CfgMaxFaults,
  CirKeys, CirIds, CirLimit, CirMaxMisses, CirMaxChanges,
  Loose, Torn, None

VARIABLES focus,
  annPhase, annContent, annTold, annSince, annInterval, annTimer, annReply, annCircles,
  annListed, annMisses, annBehind, annFellSilent, annSwitches,
  legUp, legWanted, legNets, legReceiver, legJoined, legForgotten, legLegs, legSenders,
  legTransport, legJobs, legResting, legStopped, legFaults, legChanges,
  tunTunnels, tunOpening, tunListening, tunUsed, tunTold,
  metHolder, metReturning, metCounter, metFrom, metState, metDropped, metWaiting,
  metUnheard, metLate,
  insDisk, insInfo, insCatalog, insState, insStage, insLeft, insWork, insChecked, insRounds,
  insFaults,
  drvHolds, drvPhase, drvTodo, drvGot, drvOutFolder, drvInFolder, drvSession, drvInstalling,
  drvAdded,
  netAdapters, netTaken, netOpened, netSwitches, netTaps, netHolder, netStrays, netOp,
  netOps, netFaults, netStarts,
  swiAttached, swiMacs, swiFull, swiPlace, swiHeard, swiLast,
  splChild, splEmits, splTail, splStalled, splStdin, splSink, splSocket, splConn, splGarbled,
  scnWorld, scnOn, scnFresh, scnDue, scnChecked, scnSig, scnWant, scnList, scnJob,
  scnChanges, scnFaults,
  reqHolds, reqAttached, reqTable, reqSeen, reqCalls, reqBeaten, reqFails,
  cfgFile, cfgTmp, cfgCopies, cfgData, cfgOverride, cfgPhase, cfgLoading, cfgBefore,
  cfgKnown, cfgLegacy, cfgMishap, cfgStarts, cfgSets, cfgFaults,
  cirNets, cirSee, cirTheir, cirSettling, cirLeaving, cirDue, cirMisses, cirListed,
  cirRealm, cirSeen, cirChanges

annVars == <<annPhase, annContent, annTold, annSince, annInterval, annTimer, annReply,
  annCircles, annListed, annMisses, annBehind, annFellSilent, annSwitches>>
legVars == <<legUp, legWanted, legNets, legReceiver, legJoined, legForgotten, legLegs,
  legSenders, legTransport, legJobs, legResting, legStopped, legFaults, legChanges>>
tunVars == <<tunTunnels, tunOpening, tunListening, tunUsed, tunTold>>
metVars == <<metHolder, metReturning, metCounter, metFrom, metState, metDropped, metWaiting,
  metUnheard, metLate>>
insVars == <<insDisk, insInfo, insCatalog, insState, insStage, insLeft, insWork, insChecked,
  insRounds, insFaults>>
drvVars == <<drvHolds, drvPhase, drvTodo, drvGot, drvOutFolder, drvInFolder, drvSession,
  drvInstalling, drvAdded>>
netVars == <<netAdapters, netTaken, netOpened, netSwitches, netTaps, netHolder, netStrays,
  netOp, netOps, netFaults, netStarts>>
swiVars == <<swiAttached, swiMacs, swiFull, swiPlace, swiHeard, swiLast>>
splVars == <<splChild, splEmits, splTail, splStalled, splStdin, splSink, splSocket, splConn,
  splGarbled>>
scnVars == <<scnWorld, scnOn, scnFresh, scnDue, scnChecked, scnSig, scnWant, scnList,
  scnJob, scnChanges, scnFaults>>
reqVars == <<reqHolds, reqAttached, reqTable, reqSeen, reqCalls, reqBeaten, reqFails>>
cfgVars == <<cfgFile, cfgTmp, cfgCopies, cfgData, cfgOverride, cfgPhase, cfgLoading,
  cfgBefore, cfgKnown, cfgLegacy, cfgMishap, cfgStarts, cfgSets, cfgFaults>>
cirVars == <<cirNets, cirSee, cirTheir, cirSettling, cirLeaving, cirDue, cirMisses,
  cirListed, cirRealm, cirSeen, cirChanges>>
allVars == <<focus, annVars, legVars, tunVars, metVars, insVars, drvVars, netVars, swiVars, splVars, scnVars, reqVars, cfgVars, cirVars>>

Announce == INSTANCE Announce WITH
  Circles <- AnnCircles, Contents <- AnnContents, Gap <- AnnGap, Base <- AnnBase,
  Idle <- AnnIdle, Spread <- AnnSpread, Patience <- AnnPatience, Slack <- AnnSlack,
  MaxMisses <- AnnMaxMisses, MaxSwitches <- AnnMaxSwitches, phase <- annPhase,
  content <- annContent, told <- annTold, since <- annSince, interval <- annInterval,
  timer <- annTimer, reply <- annReply, circles <- annCircles, listed <- annListed,
  misses <- annMisses, behind <- annBehind, fellSilent <- annFellSilent, switches <- annSwitches

Legs == INSTANCE Legs WITH
  Nets <- LegNets, Transports <- LegTransports, MaxJobs <- LegMaxJobs, MaxFaults <- LegMaxFaults,
  MaxChanges <- LegMaxChanges, up <- legUp, wanted <- legWanted, nets <- legNets,
  receiver <- legReceiver, joined <- legJoined, forgotten <- legForgotten, legs <- legLegs,
  senders <- legSenders, transport <- legTransport, jobs <- legJobs, resting <- legResting,
  stopped <- legStopped, faults <- legFaults, changes <- legChanges

Tunnels == INSTANCE Tunnels WITH
  Keys <- TunKeys, MaxTunnels <- TunMaxTunnels, Idle <- TunIdle, Grace <- TunGrace,
  tunnels <- tunTunnels, opening <- tunOpening, listening <- tunListening, used <- tunUsed,
  told <- tunTold

Meter == INSTANCE Meter WITH
  Holders <- MetHolders, Conns <- MetConns, holder <- metHolder, returning <- metReturning,
  counter <- metCounter, from <- metFrom, state <- metState, dropped <- metDropped,
  waiting <- metWaiting, unheard <- metUnheard, late <- metLate

Installer == INSTANCE Installer WITH
  Runtime <- InsRuntime, Server <- InsServer, Client <- InsClient, MaxRounds <- InsMaxRounds,
  MaxFaults <- InsMaxFaults, disk <- insDisk, info <- insInfo, catalog <- insCatalog,
  state <- insState, stage <- insStage, left <- insLeft, work <- insWork, checked <- insChecked,
  rounds <- insRounds, faults <- insFaults

DriverShare == INSTANCE DriverShare WITH
  Requests <- DrvRequests, Infs <- DrvInfs, Bound <- DrvBound, Newest <- DrvNewest,
  MaxPackages <- DrvMaxPackages, Ttl <- DrvTtl, MaxAge <- DrvMaxAge, holds <- drvHolds,
  phase <- drvPhase, todo <- drvTodo, got <- drvGot, outFolder <- drvOutFolder,
  inFolder <- drvInFolder, session <- drvSession, installing <- drvInstalling, added <- drvAdded

Networks == INSTANCE Networks WITH
  Guids <- NetGuids, Foreign <- NetForeign, Switches <- NetSwitches, MaxOps <- NetMaxOps,
  MaxFaults <- NetMaxFaults, MaxStarts <- NetMaxStarts, MaxFalls <- NetMaxFalls,
  adapters <- netAdapters, taken <- netTaken, opened <- netOpened, switches <- netSwitches,
  taps <- netTaps, holder <- netHolder, strays <- netStrays, op <- netOp, ops <- netOps,
  faults <- netFaults, starts <- netStarts

Switch == INSTANCE Switch WITH
  Ports <- SwiPorts, Stations <- SwiStations, AgeLimit <- SwiAgeLimit, MaxMacs <- SwiMaxMacs,
  attached <- swiAttached, macs <- swiMacs, full <- swiFull, place <- swiPlace,
  heard <- swiHeard, last <- swiLast

Splice == INSTANCE Splice WITH
  Conns <- SplConns, High <- SplHigh, child <- splChild, emits <- splEmits, tail <- splTail,
  stalled <- splStalled, stdin <- splStdin, sink <- splSink, socket <- splSocket,
  conn <- splConn, garbled <- splGarbled

SlowScan == INSTANCE SlowScan WITH
  Fresh <- ScnFresh, Full <- ScnFull, MaxChanges <- ScnMaxChanges, MaxFaults <- ScnMaxFaults,
  world <- scnWorld, on <- scnOn, fresh <- scnFresh, due <- scnDue, checked <- scnChecked,
  sig <- scnSig, want <- scnWant, list <- scnList, job <- scnJob, changes <- scnChanges,
  faults <- scnFaults

Requests == INSTANCE Requests WITH
  Ids <- ReqIds, Ttl <- ReqTtl, Keep <- ReqKeep, Tries <- ReqTries, holds <- reqHolds,
  attached <- reqAttached, table <- reqTable, seen <- reqSeen, calls <- reqCalls,
  beaten <- reqBeaten, fails <- reqFails

ConfigFile == INSTANCE ConfigFile WITH
  Keys <- CfgKeys, MaxStarts <- CfgMaxStarts, MaxSets <- CfgMaxSets, MaxFaults <- CfgMaxFaults,
  file <- cfgFile, tmp <- cfgTmp, copies <- cfgCopies, data <- cfgData, override <- cfgOverride,
  phase <- cfgPhase, loading <- cfgLoading, before <- cfgBefore, known <- cfgKnown,
  legacy <- cfgLegacy, mishap <- cfgMishap, starts <- cfgStarts, sets <- cfgSets,
  faults <- cfgFaults

Circles == INSTANCE Circles WITH
  Keys <- CirKeys, Ids <- CirIds, Limit <- CirLimit, MaxMisses <- CirMaxMisses,
  MaxChanges <- CirMaxChanges, nets <- cirNets, see <- cirSee, their <- cirTheir,
  settling <- cirSettling, leaving <- cirLeaving, due <- cirDue, misses <- cirMisses,
  listed <- cirListed, realm <- cirRealm, seen <- cirSeen, changes <- cirChanges

ASSUME ConstantsOK ==
  /\ Announce!ConstantsOK
  /\ Legs!ConstantsOK
  /\ Tunnels!ConstantsOK
  /\ Meter!ConstantsOK
  /\ Installer!ConstantsOK
  /\ DriverShare!ConstantsOK
  /\ Networks!ConstantsOK
  /\ Switch!ConstantsOK
  /\ Splice!ConstantsOK
  /\ SlowScan!ConstantsOK
  /\ Requests!ConstantsOK
  /\ ConfigFile!ConstantsOK
  /\ Circles!ConstantsOK

Resting(part) == focus # part
Some(S) == CHOOSE x \in S : TRUE

Init ==
  /\ focus \in {"Announce", "Legs", "Tunnels", "Meter", "Installer", "DriverShare", "Networks", "Switch", "Splice", "SlowScan", "Requests", "ConfigFile", "Circles"}
  /\ Announce!Init /\ (Resting("Announce") => annContent = Some(AnnContents) /\ annCircles = {})
  /\ Legs!Init /\ (Resting("Legs") => legUp = LegNets /\ legTransport = Some(LegTransports))
  /\ Tunnels!Init
  /\ Meter!Init
  /\ Installer!Init /\ (Resting("Installer") => insDisk = {} /\ insCatalog = {})
  /\ DriverShare!Init
  /\ Networks!Init
  /\ Switch!Init /\ (Resting("Switch") => swiPlace = [s \in SwiStations |-> Some(SwiPorts)])
  /\ Splice!Init
  /\ SlowScan!Init
  /\ Requests!Init
  /\ ConfigFile!Init /\ (Resting("ConfigFile") => cfgFile = None)
  /\ Circles!Init /\ (Resting("Circles") => cirTheir.show)

\* One part moves.
InAnnounce == focus = "Announce" /\ UNCHANGED <<focus, legVars, tunVars, metVars, insVars,
  drvVars, netVars, swiVars, splVars, scnVars, reqVars, cfgVars, cirVars>>
InLegs == focus = "Legs" /\ UNCHANGED <<focus, annVars, tunVars, metVars, insVars, drvVars,
  netVars, swiVars, splVars, scnVars, reqVars, cfgVars, cirVars>>
InTunnels == focus = "Tunnels" /\ UNCHANGED <<focus, annVars, legVars, metVars, insVars,
  drvVars, netVars, swiVars, splVars, scnVars, reqVars, cfgVars, cirVars>>
InMeter == focus = "Meter" /\ UNCHANGED <<focus, annVars, legVars, tunVars, insVars,
  drvVars, netVars, swiVars, splVars, scnVars, reqVars, cfgVars, cirVars>>
InInstaller == focus = "Installer" /\ UNCHANGED <<focus, annVars, legVars, tunVars, metVars,
  drvVars, netVars, swiVars, splVars, scnVars, reqVars, cfgVars, cirVars>>
InDriverShare == focus = "DriverShare" /\ UNCHANGED <<focus, annVars, legVars, tunVars,
  metVars, insVars, netVars, swiVars, splVars, scnVars, reqVars, cfgVars, cirVars>>
InNetworks == focus = "Networks" /\ UNCHANGED <<focus, annVars, legVars, tunVars, metVars,
  insVars, drvVars, swiVars, splVars, scnVars, reqVars, cfgVars, cirVars>>
InSwitch == focus = "Switch" /\ UNCHANGED <<focus, annVars, legVars, tunVars, metVars,
  insVars, drvVars, netVars, splVars, scnVars, reqVars, cfgVars, cirVars>>
InSplice == focus = "Splice" /\ UNCHANGED <<focus, annVars, legVars, tunVars, metVars,
  insVars, drvVars, netVars, swiVars, scnVars, reqVars, cfgVars, cirVars>>
InSlowScan == focus = "SlowScan" /\ UNCHANGED <<focus, annVars, legVars, tunVars, metVars,
  insVars, drvVars, netVars, swiVars, splVars, reqVars, cfgVars, cirVars>>
InRequests == focus = "Requests" /\ UNCHANGED <<focus, annVars, legVars, tunVars, metVars,
  insVars, drvVars, netVars, swiVars, splVars, scnVars, cfgVars, cirVars>>
InConfigFile == focus = "ConfigFile" /\ UNCHANGED <<focus, annVars, legVars, tunVars,
  metVars, insVars, drvVars, netVars, swiVars, splVars, scnVars, reqVars, cirVars>>
InCircles == focus = "Circles" /\ UNCHANGED <<focus, annVars, legVars, tunVars, metVars,
  insVars, drvVars, netVars, swiVars, splVars, scnVars, reqVars, cfgVars>>

Next ==
  \/ InAnnounce /\ Announce!Next
  \/ InLegs /\ Legs!Next
  \/ InTunnels /\ Tunnels!Next
  \/ InMeter /\ Meter!Next
  \/ InInstaller /\ Installer!Next
  \/ InDriverShare /\ DriverShare!Next
  \/ InNetworks /\ Networks!Next
  \/ InSwitch /\ Switch!Next
  \/ InSplice /\ Splice!Next
  \/ InSlowScan /\ SlowScan!Next
  \/ InRequests /\ Requests!Next
  \/ InConfigFile /\ ConfigFile!Next
  \/ InCircles /\ Circles!Next

Spec == Init /\ [][Next]_allVars

\* The fairness of each part, as in its own module.
FairSpec ==
  /\ Spec
  /\ WF_annVars(focus = "Announce" /\ Announce!OwnSteps)
  /\ WF_legVars(focus = "Legs" /\ Legs!Watch) /\ WF_legVars(focus = "Legs" /\ Legs!Rested)
  /\ WF_legVars(focus = "Legs" /\ Legs!JobStep) /\ WF_legVars(focus = "Legs" /\ Legs!Starts)
  /\ \A a \in LegNets : WF_legVars(focus = "Legs" /\ Legs!PluggedIn(a))
  /\ WF_metVars(focus = "Meter" /\ Meter!Lapse) /\ WF_metVars(focus = "Meter" /\ Meter!Returned)
  /\ \A c \in MetConns : WF_metVars(focus = "Meter" /\ Meter!Close(c))
  /\ WF_netVars(focus = "Networks" /\ Networks!Relays) /\ WF_netVars(focus = "Networks" /\ Networks!Change)
  /\ WF_splVars(focus = "Splice" /\ Splice!Takes) /\ WF_splVars(focus = "Splice" /\ Splice!Again)
  /\ \A c \in SplConns : WF_splVars(focus = "Splice" /\ Splice!Goes(c))
  /\ WF_scnVars(focus = "SlowScan" /\ SlowScan!Polls) /\ WF_scnVars(focus = "SlowScan" /\ SlowScan!Tick)
  /\ WF_reqVars(focus = "Requests" /\ Requests!Tick) /\ WF_reqVars(focus = "Requests" /\ Requests!Heartbeat)
  /\ \A q \in ReqIds : WF_reqVars(focus = "Requests" /\ (Requests!Push(q) \/ Requests!Lost(q)))
  /\ WF_cirVars(focus = "Circles" /\ Circles!Packets) /\ WF_cirVars(focus = "Circles" /\ Circles!Settle)
  /\ WF_cirVars(focus = "Circles" /\ Circles!Sweep)
  /\ \A c \in CirKeys \cup {"open"} : WF_cirVars(focus = "Circles" /\ Circles!Farewell(c))

----------------------------------------------------------------------------
(* Properties: those of the parts.                                         *)

TypeOK ==
  /\ focus = "Announce" => Announce!TypeOK
  /\ focus = "Legs" => Legs!TypeOK
  /\ focus = "Tunnels" => Tunnels!TypeOK
  /\ focus = "Meter" => Meter!TypeOK
  /\ focus = "Installer" => Installer!TypeOK
  /\ focus = "DriverShare" => DriverShare!TypeOK
  /\ focus = "Networks" => Networks!TypeOK
  /\ focus = "Switch" => Switch!TypeOK
  /\ focus = "Splice" => Splice!TypeOK
  /\ focus = "SlowScan" => SlowScan!TypeOK
  /\ focus = "Requests" => Requests!TypeOK
  /\ focus = "ConfigFile" => ConfigFile!TypeOK
  /\ focus = "Circles" => Circles!TypeOK

\* Nothing is left open or behind of which the node does not know: no sending socket
\* without a leg, no tunnel's port without an entry, no folder with a driver without a
\* session, no port of a switch without a record, whatever failed or overlapped.
NothingLeftBehind ==
  /\ focus = "Legs" => Legs!NoStraySender
  /\ focus = "Tunnels" => Tunnels!NoStrayPort
  /\ focus = "DriverShare" => DriverShare!NoFolderLeft
  /\ focus = "Networks" => Networks!NoStrayPort

\* What the node gives others to rely on holds: a neighbour that hears every second
\* announcement lists it, its news is out within the gap, those it left forget it; a
\* gateway's port is open for a minute; a holder is shown no traffic but his own; a
\* neighbour is spoken to in a circle both may use; a restart, even in the middle of a
\* save, changes neither the node's identity nor what is written of it.
WordIsKept ==
  /\ focus = "Announce" => Announce!StaysListed /\ Announce!NewsIsTold /\ Announce!LeftCirclesForget
  /\ focus = "Tunnels" => Tunnels!PortStaysOpen
  /\ focus = "Meter" => Meter!CountsOnlyHolder
  /\ focus = "Circles" => Circles!SpeaksItsCircle
  /\ focus = "ConfigFile" => /\ ConfigFile!OldOrNew /\ ConfigFile!OneRunOnly
                             /\ ConfigFile!KeepsItsId /\ ConfigFile!KeepsItsKey

\* A frame reaches the station it is for, whole, whatever moves, ages out, is taken out
\* or breaks in the middle of it.
FramesArrive ==
  /\ focus = "Switch" => Switch!FrameReaches
  /\ focus = "Splice" => Splice!WholeFrames

\* Questions of neighbours neither speed a node without news up nor silence it, if a tick
\* that could come before them again and again does come at last.
SettlesDown ==
  focus = "Announce" /\ SF_annVars(focus = "Announce" /\ Announce!TickFirst)
    => Announce!SettlesDown

\* When the faults are over discovery works in every network, and frames flow again in
\* both directions of a card's path.
MendsItself ==
  /\ focus = "Legs" => Legs!MendsItself
  /\ focus = "Splice" => Splice!FlowsOn

\* A holder whose connection is gone and does not come back loses the device.
LostIsReleased == focus = "Meter" => Meter!LostIsReleased

\* Another program gets its adapter back.
ReleasedIsFree == focus = "Networks" => Networks!ReleasedIsFree

\* An installation that calls itself done has been seen to be so.
DoneIsKnown == Installer!DoneIsKnown

\* What others are to see they come to see: a change of the hardware the list of devices,
\* a request the holder of the device, a node in a common circle the neighbour.
NewsArrives ==
  /\ SlowScan!KeepsKnown
  /\ focus = "SlowScan" => SlowScan!ShowsWorld
  /\ focus = "Requests" => Requests!HolderLearns
  /\ focus = "Circles" => Circles!SeesItsOwn
=============================================================================
