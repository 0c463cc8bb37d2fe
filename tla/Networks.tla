------------------------------ MODULE Networks ------------------------------
(***************************************************************************)
(* The software switches of a Windows node and the TAP adapters that are   *)
(* their ports (src/src/core/netManager.js, net/relayKeeper.js): switches, *)
(* the adapter that leads a switch into the network of a card, virtual     *)
(* adapters of the node, and TAP adapters of other programs taken over for *)
(* a while.  Changes of the network are made one at a time, in many steps  *)
(* of which each may fail; meanwhile the relays that keep the adapters     *)
(* open come up, fall and come up again by themselves, and the user works  *)
(* with the adapters in Windows.  What there should be is in config.json   *)
(* (netSwitches, tapAdapters), and is set up again at every start.         *)
(***************************************************************************)
EXTENDS Naturals, FiniteSets

CONSTANTS
  Guids,     \* the TAP adapters there can be
  Foreign,   \* those of other programs
  Switches,
  MaxOps, MaxFaults, MaxStarts,  \* bounds
  MaxFalls,  \* how often a relay is brought up again (MAX_RELAY_RESTARTS)
  Loose,     \* the place of an adapter without a switch
  None

Places == Switches \cup {Loose}
TapRecs == [role : {"vnic", "uplink"}, switch : Switches \cup {None}, adopted : BOOLEAN]
Holders == [at : Places, is : {"opening", "up", "down"}, falls : 0..MaxFalls]
Ops == [kind : {"createVnic", "delete", "mac", "port", "uplink", "newSwitch", "dropSwitch", "dropUplink"},
        guid : Guids \cup {None}, to : Switches \cup {None},
        at : {"create", "name", "ready", "ip", "remove", "mac", "bridge", "unbridge", "ports"}]

ConstantsOK ==
  /\ Foreign \subseteq Guids /\ {Loose, None} \cap (Switches \cup Guids) = {} /\ Loose # None
  /\ {MaxOps, MaxFaults, MaxStarts, MaxFalls} \subseteq Nat
  /\ None \notin TapRecs /\ None \notin Holders /\ None \notin Ops /\ None \notin {"holder", "stray"}

VARIABLES
  adapters, \* (Windows) the TAP adapters that exist
  taken,    \* (Windows) those another program has open
  opened,   \* (Windows) those a relay of ours has open, by a holder or a stray (see below)
  switches, \* (config.json) the switches: their uplink or None; Loose: no such switch
  taps,     \* (config.json) the records of the adapters, or None
  holder,   \* who keeps an adapter open: where it is plugged in and how it fares, or None
  strays,   \* the adapters being opened for a holder that has been told to stop
  op,       \* the change under way, or None
  ops, faults, starts

netVars == <<adapters, taken, opened, switches, taps, holder, strays, op, ops, faults, starts>>
windows == <<adapters, taken>>
counts == <<ops, faults, starts>>

TypeOK ==
  /\ adapters \subseteq Guids /\ taken \subseteq Foreign
  /\ opened \in [Guids -> {"holder", "stray", None}]
  /\ switches \in [Switches -> Guids \cup {None, Loose}]
  /\ taps \in [Guids -> TapRecs \cup {None}]
  /\ holder \in [Guids -> Holders \cup {None}]
  /\ strays \subseteq Guids /\ op \in Ops \cup {None}
  /\ ops \in 0..MaxOps /\ faults \in 0..MaxFaults /\ starts \in 0..MaxStarts

Init ==
  /\ adapters = Foreign /\ taken = {} /\ opened = [g \in Guids |-> None]
  /\ switches = [s \in Switches |-> Loose] /\ taps = [g \in Guids |-> None]
  /\ holder = [g \in Guids |-> None] /\ strays = {} /\ op = None
  /\ ops = 0 /\ faults = 0 /\ starts = 0

Exists(s) == switches[s] # Loose
Vnic(g) == taps[g] # None /\ taps[g].role = "vnic"
PlaceOf(r) == IF r.switch # None /\ Exists(r.switch) THEN r.switch ELSE Loose
New(place) == [at |-> place, is |-> "opening", falls |-> 0]
Again(h) == [at |-> h.at, is |-> "opening", falls |-> h.falls + 1]

\* _plug, _plugLoose, _replug: a holder begins to open the adapter at the place of its record.
Plug(g, place) == holder' = [holder EXCEPT ![g] = New(place)]

\* _unplug, _unplugHolder: an adapter still being opened has nothing to be closed yet.
Unplug(g) ==
  /\ holder' = [holder EXCEPT ![g] = None]
  /\ strays' = IF holder[g] # None /\ holder[g].is = "opening" THEN strays \cup {g} ELSE strays
  /\ opened' = IF opened[g] = "holder" THEN [opened EXCEPT ![g] = None] ELSE opened

\* The same, and the adapter is plugged in elsewhere at once.
Replug(g, place) ==
  /\ holder' = [holder EXCEPT ![g] = New(place)]
  /\ strays' = IF holder[g] # None /\ holder[g].is = "opening" THEN strays \cup {g} ELSE strays
  /\ opened' = IF opened[g] = "holder" THEN [opened EXCEPT ![g] = None] ELSE opened

Fault == faults < MaxFaults /\ faults' = faults + 1 /\ UNCHANGED <<ops, starts>>
Ends == op' = None
Goes(pc) == op' = [op EXCEPT !.at = pc]
At(kinds, pc) == op # None /\ op.kind \in kinds /\ op.at = pc

----------------------------------------------------------------------------
(* Relays: what happens to adapters by itself.                             *)

Openable(g) == g \in adapters \ taken /\ opened[g] = None

\* keepRelay: the adapter is open, its port is in the switch (plugRelay).
Opens(g) ==
  /\ holder[g] # None /\ holder[g].is = "opening" /\ Openable(g)
  /\ opened' = [opened EXCEPT ![g] = "holder"] /\ holder' = [holder EXCEPT ![g].is = "up"]
  /\ UNCHANGED <<windows, switches, taps, strays, op, counts>>

\* openRelay gives up: the adapter is not there, or somebody else has it.
GivesUp(g) ==
  /\ holder[g] # None /\ holder[g].is = "opening" /\ g \notin adapters \ taken
  /\ holder' = [holder EXCEPT ![g].is = "down"]
  /\ UNCHANGED <<windows, opened, switches, taps, strays, op, counts>>

\* A relay of a holder that has been told to stop while it was opening.
StrayOpens(g) ==
  /\ g \in strays /\ Openable(g)
  /\ opened' = [opened EXCEPT ![g] = "stray"] /\ strays' = strays \ {g}
  /\ UNCHANGED <<windows, switches, taps, holder, op, counts>>
StrayGivesUp(g) ==
  /\ g \in strays /\ ~Openable(g) /\ strays' = strays \ {g}
  /\ UNCHANGED <<windows, opened, switches, taps, holder, op, counts>>

\* (faulty variant: the relay is kept, whoever it was opened for)
NotAsked(g) == opened[g] = "stray" /\ g \notin adapters

\* keepRelay, first of all: has the holder been stopped meanwhile?
AskedToStop(g) == opened[g] = "stray"

StrayCloses(g) ==
  /\ AskedToStop(g) /\ opened' = [opened EXCEPT ![g] = None]
  /\ UNCHANGED <<windows, switches, taps, holder, strays, op, counts>>

\* The relay's process has ended (or the adapter has): it is brought up again, a few times.
Falls(g) ==
  /\ opened[g] = "holder"
  /\ IF g \in adapters THEN Fault ELSE UNCHANGED counts
  /\ opened' = [opened EXCEPT ![g] = None]
  /\ holder' = [holder EXCEPT ![g] = IF @.falls < MaxFalls THEN Again(@) ELSE [@ EXCEPT !.is = "down"]]
  /\ UNCHANGED <<windows, switches, taps, strays, op>>

Relays == \E g \in Guids : Opens(g) \/ GivesUp(g) \/ StrayOpens(g) \/ StrayGivesUp(g)
                           \/ StrayCloses(g) \/ (g \notin adapters /\ Falls(g))

\* Another program opens its adapter, or closes it; the user removes an adapter.
OtherOpens(g) ==
  /\ g \in Foreign /\ Openable(g) /\ Fault /\ taken' = taken \cup {g}
  /\ UNCHANGED <<adapters, opened, switches, taps, holder, strays, op>>
OtherCloses(g) ==
  /\ g \in taken /\ taken' = taken \ {g}
  /\ UNCHANGED <<adapters, opened, switches, taps, holder, strays, op, counts>>
RemovedByHand(g) ==
  /\ g \in adapters /\ Fault /\ adapters' = adapters \ {g} /\ taken' = taken \ {g}
  /\ UNCHANGED <<opened, switches, taps, holder, strays, op>>

----------------------------------------------------------------------------
(* Changes: one at a time (_op).                                           *)

Begins(kind, g, s, pc) ==
  /\ op = None /\ ops < MaxOps /\ ops' = ops + 1 /\ UNCHANGED <<faults, starts>>
  /\ op' = [kind |-> kind, guid |-> g, to |-> s, at |-> pc]

unplugged == <<opened, holder, strays>>

\* An adapter of our own that has never been there.
Fresh(g) == g \notin Foreign \cup adapters \cup strays /\ taps[g] = None /\ holder[g] = None

CreateVnic(g, s) ==
  /\ Fresh(g) /\ (s # None => Exists(s))
  /\ Begins("createVnic", g, s, "create")
  /\ UNCHANGED <<windows, unplugged, switches, taps>>

\* createTap has ended: what it made is written down at once.
Created(role) ==
  /\ adapters' = adapters \cup {op.guid}
  /\ taps' = [taps EXCEPT ![op.guid] = [role |-> role, switch |-> op.to, adopted |-> FALSE]]
VnicCreated ==
  /\ At({"createVnic"}, "create")
  /\ \/ Created("vnic") /\ Goes("name") /\ UNCHANGED counts
     \/ Fault /\ Ends /\ UNCHANGED <<adapters, taps>>
  /\ UNCHANGED <<taken, unplugged, switches>>

\* Its name and MAC, then it is plugged in; then its addresses.
VnicNamed ==
  /\ At({"createVnic"}, "name")
  /\ \/ Plug(op.guid, PlaceOf(taps[op.guid])) /\ Goes("ready") /\ UNCHANGED counts
     \/ Fault /\ Goes("remove") /\ UNCHANGED holder
  /\ UNCHANGED <<windows, opened, strays, switches, taps>>
VnicAddressed ==
  /\ At({"createVnic"}, "ip")
  /\ \/ Ends /\ UNCHANGED <<unplugged, counts>>
     \/ Fault /\ Goes("remove") /\ Unplug(op.guid)
  /\ UNCHANGED <<windows, switches, taps>>

\* _dropTap.
Forgets(g) == taps' = [taps EXCEPT ![g] = None]

\* Another program's adapter is given back.
GivesBack(g) == Unplug(g) /\ Forgets(g)

\* What has been begun is undone: the adapter is removed, and forgotten even if it is not.
Removed(g) == (adapters' = adapters \ {g} /\ UNCHANGED counts) \/ (Fault /\ UNCHANGED adapters)
CreationUndone ==
  /\ At({"createVnic", "uplink", "newSwitch"}, "remove")
  /\ Removed(op.guid) /\ Forgets(op.guid) /\ Ends
  /\ UNCHANGED <<taken, unplugged, switches>>

\* deleteAdapter, also of another program's.  One that is not there is only forgotten.
Delete(g) ==
  /\ taps[g] # None => Vnic(g)
  /\ taps[g] # None \/ (g \in adapters /\ holder[g] = None)
  /\ IF g \in adapters
       THEN Begins("delete", g, None, "remove") /\ UNCHANGED taps
       ELSE op = None /\ ops < MaxOps /\ ops' = ops + 1 /\ Forgets(g) /\ UNCHANGED <<op, faults, starts>>
  /\ Unplug(g)
  /\ UNCHANGED <<windows, switches>>

\* If it cannot be removed the record stays, without a holder, until the next start.
Deleted ==
  /\ At({"delete"}, "remove") /\ Ends
  /\ \/ adapters' = adapters \ {op.guid} /\ taken' = taken \ {op.guid} /\ Forgets(op.guid) /\ UNCHANGED counts
     \/ Fault /\ UNCHANGED <<windows, taps>>
  /\ UNCHANGED <<unplugged, switches>>

\* updateAdapter, the MAC: the adapter is closed while it changes, and opened in any case.
ChangeMac(g) ==
  /\ g \in adapters /\ holder[g] # None /\ Vnic(g)
  /\ Begins("mac", g, None, "mac") /\ Unplug(g)
  /\ UNCHANGED <<windows, switches, taps>>
MacChanged ==
  /\ At({"mac"}, "mac")
  /\ IF taps[op.guid] = None THEN UNCHANGED holder ELSE Plug(op.guid, PlaceOf(taps[op.guid]))
  /\ Goes("ready")
  /\ UNCHANGED <<windows, opened, strays, switches, taps, counts>>

\* _setPort: into a switch, out of it, or from one to another.
Adopt(g, s) ==
  /\ g \in adapters /\ taps[g] = None /\ Exists(s)
  /\ Begins("port", g, s, "ready")
  /\ taps' = [taps EXCEPT ![g] = [role |-> "vnic", switch |-> s, adopted |-> TRUE]] /\ Plug(g, s)
  /\ UNCHANGED <<windows, opened, strays, switches>>
Release(g) ==
  /\ g \in adapters /\ Vnic(g) /\ taps[g].adopted /\ taps[g].switch # None
  /\ op = None /\ ops < MaxOps /\ ops' = ops + 1
  /\ GivesBack(g)
  /\ UNCHANGED <<windows, switches, op, faults, starts>>
Move(g, s) ==
  /\ g \in adapters /\ Vnic(g) /\ taps[g].switch # s
  /\ IF s = None THEN ~taps[g].adopted ELSE Exists(s)
  /\ Begins("port", g, s, "ready")
  /\ taps' = [taps EXCEPT ![g].switch = s] /\ Replug(g, IF s = None THEN Loose ELSE s)
  /\ UNCHANGED <<windows, switches>>

\* The adapter is open, or is not: another program's is then given back, a new one of ours
\* gets its addresses all the same.
Ready ==
  /\ op # None /\ op.at = "ready"
  /\ holder[op.guid] # None => holder[op.guid].is # "opening"
  /\ IF op.kind = "port" /\ taps[op.guid].adopted /\ holder[op.guid].is = "down" /\ holder[op.guid].falls = 0
       THEN GivesBack(op.guid) /\ Ends
       ELSE /\ IF op.kind = "createVnic" THEN Goes("ip") ELSE Ends
            /\ UNCHANGED <<unplugged, taps>>
  /\ UNCHANGED <<windows, switches, counts>>

\* createSwitch: one without a card is there at once; for a card, _buildUplink first.
CreateSwitch(s) ==
  /\ ~Exists(s) /\ op = None /\ ops < MaxOps /\ ops' = ops + 1
  /\ switches' = [switches EXCEPT ![s] = None]
  /\ UNCHANGED <<windows, unplugged, taps, op, faults, starts>>
BuildUplink(kind, g, s) ==
  /\ Fresh(g) /\ \A t \in Switches : switches[t] \in {None, Loose}
  /\ kind = IF Exists(s) THEN "uplink" ELSE "newSwitch"
  /\ Begins(kind, g, s, "create")
  /\ UNCHANGED <<windows, unplugged, switches, taps>>
UplinkCreated ==
  /\ At({"uplink", "newSwitch"}, "create")
  /\ \/ Created("uplink") /\ Goes("bridge") /\ UNCHANGED counts
     \/ Fault /\ Ends /\ UNCHANGED <<adapters, taps>>
  /\ UNCHANGED <<taken, unplugged, switches>>
UplinkBridged ==
  /\ At({"uplink", "newSwitch"}, "bridge")
  /\ \/ /\ switches' = [switches EXCEPT ![op.to] = op.guid] /\ Plug(op.guid, op.to) /\ Ends
        /\ UNCHANGED counts
     \/ Fault /\ Goes("remove") /\ UNCHANGED <<switches, holder>>
  /\ UNCHANGED <<windows, opened, strays, taps>>

\* _dropUplink, for the switch to be deleted or for its last card to leave it.
DropUplink(kind, s) ==
  /\ Exists(s) /\ switches[s] # None
  /\ Begins(kind, switches[s], s, "unbridge") /\ Unplug(switches[s])
  /\ UNCHANGED <<windows, switches, taps>>
Unbridged ==
  /\ op # None /\ op.at = "unbridge"
  /\ \/ Goes("remove") /\ UNCHANGED counts
     \/ Fault /\ Ends
  /\ UNCHANGED <<windows, unplugged, switches, taps>>
UplinkRemoved ==
  /\ At({"dropSwitch", "dropUplink"}, "remove")
  /\ Removed(op.guid) /\ Forgets(op.guid)
  /\ IF op.kind = "dropSwitch" THEN Goes("ports") /\ UNCHANGED switches
     ELSE Ends /\ switches' = [switches EXCEPT ![op.to] = None]
  /\ UNCHANGED <<taken, unplugged>>

\* deleteSwitch of one without a card.
DeleteSwitch(s) ==
  /\ Exists(s) /\ switches[s] = None
  /\ Begins("dropSwitch", None, s, "ports")
  /\ UNCHANGED <<windows, unplugged, switches, taps>>

Ports(s) == {g \in Guids : Vnic(g) /\ taps[g].switch = s}

\* ... one port after the other, another program's is given back; then the record goes.
PortDropped(g) ==
  /\ At({"dropSwitch"}, "ports") /\ g \in Ports(op.to)
  /\ IF taps[g].adopted THEN GivesBack(g)
     ELSE Replug(g, Loose) /\ taps' = [taps EXCEPT ![g].switch = None]
  /\ UNCHANGED <<windows, switches, op, counts>>
SwitchDeleted ==
  /\ At({"dropSwitch"}, "ports") /\ Ports(op.to) = {}
  /\ switches' = [switches EXCEPT ![op.to] = Loose] /\ Ends
  /\ UNCHANGED <<windows, unplugged, taps, counts>>

Change == VnicCreated \/ VnicNamed \/ VnicAddressed \/ CreationUndone \/ Deleted \/ MacChanged \/ Ready
          \/ UplinkCreated \/ UplinkBridged \/ Unbridged \/ UplinkRemoved
          \/ (\E g \in Guids : PortDropped(g)) \/ SwitchDeleted

----------------------------------------------------------------------------
(* The program ends at any moment, and starts (start, _startSwitch).       *)

\* A record of a switch that is no more: an adapter of ours stays, another program's is
\* given back.
Kept == [g \in Guids |->
  IF ~Vnic(g) \/ (taps[g].switch # None /\ Exists(taps[g].switch)) THEN taps[g]
  ELSE IF taps[g].adopted THEN None ELSE [taps[g] EXCEPT !.switch = None]]

UplinkOf(g) == {s \in Switches : Exists(s) /\ switches[s] = g}

Restart ==
  /\ starts < MaxStarts /\ starts' = starts + 1 /\ UNCHANGED <<ops, faults>>
  /\ \/ UNCHANGED adapters
     \/ op # None /\ op.at = "create" /\ adapters' = adapters \cup {op.guid}
  /\ opened' = [g \in Guids |-> None] /\ strays' = {} /\ op' = None
  /\ taps' = Kept
  /\ holder' = [g \in Guids |->
       IF UplinkOf(g) # {} THEN New(CHOOSE s \in UplinkOf(g) : TRUE)
       ELSE IF Kept[g] # None /\ Kept[g].role = "vnic" THEN New(PlaceOf(Kept[g])) ELSE None]
  /\ UNCHANGED <<taken, switches>>

Next ==
  \/ Change \/ Restart
  \/ \E g \in Guids :
       \/ Opens(g) \/ GivesUp(g) \/ StrayOpens(g) \/ StrayGivesUp(g) \/ StrayCloses(g) \/ Falls(g)
       \/ OtherOpens(g) \/ OtherCloses(g) \/ RemovedByHand(g)
       \/ Delete(g) \/ ChangeMac(g) \/ Release(g)
  \/ \E g \in Guids, s \in Switches \cup {None} : CreateVnic(g, s) \/ Move(g, s)
  \/ \E g \in Guids, s \in Switches : Adopt(g, s)
                                      \/ \E kind \in {"uplink", "newSwitch"} : BuildUplink(kind, g, s)
  \/ \E s \in Switches : \/ CreateSwitch(s) \/ DeleteSwitch(s)
                         \/ \E kind \in {"dropSwitch", "dropUplink"} : DropUplink(kind, s)

Spec == Init /\ [][Next]_netVars

\* Relays end their attempts, and a change under way is carried on.
FairSpec == Spec /\ WF_netVars(Relays) /\ WF_netVars(Change)

----------------------------------------------------------------------------
(* Properties.                                                             *)

\* When no change is under way, whoever keeps an adapter open does so where config.json has
\* it: no port is left in a switch the user does not see it in, whatever failed on the way
\* and wherever the program was killed.
NoStrayPort ==
  op = None => \A g \in Guids : holder[g] # None =>
    \/ Vnic(g) /\ holder[g].at = PlaceOf(taps[g])
    \/ holder[g].at \in UplinkOf(g)

\* An adapter that is given back is closed, so that its program can open it, although it
\* may have been opening at that moment (netManager.js:858-861, relayKeeper.js:56).
ReleasedIsFree ==
  \A g \in Foreign : []<>(taps[g] # None \/ opened[g] = None)
=============================================================================
