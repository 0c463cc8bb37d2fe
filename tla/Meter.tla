------------------------------- MODULE Meter -------------------------------
(***************************************************************************)
(* The traffic of a shared USB device (src/src/net/trafficProxy.js): the   *)
(* owner's meter stands between the holders and usbipd, counts what passes *)
(* and tells the table (core/shareManager.js) when the connection of a     *)
(* device opens and closes, so that a holder who has unplugged the device  *)
(* without a word does not keep it.                                        *)
(*                                                                         *)
(* One device; connections arrive, name the device in their first packet,  *)
(* and end on either side at any moment.  Counters are kept as the set of  *)
(* those whose bytes are in them.                                          *)
(***************************************************************************)
EXTENDS Naturals, FiniteSets

CONSTANTS
  Holders,
  Conns,      \* the connections there can be at a time
  None

ConstantsOK == None \notin Holders /\ \A h \in SUBSET Holders : h # None

VARIABLES
  holder,    \* who holds the device (claims)
  returning, \* the device is on its way back to the system (preparing)
  counter,   \* whose bytes are counted (counters), None: no counter
  from,      \* the holder at the other end of a connection, None: it is free
  state,     \* "new" before its first packet, "paired", "ended" until its close is handled
  dropped,   \* the connections the owner has closed himself
  waiting,   \* the connection is closed, the holder's lease has begun to run (dataTimers)
  unheard,   \* (history) the holder's device was connected, and no connection is left
  late       \* (history) whose connection named the device when it was no longer his

TypeOK ==
  /\ holder \in Holders \cup {None} /\ returning \in BOOLEAN
  /\ counter \in (SUBSET Holders) \cup {None}
  /\ from \in [Conns -> Holders \cup {None}]
  /\ state \in [Conns -> {"new", "paired", "ended"}]
  /\ late \subseteq Holders /\ dropped \subseteq Conns /\ waiting \in BOOLEAN /\ unheard \in BOOLEAN

meterVars == <<holder, returning, counter, from, state, dropped, waiting, unheard, late>>

Init ==
  /\ holder = None /\ returning = FALSE /\ counter = None
  /\ from = [c \in Conns |-> None] /\ state = [c \in Conns |-> "new"]
  /\ dropped = {} /\ waiting = FALSE /\ unheard = FALSE /\ late = {}

\* The connections that named the device and go on.
Pairs == {c \in Conns : from[c] # None /\ state[c] = "paired"}
\* What pairs holds: a connection stays there until its close is handled.
Mapped == {c \in Conns : from[c] # None /\ state[c] # "new"}
Fresh == {c \in Conns : from[c] # None /\ state[c] = "new"}

Counted(h) == (IF counter = None THEN {} ELSE counter) \cup {h}

\* trafficBegin: the counter is there from the moment of the claim.
Claim(h) ==
  /\ holder = None /\ ~returning
  /\ holder' = h /\ counter' = IF counter = None THEN {} ELSE counter
  /\ UNCHANGED <<returning, from, state, dropped, waiting, unheard, late>>

\* The driver of the holder connects.
Connect(c) ==
  /\ holder # None /\ from[c] = None
  /\ from' = [from EXCEPT ![c] = holder] /\ state' = [state EXCEPT ![c] = "new"]
  /\ UNCHANGED <<holder, returning, counter, dropped, waiting, unheard, late>>

\* The first packet names the device: the connection is counted, the table hears of it
\* (onDataOpened).
Import(c) ==
  /\ c \in Fresh
  /\ state' = [state EXCEPT ![c] = "paired"] /\ counter' = Counted(from[c])
  /\ waiting' = FALSE /\ unheard' = FALSE
  /\ late' = IF holder = from[c] \/ returning THEN late ELSE late \cup {from[c]}
  /\ UNCHANGED <<holder, returning, from, dropped>>

\* Bytes, in either direction.
Bytes(c) ==
  /\ c \in Pairs
  /\ counter' = Counted(from[c])
  /\ UNCHANGED <<holder, returning, from, state, dropped, waiting, unheard, late>>

\* Either end closes or disappears (keepalive): nothing is counted any more.  Of one
\* that named no device nobody knows.
Ends(c) ==
  /\ c \in Pairs \cup Fresh
  /\ state' = [state EXCEPT ![c] = IF c \in Pairs THEN "ended" ELSE "new"]
  /\ from' = IF c \in Fresh THEN [from EXCEPT ![c] = None] ELSE from
  /\ UNCHANGED <<holder, returning, counter, dropped, waiting, unheard, late>>

\* (faulty variant: the table is told when no connection is left, and the closing one counts)
TellsWhenAlone(c) == c \notin dropped /\ Mapped = {}

\* device-closed reaches the table unless the owner closed the connection himself.
Tells(c) == c \notin dropped

\* The close is handled (close), once for a connection: onDataClosed starts the wait
\* when the device is held.
Close(c) ==
  /\ c \in Mapped \ Pairs
  /\ from' = [from EXCEPT ![c] = None] /\ state' = [state EXCEPT ![c] = "new"]
  /\ dropped' = dropped \ {c}
  /\ waiting' = (waiting \/ (Tells(c) /\ holder # None))
  /\ unheard' = (unheard \/ (holder # None /\ c \notin dropped /\ Mapped = {c} /\ Fresh = {}))
  /\ UNCHANGED <<holder, returning, counter, late>>

\* release: the wait is over, the connections are cut (dropDevice).
Release ==
  /\ holder # None
  /\ holder' = None /\ returning' = TRUE /\ waiting' = FALSE /\ unheard' = FALSE
  /\ dropped' = dropped \cup Pairs
  /\ state' = [c \in Conns |-> IF c \in Pairs THEN "ended" ELSE state[c]]
  /\ UNCHANGED <<counter, from, late>>

\* reset
Reset == counter' = None

\* The device is back, usbipd has closed what was left, claim-revoked resets the counter.
Returned ==
  /\ returning /\ returning' = FALSE
  /\ Reset
  /\ state' = [c \in Conns |-> IF c \in Pairs THEN "ended" ELSE state[c]]
  /\ UNCHANGED <<holder, from, dropped, waiting, unheard, late>>

\* The wait is over: the device is released unless the holder has connected again.
Lapse ==
  /\ waiting /\ holder # None
  /\ IF Mapped # {} THEN waiting' = FALSE /\ UNCHANGED <<holder, returning, counter, from, state, dropped, unheard,
                                                         late>>
     ELSE Release

Next ==
  \/ Release \/ Returned \/ Lapse
  \/ \E h \in Holders : Claim(h)
  \/ \E c \in Conns : Connect(c) \/ Import(c) \/ Bytes(c) \/ Ends(c) \/ Close(c)

Spec == Init /\ [][Next]_meterVars

\* Closes are handled, a lease runs out, a device that goes back arrives.
FairSpec ==
  Spec /\ WF_meterVars(Lapse) /\ WF_meterVars(Returned) /\ \A c \in Conns : WF_meterVars(Close(c))

----------------------------------------------------------------------------
(* Properties.                                                             *)

\* While the device is held there is a counter, and in it only what its holder has
\* moved, and those whose connection came too late: nothing of what passes while the
\* device goes back.
CountsOnlyHolder == holder # None => counter # None /\ counter \subseteq {holder} \cup late

\* A holder whose device was disconnected, and who does not connect again, loses the
\* device, whatever he says in his heartbeats.
LostIsReleased == []<>(~unheard)
=============================================================================
