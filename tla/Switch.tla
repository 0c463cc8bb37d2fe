------------------------------- MODULE Switch -------------------------------
(***************************************************************************)
(* The software switch of src/net/vswitch.js: which of its ports a frame   *)
(* goes to.  It learns behind which port a station (a MAC address) was     *)
(* heard, forgets what is too old, what belonged to a port taken out and,  *)
(* when its table is full, the station it has not heard for longest.       *)
(*                                                                         *)
(* Ports are the relays of virtual adapters and the sockets of holders.    *)
(* The frames of a batch are taken one after the other; one of a length    *)
(* not allowed is skipped and changes nothing, so it is left out.          *)
(* Stations move: behind the uplink, or when a holder takes a card anew.   *)
(***************************************************************************)
EXTENDS Naturals, FiniteSets

CONSTANTS
  Ports,       \* the ports that can be put into the switch
  Stations,    \* the stations behind them
  AgeLimit,    \* ageMs, in ticks
  MaxMacs      \* MAX_MACS

NoPort == "none"

\* A frame is for one station or, a group address, for all.
All == "all"

ConstantsOK ==
  /\ AgeLimit \in Nat \ {0} /\ MaxMacs \in Nat \ {0}
  /\ NoPort \notin Ports /\ All \notin Stations

VARIABLES
  attached,    \* ports: those in the switch
  macs,        \* macs: of a station [port, age]; of those heard in one tick any may come first
  full,        \* the attached ports whose queue is over the limit
  place,       \* the port behind which a station is
  heard,       \* the port behind which it was last heard, NoPort once that port was taken out
  last         \* the last frame: where from, for whom, where it went

vars == <<attached, macs, full, place, heard, last>>

Nothing == [port |-> NoPort, dst |-> All, went |-> {}]

Init ==
  /\ attached = {} /\ macs = [s \in {} |-> NoPort] /\ full = {}
  /\ place \in [Stations -> Ports] /\ heard = [s \in Stations |-> NoPort] /\ last = Nothing

\* Whether a table knows where a station is.
Knows(t, s) == s \in DOMAIN t /\ t[s].age < AgeLimit

\* Those whose records stay when a station is heard: a full table drops what is too old
\* and, if that is not enough, the one not heard for longest.
Kept(s) ==
  LET others == DOMAIN macs \ {s}
      young == {m \in others : macs[m].age < AgeLimit}
      oldest == {m \in young : \A k \in young : macs[k].age <= macs[m].age}
  IN IF Cardinality(others) < MaxMacs THEN {others}
     ELSE IF Cardinality(young) < MaxMacs THEN {young} ELSE {young \ {m} : m \in oldest}

\* The table after a station was heard at a port.
Learn(s, p) ==
  {[m \in kept \cup {s} |-> IF m = s THEN [port |-> p, age |-> 0] ELSE macs[m]] : kept \in Kept(s)}

\* The ports a frame from p is for, by the table t.
Targets(t, p, dst) ==
  IF dst # All /\ Knows(t, dst) THEN {t[dst].port} \cap (attached \ {p}) ELSE attached \ {p}

----------------------------------------------------------------------------
(* Actions.                                                                *)

Without(p) == [m \in {k \in DOMAIN macs : macs[k].port # p} |-> macs[m]]
Forgets(p) == heard' = [s \in Stations |-> IF heard[s] = p THEN NoPort ELSE heard[s]]

\* (faulty variant: what was learned about the port stays)
DetachKeeping(p) ==
  /\ p \in attached
  /\ attached' = attached \ {p} /\ full' = full \ {p} /\ Forgets(p)
  /\ last' = Nothing /\ UNCHANGED <<macs, place>>

\* A port is taken out, with all that was learned about it.
Detach(p) ==
  /\ p \in attached
  /\ attached' = attached \ {p} /\ macs' = Without(p) /\ full' = full \ {p} /\ Forgets(p)
  /\ last' = Nothing /\ UNCHANGED place

\* A port is put in, in place of one of its name.
Attach(p) ==
  /\ attached' = attached \cup {p} /\ full' = full \ {p} /\ last' = Nothing /\ UNCHANGED place
  /\ IF p \in attached THEN macs' = Without(p) /\ Forgets(p) ELSE UNCHANGED <<macs, heard>>

\* A frame comes in at a port: the table learns from it, and then it goes to its ports; one
\* whose queue is over the limit does not get it.
Input(s, dst) ==
  LET p == place[s] IN
  /\ p \in attached
  /\ macs' \in Learn(s, p) /\ heard' = [heard EXCEPT ![s] = p]
  /\ last' = [port |-> p, dst |-> dst, went |-> Targets(macs', p, dst) \ full]
  /\ UNCHANGED <<attached, full, place>>

\* A port falls behind, or has caught up.
Queue(p) ==
  /\ p \in attached
  /\ full' = IF p \in full THEN full \ {p} ELSE full \cup {p}
  /\ last' = Nothing /\ UNCHANGED <<attached, macs, place, heard>>

\* A station is now behind another port and has not been heard there.
Moves(s, p) ==
  /\ place' = [place EXCEPT ![s] = p] /\ last' = Nothing
  /\ UNCHANGED <<attached, macs, full, heard>>

Tick ==
  /\ macs' = [m \in DOMAIN macs |-> [macs[m] EXCEPT !.age = IF @ < AgeLimit THEN @ + 1 ELSE @]]
  /\ last' = Nothing /\ UNCHANGED <<attached, full, place, heard>>

Next ==
  \/ Tick
  \/ \E p \in Ports : Attach(p) \/ Detach(p) \/ Queue(p)
  \/ \E s \in Stations, p \in Ports : Moves(s, p)
  \/ \E s \in Stations : \E dst \in (Stations \ {s}) \cup {All} : Input(s, dst)

Spec == Init /\ [][Next]_vars

----------------------------------------------------------------------------
(* Properties.                                                             *)

TypeOK ==
  /\ attached \subseteq Ports /\ full \subseteq attached
  /\ DOMAIN macs \subseteq Stations /\ macs \in [DOMAIN macs -> [port : Ports, age : 0 .. AgeLimit]]
  /\ Cardinality(DOMAIN macs) <= MaxMacs
  /\ place \in [Stations -> Ports] /\ heard \in [Stations -> Ports \cup {NoPort}]

\* A frame reaches the station it is for, wherever that is in the switch, unless the
\* station was last heard behind another port that is still there (it moved and has not
\* spoken yet) or its port's queue is full; and it never goes back where it came from.
FrameReaches ==
  LET Due(s) == /\ last.port # NoPort /\ place[s] \in attached \ ({last.port} \cup full)
                /\ heard[s] \in {NoPort, place[s]}
  IN /\ last.port \notin last.went
     /\ \A s \in Stations : last.dst \in {s, All} /\ Due(s) => place[s] \in last.went
=============================================================================
