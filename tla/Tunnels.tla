------------------------------ MODULE Tunnels ------------------------------
(***************************************************************************)
(* The tunnels a gateway opens for its neighbours (src/src/net/tunnels.js, *)
(* POST /api/v1/peer/tunnel): a port on the gateway that leads to a port   *)
(* of a node in another network.  A tunnel is opened once for those who    *)
(* ask at the same time, is remembered by its key, and closed after it has *)
(* been idle for long; when there are too many, sooner.                    *)
(***************************************************************************)
EXTENDS Naturals, FiniteSets

CONSTANTS
  Keys,        \* who asks and where to
  MaxTunnels,  \* maxTunnels
  Idle, Grace, \* idleMs and the minute a tunnel is left alone in any case, in ticks
  None

ConstantsOK ==
  /\ MaxTunnels \in Nat \ {0}
  /\ Grace \in Nat \ {0} /\ Idle \in Nat /\ Grace < Idle /\ None \notin Nat

VARIABLES
  tunnels,   \* the ticks since a tunnel was used (lastUsed), None: there is none
  opening,   \* the tunnels that are being opened (_opening)
  listening, \* how many ports are open for a key
  used,      \* the tunnels with a connection (sockets)
  told       \* the ticks since somebody was given the port, None: longer ago than Grace

TypeOK ==
  /\ tunnels \in [Keys -> 0..(Idle + 1) \cup {None}]
  /\ opening \subseteq Keys /\ used \subseteq Keys
  /\ listening \in [Keys -> 0..Cardinality(Keys)]
  /\ told \in [Keys -> 0..Grace \cup {None}]

tunnelsVars == <<tunnels, opening, listening, used, told>>

Init ==
  /\ tunnels = [k \in Keys |-> None] /\ opening = {} /\ used = {}
  /\ listening = [k \in Keys |-> 0] /\ told = [k \in Keys |-> None]

Open == {k \in Keys : tunnels[k] # None}

\* The tunnels a sweep finds idle for longer than `limit`.
Stale(limit) == {k \in Open \ used : tunnels[k] > limit}

\* _sweep closes those, and a tunnel in use counts as used now.
Swept(limit) ==
  [k \in Keys |-> IF k \in Stale(limit) THEN None
                  ELSE IF k \in Open \cap used THEN 0 ELSE tunnels[k]]
Closed(limit) == [k \in Keys |-> IF k \in Stale(limit) THEN listening[k] - 1 ELSE listening[k]]

\* open: a tunnel that is there is handed out and counts as used.
HandsOut(k) ==
  /\ k \in Open
  /\ tunnels' = [tunnels EXCEPT ![k] = 0] /\ told' = [told EXCEPT ![k] = 0]
  /\ UNCHANGED <<opening, listening, used>>

\* There is none and none on the way (somebody else's, who waits with him).
MustOpen(k) == k \notin Open \cup opening

\* _open: when there are too many, the idle ones are closed; the port is asked for.
Opens(k) ==
  LET crowded == Cardinality(Open) >= MaxTunnels IN
  /\ MustOpen(k)
  /\ crowded => Stale(Grace) # {}
  /\ tunnels' = IF crowded THEN Swept(Grace) ELSE tunnels
  /\ listening' = [(IF crowded THEN Closed(Grace) ELSE listening) EXCEPT ![k] = @ + 1]
  /\ opening' = opening \cup {k}
  /\ UNCHANGED <<used, told>>

\* Too many although the idle ones are closed: refused.
Refused(k) ==
  /\ MustOpen(k) /\ Cardinality(Open) >= MaxTunnels /\ Stale(Grace) = {}
  /\ tunnels' = Swept(Grace)
  /\ UNCHANGED <<opening, listening, used, told>>

\* The port is open: everybody who waited for it is told.
Listens(k) ==
  /\ k \in opening
  /\ opening' = opening \ {k}
  /\ tunnels' = [tunnels EXCEPT ![k] = 0] /\ told' = [told EXCEPT ![k] = 0]
  /\ UNCHANGED <<listening, used>>

Fails(k) ==
  /\ k \in opening
  /\ opening' = opening \ {k} /\ listening' = [listening EXCEPT ![k] = @ - 1]
  /\ UNCHANGED <<tunnels, used, told>>

\* _accept, and the end of the last connection.
Connects(k) ==
  /\ k \in Open /\ used' = used \cup {k} /\ tunnels' = [tunnels EXCEPT ![k] = 0]
  /\ UNCHANGED <<opening, listening, told>>
Disconnects(k) ==
  /\ k \in used /\ used' = used \ {k} /\ tunnels' = [tunnels EXCEPT ![k] = 0]
  /\ UNCHANGED <<opening, listening, told>>

Sweep ==
  /\ Open # {}
  /\ tunnels' = Swept(Idle) /\ listening' = Closed(Idle)
  /\ UNCHANGED <<opening, used, told>>

\* A tick; a sweep is never late by more than one.
Tick ==
  /\ \A k \in Open \ used : tunnels[k] <= Idle
  /\ tunnels' = [k \in Keys |-> IF k \in Open THEN (IF tunnels[k] > Idle THEN tunnels[k] ELSE tunnels[k] + 1) ELSE None]
  /\ told' = [k \in Keys |-> IF told[k] \in 0..(Grace - 1) THEN told[k] + 1 ELSE None]
  /\ UNCHANGED <<opening, listening, used>>

Next ==
  \/ Sweep \/ Tick
  \/ \E k \in Keys : \/ HandsOut(k) \/ Opens(k) \/ Refused(k) \/ Listens(k) \/ Fails(k)
                     \/ Connects(k) \/ Disconnects(k)

Spec == Init /\ [][Next]_tunnelsVars

----------------------------------------------------------------------------
(* Properties.                                                             *)

\* Every open port is in the map or about to be: none is left that nobody closes
\* (comment of open: two listeners for one tunnel, of which one was lost from the map).
NoStrayPort ==
  \A k \in Keys : listening[k] = IF k \in Open \cup opening THEN 1 ELSE 0

\* Who was given a port finds it open for the next minute, however many tunnels others
\* ask for.
PortStaysOpen == \A k \in Keys : told[k] # None => listening[k] > 0
=============================================================================
