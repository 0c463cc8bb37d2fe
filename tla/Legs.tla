-------------------------------- MODULE Legs --------------------------------
(***************************************************************************)
(* The sockets a node announces itself with and listens on                 *)
(* (src/src/net/discovery.js) and the watch over its networks              *)
(* (core/app.js).  One socket receives for all networks and has to join    *)
(* the multicast group on each of them; every network has a sender of its  *)
(* own, a leg, that remembers whether joining succeeded.                   *)
(*                                                                         *)
(* Work on the legs is done in jobs that wait for each other, each with    *)
(* awaits in between: cables are pulled and settings changed meanwhile.    *)
(* When and what is announced is the module Announce.                      *)
(***************************************************************************)
EXTENDS Naturals, Sequences, FiniteSets

CONSTANTS
  Nets,       \* the addresses of the network cards
  Transports, \* announceTransport: subsets of {"multicast", "broadcast"}
  MaxJobs,    \* (bound) jobs at a time
  MaxFaults,  \* (bound) of cables, sockets and joins
  MaxChanges, \* (bound) changes of the settings
  None

\* The sender of a network.
Leg == [channels : SUBSET {"multicast", "broadcast"}, broken : BOOLEAN]

ConstantsOK ==
  /\ Transports \subseteq (SUBSET {"multicast", "broadcast"}) \ {{}}
  /\ MaxJobs \in Nat \ {0} /\ MaxFaults \in Nat /\ MaxChanges \in Nat
  /\ None \notin Nets \cup Leg

VARIABLES
  up,        \* the networks there are
  wanted,    \* those the settings do not exclude
  nets,      \* the networks the node works on (opts.networks)
  receiver,  \* the receiving socket: "none", "opening", "open", "dead"
  joined,    \* the networks on which the receiving socket really is in the group
  forgotten, \* those on which the system dropped it without a word
  legs,      \* the sender of a network: a Leg or None
  senders,   \* the open sending sockets of a network
  transport,
  jobs,      \* the jobs on the legs in the order of their arrival (_syncing)
  resting,   \* a repair was attempted, and its gap has not passed (repairAt, repairGap)
  stopped,
  faults, changes

Job == [kind : {"sync", "repair"}, stage : {"waits", "receiver", "mend", "drop", "open"},
        left : SUBSET Nets, at : Nets \cup {None}, anew : BOOLEAN]

TypeOK ==
  /\ up \subseteq Nets /\ wanted \subseteq Nets /\ nets \in (SUBSET Nets) \ {{}}
  /\ receiver \in {"none", "opening", "open", "dead"} /\ joined \subseteq Nets
  /\ forgotten \subseteq Nets
  /\ legs \in [Nets -> Leg \cup {None}]
  /\ senders \in [Nets -> 0..(MaxJobs + 1)] /\ transport \in Transports
  /\ jobs \in Seq(Job) /\ Len(jobs) <= MaxJobs
  /\ resting \in BOOLEAN /\ stopped \in BOOLEAN
  /\ faults \in 0..MaxFaults /\ changes \in 0..MaxChanges

legsVars == <<up, wanted, nets, receiver, joined, forgotten, legs, senders, transport, jobs,
              resting, stopped, faults, changes>>

\* The node has started: every network that was there has its leg.
Init ==
  /\ up \in (SUBSET Nets) \ {{}} /\ wanted = Nets /\ nets = up
  /\ receiver = "open" /\ transport \in Transports
  /\ joined = (IF "multicast" \in transport THEN up ELSE {}) /\ forgotten = {}
  /\ legs = [a \in Nets |-> IF a \in up THEN [channels |-> transport, broken |-> FALSE] ELSE None]
  /\ senders = [a \in Nets |-> IF a \in up THEN 1 ELSE 0]
  /\ jobs = <<>> /\ resting = FALSE /\ stopped = FALSE
  /\ faults = 0 /\ changes = 0

----------------------------------------------------------------------------
(* What the watch finds.                                                   *)

HasLegs == {a \in Nets : legs[a] # None}

Healthy(leg) == leg # None /\ ~leg.broken /\ transport \subseteq leg.channels

NeedsRepair ==
  /\ ~stopped /\ receiver # "none"
  /\ receiver = "dead" \/ \E a \in nets : ~Healthy(legs[a])

NewJob(kind) == [kind |-> kind, stage |-> "waits", left |-> {}, at |-> None, anew |-> FALSE]
Queued(kind) == Len(jobs) < MaxJobs /\ jobs' = Append(jobs, NewJob(kind))

\* setNetworks
Adopt(in) == nets' = in /\ Queued("sync")

\* _watchNetworks, every 5 seconds: without any network the old ones stay.
Watch ==
  LET now == up \cap wanted IN
  /\ now # {}
  /\ IF now # nets THEN Adopt(now) /\ UNCHANGED resting
     ELSE IF NeedsRepair THEN ~resting /\ Queued("repair") /\ resting' = TRUE /\ UNCHANGED nets
     ELSE UNCHANGED <<nets, jobs, resting>>
  /\ UNCHANGED <<up, wanted, receiver, joined, forgotten, legs, senders, transport, stopped,
                 faults, changes>>

\* The gap between two repairs has passed.
Rested ==
  /\ resting /\ resting' = FALSE
  /\ UNCHANGED <<up, wanted, nets, receiver, joined, forgotten, legs, senders, transport, jobs,
                 stopped, faults, changes>>

----------------------------------------------------------------------------
(* The jobs.                                                               *)

\* A job runs when those before it are done.
Turn(i) == i = 1 /\ jobs # <<>>

Moves(i, stage, left, at, anew) ==
  jobs' = [jobs EXCEPT ![i] = [@ EXCEPT !.stage = stage, !.left = left, !.at = at, !.anew = anew]]
Done(i) == jobs' = SubSeq(jobs, 1, i - 1) \o SubSeq(jobs, i + 1, Len(jobs))
On(i, stage) == Turn(i) /\ jobs[i].stage = stage

\* The leg is closed and the receiving socket leaves the group.
CloseLeg(a) ==
  /\ legs' = [legs EXCEPT ![a] = None] /\ senders' = [senders EXCEPT ![a] = @ - 1]
  /\ joined' = joined \ {a} /\ forgotten' = forgotten \ {a}

Same == <<up, wanted, nets, transport, resting, stopped, faults, changes>>
SameSockets == <<receiver, joined, forgotten, legs, senders>>

\* _syncLegsNow begins: the legs of networks that are gone are closed first.
BeginsToSync(i) == Moves(i, "drop", HasLegs \ nets, None, FALSE)

\* A job begins; a repair opens a dead receiving socket anew, which is in no group yet.
Begin(i) ==
  /\ On(i, "waits")
  /\ UNCHANGED Same
  /\ IF jobs[i].kind = "sync" THEN BeginsToSync(i) /\ UNCHANGED SameSockets
     ELSE IF stopped THEN Done(i) /\ UNCHANGED SameSockets
     ELSE IF receiver = "dead"
     THEN /\ receiver' = "opening" /\ joined' = {} /\ forgotten' = {}
          /\ Moves(i, "receiver", {}, None, TRUE) /\ UNCHANGED <<legs, senders>>
     ELSE Moves(i, "mend", HasLegs, None, FALSE) /\ UNCHANGED SameSockets

\* The receiving socket is bound, unless the node was stopped meanwhile.
ReceiverOpen(i) ==
  /\ On(i, "receiver")
  /\ receiver' = IF receiver = "opening" /\ ~stopped THEN "open" ELSE receiver
  /\ Moves(i, "mend", HasLegs, None, TRUE)
  /\ UNCHANGED <<joined, forgotten, legs, senders>> /\ UNCHANGED Same

\* (faulty variant: a leg that works is kept although the receiving socket is another)
KeepsHealthy(i, a) == legs[a] = None \/ Healthy(legs[a])

\* A leg stays when it works and the receiving socket is the old one.
Keeps(i, a) == legs[a] = None \/ (~jobs[i].anew /\ Healthy(legs[a]))

\* _repairNow goes through the legs.
Mend(i, a) ==
  /\ On(i, "mend") /\ a \in jobs[i].left
  /\ UNCHANGED receiver /\ UNCHANGED Same
  /\ Moves(i, "mend", jobs[i].left \ {a}, None, jobs[i].anew)
  /\ IF Keeps(i, a) THEN UNCHANGED SameSockets ELSE CloseLeg(a)

Mended(i) ==
  /\ On(i, "mend") /\ jobs[i].left = {}
  /\ BeginsToSync(i) /\ UNCHANGED SameSockets /\ UNCHANGED Same

\* _syncLegsNow: close, then open one after the other.
Drop(i, a) ==
  /\ On(i, "drop") /\ a \in jobs[i].left
  /\ UNCHANGED receiver /\ UNCHANGED Same
  /\ Moves(i, "drop", jobs[i].left \ {a}, None, FALSE)
  /\ IF legs[a] # None THEN CloseLeg(a) ELSE UNCHANGED SameSockets

Dropped(i) ==
  /\ On(i, "drop") /\ jobs[i].left = {}
  /\ Moves(i, "open", nets, None, FALSE) /\ UNCHANGED SameSockets /\ UNCHANGED Same

\* _openLeg: the socket is created, and binding it takes time.
Open(i, a) ==
  /\ On(i, "open") /\ a \in jobs[i].left /\ jobs[i].at = None
  /\ Moves(i, "open", jobs[i].left \ {a}, IF legs[a] = None THEN a ELSE None, FALSE)
  /\ senders' = IF legs[a] = None THEN [senders EXCEPT ![a] = @ + 1] ELSE senders
  /\ UNCHANGED <<receiver, joined, forgotten, legs>> /\ UNCHANGED Same

CanJoin(a) == receiver # "none" /\ "multicast" \in transport /\ a \in up

\* The socket is bound: the receiver joins the group on this network, unless that fails.
\* A network that is gone gives no leg.
Opened(i, joins) ==
  LET a == jobs[i].at IN
  /\ On(i, "open") /\ a # None
  /\ joins => CanJoin(a)
  /\ Moves(i, "open", jobs[i].left, None, FALSE)
  /\ IF ~joins /\ CanJoin(a) THEN faults < MaxFaults /\ faults' = faults + 1 ELSE UNCHANGED faults
  /\ joined' = (IF joins THEN joined \cup {a} ELSE joined)
  /\ forgotten' = (IF joins THEN forgotten \ {a} ELSE forgotten)
  /\ IF a \notin up
     THEN senders' = [senders EXCEPT ![a] = @ - 1] /\ UNCHANGED legs
     ELSE /\ legs' = [legs EXCEPT ![a] =
               [channels |-> IF joins THEN transport ELSE transport \ {"multicast"}, broken |-> FALSE]]
          /\ UNCHANGED senders
  /\ UNCHANGED <<up, wanted, nets, receiver, transport, resting, stopped, changes>>

\* The job is over; refresh asks and announces, which is not about sockets.
End(i) ==
  /\ On(i, "open") /\ jobs[i].left = {} /\ jobs[i].at = None
  /\ Done(i) /\ UNCHANGED SameSockets /\ UNCHANGED Same

JobStep ==
  \E i \in DOMAIN jobs :
    \/ Begin(i) \/ ReceiverOpen(i) \/ Mended(i) \/ Dropped(i) \/ End(i)
    \/ \E a \in Nets : Mend(i, a) \/ Drop(i, a) \/ Open(i, a)
    \/ \E joins \in BOOLEAN : Opened(i, joins)

----------------------------------------------------------------------------
(* The settings.                                                           *)

\* The networks to leave alone change; all of them cannot be left (applySettings).
Exclude(in) ==
  /\ changes < MaxChanges /\ changes' = changes + 1
  /\ in # wanted /\ up \cap in # {}
  /\ wanted' = in /\ Adopt(up \cap in)
  /\ UNCHANGED <<up, receiver, joined, forgotten, legs, senders, transport, resting, stopped, faults>>

\* The channel changes: stop closes the legs there are and the receiving socket ...
Stop ==
  /\ changes < MaxChanges /\ changes' = changes + 1
  /\ ~stopped /\ receiver # "none"
  /\ stopped' = TRUE /\ receiver' = "none" /\ joined' = {} /\ forgotten' = {}
  /\ legs' = [a \in Nets |-> None]
  /\ senders' = [a \in Nets |-> IF legs[a] = None THEN senders[a] ELSE senders[a] - 1]
  /\ UNCHANGED <<up, wanted, nets, transport, jobs, resting, faults>>

\* ... start opens a receiving socket ...
Start ==
  /\ stopped /\ stopped' = FALSE /\ receiver' = "opening"
  /\ UNCHANGED <<up, wanted, nets, joined, forgotten, legs, senders, transport, jobs, resting,
                 faults, changes>>

\* ... and then the legs, for the channel set now.
Started(t) ==
  /\ ~stopped /\ receiver = "opening" /\ \A i \in DOMAIN jobs : jobs[i].stage # "receiver"
  /\ receiver' = "open" /\ transport' = t /\ Queued("sync")
  /\ UNCHANGED <<up, wanted, nets, joined, forgotten, legs, senders, resting, stopped, faults,
                 changes>>

----------------------------------------------------------------------------
(* What goes wrong.                                                        *)

Fault == faults < MaxFaults /\ faults' = faults + 1

\* A cable is pulled or the computer sleeps: the system takes the socket out of the
\* group there (comment of needsRepair), and the flags of the leg stay as they are.
Pulled(a) ==
  /\ Fault /\ a \in up
  /\ up' = up \ {a} /\ joined' = joined \ {a}
  /\ forgotten' = IF a \in joined THEN forgotten \cup {a} ELSE forgotten
  /\ UNCHANGED <<wanted, nets, receiver, legs, senders, transport, jobs, resting, stopped, changes>>

PluggedIn(a) ==
  /\ a \notin up /\ up' = up \cup {a}
  /\ UNCHANGED <<wanted, nets, receiver, joined, forgotten, legs, senders, transport, jobs, resting,
                 stopped, faults, changes>>

\* A sender reports an error or refuses to send; the receiver reports an error.
LegBreaks(a) ==
  /\ Fault /\ legs[a] # None /\ ~legs[a].broken
  /\ legs' = [legs EXCEPT ![a].broken = TRUE]
  /\ UNCHANGED <<up, wanted, nets, receiver, joined, forgotten, senders, transport, jobs, resting,
                 stopped, changes>>

ReceiverDies ==
  /\ Fault /\ receiver = "open" /\ receiver' = "dead" /\ joined' = {} /\ forgotten' = {}
  /\ UNCHANGED <<up, wanted, nets, legs, senders, transport, jobs, resting, stopped, changes>>

Next ==
  \/ Watch \/ Rested \/ JobStep \/ Stop \/ Start \/ ReceiverDies
  \/ \E t \in Transports : Started(t)
  \/ \E in \in SUBSET Nets : Exclude(in)
  \/ \E a \in Nets : Pulled(a) \/ PluggedIn(a) \/ LegBreaks(a)

Spec == Init /\ [][Next]_legsVars

\* The watch keeps looking, the jobs and the change of channel go on, gaps pass, and
\* cables are put back; faults and settings are bounded, joining fails finitely often.
Starts == Start \/ \E t \in Transports : Started(t)
FairSpec ==
  Spec /\ WF_legsVars(Watch) /\ WF_legsVars(Rested) /\ WF_legsVars(JobStep) /\ WF_legsVars(Starts)
       /\ \A a \in Nets : WF_legsVars(PluggedIn(a))

----------------------------------------------------------------------------
(* Properties.                                                             *)

\* No socket is left open that nobody knows of: between jobs, the open senders are the
\* legs (two jobs at a time opened two sockets for one address, of which the first was
\* never closed; comment of _syncLegs).
NoStraySender ==
  jobs = <<>> => \A a \in Nets : senders[a] = IF legs[a] = None THEN 0 ELSE 1

\* Once the faults are over, the node ends up with a working leg in each of its networks
\* and none elsewhere, and hears the group wherever the system has not forgotten it.
AllMended ==
  /\ nets = up \cap wanted /\ HasLegs = nets /\ ~stopped /\ receiver = "open"
  /\ \A a \in nets : Healthy(legs[a])
  /\ "multicast" \in transport => nets \subseteq joined \cup forgotten
MendsItself == <>[]AllMended
=============================================================================
