------------------------------ MODULE Circles ------------------------------
(***************************************************************************)
(* Circles of trust (src/net/realms.js, src/net/protocol.js): one node     *)
(* watches a neighbour, lists it by what it hears of it, and calls it.  A  *)
(* circle is a key, or the open circle, which has none and consists of two *)
(* halves, seeing others (see) and being seen by them (show).              *)
(*                                                                         *)
(* The neighbour announces itself once per round in each of its circles;   *)
(* announcements may be lost, though not too many in a row; a farewell may *)
(* be lost or come twice, since every packet is sent to the multicast      *)
(* group and to the broadcast address.  Both change their circles; between *)
(* the new settings and what follows from them applySettings may wait.     *)
(* A key that is recorded and announced is good for both sides' clocks.    *)
(***************************************************************************)
EXTENDS Naturals, FiniteSets

CONSTANTS
  Keys,         \* keys of closed circles; such a circle is known by its key (realmOf)
  Ids,          \* the entries for networks in the settings of the watching node
  Limit,        \* rounds until an announcement is too old (timeoutMs)
  MaxMisses,    \* announcements of a circle that are lost in a row
  MaxChanges,   \* changes of settings, of both
  None

Open == "open"
Gone == "gone"
Kept == "kept"

ConstantsOK ==
  /\ Limit \in Nat /\ MaxMisses \in Nat /\ Limit > MaxMisses + 1
  /\ Keys \cap {Open, Gone, Kept} = {} /\ None \notin Keys \cup {Open} /\ None \notin 0..Limit

Circles == Keys \cup {Open}

VARIABLES
  nets, see,      \* networks and seeOpen of the watching node
  their,          \* the neighbour's settings: [keys, see, show]
  settling,       \* the watching node has new settings and has not yet called retainRealms
  leaving,        \* circles the neighbour has left and not yet said farewell in
  due,            \* circles of the neighbour's announcement still to be heard
  misses,         \* announcements lost in a row
  listed, realm,  \* the record of the neighbour: there is one, and in which circle
  seen,           \* realmSeen: rounds since it was heard in a circle, or None
  changes

vars == <<nets, see, their, settling, leaving, due, misses, listed, realm, seen, changes>>
Mine == <<nets, see, settling>>
Record == <<listed, realm, seen>>

\* keyed, listening and, of the neighbour, announcing.
Keyed == {nets[i] : i \in Ids} \ {None}
Listening == Keyed \cup (IF see THEN {Open} ELSE {})
Announcing(t) == t.keys \cup (IF t.show THEN {Open} ELSE {})

Theirs == [keys : SUBSET Keys, see : BOOLEAN, show : BOOLEAN]

Init ==
  /\ nets \in [Ids -> Keys] /\ \A i, j \in Ids : i # j => nets[i] # nets[j]
  /\ see = TRUE /\ their \in [keys : {Keyed}, see : {TRUE}, show : BOOLEAN]
  /\ settling = FALSE /\ leaving = {} /\ due = {} /\ misses = [c \in Circles |-> 0]
  /\ listed = FALSE /\ realm = None /\ seen = [c \in Circles |-> None] /\ changes = 0

----------------------------------------------------------------------------
(* Hearing.                                                                *)

Fresh(s) == {c \in Circles : s[c] # None /\ s[c] < Limit}

\* _pickRealm: the keyed circle of the record as long as it is heard, else another keyed
\* one, else the open one; old if nothing is fresh.
Picks(old, s) ==
  IF old \in Fresh(s) \ {Open} THEN {old}
  ELSE IF Fresh(s) \ {Open} # {} THEN Fresh(s) \ {Open}
  ELSE IF Open \in Fresh(s) THEN {Open} ELSE {old}

\* unpackDatagram and onAnnounce: the label of the circle chooses the key, and only a
\* circle listened to has one.
Hear(c) ==
  /\ c \in due /\ due' = due \ {c} /\ misses' = [misses EXCEPT ![c] = 0]
  /\ IF c \in Listening
       THEN /\ listed' = TRUE /\ seen' = [seen EXCEPT ![c] = 0]
            /\ realm' \in Picks(realm, seen')
       ELSE UNCHANGED Record
  /\ UNCHANGED <<Mine, their, leaving, changes>>

Miss(c) ==
  /\ c \in due /\ due' = due \ {c} /\ misses[c] < MaxMisses /\ misses' = [misses EXCEPT ![c] = @ + 1]
  /\ UNCHANGED <<Mine, their, leaving, Record, changes>>

\* A round: the next announcement leaves.
Round ==
  /\ due = {} /\ due' = Announcing(their)
  /\ seen' = [c \in Circles |-> IF seen[c] \in {None, Limit} THEN seen[c] ELSE seen[c] + 1]
  /\ UNCHANGED <<Mine, their, leaving, misses, listed, realm, changes>>

Blank == listed' = FALSE /\ realm' = None /\ seen' = [c \in Circles |-> None]

\* The sweep of the registry drops a neighbour that has not been heard for long.
Sweep ==
  /\ listed /\ Fresh(seen) = {} /\ Blank
  /\ UNCHANGED <<Mine, their, leaving, due, misses, changes>>

\* onBye, which may come n times: a farewell from one circle leaves a record heard in
\* another; one from a circle that is not in realmSeen removes it.
Bye(c, n) ==
  LET left == [seen EXCEPT ![c] = None] IN
  IF n = 0 \/ c \notin Listening \/ ~listed THEN UNCHANGED Record
  ELSE IF n = 1 /\ seen[c] # None /\ Fresh(left) # {}
    THEN seen' = left /\ realm' \in Picks(realm, left) /\ UNCHANGED listed
    ELSE Blank

Farewell(c) ==
  /\ c \in leaving /\ leaving' = leaving \ {c}
  /\ \E n \in 0 .. 2 : Bye(c, n)
  /\ UNCHANGED <<Mine, their, due, misses, changes>>

----------------------------------------------------------------------------
(* Settings.                                                               *)

Changed == changes < MaxChanges /\ changes' = changes + 1

\* _cleanNetworks: an entry with no key keeps the one it has (keys are never sent to the
\* interface), one that is missing is gone, and no key is there twice.
Cleaned(raw) == [i \in Ids |-> IF raw[i] = Kept THEN nets[i] ELSE IF raw[i] = Gone THEN None ELSE raw[i]]

Apply ==
  /\ ~settling /\ settling' = TRUE /\ Changed
  /\ \E raw \in [Ids -> Keys \cup {Gone, Kept}], s \in BOOLEAN :
       /\ nets' = Cleaned(raw) /\ see' = s
       /\ \A i, j \in Ids : i # j /\ nets'[i] # None => nets'[i] # nets'[j]
       /\ <<nets', see'>> # <<nets, see>>
  /\ UNCHANGED <<their, leaving, due, misses, Record>>

\* retainRealms: circles left are forgotten, and a record in one of them moves to another
\* in which the neighbour is heard, or goes.
Settle ==
  LET kept == [c \in Circles |-> IF c \in Listening THEN seen[c] ELSE None] IN
  /\ settling /\ settling' = FALSE
  /\ IF ~listed THEN UNCHANGED Record
     ELSE IF realm \in Listening THEN seen' = kept /\ UNCHANGED <<listed, realm>>
     ELSE \E r \in Picks(realm, kept) :
            IF r \in Listening THEN seen' = kept /\ realm' = r /\ UNCHANGED listed ELSE Blank
  /\ UNCHANGED <<nets, see, their, leaving, due, misses, changes>>

\* The neighbour's settings: it says farewell in the circles it has left, by their old
\* keys, and announces itself at once in the others.
TheyApply ==
  /\ leaving = {} /\ Changed
  /\ \E t \in Theirs \ {their} : their' = t /\ leaving' = Announcing(their) \ Announcing(t)
  /\ UNCHANGED <<Mine, due, misses, Record>>

Next ==
  \/ Round \/ Sweep \/ Apply \/ Settle \/ TheyApply
  \/ \E c \in Circles : Hear(c) \/ Miss(c) \/ Farewell(c)

Packets == Round \/ Sweep \/ Settle \/ \E c \in Circles : Hear(c) \/ Miss(c) \/ Farewell(c)
Spec == Init /\ [][Next]_vars
FairSpec ==
  /\ Spec
  /\ WF_vars(Packets) /\ WF_vars(Settle) /\ WF_vars(Sweep)
  /\ \A c \in Circles : WF_vars(Farewell(c))

----------------------------------------------------------------------------
(* Calls.                                                                  *)

\* rpc: a call is signed by the key of the record's circle, if it is still one of ours
\* (keyFor).
CallKey == IF realm \in Keyed THEN realm ELSE None

\* matchRequest: a signature must fit one of the keys, a call without one needs the open
\* circle, of which either half will do (serving).
Matches(key) == IF key = None THEN their.see \/ their.show ELSE key \in their.keys

\* _handlePeer of the neighbour refuses what matches no circle.
Served == Matches(CallKey)

----------------------------------------------------------------------------
(* Properties.                                                             *)

TypeOK ==
  /\ nets \in [Ids -> Keys \cup {None}] /\ their \in Theirs /\ leaving \cup due \subseteq Circles
  /\ seen \in [Circles -> (0 .. Limit) \cup {None}] /\ realm \in Circles \cup {None}
  /\ listed <=> realm # None

\* The record speaks in a circle the node still belongs to, once its settings have been
\* applied, and without a key only while it is heard with none of the keys (comment of
\* _pickRealm: the record jumped between circles, now signed and now not).
SpeaksItsCircle ==
  /\ listed /\ ~settling => realm \in Listening
  /\ realm = Open /\ ~settling => Fresh(seen) \subseteq {Open}

\* When the settings stay, the neighbour is listed exactly if there is a circle it is
\* announced in and listened to, and then it answers the calls.
SeesItsOwn ==
  <>[](/\ listed <=> Announcing(their) \cap Listening # {}
       /\ listed => Served)

\* A neighbour heard in a circle that both stay in is not taken off the list (test: a
\* farewell from one circle does not remove a node heard in another).
HeardStaysListed ==
  [][\A c \in Fresh(seen) \cap Listening \cap Listening' \cap Announcing(their) :
       listed => listed']_vars
=============================================================================
