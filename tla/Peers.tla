------------------------------- MODULE Peers -------------------------------
(***************************************************************************)
(* Which nodes a node knows of: the registry of neighbours                 *)
(* (src/src/cluster/peers.js) and the exchange of directories between      *)
(* subnets (directory.js, the paths /peer/directory and /peer/ping of      *)
(* httpServer.js).                                                         *)
(*                                                                         *)
(* A node hears the announcements of its own subnet: these records have    *)
(* the origin "local".  A bridge, a node that was given the address of a   *)
(* node elsewhere, exchanges directories with it: "seed" for both.  The    *)
(* neighbours of a bridge see from the fingerprint in its announcement     *)
(* that it knows somebody elsewhere, and fetch its directory: "relay".     *)
(* A node that is not heard is asked directly whether it lives.            *)
(*                                                                         *)
(* Time passes in periods (Tick).  In each period every running node       *)
(* announces itself, exchanges directories and asks the nodes it does not  *)
(* hear once; an announcement or an exchange may be lost.                  *)
(***************************************************************************)
EXTENDS Naturals, FiniteSets

CONSTANTS
  Nodes, Segments,
  Segment,      \* the subnet of each node
  Seeds,        \* pairs: the first has the address of the second in its settings
  NoRoute,      \* pairs: the first cannot reach the second, neither directly nor by a tunnel
  Mortal,       \* the nodes that may stop
  LocalTimeout, \* periods of silence after which a neighbour is offline
  ToldTimeout,  \* ... a node of another subnet
  ForgetAfter,  \* ... and after which any is forgotten
  MaxStops,     \* (bound) crashes and farewells
  MaxLosses,    \* (bound) lost announcements, farewells, answers
  None

ASSUME ConstantsOK ==
  /\ Segment \in [Nodes -> Segments]
  /\ Seeds \subseteq Nodes \X Nodes /\ NoRoute \subseteq Nodes \X Nodes
  /\ Mortal \subseteq Nodes
  /\ LocalTimeout \in Nat /\ ToldTimeout \in Nat /\ ForgetAfter \in Nat
  /\ ForgetAfter >= LocalTimeout + ToldTimeout
  /\ MaxStops \in Nat /\ MaxLosses \in Nat
  /\ None \notin Nodes \cup Segments

VARIABLES
  status,   \* of a node: "up", "crashed", or "left" when it said farewell
  peers,    \* peers[i][x]: what i has recorded of x, or None
  pulled,   \* pulled[i][k]: the fingerprint of k's directory i has fetched last
  timers,   \* the neighbours whose directory is to be fetched in a moment
  due,      \* what the period still has to bring: announcements, exchanges, polls
  stops, losses

vars == <<status, peers, pulled, timers, due, stops, losses>>

\* A fingerprint is a hash of the set of nodes it stands for; here it is the set.
Fingerprints == SUBSET Nodes

\* via: who told of the node last; tellers: everybody a route by whom is kept.
Records == [origin : {"local", "seed", "relay"}, online : BOOLEAN, silence : 0..ForgetAfter,
            via : Nodes \cup {None}, tellers : SUBSET Nodes, dir : Fingerprints]

Tasks == ({"announce", "poll"} \X Nodes \X {None}) \cup ({"exchange"} \X Nodes \X Nodes)

Up == {n \in Nodes : status[n] = "up"}

Agenda == ({"announce", "poll"} \X Up \X {None})
          \cup {<<"exchange", s[1], s[2]>> : s \in {p \in Seeds : p[1] \in Up}}

TypeOK ==
  /\ status \in [Nodes -> {"up", "crashed", "left"}]
  /\ peers \in [Nodes -> [Nodes -> Records \cup {None}]]
  /\ pulled \in [Nodes -> [Nodes -> Fingerprints \cup {None}]]
  /\ timers \in [Nodes -> SUBSET Nodes]
  /\ due \subseteq Tasks
  /\ stops \in 0..MaxStops /\ losses \in 0..MaxLosses

Empty == [x \in Nodes |-> None]

Init ==
  /\ status = [n \in Nodes |-> "up"]
  /\ peers = [n \in Nodes |-> Empty]
  /\ pulled = [n \in Nodes |-> Empty]
  /\ timers = [n \in Nodes |-> {}]
  /\ due = Agenda
  /\ stops = 0 /\ losses = 0

Known(i, x) == peers[i][x] # None
Neighbours(n) == {m \in Nodes \ {n} : Segment[m] = Segment[n]}

-----------------------------------------------------------------------------
(* What a node tells, and what it makes of what it is told. *)

\* The nodes it knows by an exchange (bridged): its fingerprint stands for them.
Bridged(k) == {x \in Nodes : Known(k, x) /\ peers[k][x].origin = "seed" /\ peers[k][x].online}

\* SHAREABLE: what was learned by a relay is not told again.
Shareable(r) == r # None /\ r.origin \in {"local", "seed"}

\* (faulty variant: also nodes that are offline here)
ToldOffline(k, table, network) ==
  {k} \cup {x \in Nodes : Shareable(table[x]) /\ (table[x].origin = "local" => network # Segment[k])}

\* directoryEntries with the node itself in front: k tells what its table holds to somebody
\* of the given subnet, who is not told of the neighbours he hears himself.
Told(k, table, network) ==
  {k} \cup {x \in Nodes : /\ Shareable(table[x]) /\ table[x].online
                          /\ table[x].origin = "local" => network # Segment[k]}

Merged(r, origin, teller) ==
  CASE r = None -> [origin |-> origin, online |-> TRUE, silence |-> 0,
                    via |-> teller, tellers |-> {teller}, dir |-> {}]
    [] r # None /\ r.origin = "local" -> r
    [] r # None /\ r.origin = "seed" /\ origin = "relay" ->
         [r EXCEPT !.silence = 0, !.tellers = @ \cup {teller}]
    [] OTHER -> [r EXCEPT !.origin = origin, !.online = TRUE, !.silence = 0,
                          !.via = teller, !.tellers = @ \cup {teller}]

\* onDirectory: the table of i, when the teller's directory is read.
OnDirectory(i, entries, origin, teller) ==
  [x \in Nodes |-> IF x \in entries \ {i} THEN Merged(peers[i][x], origin, teller) ELSE peers[i][x]]

\* (faulty variant: the fingerprint of the one who told of the node is kept)
ForgetOwnOnly(fetched, table, gone) == [k \in Nodes |-> IF k \in gone THEN None ELSE fetched[k]]

\* _forgetPulled: a fingerprint that stood for a record now gone stands for nothing.
ForgetPulled(fetched, table, gone) ==
  [k \in Nodes |-> IF \E x \in gone : k = x \/ k = table[x].via \/ k \in table[x].tellers
                     THEN None ELSE fetched[k]]

Without(table, gone) == [x \in Nodes |-> IF x \in gone THEN None ELSE table[x]]

-----------------------------------------------------------------------------
(* Announcements and the fetching of directories. *)

Loses(missed) ==
  /\ losses + Cardinality(missed) <= MaxLosses
  /\ losses' = losses + Cardinality(missed)

\* onAnnounce
Heard(r, dir) ==
  IF r = None
    THEN [origin |-> "local", online |-> TRUE, silence |-> 0, via |-> None, tellers |-> {}, dir |-> dir]
    ELSE [r EXCEPT !.origin = "local", !.online = TRUE, !.silence = 0, !.via = None, !.dir = dir]

\* One announcement, with the fingerprint; some neighbours may miss it.
Announce(j) ==
  /\ <<"announce", j, None>> \in due
  /\ due' = due \ {<<"announce", j, None>>}
  /\ \E missed \in SUBSET (Neighbours(j) \cap Up) :
       /\ Loses(missed)
       /\ LET hearers == (Neighbours(j) \cap Up) \ missed
              dir == Bridged(j) IN
            /\ peers' = [i \in Nodes |-> IF i \in hearers THEN [peers[i] EXCEPT ![j] = Heard(@, dir)]
                                                        ELSE peers[i]]
            /\ timers' = [i \in Nodes |-> IF i \in hearers /\ dir # {} /\ pulled[i][j] # dir
                                            THEN timers[i] \cup {j} ELSE timers[i]]
  /\ UNCHANGED <<status, pulled, stops>>

\* _pullLocal, half a second later: reads the directory of a neighbour.
Fetch(i, k) ==
  /\ k \in timers[i]
  /\ timers' = [timers EXCEPT ![i] = @ \ {k}]
  /\ LET answers == Known(i, k) /\ peers[i][k].origin = "local" /\ k \in Up IN
       \/ /\ answers
          /\ peers' = [peers EXCEPT ![i] = OnDirectory(i, Told(k, peers[k], Segment[i]), "relay", k)]
          /\ pulled' = [pulled EXCEPT ![i][k] = peers[i][k].dir]
          /\ UNCHANGED losses
       \/ ~answers /\ UNCHANGED <<peers, pulled, losses>>
       \/ answers /\ Loses({k}) /\ UNCHANGED <<peers, pulled>>
  /\ UNCHANGED <<status, due, stops>>

-----------------------------------------------------------------------------
(* What crosses subnets. *)

Reaches(i, k) == k \in Up /\ <<i, k>> \notin NoRoute

\* _round, _exchange and _share at i, POST /peer/directory at k: both sides tell what
\* they know.  The first half happens at k; the answer may be lost on its way back.
Exchange(i, k) ==
  /\ <<"exchange", i, k>> \in due
  /\ due' = due \ {<<"exchange", i, k>>}
  /\ LET origin == IF Segment[i] = Segment[k] THEN "relay" ELSE "seed"
         atK == OnDirectory(k, Told(i, peers[i], None), origin, i)
         answer == Told(k, atK, IF Segment[i] = Segment[k] THEN Segment[i] ELSE None) IN
       \/ /\ Reaches(i, k)
          /\ peers' = [peers EXCEPT ![k] = atK, ![i] = OnDirectory(i, answer, "seed", k)]
          /\ UNCHANGED losses
       \/ Reaches(i, k) /\ Loses({k}) /\ peers' = [peers EXCEPT ![k] = atK]
       \/ ~Reaches(i, k) /\ UNCHANGED <<peers, losses>>
  /\ UNCHANGED <<status, pulled, timers, stops>>

\* _pollRemote: the nodes of other subnets are asked for a sign of life.
Poll(i) ==
  /\ <<"poll", i, None>> \in due
  /\ due' = due \ {<<"poll", i, None>>}
  /\ LET asked == {x \in Nodes : Known(i, x) /\ peers[i][x].origin # "local" /\ Reaches(i, x)} IN
       \E silent \in SUBSET asked :
         /\ Loses(silent)
         /\ peers' = [peers EXCEPT ![i] =
              [x \in Nodes |-> IF x \in asked \ silent THEN [@[x] EXCEPT !.silence = 0, !.online = TRUE]
                                                      ELSE @[x]]]
  /\ UNCHANGED <<status, pulled, timers, stops>>

-----------------------------------------------------------------------------
(* Time, and nodes that come and go. *)

TimeoutOf(r) == IF r.origin = "local" THEN LocalTimeout ELSE ToldTimeout

Older(r) == [r EXCEPT !.silence = @ + 1, !.online = @ /\ r.silence + 1 <= TimeoutOf(r)]

\* _sweep, when a period is over: the silent go offline, and later are forgotten.
Tick ==
  /\ due = {} /\ \A i \in Nodes : timers[i] = {}
  /\ LET gone(i) == {x \in Nodes : Known(i, x) /\ peers[i][x].silence = ForgetAfter} IN
       /\ peers' = [i \in Nodes |-> [x \in Nodes |->
            IF Known(i, x) /\ x \notin gone(i) THEN Older(peers[i][x]) ELSE None]]
       /\ pulled' = [i \in Nodes |-> ForgetPulled(pulled[i], peers[i], gone(i))]
  /\ due' = Agenda
  /\ UNCHANGED <<status, timers, stops, losses>>

\* The process ends, and everything it knew with it.
Ends(x, how, others, fetched) ==
  /\ x \in Mortal \cap Up /\ stops < MaxStops
  /\ status' = [status EXCEPT ![x] = how]
  /\ peers' = [others EXCEPT ![x] = Empty]
  /\ pulled' = [fetched EXCEPT ![x] = Empty]
  /\ timers' = [timers EXCEPT ![x] = {}]
  /\ due' = {t \in due : t[2] # x}
  /\ stops' = stops + 1

Crash(x) == Ends(x, "crashed", peers, pulled) /\ UNCHANGED losses

\* farewell and onBye: only a neighbour that hears the node itself forgets it at once.
Leave(x) ==
  \E missed \in SUBSET (Neighbours(x) \cap Up) :
    LET told == {i \in (Neighbours(x) \cap Up) \ missed : Known(i, x) /\ peers[i][x].origin = "local"} IN
      /\ Loses(missed)
      /\ Ends(x, "left",
              [i \in Nodes |-> IF i \in told THEN Without(peers[i], {x}) ELSE peers[i]],
              [i \in Nodes |-> IF i \in told THEN ForgetPulled(pulled[i], peers[i], {x}) ELSE pulled[i]])

Return(x) ==
  /\ status[x] # "up"
  /\ status' = [status EXCEPT ![x] = "up"]
  /\ due' = due \cup ({"announce", "poll"} \X {x} \X {None})
                \cup {<<"exchange", s[1], s[2]>> : s \in {p \in Seeds : p[1] = x}}
  /\ UNCHANGED <<peers, pulled, timers, stops, losses>>

Talk == \/ \E j \in Nodes : Announce(j) \/ Poll(j)
        \/ \E i, k \in Nodes : Fetch(i, k) \/ Exchange(i, k)

Next == Talk \/ Tick \/ \E x \in Nodes : Crash(x) \/ Leave(x) \/ Return(x)

Spec == Init /\ [][Next]_vars

\* Timers and sockets of running nodes go on; nobody has to come back or to stop.
FairSpec == Spec /\ WF_vars(Talk) /\ WF_vars(Tick)

-----------------------------------------------------------------------------
(* Properties *)

\* A node that has crashed is forgotten by everybody, although two bridges go on telling
\* each other what they know: the one that heard it stops telling before the other's
\* word can reach it as news (_sweep, directoryEntries, onDirectory).
CrashedIsForgotten ==
  \A x \in Nodes : [](status[x] # "left") /\ <>[](status[x] = "crashed")
                     => <>[](\A i \in Nodes : ~Known(i, x))

\* The same of a node that has said farewell (onBye: it disappears as soon as the
\* exchange no longer confirms it).
GoneIsForgotten ==
  \A x \in Nodes : <>[](status[x] = "left") => <>[](\A i \in Nodes : ~Known(i, x))

\* One who is told of by a bridge of one's own subnet is not lost for good: when his
\* record goes, its fingerprint goes too, and the directory is read again (_forgetPulled).
\* Running neighbours and partners of an exchange are never lost for good either.
RunningIsKnown ==
  /\ \A i \in Nodes : \A x \in Neighbours(i) :
       <>[](status[i] = "up" /\ status[x] = "up") => []<>Known(i, x)
  /\ \A i, x \in Nodes : \A s \in Seeds :
       /\ {Segment[i], Segment[x]} = {Segment[s[1]], Segment[s[2]]} /\ Segment[i] # Segment[x]
       /\ <>[](\A n \in {i, x, s[1], s[2]} : status[n] = "up")
       => []<>Known(i, x)
=============================================================================
