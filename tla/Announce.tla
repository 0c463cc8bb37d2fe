------------------------------ MODULE Announce ------------------------------
(***************************************************************************)
(* When a node tells its neighbours of itself: the tempo of announcements, *)
(* their gap, the answers to questions, the farewells                      *)
(* (src/src/net/discovery.js), to whom (the circles of trust, realms.js),  *)
(* and how long a neighbour waits for the next one (cluster/peers.js).     *)
(*                                                                         *)
(* While something changes the node announces every Base ticks; each       *)
(* announcement on time without news doubles the interval, up to Idle.     *)
(* The interval travels in the announcement, and a neighbour takes the     *)
(* node for gone after three of them and some slack.                       *)
(*                                                                         *)
(* One neighbour stands for each circle.  Time is counted in ticks, and a  *)
(* timer that is due goes off before time passes on; only differences are  *)
(* kept, so time needs no bound.  The sockets are the module Legs.         *)
(***************************************************************************)
EXTENDS Integers

CONSTANTS
  Circles,      \* the circles of trust there are
  Contents,     \* what the announced fingerprint can be
  Gap,          \* MIN_GAP_MS
  Base, Idle,   \* announceIntervalMs, announceIdleIntervalMs
  Spread,       \* timerJitter, in hundredths
  Patience,     \* peerTimeoutMs
  Slack,        \* what a neighbour grants beyond three intervals
  MaxMisses,    \* (bound) announcements a neighbour misses in a row: at most one, see StaysListed
  MaxSwitches,  \* (bound) changes of the circles
  None

ConstantsOK ==
  /\ {Gap, Base, Idle, Patience, Slack} \subseteq Nat \ {0}
  /\ Gap <= Base /\ Base <= Idle
  /\ Spread \in 0..50 /\ MaxMisses \in 0..1 /\ MaxSwitches \in Nat
  /\ None \notin Contents /\ None \notin Int

VARIABLES
  phase,     \* "off", "on"; "leaving", "reopening" while the farewells are on their way;
             \* "closed" between the two halves of a change of channel; "gone"
  content,   \* the fingerprint of the node's state and directory (getSnapshot)
  told,      \* the one announced last (lastHash, lastDir), None to be told anew
  since,     \* ticks since the last announcement, Idle + Idle at most; None before the first
  interval,
  timer,     \* ticks to the next announcement (timer), None
  reply,     \* ticks to the answer that was put off (replyTimer), None
  circles,   \* the circles the node announces itself in (realms.announcing)
  listed,    \* how long the neighbour in a circle still waits; None: it has not heard the node
  misses,    \* announcements the neighbour has missed since it heard one
  behind,    \* (history) circles whose neighbour missed the announcement of a longer interval
  fellSilent,\* (history) the node was opened anew without a tick
  switches

Least(a, b) == IF a < b THEN a ELSE b
Most(a, b) == IF a > b THEN a ELSE b
Countdown == 0..(2 * Idle)
LongestWait == Most(Patience, 3 * Idle + Slack)

\* The neighbour heard the node, waited, and took it for gone.
Expired == -1

TypeOK ==
  /\ phase \in {"off", "on", "leaving", "reopening", "closed", "gone"}
  /\ fellSilent \in BOOLEAN
  /\ content \in Contents /\ told \in Contents \cup {None}
  /\ since \in Countdown \cup {None} /\ interval \in Base..Idle
  /\ timer \in Countdown \cup {None} /\ reply \in 0..Gap \cup {None}
  /\ circles \subseteq Circles /\ behind \subseteq Circles
  /\ listed \in [Circles -> Expired..LongestWait \cup {None}] /\ misses \in [Circles -> 0..MaxMisses]
  /\ switches \in 0..MaxSwitches

announceVars == <<phase, content, told, since, interval, timer, reply, circles, listed,
                  misses, behind, fellSilent, switches>>

Init ==
  /\ phase = "off" /\ content \in Contents /\ told = None /\ since = None
  /\ interval = Base /\ timer = None /\ reply = None
  /\ circles \in SUBSET Circles
  /\ listed = [c \in Circles |-> None] /\ misses = [c \in Circles |-> 0]
  /\ behind = {} /\ fellSilent = FALSE /\ switches = 0

----------------------------------------------------------------------------
(* One announcement.                                                       *)

\* The waits a period is spread over (jittered): its ends.
Jittered(i) == {i - (i * Spread) \div 100, i + (i * Spread) \div 100}

\* (faulty variant: a neighbour waits its own time, whatever was announced)
WaitsAsConfigured(next) == Patience

\* How long a neighbour waits for the announcement after one (_timeoutFor).
Waits(next) == Most(Patience, 3 * next + Slack)

\* Every circle's packet arrives at its neighbour or is lost; `lists` is what the
\* neighbours had before.
Sent(next, in, lists) ==
  \E lost \in SUBSET {c \in in : misses[c] < MaxMisses} :
    /\ listed' = [c \in Circles |-> IF c \in in \ lost THEN Waits(next) ELSE lists[c]]
    /\ misses' = [c \in Circles |-> IF c \in lost THEN misses[c] + 1
                                    ELSE IF c \in in THEN 0 ELSE misses[c]]
    /\ behind' = (behind \ in) \cup (IF next > interval THEN lost ELSE behind \cap lost)

\* The tempo after an announcement: back to Base with news, half as fast without.
Slower == Least(2 * interval, Idle)

\* (faulty variant: the answer to a question puts the next announcement off like any other)
LeavesAndPutsOff(reason, news, in, lists) ==
  /\ told' = content' /\ since' = 0
  /\ interval' = IF news \/ since = None THEN Base ELSE IF reason = "query" THEN interval ELSE Slower
  /\ timer' \in Jittered(interval')
  /\ Sent(interval', in, lists)

\* The announcement that really leaves: an answer without news leaves the tempo alone.
Leaves(reason, news, in, lists) ==
  LET first == since = None
      only == reason = "query" /\ ~news /\ ~first
      next == IF only THEN interval ELSE IF news \/ first THEN Base ELSE Slower IN
  /\ told' = content' /\ since' = 0 /\ interval' = next
  /\ IF only THEN UNCHANGED timer ELSE timer' \in Jittered(next)
  /\ Sent(next, in, lists)

\* Too soon after the last: a question gets its answer later, anything else a tick.
PutOff(reason, lists) ==
  /\ IF reason = "query"
     THEN reply' = (IF reply = None THEN Gap - since ELSE reply) /\ UNCHANGED timer
     ELSE timer' = Gap - since /\ UNCHANGED reply
  /\ listed' = lists
  /\ UNCHANGED <<since, interval, misses, behind>>

\* announce(reason), knowing the fingerprint `last`, in the circles `in`.
Announces(reason, last, in, lists) ==
  LET news == content' # last IN
  IF since = None \/ (since >= Gap /\ (news \/ reason # "change"))
  THEN Leaves(reason, news, in, lists) /\ UNCHANGED reply
  ELSE /\ told' = last
       /\ IF news \/ reason # "change" THEN PutOff(reason, lists)
          ELSE listed' = lists /\ UNCHANGED <<since, interval, timer, reply, misses, behind>>

----------------------------------------------------------------------------
(* What makes a node announce itself.                                      *)

Listens == phase \in {"on", "leaving", "reopening"}

\* start: the tempo is fast, the first announcement and the question leave.
Start ==
  /\ phase = "off"
  /\ phase' = "on" /\ UNCHANGED <<content, circles, switches, fellSilent, reply>>
  /\ Leaves("change", TRUE, circles, listed)

\* The state of the node changed (onStateChanged), perhaps back again.
Changes(v) ==
  /\ phase \in {"on", "reopening"} /\ v # content
  /\ content' = v
  /\ Announces("change", told, circles, listed)
  /\ UNCHANGED <<phase, circles, fellSilent, switches>>

\* A neighbour asks who is there (_onMessage, MSG.QUERY).
Asked ==
  /\ Listens
  /\ UNCHANGED <<content, phase, circles, fellSilent, switches>>
  /\ Announces("query", told, circles, listed)

\* The timer of the next announcement.
TickDue ==
  /\ Listens /\ timer = 0
  /\ UNCHANGED <<content, phase, circles, fellSilent, switches>>
  /\ IF since < Gap THEN told' = told /\ PutOff("tick", listed)
     ELSE Leaves("tick", content # told, circles, listed) /\ UNCHANGED reply

\* The timer of the answer: it clears itself first, and may be set anew.
ReplyDue ==
  /\ Listens /\ reply = 0
  /\ UNCHANGED <<content, phase, circles, fellSilent, switches>>
  /\ IF since < Gap
     THEN reply' = Gap - since /\ UNCHANGED <<told, since, interval, timer, listed, misses, behind>>
     ELSE reply' = None /\ Leaves("query", content # told, circles, listed)

\* The number of live networks changed, or the sockets were opened anew (refresh).
Refresh ==
  /\ phase = "on"
  /\ UNCHANGED <<content, phase, circles, fellSilent, switches>>
  /\ Announces("change", None, circles, listed)

\* The farewell takes the node from the list of a neighbour (MSG.BYE, onBye).
Farewell(in) == [c \in Circles |-> IF c \in in THEN None ELSE listed[c]]

\* The settings change the circles (applySettings): farewell where the node leaves,
\* refresh where it is now.
SwitchCircles(in) ==
  /\ phase = "on" /\ in # circles /\ switches < MaxSwitches
  /\ circles' = in /\ switches' = switches + 1
  /\ UNCHANGED <<content, phase, fellSilent>>
  /\ Announces("change", None, in, Farewell(circles \ in))

\* stop: the timers are cleared and the farewells sent; until they have left, the
\* node still answers.
Leave(to) ==
  /\ phase = "on"
  /\ phase' = to /\ timer' = None /\ reply' = None
  /\ UNCHANGED <<content, told, since, interval, circles, misses, behind, fellSilent>>
  /\ listed' = Farewell(circles)

Stop == Leave("leaving") /\ UNCHANGED switches

Stopped ==
  /\ phase = "leaving"
  /\ phase' = "gone"
  /\ UNCHANGED <<content, told, since, interval, timer, reply, circles, listed, misses, behind,
                 fellSilent, switches>>

\* The settings change the channel of the announcements: stop and start on the same
\* object (applySettings).
SwitchTransport ==
  /\ switches < MaxSwitches /\ switches' = switches + 1
  /\ Leave("reopening")

\* The sockets are closed: what changes now is not announced.
Closed ==
  /\ phase = "reopening"
  /\ phase' = "closed" /\ content' \in Contents
  /\ UNCHANGED <<told, since, interval, timer, reply, circles, listed, misses, behind, fellSilent,
                 switches>>

\* The second start of the same object: it remembers what it announced last, and with
\* nothing new to say announces nothing and sets no timer.
StartAgain ==
  /\ phase = "closed"
  /\ phase' = "on" /\ UNCHANGED <<content, circles, switches>>
  /\ IF content # told /\ since >= Gap
     THEN Leaves("change", TRUE, circles, listed) /\ UNCHANGED <<reply, fellSilent>>
     ELSE /\ interval' = Base
          /\ timer' = IF content # told THEN Gap - since ELSE timer
          /\ fellSilent' = (fellSilent \/ timer' = None)
          /\ UNCHANGED <<told, since, reply, listed, misses, behind>>

----------------------------------------------------------------------------
(* Time.                                                                   *)

Later(t) == IF t = None THEN None ELSE t - 1

\* A neighbour that has waited long enough takes the node for gone.
Waited(l) ==
  IF l \in {None, Expired} THEN l ELSE l - 1

\* The farewells leave within a tick, and a stopped node's timers do nothing.
Tick ==
  /\ phase = "on" /\ timer # 0 /\ reply # 0
  /\ since' = IF since = None THEN None ELSE Least(since + 1, 2 * Idle)
  /\ timer' = Later(timer) /\ reply' = Later(reply)
  /\ listed' = [c \in Circles |-> Waited(listed[c])]
  /\ UNCHANGED <<phase, content, told, interval, circles, misses, behind, fellSilent, switches>>

Next ==
  \/ Start \/ Asked \/ TickDue \/ ReplyDue \/ Refresh \/ Stop \/ Stopped \/ Tick
  \/ SwitchTransport \/ Closed \/ StartAgain
  \/ \E v \in Contents : Changes(v)
  \/ \E in \in SUBSET Circles : SwitchCircles(in)

Spec == Init /\ [][Next]_announceVars

\* Time passes and timers go off; nobody has to change or ask anything.
OwnSteps == Start \/ TickDue \/ ReplyDue \/ Tick \/ Closed \/ StartAgain
\* A tick that is due together with an answer, again and again, is not second every time.
TickFirst == TickDue /\ since >= Gap
FairSpec == Spec /\ WF_announceVars(OwnSteps) /\ SF_announceVars(TickFirst)

----------------------------------------------------------------------------
(* Properties.                                                             *)

\* A neighbour that hears at least every second announcement never takes a running node for
\* gone, unless the one it missed had slowed the tempo down: three of the intervals it knows of
\* may then be shorter than one of them and one of the longer ones with their spread (comment of
\* announce: the spread of the timers does not touch the wait).  A node that fell silent
\* announces nothing, see TicksOn.
StaysListed ==
  phase = "on" /\ ~fellSilent => \A c \in circles \ behind : listed[c] # Expired

\* News never waits longer than the gap between two announcements, whatever was
\* asked or announced in between.
NewsIsTold == phase = "on" /\ told # content => since <= Gap

\* A circle the node has left does not list it any more.
LeftCirclesForget == phase = "on" => \A c \in Circles \ circles : listed[c] = None

\* When the node has no news any more, its tempo settles at the slowest, however often
\* the neighbours ask: questions neither speed it up nor put its ticks off for good.
Quiet == Asked \/ TickDue \/ ReplyDue \/ Tick
SettlesDown ==
  <>[][Quiet]_announceVars => <>[](phase = "on" /\ ~fellSilent => interval = Idle)

\* A running node always has its next announcement ahead of it (docs/PROTOCOL.md: the
\* interval of the announcements is 3 s and doubles up to 30 s).
TicksOn == phase = "on" => timer # None
=============================================================================
