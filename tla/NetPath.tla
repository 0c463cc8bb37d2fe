------------------------------- MODULE NetPath -------------------------------
(***************************************************************************)
(* The holder's side of a network card: attach and detach of               *)
(* src/src/core/attachManager.js, borrow and giveBack of core/netShare.js, *)
(* the pool of TAP adapters, the relay that holds an adapter open          *)
(* (net/relayKeeper.js, net/tapRelay.js), and the channel to the owner     *)
(* (net/tapLink.js).                                                       *)
(*                                                                         *)
(* To attach a card is to ask its owner for a right and a pass, to find or *)
(* create an adapter, to open it, to dial the owner with the pass and to   *)
(* set the addresses of the card.  Each of these waits, and beside them    *)
(* run: other attachments, the answer of the user who gives a card back,   *)
(* the owner who revokes the right, the relay and the channel that fail    *)
(* and are restored, and the reaper that removes adapters nobody uses.     *)
(* The owner is here only the pass that opens its channel.                 *)
(***************************************************************************)
EXTENDS Naturals, FiniteSets

CONSTANTS
  Cards,        \* cards of other nodes that may be attached
  MaxTaps,      \* (bound) adapters there can be at a time
  MaxAttaches,  \* (bound) attachments
  MaxFailures,  \* (bound) steps that fail, channels that break, messages that are lost
  MaxStops,     \* (bound) crashes of the holder's program
  Attempts,     \* first dials before an attachment fails (4 in _connect)
  MaxFalls,     \* restarts of a relay before it is given up (MAX_RELAY_RESTARTS, 5)
  Overlap,      \* whether a target is revoked or attached anew while it is attached
  Devcon,       \* whether adapters are created by devcon, which does not name them
  None

ASSUME ConstantsOK ==
  /\ MaxTaps \in Nat /\ MaxAttaches \in Nat /\ MaxFailures \in Nat /\ MaxStops \in Nat
  /\ Attempts \in Nat \ {0} /\ MaxFalls \in Nat
  /\ Overlap \in BOOLEAN /\ Devcon \in BOOLEAN /\ None \notin Nat

VARIABLES
  pass,         \* (the owner) the pass that opens the channel of a card, or 0
  attachments,  \* attachments[c]: the attachment of a card, or 0
  borrows,      \* borrows[c]: whose path is at hand for giveBack, or 0
  path,         \* path[n]: the attachment number n and its path
  present,      \* (Windows) the adapters there are
  records,      \* (config.json, tapAdapters) the adapters the program takes for its own
  busyTaps,     \* adapters in use or being removed
  reaping,      \* adapters being removed
  count         \* of attachments, failures and stops

own == <<attachments, borrows, path>>
pool == <<present, records, busyTaps, reaping>>
vars == <<pass, attachments, borrows, path, present, records, busyTaps, reaping, count>>

Attaches == 1..MaxAttaches
Taps == 1..MaxTaps

\* stop: how far _stopBorrow is; leave: how far detach is.
Paths == [card : Cards \cup {None}, tap : Taps \cup {None}, seen : SUBSET Taps, token : 0..MaxAttaches,
          pc : {"idle", "claim", "takeover", "list", "pick", "create", "new", "relay", "dial", "ip",
                "attached", "failed", "rollback", "stuck", "over"},
          relay : {"none", "opening", "up", "down", "failed", "closing"}, falls : 0..MaxFalls,
          client : {"none", "on", "lost", "rejected", "off"}, stale : BOOLEAN, dials : 0..Attempts,
          stop : {"no", "relay", "done"}, leave : {"no", "giving", "givingKept", "releasing", "keeping"}]

TypeOK ==
  /\ pass \in [Cards -> 0..MaxAttaches]
  /\ attachments \in [Cards -> 0..MaxAttaches] /\ borrows \in [Cards -> 0..MaxAttaches]
  /\ path \in [Attaches -> Paths]
  /\ present \subseteq Taps /\ records \subseteq Taps /\ busyTaps \subseteq Taps /\ reaping \subseteq Taps
  /\ count \in [attaches : 0..MaxAttaches, failures : 0..MaxFailures, stops : 0..MaxStops]

Idle == [card |-> None, tap |-> None, seen |-> {}, token |-> 0, pc |-> "idle", relay |-> "none", falls |-> 0,
         client |-> "none", stale |-> FALSE, dials |-> 0, stop |-> "no", leave |-> "no"]

Init ==
  /\ pass = [c \in Cards |-> 0] /\ attachments = [c \in Cards |-> 0] /\ borrows = [c \in Cards |-> 0]
  /\ path = [n \in Attaches |-> Idle]
  /\ present = {} /\ records = {} /\ busyTaps = {} /\ reaping = {}
  /\ count = [attaches |-> 0, failures |-> 0, stops |-> 0]

\* Done, but for a relay that is still to be let go.
Over(p) == LET holds == p.relay \in {"opening", "closing"} IN
  [Idle EXCEPT !.pc = "over", !.stop = "done", !.relay = IF holds THEN p.relay ELSE "none",
               !.tap = IF holds THEN p.tap ELSE None]

At(n, pc) == path[n].pc = pc
Card(n) == path[n].card
Stopped(n) == path[n].stop # "no"
GoTo(n, pc) == path' = [path EXCEPT ![n].pc = pc]
OneFails == count.failures < MaxFailures /\ count' = [count EXCEPT !.failures = @ + 1]
Making(n) == ~(path[n].pc \in {"idle", "attached", "over"})

-----------------------------------------------------------------------------
(* _stopBorrow: the path is marked as stopped and forgotten, the channel closed; the   *)
(* adapter is free when the relay has let it go.                                       *)

StoppedRelay(r) == IF r = "up" THEN "closing" ELSE IF r = "down" THEN "none" ELSE r

Stop(p) == [p EXCEPT !.stop = "relay", !.relay = StoppedRelay(@),
                     !.client = IF @ = "none" THEN @ ELSE "off"]

\* The error branch of borrow.
Fail(n) ==
  /\ path' = [path EXCEPT ![n] = [Stop(@) EXCEPT !.pc = "failed"]]
  /\ borrows' = [borrows EXCEPT ![Card(n)] = 0]

\* (faulty variant: the adapter stays marked as busy)
FreedNoRelease(n) ==
  /\ path[n].stop = "relay" /\ path[n].relay # "closing"
  /\ path' = [path EXCEPT ![n].stop = "done", ![n].pc = IF @ = "failed" THEN "rollback" ELSE @]
  /\ UNCHANGED <<pass, attachments, borrows, pool, count>>

Freed(n) ==
  /\ path[n].stop = "relay" /\ path[n].relay # "closing"
  /\ path' = [path EXCEPT ![n].stop = "done", ![n].pc = IF @ = "failed" THEN "rollback" ELSE @]
  /\ busyTaps' = busyTaps \ {path[n].tap}
  /\ UNCHANGED <<pass, attachments, borrows, present, records, reaping, count>>

-----------------------------------------------------------------------------
(* attach *)

Attach(c) ==
  LET n == count.attaches + 1 IN
  /\ count.attaches < MaxAttaches /\ count' = [count EXCEPT !.attaches = @ + 1]
  /\ attachments[c] # 0 => LET p == path[attachments[c]] IN
       \/ p.leave # "no" /\ (p.pc = "attached" => p.stop # "no")
       \/ p.pc \in {"failed", "rollback"}
  /\ Overlap \/ \A m \in Attaches : Card(m) = c => ~Making(m)
  /\ attachments' = [attachments EXCEPT ![c] = n]
  /\ path' = [path EXCEPT ![n] = [Idle EXCEPT !.card = c, !.pc = "claim"]]
  /\ UNCHANGED <<pass, borrows, pool>>

Refused(n) ==
  /\ At(n, "claim") /\ OneFails
  /\ GoTo(n, "rollback")
  /\ UNCHANGED <<pass, attachments, borrows, pool>>

\* _requestClaim, then the head of borrow: what is left under the same key is given back
\* first.  The owner answers a holder that has the card already with the pass it has.
Granted(n) ==
  /\ At(n, "claim")
  /\ LET c == Card(n)
         token == IF pass[c] = 0 THEN n ELSE pass[c]
         left == borrows[c] IN
       /\ pass' = [pass EXCEPT ![c] = token]
       /\ IF left # 0
            THEN /\ path' = [path EXCEPT ![left] = Stop(@), ![n].pc = "takeover", ![n].token = token]
                 /\ borrows' = [borrows EXCEPT ![c] = 0]
            ELSE /\ path' = [path EXCEPT ![n].pc = "list", ![n].token = token]
                 /\ borrows' = [borrows EXCEPT ![c] = n]
  /\ UNCHANGED <<attachments, pool, count>>

\* giveBack of what is left is waited for.
TakenOver(n) == \A m \in Attaches : Card(m) = Card(n) => path[m].stop # "relay"

\* _pickTap: the list of adapters is read, and used when it has arrived.
Listed(n) ==
  /\ path[n].pc \in {"takeover", "list"}
  /\ At(n, "takeover") => TakenOver(n)
  /\ borrows' = IF At(n, "takeover") THEN [borrows EXCEPT ![Card(n)] = n] ELSE borrows
  /\ path' = [path EXCEPT ![n].pc = "pick", ![n].seen = present]
  /\ UNCHANGED <<pass, attachments, pool, count>>

\* Which of the free ones: the one that served the card before, if it is there.
Picked(n) ==
  /\ At(n, "pick")
  /\ records' = records \cap path[n].seen
  /\ LET free == records' \ busyTaps IN
       \/ \E t \in free :
            /\ busyTaps' = busyTaps \cup {t}
            /\ path' = [path EXCEPT ![n].tap = t, ![n].pc = "relay", ![n].relay = "opening", ![n].seen = {}]
       \/ /\ free = {} /\ UNCHANGED busyTaps
          /\ path' = [path EXCEPT ![n].pc = "create", ![n].seen = present]
  /\ UNCHANGED <<pass, attachments, borrows, present, reaping, count>>

\* GUIDs that nothing goes by; the least one will do for a new adapter.
Fresh == {t \in Taps : t \notin present \cup records \cup busyTaps
                      /\ \A m \in Attaches : t # path[m].tap /\ t \notin path[m].seen}

\* createTap: an adapter appears; it is found by its GUID, or, after devcon, as one that
\* was not there before.
Created(n) ==
  /\ At(n, "create")
  /\ \E t \in Fresh : 
       /\ \A u \in Fresh : t <= u
       /\ present' = present \cup {t}
       /\ \E found \in IF Devcon THEN present' \ path[n].seen ELSE {t} :
            path' = [path EXCEPT ![n].pc = "new", ![n].tap = found, ![n].seen = {}]
  /\ UNCHANGED <<pass, attachments, borrows, records, busyTaps, reaping, count>>

Recorded(n) ==
  /\ At(n, "new")
  /\ busyTaps' = busyTaps \cup {path[n].tap} /\ records' = records \cup {path[n].tap}
  /\ path' = [path EXCEPT ![n].pc = "relay", ![n].relay = "opening"]
  /\ UNCHANGED <<pass, attachments, borrows, present, reaping, count>>

NoTap(n) ==
  /\ \/ path[n].pc \in {"list", "create"} /\ OneFails
     \/ At(n, "create") /\ Fresh = {} /\ UNCHANGED count
  /\ Fail(n)
  /\ UNCHANGED <<pass, attachments, pool>>

\* _connect: the first dial.  Without a relay the splice of the socket throws and nobody
\* hears of it.
Dialled(n) ==
  /\ At(n, "dial") /\ path[n].client = "lost" /\ pass[Card(n)] = path[n].token
  /\ path' = [path EXCEPT ![n] = IF Stopped(n) THEN [@ EXCEPT !.pc = "stuck"]
                ELSE [@ EXCEPT !.pc = "ip", !.client = "on", !.stale = path[n].relay # "up"]]
  /\ UNCHANGED <<pass, attachments, borrows, pool, count>>

DialFails(n) ==
  /\ At(n, "dial")
  /\ \/ path[n].client = "off" \/ pass[Card(n)] # path[n].token
     \/ path[n].dials + 1 = Attempts
  /\ IF path[n].client = "off" \/ pass[Card(n)] # path[n].token THEN UNCHANGED count ELSE OneFails
  /\ Fail(n)
  /\ UNCHANGED <<pass, attachments, pool>>

DialsAgain(n) ==
  /\ At(n, "dial") /\ path[n].client = "lost" /\ pass[Card(n)] = path[n].token
  /\ path[n].dials + 1 < Attempts /\ OneFails
  /\ path' = [path EXCEPT ![n].dials = @ + 1]
  /\ UNCHANGED <<pass, attachments, borrows, pool>>

\* The addresses of the card are set; whether they could be set is not looked at.
Attached(n) ==
  /\ At(n, "ip")
  /\ path' = [path EXCEPT ![n].pc = "attached", ![n].dials = 0]
  /\ UNCHANGED <<pass, attachments, borrows, pool, count>>

\* The error branch of attach: the record goes, whoever's it is by now.
RolledBack(n) ==
  /\ At(n, "rollback")
  /\ \/ pass' = [pass EXCEPT ![Card(n)] = 0] /\ UNCHANGED count
     \/ UNCHANGED pass /\ OneFails
  /\ attachments' = [attachments EXCEPT ![Card(n)] = 0]
  /\ path' = [path EXCEPT ![n] = Over(@)]
  /\ UNCHANGED <<borrows, pool>>

Makes(n) ==
  \/ Granted(n) \/ Listed(n) \/ Picked(n) \/ Created(n) \/ Recorded(n) \/ NoTap(n)
  \/ Dialled(n) \/ DialFails(n) \/ Attached(n) \/ Freed(n) \/ RolledBack(n)

-----------------------------------------------------------------------------
(* The relay of a path (keepRelay): it is opened with repeats, since the adapter may   *)
(* still be held by the last one, and opened anew when it falls.                       *)

Holds(n) == path[n].relay \in {"up", "closing"}

\* (faulty variant: the channel is not told of the new relay)
RelayUpUntold(n) ==
  /\ path[n].relay = "opening"
  /\ \A m \in Attaches : Holds(m) => path[m].tap # path[n].tap
  /\ path' = [path EXCEPT ![n] =
       IF Stopped(n) THEN [@ EXCEPT !.relay = "closing",
                                    !.pc = IF path[n].pc = "relay" THEN "dial" ELSE path[n].pc,
                                    !.client = IF path[n].pc = "relay" THEN "lost" ELSE path[n].client]
       ELSE IF At(n, "relay") THEN [@ EXCEPT !.relay = "up", !.pc = "dial", !.client = "lost"]
       ELSE [@ EXCEPT !.relay = "up"]]
  /\ UNCHANGED <<pass, attachments, borrows, pool, count>>

\* (faulty variant: the connection is closed as one nobody wants any more)
RelayUpForgets(n) ==
  /\ path[n].relay = "opening"
  /\ \A m \in Attaches : Holds(m) => path[m].tap # path[n].tap
  /\ path' = [path EXCEPT ![n] =
       IF Stopped(n) THEN [@ EXCEPT !.relay = "closing",
                                    !.pc = IF path[n].pc = "relay" THEN "dial" ELSE path[n].pc,
                                    !.client = IF path[n].pc = "relay" THEN "lost" ELSE path[n].client]
       ELSE IF At(n, "relay") THEN [@ EXCEPT !.relay = "up", !.pc = "dial", !.client = "lost"]
       ELSE [@ EXCEPT !.relay = "up", !.stale = FALSE,
                     !.client = IF path[n].client = "on" THEN "off" ELSE path[n].client]]
  /\ UNCHANGED <<pass, attachments, borrows, pool, count>>

\* The channel goes over to the new relay: its connection is closed and dialled anew.
RelayUp(n) ==
  /\ path[n].relay = "opening"
  /\ \A m \in Attaches : Holds(m) => path[m].tap # path[n].tap
  /\ path' = [path EXCEPT ![n] =
       IF Stopped(n) THEN [@ EXCEPT !.relay = "closing",
                                    !.pc = IF path[n].pc = "relay" THEN "dial" ELSE path[n].pc,
                                    !.client = IF path[n].pc = "relay" THEN "lost" ELSE path[n].client]
       ELSE IF At(n, "relay") THEN [@ EXCEPT !.relay = "up", !.pc = "dial", !.client = "lost"]
       ELSE [@ EXCEPT !.relay = "up", !.stale = FALSE,
                     !.client = IF path[n].client = "on" THEN "lost" ELSE path[n].client]]
  /\ UNCHANGED <<pass, attachments, borrows, pool, count>>

RelayNotOpened(n) ==
  /\ path[n].relay = "opening" /\ OneFails
  /\ IF At(n, "relay")
       THEN /\ path' = [path EXCEPT ![n] = [Stop(@) EXCEPT !.pc = "failed", !.relay = "none"]]
            /\ borrows' = [borrows EXCEPT ![Card(n)] = 0]
       ELSE /\ path' = [path EXCEPT ![n].relay = IF Stopped(n) THEN "none" ELSE "failed"]
            /\ UNCHANGED borrows
  /\ UNCHANGED <<pass, attachments, pool>>

RelayFalls(n) ==
  /\ path[n].relay = "up" /\ OneFails
  /\ path' = [path EXCEPT ![n].stale = path[n].client = "on",
                          ![n].relay = IF path[n].falls < MaxFalls THEN "down" ELSE "failed",
                          ![n].falls = IF @ < MaxFalls THEN @ + 1 ELSE @]
  /\ UNCHANGED <<pass, attachments, borrows, pool>>

RelayRestarts(n) ==
  /\ path[n].relay = "down"
  /\ path' = [path EXCEPT ![n].relay = "opening"]
  /\ UNCHANGED <<pass, attachments, borrows, pool, count>>

\* It has worked for a minute.
FallsForgotten(n) ==
  /\ path[n].relay = "up" /\ path[n].falls # 0
  /\ path' = [path EXCEPT ![n].falls = 0]
  /\ UNCHANGED <<pass, attachments, borrows, pool, count>>

RelayClosed(n) ==
  /\ path[n].relay = "closing"
  /\ path' = [path EXCEPT ![n] = IF At(n, "over") THEN Over([@ EXCEPT !.relay = "none"])
                                                 ELSE [@ EXCEPT !.relay = "none"]]
  /\ UNCHANGED <<pass, attachments, borrows, pool, count>>

Relays(n) == RelayUp(n) \/ RelayRestarts(n) \/ RelayClosed(n)

-----------------------------------------------------------------------------
(* The channel of a path that is made (LinkClient, LinkServer). *)

LinkBreaks(n) ==
  /\ path[n].client = "on" /\ OneFails
  /\ path' = [path EXCEPT ![n].client = "lost", ![n].stale = FALSE]
  /\ UNCHANGED <<pass, attachments, borrows, pool>>

\* The owner closes the channel when its pass is no longer good.
LinkClosed(n) ==
  /\ path[n].client = "on" /\ pass[Card(n)] # path[n].token
  /\ path' = [path EXCEPT ![n].client = "lost", ![n].stale = FALSE]
  /\ UNCHANGED <<pass, attachments, borrows, pool, count>>

Redialled(n) ==
  /\ path[n].pc \in {"ip", "attached"} /\ path[n].client = "lost"
  /\ path' = [path EXCEPT ![n] =
       IF pass[Card(n)] = path[n].token THEN [@ EXCEPT !.client = "on", !.stale = path[n].relay # "up"]
                                        ELSE [@ EXCEPT !.client = "rejected"]]
  /\ UNCHANGED <<pass, attachments, borrows, pool, count>>

Channels(n) == LinkClosed(n) \/ Redialled(n)

-----------------------------------------------------------------------------
(* The owner takes the right away, and the card is given back. *)

Revoke(c) ==
  /\ pass[c] # 0
  /\ Overlap \/ \A n \in Attaches : Card(n) = c => ~Making(n)
  /\ pass' = [pass EXCEPT ![c] = 0]
  /\ UNCHANGED <<own, pool, count>>

\* No heartbeats come for it.
Expires(c) ==
  /\ pass[c] # 0 /\ attachments[c] = 0 /\ \A n \in Attaches : Card(n) = c => ~Making(n)
  /\ pass' = [pass EXCEPT ![c] = 0]
  /\ UNCHANGED <<own, pool, count>>

Detaching(n, keep) ==
  LET c == Card(n) IN
  /\ n \in Attaches /\ attachments[c] = n /\ path[n].leave = "no"
  /\ At(n, "attached") \/ Overlap
  /\ LET given == IF At(n, "attached") THEN borrows[c] ELSE 0 IN
       /\ borrows' = IF given = 0 THEN borrows ELSE [borrows EXCEPT ![c] = 0]
       /\ path' = [m \in Attaches |->
            LET p == IF m = given THEN Stop(path[m]) ELSE path[m] IN
            IF m # n THEN p
            ELSE [p EXCEPT !.leave = IF given # 0 THEN IF keep THEN "givingKept" ELSE "giving"
                                     ELSE IF keep THEN "keeping" ELSE "releasing"]]
  /\ UNCHANGED <<pass, attachments, pool, count>>

\* By the user, or after three heartbeats without an answer.
Detach(n) == Card(n) # None /\ Detaching(n, FALSE)

\* By word of the owner, or by its answer to a heartbeat.
Revoked(n) == Card(n) # None /\ pass[Card(n)] # path[n].token /\ Detaching(n, TRUE)

\* ... while the card is given back already: there is nothing left to do but forget it.
RevokedMeanwhile(n) ==
  /\ path[n].leave # "no" /\ pass[Card(n)] # path[n].token /\ attachments[Card(n)] = n
  /\ attachments' = [attachments EXCEPT ![Card(n)] = 0]
  /\ UNCHANGED <<pass, borrows, path, pool, count>>

GivenBack(n) ==
  /\ path[n].leave \in {"giving", "givingKept"} /\ path[n].stop = "done"
  /\ path' = [path EXCEPT ![n].leave = IF @ = "giving" THEN "releasing" ELSE "keeping"]
  /\ UNCHANGED <<pass, attachments, borrows, pool, count>>

\* (faulty variant: whoever's the record is)
LeftWhoever(n) ==
  LET c == Card(n) IN
  /\ path[n].leave \in {"releasing", "keeping"}
  /\ \/ path[n].leave = "keeping" /\ UNCHANGED <<pass, count>>
     \/ path[n].leave = "releasing" /\ pass' = [pass EXCEPT ![c] = 0] /\ UNCHANGED count
     \/ path[n].leave = "releasing" /\ UNCHANGED pass /\ OneFails
  /\ attachments' = [attachments EXCEPT ![c] = 0]
  /\ path' = [path EXCEPT ![n] = IF At(n, "attached") THEN Over(@) ELSE [@ EXCEPT !.leave = "no"]]
  /\ UNCHANGED <<borrows, pool>>

\* The end of detach; the record goes if it is still this one.
Left(n) ==
  LET c == Card(n) IN
  /\ path[n].leave \in {"releasing", "keeping"}
  /\ \/ path[n].leave = "keeping" /\ UNCHANGED <<pass, count>>
     \/ path[n].leave = "releasing" /\ pass' = [pass EXCEPT ![c] = 0] /\ UNCHANGED count
     \/ path[n].leave = "releasing" /\ UNCHANGED pass /\ OneFails
  /\ attachments' = [attachments EXCEPT ![c] = IF @ = n THEN 0 ELSE @]
  /\ path' = [path EXCEPT ![n] = IF At(n, "attached") THEN Over(@) ELSE [@ EXCEPT !.leave = "no"]]
  /\ UNCHANGED <<borrows, pool>>

Leaves(n) == Revoked(n) \/ GivenBack(n) \/ Left(n)

-----------------------------------------------------------------------------
(* _reapTaps: an adapter nobody has used for two minutes is removed. *)

\* (faulty variant: it may be picked meanwhile)
ReapUnmarked(t) ==
  /\ t \in records \ busyTaps
  /\ reaping' = reaping \cup {t}
  /\ UNCHANGED <<pass, own, present, records, busyTaps, count>>

ReapBegins(t) ==
  /\ t \in records \ busyTaps
  /\ busyTaps' = busyTaps \cup {t} /\ reaping' = reaping \cup {t}
  /\ UNCHANGED <<pass, own, present, records, count>>

Vanishes(t) ==
  /\ t \in reaping \cap present
  /\ present' = present \ {t}
  /\ UNCHANGED <<pass, own, records, busyTaps, reaping, count>>

ReapEnds(t) ==
  /\ t \in reaping
  /\ \/ t \notin present /\ records' = records \ {t} /\ UNCHANGED count
     \/ t \in present /\ OneFails /\ UNCHANGED records
  /\ busyTaps' = busyTaps \ {t} /\ reaping' = reaping \ {t}
  /\ UNCHANGED <<pass, own, present>>

Reaps(t) == ReapBegins(t) \/ Vanishes(t) \/ ReapEnds(t)

\* The holder's program dies and is started again; its relays die with it.
Crash ==
  /\ count.stops < MaxStops /\ count' = [count EXCEPT !.stops = @ + 1]
  /\ path' = [n \in Attaches |-> IF At(n, "idle") THEN Idle ELSE Over(Idle)]
  /\ attachments' = [c \in Cards |-> 0] /\ borrows' = [c \in Cards |-> 0]
  /\ busyTaps' = {} /\ reaping' = {}
  /\ UNCHANGED <<pass, present, records>>

\* What goes on by itself: promises, timers, and heartbeats of the holder.
Goes ==
  \/ \E n \in Attaches : Makes(n) \/ Relays(n) \/ Channels(n) \/ Leaves(n)
  \/ \E t \in Taps : Reaps(t)
  \/ \E c \in Cards : Expires(c)

Next ==
  \/ Goes
  \/ \E c \in Cards : Attach(c) \/ Revoke(c)
  \/ \E n \in Attaches : Refused(n) \/ DialsAgain(n) \/ RelayNotOpened(n) \/ RelayFalls(n) \/ FallsForgotten(n)
  \/ \E n \in Attaches : LinkBreaks(n) \/ Detach(n) \/ RevokedMeanwhile(n)
  \/ Crash

Spec == Init /\ [][Next]_vars

\* Promises are settled, timers fire, and the reaper looks every half a minute.
FairSpec == Spec /\ WF_vars(Goes)

-----------------------------------------------------------------------------
(* Properties *)

Using(n) == path[n].pc \in {"relay", "dial", "ip", "attached"} /\ ~Stopped(n)

\* Two cards never get one adapter, and an adapter is never removed, nor given away, under
\* the card that uses it (busyTaps, _reapTaps).
TapHasOneUser ==
  \A n \in Attaches : Using(n) =>
    /\ path[n].tap \in (present \cap busyTaps) \ reaping
    /\ \A m \in Attaches \ {n} : Using(m) => path[m].tap # path[n].tap

\* Frames of a channel that is up reach the adapter: it was spliced to the relay that runs
\* now, not to one that has fallen since (setRelay).
PathIsWhole ==
  \A n \in Attaches : Using(n) /\ path[n].relay = "up" /\ path[n].client = "on" => ~path[n].stale

\* An adapter that leads to a card belongs to an attachment the user sees and can give back.
AdapterHasAttachment ==
  \A n \in Attaches : At(n, "attached") /\ ~Stopped(n) => attachments[Card(n)] = n

Whole(n) == path[n].client = "on" /\ path[n].relay = "up" /\ ~path[n].stale

\* As long as the owner does not take the right away, a path that is made is restored
\* after every failure of the channel and of the relay, unless the relay is given up.
PathHeals ==
  \A n \in Attaches :
    <>[](At(n, "attached") /\ ~Stopped(n) /\ pass[Card(n)] = path[n].token)
    => <>[](Whole(n) \/ path[n].relay = "failed")

\* When no card is attached any more, nothing stays behind: no pass at the owner, no
\* adapter in use and none on record (unlend, _stopBorrow, _reapTaps).
LeavesNothing ==
  <>[](\A c \in Cards : attachments[c] = 0)
  => <>[]((\A c \in Cards : pass[c] = 0) /\ busyTaps = {} /\ records = {})
=============================================================================
