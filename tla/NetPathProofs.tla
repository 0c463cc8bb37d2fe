---------------------------- MODULE NetPathProofs ----------------------------
(***************************************************************************)
(* Theorems about NetPath, for any cards, adapters, numbers of             *)
(* attachments, failures and crashes.                                      *)
(***************************************************************************)
EXTENDS NetPath, TLAPS

-----------------------------------------------------------------------------
(* The form of a path.  The sets of its fields have names, so that a step  *)
(* that sets some fields need not look into the sets of the others.        *)

Pcs == {"idle", "claim", "takeover", "list", "pick", "create", "new", "relay", "dial", "ip",
        "attached", "failed", "rollback", "stuck", "over"}
RelayStates == {"none", "opening", "up", "down", "failed", "closing"}
Clients == {"none", "on", "lost", "rejected", "off"}
Stops == {"no", "relay", "done"}
Leavings == {"no", "giving", "givingKept", "releasing", "keeping"}
CardOrNone == Cards \cup {None}
TapOrNone == Taps \cup {None}
TapSets == SUBSET Taps
Tokens == 0..MaxAttaches
Falls == 0..MaxFalls
Dials == 0..Attempts
Forms == [card : CardOrNone, tap : TapOrNone, seen : TapSets, token : Tokens, pc : Pcs,
          relay : RelayStates, falls : Falls, client : Clients, stale : BOOLEAN, dials : Dials,
          stop : Stops, leave : Leavings]

Counts == [attaches : 0..MaxAttaches, failures : 0..MaxFailures, stops : 0..MaxStops]

Types ==
  /\ count \in Counts
  /\ pass \in [Cards -> Tokens] /\ attachments \in [Cards -> Tokens] /\ borrows \in [Cards -> Tokens]
  /\ path \in [Attaches -> Forms]
  /\ present \subseteq Taps /\ records \subseteq Taps /\ busyTaps \subseteq Taps /\ reaping \subseteq Taps

LEMMA Words ==
  /\ {"idle", "claim", "takeover", "list", "pick", "create", "new", "relay", "dial", "ip",
      "attached", "failed", "rollback", "stuck", "over"} \subseteq Pcs
  /\ {"none", "opening", "up", "down", "failed", "closing"} \subseteq RelayStates
  /\ {"none", "on", "lost", "rejected", "off"} \subseteq Clients
  /\ {"no", "relay", "done"} \subseteq Stops
  /\ {"no", "giving", "givingKept", "releasing", "keeping"} \subseteq Leavings
  /\ None \in CardOrNone /\ None \in TapOrNone /\ Cards \subseteq CardOrNone /\ Taps \subseteq TapOrNone
  /\ {} \in TapSets
BY DEF Pcs, RelayStates, Clients, Stops, Leavings, CardOrNone, TapOrNone, TapSets

LEMMA Numbers == ASSUME ConstantsOK PROVE 0 \in Tokens /\ 0 \in Falls /\ 0 \in Dials
BY DEF ConstantsOK, Tokens, Falls, Dials

LEMMA IdleForm ==
  ASSUME ConstantsOK
  PROVE  /\ Idle \in Forms
         /\ Idle.pc = "idle" /\ Idle.tap = None /\ Idle.seen = {} /\ Idle.stop = "no"
         /\ Idle.leave = "no" /\ Idle.card = None /\ Idle.client = "none"
BY Words, Numbers DEF Idle, Forms

\* A channel that is up is spliced to the relay that runs.
Spliced(p) == p.relay = "up" /\ p.client = "on" => ~p.stale

LEMMA StopForm ==
  ASSUME NEW p \in Forms
  PROVE  /\ Stop(p) \in Forms
         /\ Stop(p).stop = "relay" /\ Stop(p).client \in {"none", "off"}
         /\ Stop(p).pc = p.pc /\ Stop(p).tap = p.tap /\ Stop(p).seen = p.seen
         /\ Stop(p).leave = p.leave /\ Stop(p).card = p.card
<1> DEFINE r == StoppedRelay(p.relay)
           c == IF p.client = "none" THEN p.client ELSE "off"
<1>1. p.relay \in RelayStates /\ p.client \in Clients
  BY DEF Forms
<1>2. r \in RelayStates /\ c \in Clients /\ "relay" \in Stops /\ c \in {"none", "off"}
  BY <1>1, Words DEF StoppedRelay
<1>3. Stop(p) = [p EXCEPT !.stop = "relay", !.relay = r, !.client = c]
  BY DEF Stop
<1> HIDE DEF r, c
<1> QED BY <1>2, <1>3 DEF Forms

LEMMA OverForm ==
  ASSUME ConstantsOK, NEW p \in Forms
  PROVE  /\ Over(p) \in Forms
         /\ Over(p).stop = "done" /\ Over(p).client = "none" /\ Over(p).pc = "over"
         /\ Over(p).seen = {} /\ Over(p).leave = "no" /\ Over(p).card = None
<1> DEFINE r == IF p.relay \in {"opening", "closing"} THEN p.relay ELSE "none"
           t == IF p.relay \in {"opening", "closing"} THEN p.tap ELSE None
<1>1. r \in RelayStates /\ t \in TapOrNone
  BY Words DEF Forms
<1>2. Over(p) = [Idle EXCEPT !.pc = "over", !.stop = "done", !.relay = r, !.tap = t]
  BY DEF Over
<1> HIDE DEF r, t
<1> QED BY <1>1, <1>2, IdleForm, Words DEF Forms

-----------------------------------------------------------------------------
(* What the actions make of a path. *)

\* Only the path n changes.
One(n) == path' \in [Attaches -> Forms] /\ \A m \in Attaches \ {n} : path'[m] = path[m]

LEMMA PutOne ==
  ASSUME Types, NEW n \in Attaches, NEW q \in Forms, path' = [path EXCEPT ![n] = q]
  PROVE  One(n) /\ path'[n] = q
BY DEF Types, One

\* It goes on to pc; its card and its adapter stay.
Moved(n, pc, stop, leave) ==
  /\ One(n)
  /\ path'[n].pc = pc /\ path'[n].stop = stop /\ path'[n].leave = leave
  /\ path'[n].card = path[n].card /\ path'[n].tap = path[n].tap /\ path'[n].seen = path[n].seen
  /\ Spliced(path[n]) => Spliced(path'[n])

\* It is over.
Ended(n) ==
  /\ One(n)
  /\ path'[n].pc = "over" /\ path'[n].stop = "done" /\ path'[n].leave = "no"
  /\ path'[n].card = None /\ path'[n].seen = {} /\ Spliced(path'[n])

LEMMA RefusedMoves ==
  ASSUME Types, NEW n \in Attaches, Refused(n)
  PROVE  Moved(n, "rollback", path[n].stop, path[n].leave)
<1> DEFINE q == [path[n] EXCEPT !.pc = "rollback"]
<1>1. path' = [path EXCEPT ![n] = q]
  BY DEF Refused, GoTo, Types
<1>2. q \in Forms /\ q.pc = "rollback" /\ q.stop = path[n].stop /\ q.leave = path[n].leave
      /\ q.card = path[n].card /\ q.tap = path[n].tap /\ q.seen = path[n].seen
      /\ q.relay = path[n].relay /\ q.client = path[n].client /\ q.stale = path[n].stale
  BY Words DEF Types, Forms
<1> HIDE DEF q
<1> QED BY <1>1, <1>2, PutOne DEF Moved, Spliced

LEMMA FailMoves ==
  ASSUME Types, NEW n \in Attaches, Fail(n)
  PROVE  Moved(n, "failed", "relay", path[n].leave)
<1> DEFINE p == Stop(path[n])
           q == [p EXCEPT !.pc = "failed"]
<1>1. path' = [path EXCEPT ![n] = q]
  BY DEF Fail, Types
<1>2. p \in Forms /\ p.stop = "relay" /\ p.client \in {"none", "off"} /\ p.tap = path[n].tap
      /\ p.seen = path[n].seen /\ p.leave = path[n].leave /\ p.card = path[n].card
  BY StopForm DEF Types
<1> HIDE DEF p
<1>3. q \in Forms /\ q.pc = "failed" /\ q.stop = p.stop /\ q.leave = p.leave
      /\ q.card = p.card /\ q.tap = p.tap /\ q.seen = p.seen /\ q.client = p.client
  BY <1>2, Words DEF Forms
<1> HIDE DEF q
<1> QED BY <1>1, <1>2, <1>3, PutOne DEF Moved, Spliced

LEMMA FreedMoves ==
  ASSUME Types, NEW n \in Attaches, Freed(n)
  PROVE  Moved(n, IF path[n].pc = "failed" THEN "rollback" ELSE path[n].pc, "done", path[n].leave)
<1> DEFINE pc == IF path[n].pc = "failed" THEN "rollback" ELSE path[n].pc
           q == [path[n] EXCEPT !.stop = "done", !.pc = pc]
<1>1. path' = [path EXCEPT ![n] = q]
  BY DEF Freed, Types
<1>2. pc \in Pcs
  BY Words DEF Types, Forms
<1> HIDE DEF pc
<1>3. q \in Forms /\ q.pc = pc /\ q.stop = "done" /\ q.leave = path[n].leave
      /\ q.card = path[n].card /\ q.tap = path[n].tap /\ q.seen = path[n].seen
      /\ q.relay = path[n].relay /\ q.client = path[n].client /\ q.stale = path[n].stale
  BY <1>2, Words DEF Types, Forms
<1> HIDE DEF q
<1> QED BY <1>1, <1>3, PutOne DEF Moved, Spliced, pc

LEMMA SettingMoves ==
  ASSUME Types, NEW n \in Attaches, NEW q \in Forms, path' = [path EXCEPT ![n] = q],
         q.card = path[n].card, q.tap = path[n].tap, q.seen = path[n].seen,
         Spliced(path[n]) => Spliced(q)
  PROVE  Moved(n, q.pc, q.stop, q.leave)
BY PutOne DEF Moved

LEMMA DialledMoves ==
  ASSUME Types, NEW n \in Attaches, Dialled(n)
  PROVE  Moved(n, IF Stopped(n) THEN "stuck" ELSE "ip", path[n].stop, path[n].leave)
<1> DEFINE p == path[n]
           b == p.relay # "up"
           q == IF Stopped(n) THEN [p EXCEPT !.pc = "stuck"]
                ELSE [p EXCEPT !.pc = "ip", !.client = "on", !.stale = b]
<1>1. path' = [path EXCEPT ![n] = q] /\ p \in Forms
  BY DEF Dialled, Types
<1>2. b \in BOOLEAN
  OBVIOUS
<1>3. q \in Forms /\ q.pc = (IF Stopped(n) THEN "stuck" ELSE "ip") /\ q.stop = p.stop /\ q.leave = p.leave
      /\ q.card = p.card /\ q.tap = p.tap /\ q.seen = p.seen
  <2> HIDE DEF p, b
  <2> QED BY <1>1, <1>2, Words DEF Forms
<1>4. Spliced(p) => Spliced(q)
  BY <1>1 DEF Spliced, Forms
<1> HIDE DEF q
<1> QED BY <1>1, <1>3, <1>4, SettingMoves

LEMMA DialsAgainMoves ==
  ASSUME ConstantsOK, Types, NEW n \in Attaches, DialsAgain(n)
  PROVE  Moved(n, path[n].pc, path[n].stop, path[n].leave)
<1> DEFINE p == path[n]
           d == p.dials + 1
           q == [p EXCEPT !.dials = d]
<1>1. path' = [path EXCEPT ![n] = q] /\ p \in Forms /\ d < Attempts
  BY DEF DialsAgain, Types
<1>2. d \in Dials
  BY <1>1, ConstantsOK DEF Dials, Forms, ConstantsOK
<1>3. q \in Forms /\ q.pc = p.pc /\ q.stop = p.stop /\ q.leave = p.leave
      /\ q.card = p.card /\ q.tap = p.tap /\ q.seen = p.seen
      /\ q.relay = p.relay /\ q.client = p.client /\ q.stale = p.stale
  <2> HIDE DEF p, d
  <2> QED BY <1>1, <1>2 DEF Forms
<1> HIDE DEF q
<1> QED BY <1>1, <1>3, SettingMoves DEF Spliced

LEMMA AttachedMoves ==
  ASSUME ConstantsOK, Types, NEW n \in Attaches, Attached(n)
  PROVE  Moved(n, "attached", path[n].stop, path[n].leave)
<1> DEFINE p == path[n]
           q == [p EXCEPT !.pc = "attached", !.dials = 0]
<1>1. path' = [path EXCEPT ![n] = q] /\ p \in Forms
  BY DEF Attached, Types
<1>2. q \in Forms /\ q.pc = "attached" /\ q.stop = p.stop /\ q.leave = p.leave
      /\ q.card = p.card /\ q.tap = p.tap /\ q.seen = p.seen
      /\ q.relay = p.relay /\ q.client = p.client /\ q.stale = p.stale
  <2> HIDE DEF p
  <2> QED BY <1>1, Words, Numbers DEF Forms
<1> HIDE DEF q
<1> QED BY <1>1, <1>2, SettingMoves DEF Spliced

LEMMA RelayUpMoves ==
  ASSUME Types, NEW n \in Attaches, RelayUp(n)
  PROVE  Moved(n, IF path[n].pc = "relay" THEN "dial" ELSE path[n].pc, path[n].stop, path[n].leave)
<1> DEFINE p == path[n]
           pc == IF p.pc = "relay" THEN "dial" ELSE p.pc
           c == IF p.pc = "relay" THEN "lost" ELSE p.client
           d == IF p.client = "on" THEN "lost" ELSE p.client
           q == IF Stopped(n) THEN [p EXCEPT !.relay = "closing", !.pc = pc, !.client = c]
                ELSE IF At(n, "relay") THEN [p EXCEPT !.relay = "up", !.pc = "dial", !.client = "lost"]
                ELSE [p EXCEPT !.relay = "up", !.stale = FALSE, !.client = d]
<1>1. path' = [path EXCEPT ![n] = q] /\ p \in Forms
  BY DEF RelayUp, Types
<1>2. pc \in Pcs /\ c \in Clients /\ d \in Clients
  BY <1>1, Words DEF Forms
<1>3. At(n, "relay") => pc = "dial"
  BY DEF At
<1>4. ~At(n, "relay") => pc = p.pc
  BY DEF At
<1>5. d # "on"
  OBVIOUS
<1>6. q \in Forms /\ q.pc = pc /\ q.stop = p.stop /\ q.leave = p.leave
      /\ q.card = p.card /\ q.tap = p.tap /\ q.seen = p.seen
      /\ (q.relay = "closing" \/ q.client # "on" \/ q.stale = FALSE)
  <2>1. CASE Stopped(n)
    <3> DEFINE u == [p EXCEPT !.relay = "closing", !.pc = pc, !.client = c]
    <3>1. q = u
      BY <2>1
    <3>2. u \in Forms /\ u.pc = pc /\ u.stop = p.stop /\ u.leave = p.leave
          /\ u.card = p.card /\ u.tap = p.tap /\ u.seen = p.seen /\ u.relay = "closing"
      <4> HIDE DEF p, pc, c
      <4> QED BY <1>1, <1>2, Words DEF Forms
    <3> QED BY <3>1, <3>2
  <2>2. CASE ~Stopped(n) /\ At(n, "relay")
    <3> DEFINE u == [p EXCEPT !.relay = "up", !.pc = "dial", !.client = "lost"]
    <3>1. q = u
      BY <2>2
    <3>2. u \in Forms /\ u.pc = "dial" /\ u.stop = p.stop /\ u.leave = p.leave
          /\ u.card = p.card /\ u.tap = p.tap /\ u.seen = p.seen /\ u.client = "lost"
      <4> HIDE DEF p
      <4> QED BY <1>1, Words DEF Forms
    <3> QED BY <1>3, <2>2, <3>1, <3>2
  <2>3. CASE ~Stopped(n) /\ ~At(n, "relay")
    <3> DEFINE u == [p EXCEPT !.relay = "up", !.stale = FALSE, !.client = d]
    <3>1. q = u
      BY <2>3
    <3>2. u \in Forms /\ u.pc = p.pc /\ u.stop = p.stop /\ u.leave = p.leave
          /\ u.card = p.card /\ u.tap = p.tap /\ u.seen = p.seen /\ u.stale = FALSE
      <4> HIDE DEF p, d
      <4> QED BY <1>1, <1>2, Words DEF Forms
    <3> QED BY <1>4, <2>3, <3>1, <3>2
  <2> QED BY <2>1, <2>2, <2>3
<1> HIDE DEF q
<1> QED BY <1>1, <1>6, SettingMoves DEF Spliced

LEMMA RelayNotOpenedMoves ==
  ASSUME Types, NEW n \in Attaches, RelayNotOpened(n)
  PROVE  IF At(n, "relay") THEN Moved(n, "failed", "relay", path[n].leave)
         ELSE Moved(n, path[n].pc, path[n].stop, path[n].leave)
<1>1. CASE At(n, "relay")
  <2> DEFINE p == Stop(path[n])
             q == [p EXCEPT !.pc = "failed", !.relay = "none"]
  <2>1. path' = [path EXCEPT ![n] = q]
    BY <1>1 DEF RelayNotOpened, Types
  <2>2. p \in Forms /\ p.stop = "relay" /\ p.tap = path[n].tap
        /\ p.seen = path[n].seen /\ p.leave = path[n].leave /\ p.card = path[n].card
    BY StopForm DEF Types
  <2> HIDE DEF p
  <2>3. q \in Forms /\ q.pc = "failed" /\ q.stop = p.stop /\ q.leave = p.leave
        /\ q.card = p.card /\ q.tap = p.tap /\ q.seen = p.seen /\ q.relay = "none"
    BY <2>2, Words DEF Forms
  <2> HIDE DEF q
  <2> QED BY <1>1, <2>1, <2>2, <2>3, PutOne DEF Moved, Spliced
<1>2. CASE ~At(n, "relay")
  <2> DEFINE p == path[n]
             r == IF Stopped(n) THEN "none" ELSE "failed"
             q == [p EXCEPT !.relay = r]
  <2>1. path' = [path EXCEPT ![n] = q] /\ p \in Forms
    BY <1>2 DEF RelayNotOpened, Types
  <2>2. r \in RelayStates /\ r # "up"
    BY Words
  <2>3. q \in Forms /\ q.pc = p.pc /\ q.stop = p.stop /\ q.leave = p.leave
        /\ q.card = p.card /\ q.tap = p.tap /\ q.seen = p.seen /\ q.relay = r
    <3> HIDE DEF p, r
    <3> QED BY <2>1, <2>2 DEF Forms
  <2> HIDE DEF q
  <2> QED BY <1>2, <2>1, <2>2, <2>3, SettingMoves DEF Spliced
<1> QED BY <1>1, <1>2

\* The steps of a relay or a channel that is there: nothing else of the path changes.
LEMMA RelayAloneMoves ==
  ASSUME ConstantsOK, Types, NEW n \in Attaches,
         RelayFalls(n) \/ RelayRestarts(n) \/ FallsForgotten(n) \/ (RelayClosed(n) /\ ~At(n, "over"))
  PROVE  Moved(n, path[n].pc, path[n].stop, path[n].leave)
<1> DEFINE p == path[n]
<1>0. p \in Forms
  BY DEF Types
<1>1. ASSUME NEW q, path' = [path EXCEPT ![n] = q], NEW r \in RelayStates, NEW b \in BOOLEAN, NEW f \in Falls,
             q = [p EXCEPT !.stale = b, !.relay = r, !.falls = f],
             r = "up" => r = p.relay /\ b = p.stale
      PROVE  Moved(n, p.pc, p.stop, p.leave)
  <2>1. q \in Forms /\ q.pc = p.pc /\ q.stop = p.stop /\ q.leave = p.leave
        /\ q.card = p.card /\ q.tap = p.tap /\ q.seen = p.seen
        /\ q.relay = r /\ q.client = p.client /\ q.stale = b
    <3> HIDE DEF p
    <3> QED BY <1>0, <1>1 DEF Forms
  <2> QED BY <1>1, <2>1, SettingMoves DEF Spliced
<1>2. CASE RelayFalls(n)
  <2> DEFINE b == p.client = "on"
             r == IF p.falls < MaxFalls THEN "down" ELSE "failed"
             f == IF p.falls < MaxFalls THEN p.falls + 1 ELSE p.falls
             q == [p EXCEPT !.stale = b, !.relay = r, !.falls = f]
  <2>1. path' = [path EXCEPT ![n] = q]
    BY <1>2 DEF RelayFalls, Types
  <2>2. b \in BOOLEAN /\ r \in RelayStates /\ r # "up"
    BY Words
  <2>3. f \in Falls
    BY <1>0, ConstantsOK DEF Falls, Forms, ConstantsOK
  <2> HIDE DEF b, r, f
  <2> QED BY <1>1, <2>1, <2>2, <2>3
<1>3. CASE RelayRestarts(n) \/ (RelayClosed(n) /\ ~At(n, "over"))
  <2> PICK r \in {"opening", "none"} : path' = [path EXCEPT ![n] = [p EXCEPT !.relay = r]]
    BY <1>3 DEF RelayRestarts, RelayClosed, Types
  <2> DEFINE q == [p EXCEPT !.relay = r]
  <2>1. r \in RelayStates /\ r # "up"
    BY Words
  <2>2. q \in Forms /\ q.pc = p.pc /\ q.stop = p.stop /\ q.leave = p.leave
        /\ q.card = p.card /\ q.tap = p.tap /\ q.seen = p.seen /\ q.relay = r
    <3> HIDE DEF p
    <3> QED BY <1>0, <2>1 DEF Forms
  <2> HIDE DEF q
  <2> QED BY <2>1, <2>2, SettingMoves DEF Spliced, q
<1>4. CASE FallsForgotten(n)
  <2> DEFINE q == [p EXCEPT !.falls = 0]
  <2>1. path' = [path EXCEPT ![n] = q]
    BY <1>4 DEF FallsForgotten, Types
  <2>2. q \in Forms /\ q.pc = p.pc /\ q.stop = p.stop /\ q.leave = p.leave
        /\ q.card = p.card /\ q.tap = p.tap /\ q.seen = p.seen
        /\ q.relay = p.relay /\ q.client = p.client /\ q.stale = p.stale
    <3> HIDE DEF p
    <3> QED BY <1>0, Numbers DEF Forms
  <2> HIDE DEF q
  <2> QED BY <2>1, <2>2, SettingMoves DEF Spliced
<1> QED BY <1>2, <1>3, <1>4

LEMMA ChannelMoves ==
  ASSUME Types, NEW n \in Attaches, LinkBreaks(n) \/ LinkClosed(n) \/ Redialled(n)
  PROVE  Moved(n, path[n].pc, path[n].stop, path[n].leave)
<1> DEFINE p == path[n]
<1>0. p \in Forms
  BY DEF Types
<1>1. ASSUME NEW c \in Clients, NEW b \in BOOLEAN, c = "on" => b = (p.relay # "up"),
             path' = [path EXCEPT ![n] = [p EXCEPT !.client = c, !.stale = b]]
      PROVE  Moved(n, p.pc, p.stop, p.leave)
  <2> DEFINE q == [p EXCEPT !.client = c, !.stale = b]
  <2>1. q \in Forms /\ q.pc = p.pc /\ q.stop = p.stop /\ q.leave = p.leave
        /\ q.card = p.card /\ q.tap = p.tap /\ q.seen = p.seen
        /\ q.relay = p.relay /\ q.client = c /\ q.stale = b
    <3> HIDE DEF p
    <3> QED BY <1>0 DEF Forms
  <2> HIDE DEF q
  <2> QED BY <1>1, <2>1, SettingMoves DEF Spliced, q
<1>2. CASE LinkBreaks(n) \/ LinkClosed(n)
  BY <1>1, <1>2, Words DEF LinkBreaks, LinkClosed, Types
<1>3. CASE Redialled(n) /\ pass[Card(n)] = path[n].token
  BY <1>1, <1>3, Words DEF Redialled, Types
<1>4. CASE Redialled(n) /\ pass[Card(n)] # path[n].token
  <2> DEFINE q == [p EXCEPT !.client = "rejected"]
  <2>1. path' = [path EXCEPT ![n] = q]
    BY <1>4 DEF Redialled, Types
  <2>2. q \in Forms /\ q.pc = p.pc /\ q.stop = p.stop /\ q.leave = p.leave
        /\ q.card = p.card /\ q.tap = p.tap /\ q.seen = p.seen /\ q.client = "rejected"
    <3> HIDE DEF p
    <3> QED BY <1>0, Words DEF Forms
  <2> HIDE DEF q
  <2> QED BY <2>1, <2>2, SettingMoves DEF Spliced
<1> QED BY <1>2, <1>3, <1>4

LEMMA GivenBackMoves ==
  ASSUME Types, NEW n \in Attaches, GivenBack(n)
  PROVE  Moved(n, path[n].pc, path[n].stop, IF path[n].leave = "giving" THEN "releasing" ELSE "keeping")
<1> DEFINE p == path[n]
           l == IF p.leave = "giving" THEN "releasing" ELSE "keeping"
           q == [p EXCEPT !.leave = l]
<1>1. path' = [path EXCEPT ![n] = q] /\ p \in Forms /\ l \in Leavings
  BY Words DEF GivenBack, Types
<1>2. q \in Forms /\ q.pc = p.pc /\ q.stop = p.stop /\ q.leave = l
      /\ q.card = p.card /\ q.tap = p.tap /\ q.seen = p.seen
      /\ q.relay = p.relay /\ q.client = p.client /\ q.stale = p.stale
  <2> HIDE DEF p, l
  <2> QED BY <1>1 DEF Forms
<1> HIDE DEF q
<1> QED BY <1>1, <1>2, SettingMoves DEF Spliced

LEMMA EndMoves ==
  ASSUME ConstantsOK, Types, NEW n \in Attaches,
         RolledBack(n) \/ (Left(n) /\ At(n, "attached")) \/ (RelayClosed(n) /\ At(n, "over"))
  PROVE  Ended(n)
<1> DEFINE p == path[n]
<1>0. p \in Forms
  BY DEF Types
<1>1. ASSUME NEW u \in Forms, path' = [path EXCEPT ![n] = Over(u)] PROVE Ended(n)
  <2> DEFINE q == Over(u)
  <2>1. q \in Forms /\ q.stop = "done" /\ q.client = "none" /\ q.pc = "over"
        /\ q.seen = {} /\ q.leave = "no" /\ q.card = None
    BY OverForm
  <2>2. path' = [path EXCEPT ![n] = q]
    BY <1>1
  <2> HIDE DEF q
  <2> QED BY <2>1, <2>2, PutOne DEF Ended, Spliced
<1>2. CASE RelayClosed(n) /\ At(n, "over")
  <2> DEFINE u == [p EXCEPT !.relay = "none"]
  <2>1. path' = [path EXCEPT ![n] = Over(u)]
    BY <1>2 DEF RelayClosed, Types
  <2>2. u \in Forms
    <3> HIDE DEF p
    <3> QED BY <1>0, Words DEF Forms
  <2> HIDE DEF u
  <2> QED BY <1>1, <2>1, <2>2
<1>3. CASE RolledBack(n) \/ (Left(n) /\ At(n, "attached"))
  <2>1. path' = [path EXCEPT ![n] = Over(p)]
    BY <1>3 DEF RolledBack, Left, Types
  <2> QED BY <1>0, <1>1, <2>1
<1> QED BY <1>2, <1>3

LEMMA LeftMoves ==
  ASSUME Types, NEW n \in Attaches, Left(n), ~At(n, "attached")
  PROVE  Moved(n, path[n].pc, path[n].stop, "no")
<1> DEFINE p == path[n]
           q == [p EXCEPT !.leave = "no"]
<1>1. path' = [path EXCEPT ![n] = q] /\ p \in Forms
  BY DEF Left, Types
<1>2. q \in Forms /\ q.pc = p.pc /\ q.stop = p.stop /\ q.leave = "no"
      /\ q.card = p.card /\ q.tap = p.tap /\ q.seen = p.seen
      /\ q.relay = p.relay /\ q.client = p.client /\ q.stale = p.stale
  <2> HIDE DEF p
  <2> QED BY <1>1, Words DEF Forms
<1> HIDE DEF q
<1> QED BY <1>1, <1>2, SettingMoves DEF Spliced

LEMMA AttachMoves ==
  ASSUME ConstantsOK, Types, NEW c \in Cards, Attach(c)
  PROVE  LET n == count.attaches + 1 IN
         /\ n \in Attaches /\ One(n) /\ Spliced(path'[n])
         /\ path'[n].pc = "claim" /\ path'[n].stop = "no" /\ path'[n].leave = "no"
         /\ path'[n].card = c /\ path'[n].tap = None /\ path'[n].seen = {}
         /\ count' \in Counts /\ count'.attaches = n
<1> DEFINE n == count.attaches + 1
           i == Idle
           q == [i EXCEPT !.card = c, !.pc = "claim"]
<1>1. n \in Attaches /\ count' \in Counts /\ count'.attaches = n
  <2>1. count \in Counts /\ count.attaches < MaxAttaches
        /\ count' = [count EXCEPT !.attaches = count.attaches + 1]
    BY DEF Attach, Types
  <2>2. MaxAttaches \in Nat
    BY DEF ConstantsOK
  <2>3. count.attaches \in 0..MaxAttaches /\ n \in 0..MaxAttaches /\ n \in 1..MaxAttaches
    BY <2>1, <2>2 DEF Counts
  <2> HIDE DEF n
  <2> QED BY <2>1, <2>3 DEF Counts, Attaches, n
<1>2. path' = [path EXCEPT ![n] = q]
  BY DEF Attach
<1>3. i \in Forms /\ i.tap = None /\ i.seen = {} /\ i.stop = "no" /\ i.leave = "no" /\ i.client = "none"
  BY IdleForm
<1> HIDE DEF i, n
<1>4. q \in Forms /\ q.pc = "claim" /\ q.stop = "no" /\ q.leave = "no" /\ q.card = c
      /\ q.tap = None /\ q.seen = {} /\ q.client = "none"
  BY <1>3, Words DEF Forms
<1> HIDE DEF q
<1>5. One(n) /\ path'[n] = q
  BY <1>1, <1>2, <1>4, PutOne
<1>6. Spliced(q)
  BY <1>4 DEF Spliced
<1> QED BY <1>1, <1>4, <1>5, <1>6 DEF n

\* A path that is not over has a card, and an adapter when it has come so far.
Tapped == {"new", "relay", "dial", "ip", "attached"}
Carded(p) == /\ p.pc \in {"idle", "over"} \/ p.card \in Cards
             /\ p.pc \in Tapped => p.tap \in Taps

\* One step of each path.
Formed ==
  /\ path' \in [Attaches -> Forms]
  /\ \A m \in Attaches : Spliced(path[m]) => Spliced(path'[m])
  /\ \A m \in Attaches : Carded(path[m]) => Carded(path'[m])

LEMMA GrantedMoves ==
  ASSUME ConstantsOK, Types, NEW n \in Attaches, Granted(n), Carded(path[n])
  PROVE  /\ Formed
         /\ pass' \in [Cards -> Tokens] /\ borrows' \in [Cards -> Tokens]
         /\ borrows[Card(n)] = 0 =>
              /\ Moved(n, "list", path[n].stop, path[n].leave)
              /\ borrows' = [borrows EXCEPT ![Card(n)] = n]
<1> DEFINE c == Card(n)
           token == IF pass[c] = 0 THEN n ELSE pass[c]
           left == borrows[c]
<1>1. c \in Cards /\ path[n].pc = "claim" /\ path[n] \in Forms
  BY DEF Granted, At, Carded, Types, Card
<1>2. token \in Tokens /\ n \in Tokens /\ 0 \in Tokens /\ left \in Tokens
  BY <1>1, Numbers, ConstantsOK DEF Types, Tokens, Attaches, ConstantsOK
<1>3. pass' = [pass EXCEPT ![c] = token]
  BY DEF Granted
<1>4. CASE left = 0
  <2> DEFINE p == path[n]
             q == [p EXCEPT !.pc = "list", !.token = token]
  <2>1. path' = [path EXCEPT ![n] = q] /\ borrows' = [borrows EXCEPT ![c] = n]
    BY <1>4 DEF Granted, Types
  <2>2. q \in Forms /\ q.pc = "list" /\ q.stop = p.stop /\ q.leave = p.leave
        /\ q.card = p.card /\ q.tap = p.tap /\ q.seen = p.seen
        /\ q.relay = p.relay /\ q.client = p.client /\ q.stale = p.stale
    <3> HIDE DEF p, token
    <3> QED BY <1>1, <1>2, Words DEF Forms, p
  <2>3. Moved(n, "list", path[n].stop, path[n].leave)
    <3> HIDE DEF q
    <3> QED BY <2>1, <2>2, SettingMoves DEF Spliced
  <2>4. Formed
    BY <1>1, <2>3 DEF Formed, Moved, One, Carded, Card, Tapped
  <2> HIDE DEF token
  <2> QED BY <1>2, <1>3, <2>1, <2>3, <2>4 DEF Types
<1>5. CASE left # 0
  <2> DEFINE a == Stop(path[left])
             f == [path EXCEPT ![left] = a]
             p == f[n]
             q == [p EXCEPT !.pc = "takeover", !.token = token]
  <2>1. left \in Attaches
    BY <1>2, <1>5, ConstantsOK DEF Tokens, Attaches, ConstantsOK
  <2>2. path' = [f EXCEPT ![n] = q] /\ borrows' = [borrows EXCEPT ![c] = 0]
    BY <1>5, <2>1 DEF Granted, Types
  <2>3. a \in Forms /\ a.client \in {"none", "off"} /\ a.pc = path[left].pc /\ a.card = path[left].card
        /\ a.tap = path[left].tap
    BY <2>1, StopForm DEF Types
  <2> HIDE DEF a
  <2>4. /\ f \in [Attaches -> Forms] /\ p \in Forms
        /\ \A m \in Attaches :
             /\ f[m] = path[m] \/ f[m].client \in {"none", "off"}
             /\ f[m].pc = path[m].pc /\ f[m].card = path[m].card /\ f[m].tap = path[m].tap
    BY <2>1, <2>3 DEF Types
  <2> HIDE DEF f
  <2>5. q \in Forms /\ q.pc = "takeover" /\ q.card = p.card
        /\ q.relay = p.relay /\ q.client = p.client /\ q.stale = p.stale
    <3> HIDE DEF p, token
    <3> QED BY <1>2, <2>4, Words DEF Forms
  <2> HIDE DEF q
  <2>6. path' \in [Attaches -> Forms] /\ path'[n] = q /\ \A m \in Attaches \ {n} : path'[m] = f[m]
    BY <2>2, <2>4, <2>5
  <2>7. Formed
    <3> SUFFICES ASSUME NEW m \in Attaches
                 PROVE  /\ Spliced(path[m]) => Spliced(path'[m])
                        /\ Carded(path[m]) => Carded(path'[m])
      BY <2>6 DEF Formed
    <3>1. CASE m = n
      BY <1>1, <2>4, <2>5, <2>6, <3>1 DEF Spliced, Carded, Card, Tapped
    <3>2. CASE m # n
      BY <2>4, <2>6, <3>2 DEF Spliced, Carded
    <3> QED BY <3>1, <3>2
  <2> HIDE DEF token
  <2> QED BY <1>2, <1>3, <1>5, <2>2, <2>7 DEF Types
<1> QED BY <1>4, <1>5

LEMMA ListedMoves ==
  ASSUME ConstantsOK, Types, NEW n \in Attaches, Listed(n)
  PROVE  /\ One(n) /\ (Spliced(path[n]) => Spliced(path'[n]))
         /\ path'[n].pc = "pick" /\ path'[n].seen = present
         /\ path'[n].stop = path[n].stop /\ path'[n].leave = path[n].leave
         /\ path'[n].card = path[n].card /\ path'[n].tap = path[n].tap
<1> DEFINE p == path[n]
           s == present
           q == [p EXCEPT !.pc = "pick", !.seen = s]
<1>1. path' = [path EXCEPT ![n] = q] /\ p \in Forms /\ s \in TapSets
  BY DEF Listed, Types, TapSets
<1>2. q \in Forms /\ q.pc = "pick" /\ q.stop = p.stop /\ q.leave = p.leave
      /\ q.card = p.card /\ q.tap = p.tap /\ q.seen = s
      /\ q.relay = p.relay /\ q.client = p.client /\ q.stale = p.stale
  <2> HIDE DEF p, s
  <2> QED BY <1>1, Words DEF Forms
<1> HIDE DEF q
<1> QED BY <1>1, <1>2, PutOne DEF Spliced

\* A free adapter, or the way to a new one.
LEMMA PickedMoves ==
  ASSUME ConstantsOK, Types, NEW n \in Attaches, Picked(n)
  PROVE  /\ One(n) /\ (Spliced(path[n]) => Spliced(path'[n])) /\ path[n].pc = "pick"
         /\ path'[n].stop = path[n].stop /\ path'[n].leave = path[n].leave
         /\ path'[n].card = path[n].card
         /\ records' = records \cap path[n].seen
         /\ \/ \E t \in records' \ busyTaps :
                 /\ busyTaps' = busyTaps \cup {t} /\ path'[n].tap = t
                 /\ path'[n].pc = "relay" /\ path'[n].seen = {}
            \/ /\ busyTaps' = busyTaps /\ path'[n].tap = path[n].tap
               /\ path'[n].pc = "create" /\ path'[n].seen = present
<1> DEFINE p == path[n]
           s == present
<1>1. p \in Forms /\ s \in TapSets
  BY DEF Types, TapSets
<1>2. CASE \E t \in records' \ busyTaps :
             /\ busyTaps' = busyTaps \cup {t}
             /\ path' = [path EXCEPT ![n] = [p EXCEPT !.tap = t, !.pc = "relay", !.relay = "opening", !.seen = {}]]
  <2> PICK t \in records' \ busyTaps :
             /\ busyTaps' = busyTaps \cup {t}
             /\ path' = [path EXCEPT ![n] = [p EXCEPT !.tap = t, !.pc = "relay", !.relay = "opening", !.seen = {}]]
    BY <1>2
  <2> DEFINE q == [p EXCEPT !.tap = t, !.pc = "relay", !.relay = "opening", !.seen = {}]
  <2>1. t \in TapOrNone
    BY DEF Picked, Types, TapOrNone
  <2>2. q \in Forms /\ q.pc = "relay" /\ q.stop = p.stop /\ q.leave = p.leave
        /\ q.card = p.card /\ q.tap = t /\ q.seen = {} /\ q.relay = "opening"
    <3> HIDE DEF p
    <3> QED BY <1>1, <2>1, Words DEF Forms
  <2>3. path' = [path EXCEPT ![n] = q]
    OBVIOUS
  <2> HIDE DEF q
  <2>4. One(n) /\ path'[n] = q /\ Spliced(path'[n])
    BY <2>2, <2>3, PutOne DEF Spliced
  <2> QED BY <1>2, <2>2, <2>4 DEF Picked, At
<1>3. CASE /\ busyTaps' = busyTaps
           /\ path' = [path EXCEPT ![n] = [p EXCEPT !.pc = "create", !.seen = s]]
  <2> DEFINE q == [p EXCEPT !.pc = "create", !.seen = s]
  <2>1. q \in Forms /\ q.pc = "create" /\ q.stop = p.stop /\ q.leave = p.leave
        /\ q.card = p.card /\ q.tap = p.tap /\ q.seen = s
        /\ q.relay = p.relay /\ q.client = p.client /\ q.stale = p.stale
    <3> HIDE DEF p, s
    <3> QED BY <1>1, Words DEF Forms
  <2>2. path' = [path EXCEPT ![n] = q]
    BY <1>3
  <2> HIDE DEF q
  <2>3. One(n) /\ path'[n] = q /\ (Spliced(p) => Spliced(path'[n]))
    BY <2>1, <2>2, PutOne DEF Spliced
  <2> QED BY <1>3, <2>1, <2>3 DEF Picked, At
<1>4. ASSUME NEW t
      PROVE  [path EXCEPT ![n].tap = t, ![n].pc = "relay", ![n].relay = "opening", ![n].seen = {}]
             = [path EXCEPT ![n] = [p EXCEPT !.tap = t, !.pc = "relay", !.relay = "opening", !.seen = {}]]
  BY DEF Types
<1>5. [path EXCEPT ![n].pc = "create", ![n].seen = present] = [path EXCEPT ![n] = [p EXCEPT !.pc = "create", !.seen = s]]
  BY DEF Types
<1> HIDE DEF p, s
<1>6. \/ \E t \in records' \ busyTaps :
           /\ busyTaps' = busyTaps \cup {t}
           /\ path' = [path EXCEPT ![n] = [p EXCEPT !.tap = t, !.pc = "relay", !.relay = "opening", !.seen = {}]]
      \/ /\ busyTaps' = busyTaps
         /\ path' = [path EXCEPT ![n] = [p EXCEPT !.pc = "create", !.seen = s]]
  BY <1>4, <1>5 DEF Picked
<1> QED BY <1>2, <1>3, <1>6

LEMMA CreatedMoves ==
  ASSUME ConstantsOK, Types, NEW n \in Attaches, Created(n)
  PROVE  /\ One(n) /\ (Spliced(path[n]) => Spliced(path'[n])) /\ path[n].pc = "create"
         /\ path'[n].stop = path[n].stop /\ path'[n].leave = path[n].leave
         /\ path'[n].card = path[n].card /\ path'[n].pc = "new" /\ path'[n].seen = {}
         /\ path'[n].tap # None
         /\ \E t \in Fresh : present' = present \cup {t} /\ (~Devcon => path'[n].tap = t)
<1> DEFINE p == path[n]
<1>1. p \in Forms
  BY DEF Types
<1> PICK t \in Fresh : 
      /\ present' = present \cup {t}
      /\ \E found \in IF Devcon THEN present' \ path[n].seen ELSE {t} :
            path' = [path EXCEPT ![n] = [p EXCEPT !.pc = "new", !.tap = found, !.seen = {}]]
  BY DEF Created, Types
<1> PICK found \in IF Devcon THEN present' \ path[n].seen ELSE {t} :
            path' = [path EXCEPT ![n] = [p EXCEPT !.pc = "new", !.tap = found, !.seen = {}]]
  OBVIOUS
<1> DEFINE q == [p EXCEPT !.pc = "new", !.tap = found, !.seen = {}]
<1>2. found \in Taps /\ found \in TapOrNone
  BY DEF Fresh, Types, TapOrNone
<1>3. found # None
  BY <1>2, ConstantsOK DEF Taps, ConstantsOK
<1>4. q \in Forms /\ q.pc = "new" /\ q.stop = p.stop /\ q.leave = p.leave
      /\ q.card = p.card /\ q.tap = found /\ q.seen = {}
      /\ q.relay = p.relay /\ q.client = p.client /\ q.stale = p.stale
  <2> HIDE DEF p
  <2> QED BY <1>1, <1>2, Words DEF Forms
<1>5. path' = [path EXCEPT ![n] = q]
  OBVIOUS
<1> HIDE DEF q
<1>6. One(n) /\ path'[n] = q /\ (Spliced(p) => Spliced(path'[n]))
  BY <1>4, <1>5, PutOne DEF Spliced
<1> QED BY <1>3, <1>4, <1>6 DEF Created, At

LEMMA RecordedMoves ==
  ASSUME ConstantsOK, Types, NEW n \in Attaches, Recorded(n)
  PROVE  Moved(n, "relay", path[n].stop, path[n].leave)
<1> DEFINE p == path[n]
           q == [p EXCEPT !.pc = "relay", !.relay = "opening"]
<1>1. path' = [path EXCEPT ![n] = q] /\ p \in Forms
  BY DEF Recorded, Types
<1>2. q \in Forms /\ q.pc = "relay" /\ q.stop = p.stop /\ q.leave = p.leave
      /\ q.card = p.card /\ q.tap = p.tap /\ q.seen = p.seen /\ q.relay = "opening"
  <2> HIDE DEF p
  <2> QED BY <1>1, Words DEF Forms
<1> HIDE DEF q
<1> QED BY <1>1, <1>2, SettingMoves DEF Spliced

\* Detaching gives back what the books have under the card, and marks its own attachment.
LEMMA DetachingMoves ==
  ASSUME ConstantsOK, Types, NEW n \in Attaches, NEW keep \in BOOLEAN, Detaching(n, keep)
  PROVE  LET given == IF At(n, "attached") THEN borrows[Card(n)] ELSE 0 IN
         /\ Formed
         /\ given \in {0, n} =>
              /\ One(n) /\ path'[n].pc = path[n].pc /\ path'[n].leave # "no"
              /\ path'[n].card = path[n].card /\ path'[n].tap = path[n].tap /\ path'[n].seen = path[n].seen
              /\ path'[n].stop = IF given = 0 THEN path[n].stop ELSE "relay"
<1> DEFINE given == IF At(n, "attached") THEN borrows[Card(n)] ELSE 0
           l == IF given # 0 THEN IF keep THEN "givingKept" ELSE "giving"
                ELSE IF keep THEN "keeping" ELSE "releasing"
           g(m) == IF m = given THEN Stop(path[m]) ELSE path[m]
           h(m) == IF m # n THEN g(m) ELSE [g(m) EXCEPT !.leave = l]
<1>1. path' = [m \in Attaches |-> h(m)]
  BY DEF Detaching
<1>2. l \in Leavings /\ l # "no"
  BY Words
<1>3. ASSUME NEW m \in Attaches
      PROVE  /\ g(m) \in Forms /\ (Spliced(path[m]) => Spliced(g(m)))
             /\ g(m).pc = path[m].pc /\ g(m).card = path[m].card
             /\ g(m).tap = path[m].tap /\ g(m).seen = path[m].seen
             /\ g(m).stop = IF m = given THEN "relay" ELSE path[m].stop
  <2> HIDE DEF given
  <2> QED BY StopForm DEF Types, Spliced
<1> HIDE DEF l
<1>4. ASSUME NEW m \in Attaches
      PROVE  /\ h(m) \in Forms /\ (Spliced(path[m]) => Spliced(h(m)))
             /\ h(m).pc = path[m].pc /\ h(m).card = path[m].card
             /\ h(m).tap = path[m].tap /\ h(m).seen = path[m].seen
             /\ h(m).stop = IF m = given THEN "relay" ELSE path[m].stop
             /\ (m = n => h(m).leave # "no")
             /\ (m # n /\ m # given => h(m) = path[m])
  <2> HIDE DEF given
  <2>1. CASE m # n
    BY <1>3, <2>1
  <2>2. CASE m = n
    <3> DEFINE p == g(m)
               q == [p EXCEPT !.leave = l]
    <3>1. h(m) = q
      BY <2>2
    <3>2. q \in Forms /\ q.pc = p.pc /\ q.stop = p.stop /\ q.leave = l
          /\ q.card = p.card /\ q.tap = p.tap /\ q.seen = p.seen
          /\ q.relay = p.relay /\ q.client = p.client /\ q.stale = p.stale
      <4>1. p \in Forms
        BY <1>3
      <4> HIDE DEF p
      <4> QED BY <1>2, <4>1 DEF Forms
    <3>3. Spliced(p) => Spliced(q)
      BY <3>2 DEF Spliced
    <3> HIDE DEF q
    <3> QED BY <1>2, <1>3, <2>2, <3>1, <3>2, <3>3
  <2> QED BY <2>1, <2>2
<1> HIDE DEF h, g
<1>5. Formed
  BY <1>1, <1>4 DEF Formed, Carded
<1>6. CASE given \in {0, n}
  <2> HIDE DEF given
  <2>1. One(n) /\ path'[n] = h(n) /\ (given = 0 => n # given)
    BY <1>1, <1>4, <1>6, ConstantsOK DEF One, Attaches, ConstantsOK
  <2> QED BY <1>4, <1>5, <1>6, <2>1 DEF given
<1> QED BY <1>5, <1>6

LEMMA CrashMoves ==
  ASSUME ConstantsOK, Types, Crash
  PROVE  /\ Formed
         /\ \A m \in Attaches :
              /\ path'[m].pc = "idle" <=> path[m].pc = "idle"
              /\ path'[m].pc \in {"idle", "over"} /\ path'[m].leave = "no"
              /\ path'[m].pc = "idle" => path'[m].tap = None
              /\ path'[m].pc = "over" => path'[m].stop = "done"
              /\ path'[m].seen = {}
<1> DEFINE o == Over(Idle)
           i == Idle
<1>1. path' = [m \in Attaches |-> IF path[m].pc = "idle" THEN i ELSE o]
  BY DEF Crash, At
<1>2. i \in Forms /\ i.pc = "idle" /\ i.tap = None /\ i.seen = {} /\ i.leave = "no" /\ i.client = "none"
  BY IdleForm
<1>3. o \in Forms /\ o.pc = "over" /\ o.seen = {} /\ o.leave = "no" /\ o.client = "none" /\ o.stop = "done"
  BY OverForm, IdleForm
<1> HIDE DEF i, o
<1> QED BY <1>1, <1>2, <1>3 DEF Formed, Spliced, Carded, Tapped

-----------------------------------------------------------------------------
(* Types, cards, and the splice: for every step. *)

Rest ==
  /\ count \in Counts
  /\ pass \in [Cards -> Tokens] /\ attachments \in [Cards -> Tokens] /\ borrows \in [Cards -> Tokens]
  /\ present \subseteq Taps /\ records \subseteq Taps /\ busyTaps \subseteq Taps /\ reaping \subseteq Taps

PathInv == Types /\ \A m \in Attaches : Spliced(path[m]) /\ Carded(path[m])

LEMMA MovedFormed ==
  ASSUME NEW n \in Attaches, NEW pc, NEW stop, NEW leave, Moved(n, pc, stop, leave),
         \/ pc = path[n].pc
         \/ path[n].pc \notin {"idle", "over"} /\ (pc \in Tapped => path[n].pc \in Tapped)
  PROVE  Formed
BY DEF Moved, One, Formed, Carded

LEMMA EndedFormed ==
  ASSUME NEW n \in Attaches, Ended(n)
  PROVE  Formed
BY DEF Ended, One, Formed, Carded, Tapped

LEMMA CountOfFailures ==
  ASSUME ConstantsOK, Types, OneFails
  PROVE  count' \in Counts /\ count'.attaches = count.attaches
<1>1. count \in Counts /\ count.failures < MaxFailures
      /\ count' = [count EXCEPT !.failures = count.failures + 1]
  BY DEF OneFails, Types
<1>2. MaxFailures \in Nat
  BY DEF ConstantsOK
<1>3. count.failures \in 0..MaxFailures /\ count.failures + 1 \in 0..MaxFailures
  BY <1>1, <1>2 DEF Counts
<1> QED BY <1>1, <1>3 DEF Counts

LEMMA CountOfStops ==
  ASSUME ConstantsOK, Types, Crash
  PROVE  count' \in Counts /\ count'.attaches = count.attaches
<1>1. count \in Counts /\ count.stops < MaxStops /\ count' = [count EXCEPT !.stops = count.stops + 1]
  BY DEF Crash, Types
<1>2. MaxStops \in Nat
  BY DEF ConstantsOK
<1>3. count.stops \in 0..MaxStops /\ count.stops + 1 \in 0..MaxStops
  BY <1>1, <1>2 DEF Counts
<1> QED BY <1>1, <1>3 DEF Counts

\* The steps of the attachment n.
LEMMA MakesFormed ==
  ASSUME ConstantsOK, PathInv, NEW n \in Attaches, Makes(n) \/ Refused(n) \/ DialsAgain(n)
  PROVE  Formed /\ Rest'
<1>0. Types /\ Carded(path[n]) /\ 0 \in Tokens /\ n \in Tokens
  BY Numbers, ConstantsOK DEF PathInv, Tokens, Attaches, ConstantsOK
<1>1. CASE Granted(n)
  BY <1>0, <1>1, GrantedMoves DEF Granted, Rest, Types, pool
<1>2. CASE Listed(n)
  <2>1. Formed
    BY <1>0, <1>2, ListedMoves DEF Formed, One, Carded, Listed, Tapped
  <2> QED BY <1>0, <1>2, <2>1 DEF Listed, Rest, Types, pool
<1>3. CASE Picked(n)
  <2>1. Formed
    <3>1. records' \subseteq Taps
      BY <1>0, <1>3, PickedMoves DEF Types
    <3> QED BY <1>0, <1>3, <3>1, PickedMoves DEF Formed, One, Carded, Tapped
  <2>2. records' \subseteq Taps /\ busyTaps' \subseteq Taps
    BY <1>0, <1>3, PickedMoves DEF Types
  <2> QED BY <1>0, <1>3, <2>1, <2>2 DEF Picked, Rest, Types
<1>4. CASE Created(n)
  <2>1. path'[n] \in Forms /\ path'[n].tap \in TapOrNone /\ path'[n].tap # None
    BY <1>0, <1>4, CreatedMoves DEF Forms, One
  <2>2. Formed
    BY <1>0, <1>4, <2>1, CreatedMoves DEF Formed, One, Carded, Tapped, TapOrNone
  <2>3. present' \subseteq Taps
    BY <1>0, <1>4, CreatedMoves DEF Types, Fresh
  <2> QED BY <1>0, <1>4, <2>2, <2>3 DEF Created, Rest, Types
<1>5. CASE Recorded(n)
  <2>1. Formed
    BY <1>0, <1>5, RecordedMoves, MovedFormed DEF Recorded, At, Tapped
  <2>2. path[n].tap \in Taps
    BY <1>0, <1>5 DEF Recorded, At, Carded, Tapped
  <2> QED BY <1>0, <1>5, <2>1, <2>2 DEF Recorded, Rest, Types
<1>6. CASE NoTap(n) \/ DialFails(n)
  <2>1. Fail(n) /\ path[n].pc \in {"list", "create", "dial"}
    BY <1>6 DEF NoTap, DialFails, At
  <2>2. Formed
    BY <1>0, <2>1, FailMoves, MovedFormed DEF Tapped
  <2>3. borrows' \in [Cards -> Tokens]
    BY <1>0, <2>1 DEF Fail, Types
  <2>4. count' \in Counts
    BY <1>0, <1>6, CountOfFailures DEF NoTap, DialFails, Types
  <2> QED BY <1>0, <1>6, <2>2, <2>3, <2>4 DEF NoTap, DialFails, Rest, Types, pool
<1>7. CASE Dialled(n)
  <2>1. Formed
    BY <1>0, <1>7, DialledMoves, MovedFormed DEF Dialled, At, Tapped
  <2> QED BY <1>0, <1>7, <2>1 DEF Dialled, Rest, Types, pool
<1>8. CASE Attached(n)
  <2>1. Formed
    BY <1>0, <1>8, AttachedMoves, MovedFormed DEF Attached, At, Tapped
  <2> QED BY <1>0, <1>8, <2>1 DEF Attached, Rest, Types, pool
<1>9. CASE Freed(n)
  <2>1. Formed
    BY <1>0, <1>9, FreedMoves, MovedFormed DEF Tapped
  <2> QED BY <1>0, <1>9, <2>1 DEF Freed, Rest, Types, pool
<1>10. CASE RolledBack(n)
  <2>1. Formed
    BY <1>0, <1>10, EndMoves, EndedFormed
  <2>2. count' \in Counts
    BY <1>0, <1>10, CountOfFailures DEF RolledBack, Types
  <2> QED BY <1>0, <1>10, <2>1, <2>2 DEF RolledBack, Rest, Types, pool
<1>11. CASE Refused(n)
  <2>1. Formed
    BY <1>0, <1>11, RefusedMoves, MovedFormed DEF Refused, At, Tapped
  <2>2. count' \in Counts
    BY <1>0, <1>11, CountOfFailures DEF Refused
  <2> QED BY <1>0, <1>11, <2>1, <2>2 DEF Refused, Rest, Types, pool
<1>12. CASE DialsAgain(n)
  <2>1. Formed
    BY <1>0, <1>12, DialsAgainMoves, MovedFormed
  <2>2. count' \in Counts
    BY <1>0, <1>12, CountOfFailures DEF DialsAgain
  <2> QED BY <1>0, <1>12, <2>1, <2>2 DEF DialsAgain, Rest, Types, pool
<1> QED BY <1>1, <1>2, <1>3, <1>4, <1>5, <1>6, <1>7, <1>8, <1>9, <1>10, <1>11, <1>12 DEF Makes

\* The steps of its relay and of its channel.
LEMMA RunsFormed ==
  ASSUME ConstantsOK, PathInv, NEW n \in Attaches,
         \/ Relays(n) \/ RelayNotOpened(n) \/ RelayFalls(n) \/ FallsForgotten(n)
         \/ Channels(n) \/ LinkBreaks(n)
  PROVE  Formed /\ Rest'
<1>0. Types /\ Carded(path[n]) /\ 0 \in Tokens
  BY Numbers DEF PathInv
<1>1. CASE RelayUp(n)
  <2>1. Formed
    BY <1>0, <1>1, RelayUpMoves, MovedFormed DEF Tapped
  <2> QED BY <1>0, <1>1, <2>1 DEF RelayUp, Rest, Types, pool
<1>2. CASE RelayFalls(n) \/ RelayRestarts(n) \/ FallsForgotten(n) \/ (RelayClosed(n) /\ ~At(n, "over"))
  <2>1. Formed
    BY <1>0, <1>2, RelayAloneMoves, MovedFormed
  <2>2. count' \in Counts
    BY <1>0, <1>2, CountOfFailures DEF RelayFalls, RelayRestarts, FallsForgotten, RelayClosed, Types
  <2> QED BY <1>0, <1>2, <2>1, <2>2
       DEF RelayFalls, RelayRestarts, FallsForgotten, RelayClosed, Rest, Types, pool
<1>3. CASE RelayClosed(n) /\ At(n, "over")
  <2>1. Formed
    BY <1>0, <1>3, EndMoves, EndedFormed
  <2> QED BY <1>0, <1>3, <2>1 DEF RelayClosed, Rest, Types, pool
<1>4. CASE RelayNotOpened(n)
  <2>1. Formed
    BY <1>0, <1>4, RelayNotOpenedMoves, MovedFormed DEF At, Tapped
  <2>2. count' \in Counts /\ borrows' \in [Cards -> Tokens]
    BY <1>0, <1>4, CountOfFailures DEF RelayNotOpened, Types
  <2> QED BY <1>0, <1>4, <2>1, <2>2 DEF RelayNotOpened, Rest, Types, pool
<1>5. CASE LinkBreaks(n) \/ LinkClosed(n) \/ Redialled(n)
  <2>1. Formed
    BY <1>0, <1>5, ChannelMoves, MovedFormed
  <2>2. count' \in Counts
    BY <1>0, <1>5, CountOfFailures DEF LinkBreaks, LinkClosed, Redialled, Types
  <2> QED BY <1>0, <1>5, <2>1, <2>2 DEF LinkBreaks, LinkClosed, Redialled, Rest, Types, pool
<1> QED BY <1>1, <1>2, <1>3, <1>4, <1>5 DEF Relays, Channels

\* The steps by which it is given back.
LEMMA LeavesFormed ==
  ASSUME ConstantsOK, PathInv, NEW n \in Attaches, Leaves(n) \/ Detach(n) \/ RevokedMeanwhile(n)
  PROVE  Formed /\ Rest'
<1>0. Types /\ Carded(path[n]) /\ 0 \in Tokens
  BY Numbers DEF PathInv
<1>1. CASE \E keep \in BOOLEAN : Detaching(n, keep)
  <2> PICK keep \in BOOLEAN : Detaching(n, keep)
    BY <1>1
  <2>1. Formed
    BY <1>0, DetachingMoves
  <2>2. borrows' \in [Cards -> Tokens]
    BY <1>0 DEF Detaching, Types
  <2> QED BY <1>0, <2>1, <2>2 DEF Detaching, Rest, Types, pool
<1>2. CASE GivenBack(n)
  <2>1. Formed
    BY <1>0, <1>2, GivenBackMoves, MovedFormed
  <2> QED BY <1>0, <1>2, <2>1 DEF GivenBack, Rest, Types, pool
<1>3. CASE Left(n)
  <2>1. Formed
    BY <1>0, <1>3, EndMoves, EndedFormed, LeftMoves, MovedFormed
  <2>2. count' \in Counts /\ pass' \in [Cards -> Tokens]
    BY <1>0, <1>3, CountOfFailures DEF Left, Types
  <2>3. attachments' \in [Cards -> Tokens]
    BY <1>0, <1>3 DEF Left, Types
  <2> QED BY <1>0, <1>3, <2>1, <2>2, <2>3 DEF Left, Rest, Types, pool
<1>4. CASE RevokedMeanwhile(n)
  <2>1. Formed
    BY <1>0, <1>4 DEF RevokedMeanwhile, Formed, Types
  <2> QED BY <1>0, <1>4, <2>1 DEF RevokedMeanwhile, Rest, Types, pool
<1> QED BY <1>1, <1>2, <1>3, <1>4 DEF Leaves, Detach, Revoked

\* The steps of a card, of an adapter, of the program.
LEMMA OthersFormed ==
  ASSUME ConstantsOK, PathInv,
         \/ \E c \in Cards : Attach(c) \/ Revoke(c) \/ Expires(c)
         \/ \E t \in Taps : Reaps(t)
         \/ Crash
  PROVE  Formed /\ Rest'
<1>0. Types /\ 0 \in Tokens
  BY Numbers DEF PathInv
<1>1. ASSUME NEW c \in Cards, Attach(c) PROVE Formed /\ Rest'
  <2> DEFINE n == count.attaches + 1
  <2>1. n \in Attaches /\ One(n) /\ Spliced(path'[n]) /\ path'[n].card = c /\ path'[n].pc = "claim"
        /\ count' \in Counts
    BY <1>0, <1>1, AttachMoves
  <2>2. attachments' = [attachments EXCEPT ![c] = n]
    BY <1>1 DEF Attach
  <2> HIDE DEF n
  <2>3. Formed
    BY <2>1 DEF Formed, One, Carded, Tapped
  <2>4. n \in Tokens
    BY <2>1, ConstantsOK DEF Attaches, Tokens, ConstantsOK
  <2> QED BY <1>0, <1>1, <2>1, <2>2, <2>3, <2>4 DEF Attach, Rest, Types, pool
<1>2. ASSUME NEW c \in Cards, Revoke(c) \/ Expires(c) PROVE Formed /\ Rest'
  BY <1>0, <1>2 DEF Revoke, Expires, own, pool, Formed, Rest, Types
<1>3. ASSUME NEW t \in Taps, Reaps(t) PROVE Formed /\ Rest'
  <2>1. Formed
    BY <1>0, <1>3 DEF Reaps, ReapBegins, Vanishes, ReapEnds, own, Formed, Types
  <2>2. count' \in Counts
    BY <1>0, <1>3, CountOfFailures DEF Reaps, ReapBegins, Vanishes, ReapEnds, own, Types
  <2> QED BY <1>0, <1>3, <2>1, <2>2 DEF Reaps, ReapBegins, Vanishes, ReapEnds, own, Rest, Types
<1>4. CASE Crash
  <2>1. Formed /\ count' \in Counts
    BY <1>0, <1>4, CrashMoves, CountOfStops
  <2> QED BY <1>0, <1>4, <2>1 DEF Crash, Rest, Types
<1> QED BY <1>1, <1>2, <1>3, <1>4

LEMMA PathInit == Init => PathInv
<1> SUFFICES ASSUME Init PROVE PathInv
  OBVIOUS
<1>1. ConstantsOK
  BY ConstantsOK
<1>2. Idle \in Forms /\ Spliced(Idle) /\ Carded(Idle) /\ 0 \in Tokens
  BY <1>1, IdleForm, Numbers DEF Spliced, Carded, Tapped
<1>3. count \in Counts
  BY <1>1 DEF Init, Counts, ConstantsOK
<1> QED BY <1>2, <1>3 DEF Init, PathInv, Types

LEMMA PathStep == PathInv /\ [Next]_vars => PathInv'
<1> SUFFICES ASSUME PathInv, [Next]_vars PROVE PathInv'
  OBVIOUS
<1>1. ConstantsOK
  BY ConstantsOK
<1>2. CASE Next
  <2>1. Formed /\ Rest'
    BY <1>1, <1>2, MakesFormed, RunsFormed, LeavesFormed, OthersFormed DEF Next, Goes
  <2>2. \A m \in Attaches : Spliced(path'[m]) /\ Carded(path'[m])
    BY <2>1 DEF Formed, PathInv
  <2>3. Types'
    BY <2>1 DEF Formed, Rest, Types
  <2> QED BY <2>2, <2>3 DEF PathInv, Spliced, Carded
<1>3. CASE UNCHANGED vars
  BY <1>3 DEF vars, own, pool, PathInv, Types
<1> QED BY <1>2, <1>3

\* Whatever fails, in whatever order, the books have the form they are said to have.
THEOREM TypeCorrect == Spec => []TypeOK
<1>1. PathInv => TypeOK
  BY DEF PathInv, Types, TypeOK, Forms, Paths, Counts, Tokens, Falls, Dials, Pcs, RelayStates, Clients,
         Stops, Leavings, CardOrNone, TapOrNone, TapSets
<1> QED BY <1>1, PathInit, PathStep, PTL DEF Spec

\* Whatever fails, in whatever order, a channel that is up is spliced to the relay that runs
\* (setRelay): its frames reach the adapter.
THEOREM PathsAreWhole == Spec => []PathIsWhole
<1>1. PathInv => PathIsWhole
  BY DEF PathInv, PathIsWhole, Spliced
<1> QED BY <1>1, PathInit, PathStep, PTL DEF Spec

-----------------------------------------------------------------------------
(* The books of the holder, when a target is neither revoked nor attached  *)
(* anew while it is attached: the attachment that lives is the one that    *)
(* attachments and borrows name.                                           *)

Held == {"list", "pick", "create", "new", "relay", "dial", "ip", "attached"}

\* It is being made, or made and not given back.
Live(p) == p.pc \notin {"idle", "over"} /\ (p.pc = "attached" => p.stop = "no")

\* giveBack finds its path.
Leads(p) == p.pc \in Held /\ p.stop = "no"

Fit(p) ==
  /\ p.pc \notin {"takeover", "stuck"}
  /\ p.leave # "no" => p.pc = "attached" /\ p.stop # "no"
  /\ p.pc \notin {"idle", "attached", "over", "failed", "rollback"} => p.stop = "no"

Booked ==
  /\ \A m \in Attaches :
       /\ Fit(path[m])
       /\ m > count.attaches => path[m].pc = "idle"
       /\ Live(path[m]) => attachments[path[m].card] = m
       /\ Leads(path[m]) => borrows[path[m].card] = m
  /\ \A c \in Cards : borrows[c] # 0 => path[borrows[c]].card = c /\ Leads(path[borrows[c]])

BookInv == PathInv /\ Booked

LEMMA LeadsLives == ASSUME NEW p, Leads(p) PROVE Live(p)
BY DEF Leads, Live, Held

LEMMA BooksOfLive ==
  ASSUME BookInv, NEW n \in Attaches, Live(path[n])
  PROVE  /\ path[n].card \in Cards /\ attachments[path[n].card] = n
         /\ borrows[path[n].card] # 0 => borrows[path[n].card] = n /\ Leads(path[n])
<1>0. Types /\ Booked /\ Carded(path[n])
  BY DEF BookInv, PathInv
<1>1. path[n].card \in Cards /\ attachments[path[n].card] = n
  BY <1>0 DEF Live, Carded, Booked
<1>2. ASSUME borrows[path[n].card] # 0 PROVE borrows[path[n].card] = n /\ Leads(path[n])
  <2> DEFINE k == borrows[path[n].card]
  <2>1. k \in Attaches /\ path[k].card = path[n].card /\ Leads(path[k])
    BY <1>0, <1>1, <1>2, ConstantsOK DEF Booked, Types, Tokens, Attaches, ConstantsOK
  <2>2. attachments[path[k].card] = k
    BY <1>0, <2>1, LeadsLives DEF Booked
  <2> QED BY <1>1, <2>1, <2>2
<1> QED BY <1>1, <1>2

\* A path that lives moves: the books change under its card only.
LEMMA BookedLive ==
  ASSUME BookInv, NEW n \in Attaches, One(n), Live(path[n]), NEW c \in Cards, c = path[n].card,
         attachments' \in [Cards -> Tokens], borrows' \in [Cards -> Tokens],
         \A d \in Cards \ {c} : attachments'[d] = attachments[d] /\ borrows'[d] = borrows[d],
         count'.attaches = count.attaches,
         Fit(path'[n]),
         Live(path'[n]) => path'[n].card = c /\ attachments'[c] = n,
         Leads(path'[n]) => path'[n].card = c /\ borrows'[c] = n,
         borrows'[c] # 0 => borrows'[c] = n /\ path'[n].card = c /\ Leads(path'[n])
  PROVE  Booked'
<1>0. Types /\ Booked /\ \A m \in Attaches : Carded(path[m])
  BY DEF BookInv, PathInv
<1>1. ASSUME NEW m \in Attaches
      PROVE  /\ Fit(path'[m])
             /\ m > count'.attaches => path'[m].pc = "idle"
             /\ Live(path'[m]) => attachments'[path'[m].card] = m
             /\ Leads(path'[m]) => borrows'[path'[m].card] = m
  <2>1. CASE m = n
    <3>1. ~(n > count.attaches)
      BY <1>0 DEF Booked, Live
    <3> QED BY <2>1, <3>1
  <2>2. CASE m # n
    <3>1. path'[m] = path[m]
      BY <2>2 DEF One
    <3>2. Live(path[m]) => path[m].card \in Cards \ {c}
      BY <1>0, <2>2 DEF Booked, Live, Carded
    <3> QED BY <1>0, <3>1, <3>2, LeadsLives DEF Booked
  <2> QED BY <2>1, <2>2
<1>2. ASSUME NEW d \in Cards, borrows'[d] # 0
      PROVE  path'[borrows'[d]].card = d /\ Leads(path'[borrows'[d]])
  <2>1. CASE d = c
    BY <1>2, <2>1
  <2>2. CASE d # c
    <3>1. borrows'[d] = borrows[d] /\ borrows[d] # 0 /\ path[borrows[d]].card = d /\ Leads(path[borrows[d]])
      BY <1>0, <1>2, <2>2 DEF Booked
    <3>2. borrows[d] \in Attaches \ {n}
      BY <1>0, <2>2, <3>1, ConstantsOK DEF Types, Tokens, Attaches, ConstantsOK
    <3> QED BY <3>1, <3>2 DEF One
  <2> QED BY <2>1, <2>2
<1> QED BY <1>1, <1>2 DEF Booked, Fit, Live, Leads

\* A path that is not alive moves: the books do not change, or forget it.
LEMMA BookedAside ==
  ASSUME BookInv, NEW n \in Attaches, One(n), ~Live(path[n]), ~Live(path'[n]), Fit(path'[n]),
         path[n].pc = "idle" => path'[n].pc = "idle",
         borrows' = borrows, count'.attaches = count.attaches,
         \A d \in Cards : attachments'[d] = attachments[d] \/ attachments[d] = n
  PROVE  Booked'
<1>0. Types /\ Booked /\ \A m \in Attaches : Carded(path[m])
  BY DEF BookInv, PathInv
<1>1. ~Leads(path[n]) /\ ~Leads(path'[n])
  BY LeadsLives
<1>2. ASSUME NEW m \in Attaches
      PROVE  /\ Fit(path'[m])
             /\ m > count'.attaches => path'[m].pc = "idle"
             /\ Live(path'[m]) => attachments'[path'[m].card] = m
             /\ Leads(path'[m]) => borrows'[path'[m].card] = m
  <2>1. CASE m = n
    BY <1>0, <1>1, <2>1 DEF Booked
  <2>2. CASE m # n
    <3>1. path'[m] = path[m]
      BY <2>2 DEF One
    <3>2. Live(path[m]) => path[m].card \in Cards
      BY <1>0 DEF Live, Carded
    <3> QED BY <1>0, <2>2, <3>1, <3>2 DEF Booked
  <2> QED BY <2>1, <2>2
<1>3. ASSUME NEW d \in Cards, borrows'[d] # 0
      PROVE  path'[borrows'[d]].card = d /\ Leads(path'[borrows'[d]])
  <2>1. borrows[d] # 0 /\ path[borrows[d]].card = d /\ Leads(path[borrows[d]])
    BY <1>0, <1>3 DEF Booked
  <2>2. borrows[d] \in Attaches \ {n}
    BY <1>0, <1>1, <2>1, ConstantsOK DEF Types, Tokens, Attaches, ConstantsOK
  <2> QED BY <2>1, <2>2 DEF One
<1> QED BY <1>2, <1>3 DEF Booked, Fit, Live, Leads

\* It moves, and the books do not change.
LEMMA BookedCalm ==
  ASSUME BookInv, NEW n \in Attaches, One(n), attachments' = attachments, borrows' = borrows,
         count'.attaches = count.attaches,
         path'[n].card = path[n].card, path'[n].stop = path[n].stop, path'[n].leave = path[n].leave,
         path'[n].pc = path[n].pc \/ ({path[n].pc, path'[n].pc} \subseteq Held /\ path[n].pc # "attached")
  PROVE  Booked'
<1>0. Types /\ Booked /\ Carded(path[n]) /\ Fit(path[n])
  BY DEF BookInv, PathInv, Booked
<1>1. Fit(path'[n]) /\ (Live(path'[n]) <=> Live(path[n])) /\ (Leads(path'[n]) <=> Leads(path[n]))
  BY <1>0 DEF Fit, Live, Leads, Held
<1>2. CASE Live(path[n])
  <2>1. path[n].card \in Cards
    BY <1>0, <1>2 DEF Live, Carded
  <2>2. attachments[path[n].card] = n
    BY <1>0, <1>2 DEF Booked
  <2>3. borrows[path[n].card] # 0 => borrows[path[n].card] = n /\ Leads(path[n])
    BY <1>2, BooksOfLive
  <2>4. Leads(path[n]) => borrows[path[n].card] = n
    BY <1>0 DEF Booked
  <2> QED BY <1>0, <1>1, <1>2, <2>1, <2>2, <2>3, <2>4, BookedLive DEF Types
<1>3. CASE ~Live(path[n])
  <2>1. path[n].pc = "idle" => path'[n].pc = "idle"
    BY DEF Held
  <2> QED BY <1>1, <1>3, <2>1, BookedAside
<1> QED BY <1>2, <1>3

\* An attachment that fails on the way takes itself off the books.
LEMMA FailBooked ==
  ASSUME ConstantsOK, BookInv, NEW n \in Attaches, borrows' \in [Cards -> Tokens], attachments' = attachments,
         path[n].pc \in {"list", "create", "relay", "dial"}, Moved(n, "failed", "relay", path[n].leave),
         borrows' = [borrows EXCEPT ![Card(n)] = 0], count'.attaches = count.attaches
  PROVE  Booked'
<1>0. Types /\ Fit(path[n])
  BY DEF BookInv, PathInv, Booked
<1>1. One(n) /\ path'[n].pc = "failed" /\ path'[n].leave = path[n].leave /\ path'[n].card = path[n].card
  BY DEF Moved
<1>2. Live(path[n]) /\ Fit(path'[n]) /\ ~Leads(path'[n])
  BY <1>0, <1>1 DEF Fit, Live, Leads, Held
<1>3. path[n].card \in Cards /\ attachments[path[n].card] = n
  BY <1>2, BooksOfLive
<1>4. borrows'[path[n].card] = 0 /\ \A d \in Cards \ {path[n].card} : borrows'[d] = borrows[d]
  BY <1>0, <1>3 DEF Types, Card
<1> QED BY <1>0, <1>1, <1>2, <1>3, <1>4, BookedLive DEF Types

\* Each step keeps the books.
LEMMA MakesBooked ==
  ASSUME ConstantsOK, BookInv, Rest', NEW n \in Attaches, Makes(n) \/ Refused(n) \/ DialsAgain(n)
  PROVE  Booked'
<1>0. Types /\ Carded(path[n]) /\ Booked /\ Fit(path[n]) /\ PathInv
  BY DEF BookInv, PathInv, Booked
<1>1. attachments' \in [Cards -> Tokens] /\ borrows' \in [Cards -> Tokens] /\ n # 0
  BY ConstantsOK DEF Rest, Attaches, ConstantsOK
<1>2. CASE Granted(n)
  <2>1. path[n].pc = "claim" /\ Live(path[n]) /\ ~Leads(path[n]) /\ path[n].stop = "no" /\ path[n].leave = "no"
    BY <1>0, <1>2 DEF Granted, At, Live, Leads, Held, Fit
  <2>2. path[n].card \in Cards /\ attachments[path[n].card] = n /\ borrows[path[n].card] = 0
    BY <2>1, BooksOfLive
  <2>3. Moved(n, "list", "no", "no") /\ borrows' = [borrows EXCEPT ![path[n].card] = n]
    BY <1>0, <1>2, <2>1, <2>2, GrantedMoves DEF Card
  <2>4. attachments' = attachments /\ count' = count
    BY <1>2 DEF Granted
  <2>5. One(n) /\ path'[n].pc = "list" /\ path'[n].stop = "no" /\ path'[n].leave = "no"
        /\ path'[n].card = path[n].card
    BY <2>3 DEF Moved
  <2>6. Fit(path'[n]) /\ Leads(path'[n])
    BY <2>5 DEF Fit, Leads, Held
  <2>7. borrows'[path[n].card] = n /\ \A d \in Cards \ {path[n].card} : borrows'[d] = borrows[d]
    BY <1>0, <2>2, <2>3 DEF Types
  <2> QED BY <1>1, <2>1, <2>2, <2>4, <2>5, <2>6, <2>7, BookedLive
<1>3. CASE Listed(n) \/ Picked(n) \/ Created(n) \/ Recorded(n) \/ Dialled(n) \/ DialsAgain(n) \/ Attached(n)
  <2>1. attachments' = attachments /\ borrows' = borrows
    BY <1>0, <1>3 DEF Listed, Picked, Created, Recorded, Dialled, DialsAgain, Attached, At, Fit
  <2>2. count'.attaches = count.attaches
    BY <1>0, <1>3, CountOfFailures DEF Listed, Picked, Created, Recorded, Dialled, DialsAgain, Attached
  <2>3. One(n) /\ path'[n].card = path[n].card /\ path'[n].stop = path[n].stop /\ path'[n].leave = path[n].leave
    BY <1>0, <1>3, ListedMoves, PickedMoves, CreatedMoves, RecordedMoves, DialledMoves, DialsAgainMoves,
       AttachedMoves DEF Moved
  <2>4. path[n].pc \in Held \ {"attached"} /\ path'[n].pc \in Held
    <3>1. CASE Listed(n)
      BY <1>0, <3>1, ListedMoves DEF Listed, Fit, Held
    <3>2. CASE Picked(n)
      BY <1>0, <3>2, PickedMoves DEF Held
    <3>3. CASE Created(n)
      BY <1>0, <3>3, CreatedMoves DEF Held
    <3>4. CASE Recorded(n)
      BY <1>0, <3>4, RecordedMoves DEF Recorded, At, Moved, Held
    <3>5. CASE Dialled(n)
      BY <1>0, <3>5, DialledMoves DEF Dialled, At, Moved, Held, Fit, Stopped
    <3>6. CASE DialsAgain(n)
      BY <1>0, <3>6, DialsAgainMoves DEF DialsAgain, At, Moved, Held
    <3>7. CASE Attached(n)
      BY <1>0, <3>7, AttachedMoves DEF Attached, At, Moved, Held
    <3> QED BY <1>3, <3>1, <3>2, <3>3, <3>4, <3>5, <3>6, <3>7
  <2> QED BY <2>1, <2>2, <2>3, <2>4, BookedCalm
<1>4. CASE NoTap(n) \/ DialFails(n)
  <2>1. Fail(n) /\ path[n].pc \in {"list", "create", "dial"} /\ attachments' = attachments
    BY <1>4 DEF NoTap, DialFails, At
  <2>2. count'.attaches = count.attaches
    BY <1>0, <1>4, CountOfFailures DEF NoTap, DialFails
  <2>3. Moved(n, "failed", "relay", path[n].leave) /\ borrows' = [borrows EXCEPT ![Card(n)] = 0]
    BY <1>0, <2>1, FailMoves DEF Fail
  <2> QED BY <1>1, <2>1, <2>2, <2>3, FailBooked
<1>5. CASE Freed(n)
  <2>1. Moved(n, IF path[n].pc = "failed" THEN "rollback" ELSE path[n].pc, "done", path[n].leave)
        /\ path[n].stop = "relay" /\ attachments' = attachments /\ borrows' = borrows /\ count' = count
    BY <1>0, <1>5, FreedMoves DEF Freed
  <2>2. One(n) /\ path'[n].pc = (IF path[n].pc = "failed" THEN "rollback" ELSE path[n].pc)
        /\ path'[n].stop = "done" /\ path'[n].leave = path[n].leave /\ path'[n].card = path[n].card
    BY <2>1 DEF Moved
  <2>3. path[n].pc \in {"idle", "attached", "over", "failed", "rollback"} /\ Fit(path'[n])
        /\ ~Leads(path[n]) /\ ~Leads(path'[n]) /\ (Live(path'[n]) <=> Live(path[n]))
        /\ (path[n].pc = "idle" => path'[n].pc = "idle")
    BY <1>0, <2>1, <2>2 DEF Fit, Leads, Live, Held
  <2>4. CASE Live(path[n])
    <3>1. path[n].card \in Cards /\ attachments[path[n].card] = n /\ borrows[path[n].card] = 0
      BY <2>3, <2>4, BooksOfLive
    <3> QED BY <1>1, <2>1, <2>2, <2>3, <2>4, <3>1, BookedLive
  <2>5. CASE ~Live(path[n])
    BY <2>1, <2>2, <2>3, <2>5, BookedAside
  <2> QED BY <2>4, <2>5
<1>6. CASE RolledBack(n)
  <2>1. Ended(n) /\ path[n].pc = "rollback" /\ borrows' = borrows
        /\ attachments' = [attachments EXCEPT ![path[n].card] = 0]
    BY <1>0, <1>6, EndMoves DEF RolledBack, At, Card
  <2>2. count'.attaches = count.attaches
    BY <1>0, <1>6, CountOfFailures DEF RolledBack
  <2>3. Live(path[n]) /\ ~Leads(path[n]) /\ Fit(path'[n]) /\ ~Live(path'[n]) /\ ~Leads(path'[n]) /\ One(n)
    BY <2>1 DEF Ended, Live, Leads, Held, Fit
  <2>4. path[n].card \in Cards /\ borrows[path[n].card] = 0
    BY <2>3, BooksOfLive
  <2>5. \A d \in Cards \ {path[n].card} : attachments'[d] = attachments[d] /\ borrows'[d] = borrows[d]
    BY <1>0, <2>1 DEF Types
  <2> QED BY <1>1, <2>1, <2>2, <2>3, <2>4, <2>5, BookedLive
<1>7. CASE Refused(n)
  <2>1. Moved(n, "rollback", path[n].stop, path[n].leave) /\ path[n].pc = "claim"
        /\ attachments' = attachments /\ borrows' = borrows
    BY <1>0, <1>7, RefusedMoves DEF Refused, At
  <2>2. count'.attaches = count.attaches
    BY <1>0, <1>7, CountOfFailures DEF Refused
  <2>3. One(n) /\ path'[n].pc = "rollback" /\ path'[n].leave = path[n].leave /\ path'[n].card = path[n].card
    BY <2>1 DEF Moved
  <2>4. Live(path[n]) /\ ~Leads(path[n]) /\ Fit(path'[n]) /\ ~Leads(path'[n])
    BY <1>0, <2>1, <2>3 DEF Fit, Live, Leads, Held
  <2>5. path[n].card \in Cards /\ attachments[path[n].card] = n /\ borrows[path[n].card] = 0
    BY <2>4, BooksOfLive
  <2> QED BY <1>1, <2>1, <2>2, <2>3, <2>4, <2>5, BookedLive
<1> QED BY <1>2, <1>3, <1>4, <1>5, <1>6, <1>7 DEF Makes

LEMMA RunsBooked ==
  ASSUME ConstantsOK, BookInv, Rest', NEW n \in Attaches,
         \/ Relays(n) \/ RelayNotOpened(n) \/ RelayFalls(n) \/ FallsForgotten(n)
         \/ Channels(n) \/ LinkBreaks(n)
  PROVE  Booked'
<1>0. Types /\ Booked /\ Fit(path[n])
  BY DEF BookInv, PathInv, Booked
<1>1. attachments' \in [Cards -> Tokens] /\ borrows' \in [Cards -> Tokens]
  BY DEF Rest
<1>2. CASE RelayClosed(n) /\ At(n, "over")
  <2>1. Ended(n) /\ path[n].pc = "over" /\ attachments' = attachments /\ borrows' = borrows /\ count' = count
    BY <1>0, <1>2, EndMoves DEF RelayClosed, At
  <2>2. One(n) /\ ~Live(path[n]) /\ ~Live(path'[n]) /\ Fit(path'[n])
    BY <2>1 DEF Ended, Live, Fit
  <2> QED BY <2>1, <2>2, BookedAside
<1>3. CASE RelayNotOpened(n) /\ At(n, "relay")
  <2>1. Moved(n, "failed", "relay", path[n].leave) /\ path[n].pc = "relay"
        /\ borrows' = [borrows EXCEPT ![Card(n)] = 0] /\ attachments' = attachments
    BY <1>0, <1>3, RelayNotOpenedMoves DEF RelayNotOpened, At
  <2>2. count'.attaches = count.attaches
    BY <1>0, <1>3, CountOfFailures DEF RelayNotOpened
  <2> QED BY <1>1, <2>1, <2>2, FailBooked
<1>4. CASE \/ RelayUp(n) \/ RelayFalls(n) \/ RelayRestarts(n) \/ FallsForgotten(n)
           \/ (RelayClosed(n) /\ ~At(n, "over")) \/ (RelayNotOpened(n) /\ ~At(n, "relay"))
           \/ LinkBreaks(n) \/ LinkClosed(n) \/ Redialled(n)
  <2>1. attachments' = attachments /\ borrows' = borrows
    BY <1>4 DEF RelayUp, RelayFalls, RelayRestarts, FallsForgotten, RelayClosed, RelayNotOpened,
                LinkBreaks, LinkClosed, Redialled
  <2>2. count'.attaches = count.attaches
    BY <1>0, <1>4, CountOfFailures
       DEF RelayUp, RelayFalls, RelayRestarts, FallsForgotten, RelayClosed, RelayNotOpened,
           LinkBreaks, LinkClosed, Redialled
  <2>3. \E pc : /\ Moved(n, pc, path[n].stop, path[n].leave)
                /\ pc = path[n].pc \/ (path[n].pc = "relay" /\ pc = "dial")
    BY <1>0, <1>4, RelayUpMoves, RelayAloneMoves, RelayNotOpenedMoves, ChannelMoves
  <2>4. One(n) /\ path'[n].card = path[n].card /\ path'[n].stop = path[n].stop /\ path'[n].leave = path[n].leave
        /\ (path'[n].pc = path[n].pc \/ (path[n].pc = "relay" /\ path'[n].pc = "dial"))
    BY <2>3 DEF Moved
  <2> QED BY <2>1, <2>2, <2>4, BookedCalm DEF Held
<1> QED BY <1>2, <1>3, <1>4 DEF Relays, Channels

\* Without overlaps, detach gives back its own attachment.
LEMMA DetachesItsOwn ==
  ASSUME ConstantsOK, ~Overlap, BookInv, NEW n \in Attaches, NEW keep \in BOOLEAN, Detaching(n, keep)
  PROVE  LET c == path[n].card IN
         /\ path[n].pc = "attached" /\ c \in Cards /\ (borrows[c] # 0 => borrows[c] = n)
         /\ One(n) /\ path'[n].pc = "attached" /\ path'[n].card = c
         /\ path'[n].tap = path[n].tap /\ path'[n].seen = path[n].seen
         /\ path'[n].stop = IF borrows[c] = 0 THEN path[n].stop ELSE "relay"
<1>0. Types /\ Booked /\ Carded(path[n]) /\ n # 0
  BY ConstantsOK DEF BookInv, PathInv, Attaches, ConstantsOK
<1> DEFINE c == path[n].card
<1>1. path[n].pc = "attached" /\ attachments[c] = n
  BY DEF Detaching, At, Card
<1>2. c \in Cards
  BY <1>0, <1>1 DEF Carded
<1>3. borrows[c] # 0 => borrows[c] = n
  <2> SUFFICES ASSUME borrows[c] # 0 PROVE borrows[c] = n
    OBVIOUS
  <2> DEFINE k == borrows[c]
  <2>1. k \in Attaches /\ path[k].card = c /\ Leads(path[k])
    BY <1>0, <1>2, ConstantsOK DEF Booked, Types, Tokens, Attaches, ConstantsOK
  <2> QED BY <1>0, <1>1, <2>1, LeadsLives DEF Booked
<1> QED BY <1>0, <1>1, <1>2, <1>3, DetachingMoves DEF At, Card

LEMMA LeavesBooked ==
  ASSUME ConstantsOK, ~Overlap, BookInv, Rest', NEW n \in Attaches,
         Leaves(n) \/ Detach(n) \/ RevokedMeanwhile(n)
  PROVE  Booked'
<1>0. Types /\ Booked /\ Fit(path[n]) /\ Carded(path[n]) /\ n # 0
  BY ConstantsOK DEF BookInv, PathInv, Booked, Attaches, ConstantsOK
<1>1. attachments' \in [Cards -> Tokens] /\ borrows' \in [Cards -> Tokens]
  BY DEF Rest
<1>2. CASE \E keep \in BOOLEAN : Detaching(n, keep)
  <2> PICK keep \in BOOLEAN : Detaching(n, keep)
    BY <1>2
  <2> DEFINE c == path[n].card
  <2>1. attachments' = attachments /\ count' = count
        /\ borrows' = (IF borrows[c] = 0 THEN borrows ELSE [borrows EXCEPT ![c] = 0])
        /\ path[n].pc = "attached"
    BY DetachesItsOwn DEF Detaching, At, Card
  <2>2. c \in Cards
    BY DetachesItsOwn
  <2>3. borrows[c] # 0 => borrows[c] = n
    BY DetachesItsOwn
  <2>4. /\ One(n) /\ path'[n].pc = "attached" /\ path'[n].card = c
        /\ path'[n].stop = IF borrows[c] = 0 THEN path[n].stop ELSE "relay"
    BY DetachesItsOwn
  <2>5. CASE path[n].stop = "no"
    <3>1. Live(path[n]) /\ Leads(path[n]) /\ borrows[c] = n
      BY <1>0, <2>1, <2>5 DEF Live, Leads, Held, Booked
    <3>2. path'[n].stop = "relay" /\ Fit(path'[n]) /\ ~Live(path'[n]) /\ ~Leads(path'[n])
      BY <1>0, <2>4, <3>1 DEF Fit, Live, Leads
    <3>3. borrows'[c] = 0 /\ \A d \in Cards \ {c} : borrows'[d] = borrows[d]
      BY <1>0, <2>1, <2>2, <3>1 DEF Types
    <3> QED BY <1>1, <2>1, <2>2, <2>4, <3>1, <3>2, <3>3, BookedLive
  <2>6. CASE path[n].stop # "no"
    <3>1. ~Live(path[n]) /\ ~Leads(path[n])
      BY <2>1, <2>6 DEF Live, Leads
    <3>2. borrows[c] = 0
      BY <1>0, <2>2, <2>3, <3>1 DEF Booked
    <3>3. ~Live(path'[n]) /\ Fit(path'[n])
      BY <2>4, <2>6, <3>2 DEF Live, Fit
    <3> QED BY <2>1, <2>4, <3>1, <3>2, <3>3, BookedAside
  <2> QED BY <2>5, <2>6
<1>3. CASE GivenBack(n)
  <2>1. /\ Moved(n, path[n].pc, path[n].stop, IF path[n].leave = "giving" THEN "releasing" ELSE "keeping")
        /\ path[n].leave # "no" /\ attachments' = attachments /\ borrows' = borrows /\ count' = count
    BY <1>0, <1>3, GivenBackMoves DEF GivenBack
  <2>2. /\ One(n) /\ path'[n].pc = path[n].pc /\ path'[n].stop = path[n].stop
    BY <2>1 DEF Moved
  <2>3. path[n].pc = "attached" /\ ~Live(path[n]) /\ ~Live(path'[n]) /\ Fit(path'[n])
    BY <1>0, <2>1, <2>2 DEF Fit, Live
  <2> QED BY <2>1, <2>2, <2>3, BookedAside
<1>4. CASE Left(n)
  <2>1. path[n].pc = "attached" /\ ~Live(path[n])
    BY <1>0, <1>4 DEF Left, Fit, Live
  <2>2. Ended(n)
    BY <1>0, <1>4, <2>1, EndMoves DEF At
  <2>3. One(n) /\ ~Live(path'[n]) /\ Fit(path'[n])
    BY <2>2 DEF Ended, Live, Fit
  <2>4. count'.attaches = count.attaches
    BY <1>0, <1>4, CountOfFailures DEF Left
  <2>5. borrows' = borrows /\ \A d \in Cards : attachments'[d] = attachments[d] \/ attachments[d] = n
    BY <1>0, <1>4 DEF Left, Types
  <2> QED BY <2>1, <2>3, <2>4, <2>5, BookedAside
<1>5. CASE RevokedMeanwhile(n)
  <2>1. path[n].pc = "attached" /\ ~Live(path[n])
    BY <1>0, <1>5 DEF RevokedMeanwhile, Fit, Live
  <2>2. One(n) /\ path' = path /\ borrows' = borrows /\ count' = count
    BY <1>0, <1>5 DEF RevokedMeanwhile, One, Types
  <2>3. \A d \in Cards : attachments'[d] = attachments[d] \/ attachments[d] = n
    BY <1>0, <1>5 DEF RevokedMeanwhile, Card, Types
  <2> QED BY <1>0, <2>1, <2>2, <2>3, BookedAside
<1> QED BY <1>2, <1>3, <1>4, <1>5 DEF Leaves, Detach, Revoked

LEMMA OthersBooked ==
  ASSUME ConstantsOK, ~Overlap, BookInv, Rest',
         \/ \E c \in Cards : Attach(c) \/ Revoke(c) \/ Expires(c)
         \/ \E t \in Taps : Reaps(t)
         \/ Crash
  PROVE  Booked'
<1>0. Types /\ Booked /\ \A m \in Attaches : Carded(path[m])
  BY DEF BookInv, PathInv
<1>1. ASSUME NEW c \in Cards, Attach(c) PROVE Booked'
  <2> DEFINE n == count.attaches + 1
  <2>1. /\ n \in Attaches /\ One(n) /\ path'[n].pc = "claim" /\ path'[n].stop = "no"
        /\ path'[n].leave = "no" /\ path'[n].card = c /\ count'.attaches = n
    BY <1>0, <1>1, AttachMoves
  <2>2. n > count.attaches /\ \A m \in Attaches : m > n => m > count.attaches
    BY <1>0, ConstantsOK DEF Types, Counts, Attaches, ConstantsOK
  <2>3. attachments' = [attachments EXCEPT ![c] = n] /\ borrows' = borrows
    BY <1>1 DEF Attach
  <2>4. ASSUME NEW m \in Attaches, Live(path[m]) PROVE path[m].card # c
    <3> SUFFICES ASSUME path[m].card = c PROVE FALSE
      OBVIOUS
    <3>1. attachments[c] = m /\ m # 0
      BY <1>0, <2>4, ConstantsOK DEF Booked, Attaches, ConstantsOK
    <3>2. path[m].pc = "attached"
      BY <1>1, <2>4 DEF Attach, Making, Live, Card
    <3>3. path[m].stop = "no" /\ path[m].leave = "no"
      BY <1>0, <2>4, <3>2 DEF Live, Booked, Fit
    <3> QED BY <1>1, <3>1, <3>2, <3>3 DEF Attach
  <2> HIDE DEF n
  <2>5. Fit(path'[n]) /\ ~Leads(path'[n])
    BY <2>1 DEF Fit, Leads, Held
  <2>6. ASSUME NEW m \in Attaches
        PROVE  /\ Fit(path'[m])
               /\ m > count'.attaches => path'[m].pc = "idle"
               /\ Live(path'[m]) => attachments'[path'[m].card] = m
               /\ Leads(path'[m]) => borrows'[path'[m].card] = m
    <3>1. CASE m = n
      <4>1. ~(n > n)
        BY <2>1 DEF Attaches
      <4>2. attachments'[c] = n
        BY <1>0, <2>3 DEF Types
      <4> QED BY <2>1, <2>5, <3>1, <4>1, <4>2
    <3>2. CASE m # n
      <4>1. path'[m] = path[m]
        BY <2>1, <3>2 DEF One
      <4>2. Live(path[m]) => attachments'[path[m].card] = attachments[path[m].card]
        BY <1>0, <2>3, <2>4 DEF Types, Live, Carded
      <4> QED BY <1>0, <2>1, <2>2, <2>3, <4>1, <4>2 DEF Booked
    <3> QED BY <3>1, <3>2
  <2>7. ASSUME NEW d \in Cards, borrows'[d] # 0
        PROVE  path'[borrows'[d]].card = d /\ Leads(path'[borrows'[d]])
    <3>1. borrows'[d] = borrows[d] /\ path[borrows[d]].card = d /\ Leads(path[borrows[d]])
      BY <1>0, <2>3, <2>7 DEF Booked
    <3>2. borrows[d] \in Attaches
      BY <1>0, <2>3, <2>7, ConstantsOK DEF Types, Tokens, Attaches, ConstantsOK
    <3>3. path[n].pc = "idle"
      BY <1>0, <2>1, <2>2 DEF Booked
    <3>4. borrows[d] # n
      BY <3>1, <3>3 DEF Leads, Held
    <3> QED BY <2>1, <3>1, <3>2, <3>4 DEF One
  <2> QED BY <2>6, <2>7 DEF Booked, Fit, Live, Leads
<1>2. CASE (\E c \in Cards : Revoke(c) \/ Expires(c)) \/ (\E t \in Taps : Reaps(t))
  <2>1. path' = path /\ attachments' = attachments /\ borrows' = borrows
    BY <1>2 DEF Revoke, Expires, Reaps, ReapBegins, Vanishes, ReapEnds, own
  <2>2. count'.attaches = count.attaches
    BY <1>0, <1>2, CountOfFailures DEF Revoke, Expires, Reaps, ReapBegins, Vanishes, ReapEnds, own
  <2> QED BY <1>0, <2>1, <2>2 DEF Booked, Fit, Live, Leads
<1>3. CASE Crash
  <2>1. \A m \in Attaches : /\ path'[m].pc = "idle" <=> path[m].pc = "idle"
                            /\ path'[m].pc \in {"idle", "over"} /\ path'[m].leave = "no"
    BY <1>0, <1>3, CrashMoves
  <2>2. count'.attaches = count.attaches
    BY <1>0, <1>3, CountOfStops
  <2>3. \A c \in Cards : borrows'[c] = 0
    BY <1>3 DEF Crash
  <2>4. \A m \in Attaches : Fit(path'[m]) /\ ~Live(path'[m]) /\ ~Leads(path'[m])
    BY <2>1 DEF Fit, Live, Leads, Held
  <2> QED BY <1>0, <2>1, <2>2, <2>3, <2>4 DEF Booked, Fit, Live, Leads
<1> QED BY <1>1, <1>2, <1>3

LEMMA BookInit == Init => BookInv
<1> SUFFICES ASSUME Init PROVE BookInv
  OBVIOUS
<1>1. ConstantsOK
  BY ConstantsOK
<1>2. Idle.pc = "idle" /\ Idle.leave = "no"
  BY <1>1, IdleForm
<1> QED BY <1>2, PathInit DEF Init, BookInv, Booked, Fit, Live, Leads, Held

LEMMA BookStep == ASSUME ~Overlap PROVE BookInv /\ [Next]_vars => BookInv'
<1> SUFFICES ASSUME BookInv, [Next]_vars PROVE BookInv'
  OBVIOUS
<1>1. ConstantsOK /\ PathInv
  BY ConstantsOK DEF BookInv
<1>2. PathInv'
  BY <1>1, PathStep
<1>3. Rest'
  BY <1>2 DEF PathInv, Types, Rest
<1>4. CASE Next
  <2>1. Booked'
    BY <1>1, <1>3, <1>4, MakesBooked, RunsBooked, LeavesBooked, OthersBooked DEF Next, Goes
  <2> QED BY <1>2, <2>1 DEF BookInv
<1>5. CASE UNCHANGED vars
  <2>1. Booked'
    BY <1>5 DEF vars, own, BookInv, Booked, Fit, Live, Leads
  <2> QED BY <1>2, <2>1 DEF BookInv
<1> QED BY <1>4, <1>5

\* When a target is neither revoked nor attached anew while it is attached, an adapter that
\* leads to a card belongs to an attachment that can be given back, whatever else fails.
THEOREM AdaptersAreKnown == ASSUME ~Overlap PROVE Spec => []AdapterHasAttachment
<1>1. BookInv => AdapterHasAttachment
  BY DEF BookInv, Booked, AdapterHasAttachment, At, Stopped, Card, Live
<1>2. BookInv /\ [Next]_vars => BookInv'
  BY BookStep
<1> QED BY <1>1, <1>2, BookInit, PTL DEF Spec

-----------------------------------------------------------------------------
(* The pool of adapters. *)

\* It has an adapter, and has not let it go.
Has(p) == p.tap # None /\ p.stop # "done"

Pooled ==
  /\ \A m \in Attaches : Has(path[m]) =>
       /\ path[m].tap \in present /\ path[m].tap \notin reaping
       /\ path[m].pc = "new" => path[m].tap \notin busyTaps /\ path[m].tap \notin records
       /\ path[m].pc # "new" => path[m].tap \in busyTaps
  /\ \A m, k \in Attaches : Has(path[m]) /\ Has(path[k]) /\ m # k => path[m].tap # path[k].tap
  /\ reaping \subseteq busyTaps
  /\ \A m \in Attaches : \A t \in path[m].seen : t \in present \/ t \in reaping \/ t \notin records

PoolInv == BookInv /\ Pooled

\* It gets no adapter, and sees none that is not there.
Easy(m) ==
  /\ Has(path'[m]) => /\ Has(path[m]) /\ path'[m].tap = path[m].tap
                      /\ path'[m].pc = "new" <=> path[m].pc = "new"
  /\ path'[m].seen \subseteq path[m].seen \cup present

LEMMA PooledCalm ==
  ASSUME Pooled, present' = present, records' = records, busyTaps' = busyTaps, reaping' = reaping,
         \A m \in Attaches : Easy(m)
  PROVE  Pooled'
<1>1. \A m \in Attaches : Has(path'[m]) =>
       /\ path'[m].tap \in present /\ path'[m].tap \notin reaping
       /\ path'[m].pc = "new" => path'[m].tap \notin busyTaps /\ path'[m].tap \notin records
       /\ path'[m].pc # "new" => path'[m].tap \in busyTaps
  BY DEF Pooled, Easy
<1>2. \A m, k \in Attaches : Has(path'[m]) /\ Has(path'[k]) /\ m # k => path'[m].tap # path'[k].tap
  BY DEF Pooled, Easy
<1>3. \A m \in Attaches : \A t \in path'[m].seen : t \in present \/ t \in reaping \/ t \notin records
  BY DEF Pooled, Easy
<1> QED BY <1>1, <1>2, <1>3 DEF Pooled, Has

LEMMA EasyOne ==
  ASSUME NEW n \in Attaches, One(n), Easy(n)
  PROVE  \A m \in Attaches : Easy(m)
BY DEF One, Easy

LEMMA EasyMoved ==
  ASSUME NEW n \in Attaches, NEW pc, NEW stop, NEW leave, Moved(n, pc, stop, leave),
         stop = "done" \/ path[n].stop # "done", pc = path[n].pc \/ "new" \notin {pc, path[n].pc}
  PROVE  \A m \in Attaches : Easy(m)
BY EasyOne DEF Moved, Easy, Has

LEMMA EasyEnded ==
  ASSUME NEW n \in Attaches, Ended(n)
  PROVE  \A m \in Attaches : Easy(m)
BY EasyOne DEF Ended, Easy, Has

LEMMA MakesPooled ==
  ASSUME ConstantsOK, ~Devcon, PoolInv, NEW n \in Attaches, Makes(n) \/ Refused(n) \/ DialsAgain(n)
  PROVE  Pooled'
<1>0. Types /\ Carded(path[n]) /\ Fit(path[n]) /\ BookInv /\ Pooled
  BY DEF PoolInv, BookInv, PathInv, Booked
<1>1. CASE \/ Granted(n) \/ Listed(n) \/ NoTap(n) \/ Dialled(n) \/ DialFails(n) \/ Attached(n)
           \/ RolledBack(n) \/ Refused(n) \/ DialsAgain(n)
  <2>1. present' = present /\ records' = records /\ busyTaps' = busyTaps /\ reaping' = reaping
    BY <1>1 DEF Granted, Listed, NoTap, Dialled, DialFails, Attached, RolledBack, Refused, DialsAgain, pool
  <2>2. \A m \in Attaches : Easy(m)
    <3>1. CASE Granted(n)
      <4>1. path[n].pc = "claim" /\ Live(path[n]) /\ ~Leads(path[n]) /\ path[n].stop = "no"
        BY <1>0, <3>1 DEF Granted, At, Live, Leads, Held, Fit
      <4>2. borrows[Card(n)] = 0
        BY <1>0, <4>1, BooksOfLive DEF Card
      <4> QED BY <1>0, <3>1, <4>1, <4>2, GrantedMoves, EasyMoved
    <3>2. CASE Listed(n)
      <4>1. path[n].pc \in {"takeover", "list"}
        BY <3>2 DEF Listed
      <4> QED BY <1>0, <3>2, <4>1, ListedMoves, EasyOne DEF Easy, Has
    <3>3. CASE NoTap(n) \/ DialFails(n)
      <4>1. Fail(n) /\ path[n].pc \in {"list", "create", "dial"}
        BY <3>3 DEF NoTap, DialFails, At
      <4> QED BY <1>0, <4>1, FailMoves, EasyMoved DEF Fit
    <3>4. CASE Dialled(n) \/ Attached(n) \/ Refused(n)
      <4>1. path[n].pc \in {"dial", "ip", "claim"} /\ path[n].stop = "no"
        BY <1>0, <3>4 DEF Dialled, Attached, Refused, At, Fit
      <4> QED BY <1>0, <3>4, <4>1, DialledMoves, AttachedMoves, RefusedMoves, EasyMoved
    <3>5. CASE DialsAgain(n)
      BY <1>0, <3>5, DialsAgainMoves, EasyMoved
    <3>6. CASE RolledBack(n)
      BY <1>0, <3>6, EndMoves, EasyEnded
    <3> QED BY <1>1, <3>1, <3>2, <3>3, <3>4, <3>5, <3>6
  <2> QED BY <1>0, <2>1, <2>2, PooledCalm
<1>2. CASE Picked(n)
  <2>1. present' = present /\ reaping' = reaping /\ records' = records \cap path[n].seen
        /\ One(n) /\ path[n].pc = "pick" /\ path'[n].stop = path[n].stop
    BY <1>0, <1>2, PickedMoves DEF Picked
  <2>2. CASE busyTaps' = busyTaps /\ path'[n].tap = path[n].tap /\ path'[n].pc = "create" /\ path'[n].seen = present
    <3>1. \A m \in Attaches : Has(path'[m]) =>
             /\ path'[m].tap \in present /\ path'[m].tap \notin reaping
             /\ path'[m].pc = "new" => path'[m].tap \notin busyTaps /\ path'[m].tap \notin records'
             /\ path'[m].pc # "new" => path'[m].tap \in busyTaps
      BY <1>0, <2>1, <2>2 DEF Pooled, Has, One
    <3>2. \A m, k \in Attaches : Has(path'[m]) /\ Has(path'[k]) /\ m # k => path'[m].tap # path'[k].tap
      BY <1>0, <2>1, <2>2 DEF Pooled, Has, One
    <3>3. \A m \in Attaches : \A u \in path'[m].seen : u \in present \/ u \in reaping \/ u \notin records'
      BY <1>0, <2>1, <2>2 DEF Pooled, One
    <3>4. reaping \subseteq busyTaps
      BY <1>0 DEF Pooled
    <3> QED BY <2>1, <2>2, <3>1, <3>2, <3>3, <3>4 DEF Pooled, Has
  <2>3. ASSUME NEW t \in records' \ busyTaps,
               busyTaps' = busyTaps \cup {t}, path'[n].tap = t, path'[n].pc = "relay", path'[n].seen = {}
        PROVE  Pooled'
    <3>1. t \in present /\ t \notin reaping
      BY <1>0, <2>1, <2>3 DEF Pooled
    <3>2. \A m \in Attaches \ {n} : path'[m] = path[m] /\ (Has(path[m]) => path[m].tap # t)
      BY <1>0, <2>1, <2>3 DEF Pooled, One
    <3>3. \A m \in Attaches : Has(path'[m]) =>
             /\ path'[m].tap \in present /\ path'[m].tap \notin reaping
             /\ path'[m].pc = "new" => path'[m].tap \notin busyTaps' /\ path'[m].tap \notin records'
             /\ path'[m].pc # "new" => path'[m].tap \in busyTaps'
      BY <1>0, <2>1, <2>3, <3>1, <3>2 DEF Pooled
    <3>4. \A m, k \in Attaches : Has(path'[m]) /\ Has(path'[k]) /\ m # k => path'[m].tap # path'[k].tap
      BY <1>0, <2>3, <3>2 DEF Pooled
    <3>5. \A m \in Attaches : \A u \in path'[m].seen : u \in present \/ u \in reaping \/ u \notin records'
      BY <1>0, <2>1, <2>3, <3>2 DEF Pooled
    <3>6. reaping \subseteq busyTaps'
      BY <1>0, <2>3 DEF Pooled
    <3> QED BY <2>1, <3>3, <3>4, <3>5, <3>6 DEF Pooled, Has
  <2> QED BY <1>0, <1>2, <2>2, <2>3, PickedMoves
<1>3. CASE Created(n)
  <2>1. /\ One(n) /\ path'[n].stop = path[n].stop /\ path'[n].pc = "new" /\ path'[n].seen = {}
        /\ records' = records /\ busyTaps' = busyTaps /\ reaping' = reaping
        /\ \E t \in Fresh : present' = present \cup {t} /\ path'[n].tap = t
    BY <1>0, <1>3, CreatedMoves DEF Created
  <2> PICK t \in Fresh : present' = present \cup {t} /\ path'[n].tap = t
    BY <2>1
  <2>2. t \notin records /\ t \notin busyTaps /\ t \notin reaping /\ \A m \in Attaches : path[m].tap # t
    BY <1>0 DEF Fresh, Pooled
  <2>3. \A m \in Attaches : Has(path'[m]) =>
           /\ path'[m].tap \in present' /\ path'[m].tap \notin reaping
           /\ path'[m].pc = "new" => path'[m].tap \notin busyTaps /\ path'[m].tap \notin records
           /\ path'[m].pc # "new" => path'[m].tap \in busyTaps
    BY <1>0, <2>1, <2>2 DEF Pooled, One
  <2>4. \A m, k \in Attaches : Has(path'[m]) /\ Has(path'[k]) /\ m # k => path'[m].tap # path'[k].tap
    BY <1>0, <2>1, <2>2 DEF Pooled, One
  <2>5. \A m \in Attaches : \A u \in path'[m].seen : u \in present' \/ u \in reaping \/ u \notin records
    BY <1>0, <2>1 DEF Pooled, One
  <2> QED BY <1>0, <2>1, <2>3, <2>4, <2>5 DEF Pooled, Has
<1>4. CASE Recorded(n)
  <2> DEFINE t == path[n].tap
  <2>1. /\ One(n) /\ path'[n].stop = path[n].stop /\ path'[n].pc = "relay" /\ path'[n].tap = t
        /\ path'[n].seen = path[n].seen /\ path[n].pc = "new" /\ path[n].stop = "no"
        /\ records' = records \cup {t} /\ busyTaps' = busyTaps \cup {t}
        /\ present' = present /\ reaping' = reaping
    BY <1>0, <1>4, RecordedMoves DEF Recorded, At, Moved, Fit
  <2>2. t # None
    BY <1>0, <2>1, ConstantsOK DEF Carded, Tapped, Taps, ConstantsOK
  <2>3. Has(path[n]) /\ t \in present /\ t \notin reaping
        /\ \A m \in Attaches \ {n} : path'[m] = path[m] /\ (Has(path[m]) => path[m].tap # t)
    BY <1>0, <2>1, <2>2 DEF Pooled, Has, One
  <2> HIDE DEF t
  <2>4. \A m \in Attaches : Has(path'[m]) =>
           /\ path'[m].tap \in present /\ path'[m].tap \notin reaping
           /\ path'[m].pc = "new" => path'[m].tap \notin busyTaps' /\ path'[m].tap \notin records'
           /\ path'[m].pc # "new" => path'[m].tap \in busyTaps'
    BY <1>0, <2>1, <2>3 DEF Pooled
  <2>5. \A m, k \in Attaches : Has(path'[m]) /\ Has(path'[k]) /\ m # k => path'[m].tap # path'[k].tap
    BY <1>0, <2>1, <2>3 DEF Pooled
  <2>6. \A m \in Attaches : \A u \in path'[m].seen : u \in present \/ u \in reaping \/ u \notin records'
    BY <1>0, <2>1, <2>3 DEF Pooled
  <2>7. reaping \subseteq busyTaps'
    BY <1>0, <2>1 DEF Pooled
  <2> QED BY <2>1, <2>4, <2>5, <2>6, <2>7 DEF Pooled, Has
<1>5. CASE Freed(n)
  <2> DEFINE t == path[n].tap
  <2>1. /\ One(n) /\ path'[n].stop = "done" /\ path'[n].seen = path[n].seen /\ path[n].stop = "relay"
        /\ records' = records /\ busyTaps' = busyTaps \ {t} /\ present' = present /\ reaping' = reaping
    BY <1>0, <1>5, FreedMoves DEF Freed, Moved
  <2>2. path[n].pc # "new"
    BY <1>0, <2>1 DEF Fit
  <2>3. t # None => Has(path[n]) /\ t \notin reaping
    BY <1>0, <2>1 DEF Pooled, Has
  <2>4. \A m \in Attaches \ {n} : path'[m] = path[m] /\ (Has(path[m]) => path[m].tap # t)
    BY <1>0, <2>1, <2>3 DEF Pooled, One, Has
  <2>5. ~Has(path'[n])
    BY <2>1 DEF Has
  <2>6. None \notin reaping
    <3>1. None \notin Taps
      BY ConstantsOK DEF Taps, ConstantsOK
    <3> QED BY <1>0, <3>1 DEF Types
  <2> HIDE DEF t
  <2>7. \A m \in Attaches : Has(path'[m]) =>
           /\ path'[m].tap \in present /\ path'[m].tap \notin reaping
           /\ path'[m].pc = "new" => path'[m].tap \notin busyTaps' /\ path'[m].tap \notin records
           /\ path'[m].pc # "new" => path'[m].tap \in busyTaps'
    BY <1>0, <2>1, <2>4, <2>5 DEF Pooled
  <2>8. \A m, k \in Attaches : Has(path'[m]) /\ Has(path'[k]) /\ m # k => path'[m].tap # path'[k].tap
    BY <1>0, <2>4, <2>5 DEF Pooled
  <2>9. \A m \in Attaches : \A u \in path'[m].seen : u \in present \/ u \in reaping \/ u \notin records
    BY <1>0, <2>1, <2>4 DEF Pooled
  <2>10. reaping \subseteq busyTaps'
    BY <1>0, <2>1, <2>3, <2>6 DEF Pooled
  <2> QED BY <2>1, <2>7, <2>8, <2>9, <2>10 DEF Pooled, Has
<1> QED BY <1>1, <1>2, <1>3, <1>4, <1>5 DEF Makes

LEMMA RunsPooled ==
  ASSUME ConstantsOK, PoolInv, NEW n \in Attaches,
         \/ Relays(n) \/ RelayNotOpened(n) \/ RelayFalls(n) \/ FallsForgotten(n)
         \/ Channels(n) \/ LinkBreaks(n)
  PROVE  Pooled'
<1>0. Types /\ Fit(path[n]) /\ Pooled
  BY DEF PoolInv, BookInv, PathInv, Booked
<1>1. present' = present /\ records' = records /\ busyTaps' = busyTaps /\ reaping' = reaping
  BY DEF Relays, Channels, RelayUp, RelayFalls, RelayRestarts, FallsForgotten, RelayClosed, RelayNotOpened,
         LinkBreaks, LinkClosed, Redialled, pool
<1>2. \A m \in Attaches : Easy(m)
  <2>1. CASE RelayClosed(n) /\ At(n, "over")
    BY <1>0, <2>1, EndMoves, EasyEnded
  <2>2. CASE RelayNotOpened(n) /\ At(n, "relay")
    <3>1. path[n].pc = "relay" /\ path[n].stop = "no" /\ Moved(n, "failed", "relay", path[n].leave)
      BY <1>0, <2>2, RelayNotOpenedMoves DEF At, Fit
    <3> QED BY <3>1, EasyMoved
  <2>3. CASE \/ RelayUp(n) \/ RelayFalls(n) \/ RelayRestarts(n) \/ FallsForgotten(n)
             \/ (RelayClosed(n) /\ ~At(n, "over")) \/ (RelayNotOpened(n) /\ ~At(n, "relay"))
             \/ LinkBreaks(n) \/ LinkClosed(n) \/ Redialled(n)
    <3>1. \E pc : /\ Moved(n, pc, path[n].stop, path[n].leave)
                  /\ pc = path[n].pc \/ (path[n].pc = "relay" /\ pc = "dial")
      BY <1>0, <2>3, RelayUpMoves, RelayAloneMoves, RelayNotOpenedMoves, ChannelMoves
    <3> QED BY <3>1, EasyMoved
  <2> QED BY <2>1, <2>2, <2>3 DEF Relays, Channels
<1> QED BY <1>0, <1>1, <1>2, PooledCalm

LEMMA LeavesPooled ==
  ASSUME ConstantsOK, ~Overlap, PoolInv, NEW n \in Attaches, Leaves(n) \/ Detach(n) \/ RevokedMeanwhile(n)
  PROVE  Pooled'
<1>0. Types /\ Booked /\ BookInv /\ Fit(path[n]) /\ Pooled
  BY DEF PoolInv, BookInv, PathInv, Booked
<1>1. present' = present /\ records' = records /\ busyTaps' = busyTaps /\ reaping' = reaping
  BY DEF Leaves, Detach, Revoked, Detaching, GivenBack, Left, RevokedMeanwhile, pool
<1>2. CASE \E keep \in BOOLEAN : Detaching(n, keep)
  <2> PICK keep \in BOOLEAN : Detaching(n, keep)
    BY <1>2
  <2> DEFINE c == path[n].card
  <2>1. /\ path[n].pc = "attached" /\ c \in Cards /\ (borrows[c] # 0 => borrows[c] = n)
        /\ One(n) /\ path'[n].pc = "attached" /\ path'[n].tap = path[n].tap /\ path'[n].seen = path[n].seen
        /\ path'[n].stop = IF borrows[c] = 0 THEN path[n].stop ELSE "relay"
    BY <1>0, DetachesItsOwn
  <2>2. borrows[c] # 0 => path[n].stop = "no"
    BY <1>0, <2>1 DEF Booked, Leads
  <2>3. Easy(n)
    BY <2>1, <2>2 DEF Easy, Has
  <2> QED BY <1>0, <1>1, <2>1, <2>3, EasyOne, PooledCalm
<1>3. CASE GivenBack(n)
  <2>1. Moved(n, path[n].pc, path[n].stop, IF path[n].leave = "giving" THEN "releasing" ELSE "keeping")
    BY <1>0, <1>3, GivenBackMoves
  <2>2. \A m \in Attaches : Easy(m)
    <3>1. One(n) /\ path'[n].pc = path[n].pc /\ path'[n].stop = path[n].stop
          /\ path'[n].tap = path[n].tap /\ path'[n].seen = path[n].seen
      BY <2>1 DEF Moved
    <3>2. Easy(n)
      BY <3>1 DEF Easy, Has
    <3> QED BY <3>1, <3>2, EasyOne
  <2> QED BY <1>0, <1>1, <2>2, PooledCalm
<1>4. CASE Left(n)
  <2>1. Ended(n)
    BY <1>0, <1>4, EndMoves DEF Left, Fit, At
  <2> QED BY <1>0, <1>1, <2>1, EasyEnded, PooledCalm
<1>5. CASE RevokedMeanwhile(n)
  BY <1>0, <1>1, <1>5, PooledCalm DEF RevokedMeanwhile, Easy, Has
<1> QED BY <1>2, <1>3, <1>4, <1>5 DEF Leaves, Detach, Revoked

LEMMA OthersPooled ==
  ASSUME ConstantsOK, PoolInv,
         \/ \E c \in Cards : Attach(c) \/ Revoke(c) \/ Expires(c)
         \/ \E t \in Taps : Reaps(t)
         \/ Crash
  PROVE  Pooled'
<1>0. Types /\ Pooled
  BY DEF PoolInv, BookInv, PathInv
<1>1. ASSUME NEW c \in Cards, Attach(c) PROVE Pooled'
  <2> DEFINE n == count.attaches + 1
  <2>1. n \in Attaches /\ One(n) /\ path'[n].tap = None /\ path'[n].seen = {}
    BY <1>0, <1>1, AttachMoves
  <2>2. present' = present /\ records' = records /\ busyTaps' = busyTaps /\ reaping' = reaping
    BY <1>1 DEF Attach, pool
  <2> HIDE DEF n
  <2>3. Easy(n)
    BY <2>1 DEF Easy, Has
  <2> QED BY <1>0, <2>1, <2>2, <2>3, EasyOne, PooledCalm
<1>2. ASSUME NEW c \in Cards, Revoke(c) \/ Expires(c) PROVE Pooled'
  BY <1>0, <1>2, PooledCalm DEF Revoke, Expires, own, pool, Easy, Has
<1>3. ASSUME NEW t \in Taps, ReapBegins(t) PROVE Pooled'
  <2>1. /\ t \in records /\ t \notin busyTaps
        /\ path' = path /\ present' = present /\ records' = records
        /\ busyTaps' = busyTaps \cup {t} /\ reaping' = reaping \cup {t}
    BY <1>3 DEF ReapBegins, own
  <2>2. \A m \in Attaches : Has(path[m]) => path[m].tap # t
    BY <1>0, <2>1 DEF Pooled
  <2> QED BY <1>0, <2>1, <2>2 DEF Pooled, Has
<1>4. ASSUME NEW t \in Taps, Vanishes(t) PROVE Pooled'
  <2>1. /\ t \in reaping /\ path' = path /\ present' = present \ {t}
        /\ records' = records /\ busyTaps' = busyTaps /\ reaping' = reaping
    BY <1>4 DEF Vanishes, own
  <2> QED BY <1>0, <2>1 DEF Pooled, Has
<1>5. ASSUME NEW t \in Taps, ReapEnds(t) PROVE Pooled'
  <2>1. /\ t \in reaping /\ path' = path /\ present' = present
        /\ records' = records \/ (t \notin present /\ records' = records \ {t})
        /\ t \notin records' \/ t \in present
        /\ busyTaps' = busyTaps \ {t} /\ reaping' = reaping \ {t}
    BY <1>5 DEF ReapEnds, own
  <2>2. \A m \in Attaches : Has(path[m]) => path[m].tap # t
    BY <1>0, <2>1 DEF Pooled
  <2> QED BY <1>0, <2>1, <2>2 DEF Pooled, Has
<1>6. CASE Crash
  <2>1. \A m \in Attaches : ~Has(path'[m]) /\ path'[m].seen = {}
    BY <1>0, <1>6, CrashMoves DEF Has
  <2>2. reaping' = {}
    BY <1>6 DEF Crash
  <2> QED BY <2>1, <2>2 DEF Pooled, Has
<1> QED BY <1>1, <1>2, <1>3, <1>4, <1>5, <1>6 DEF Reaps

LEMMA PoolInit == Init => PoolInv
<1> SUFFICES ASSUME Init PROVE PoolInv
  OBVIOUS
<1>1. ConstantsOK
  BY ConstantsOK
<1>2. Idle.tap = None /\ Idle.seen = {}
  BY <1>1, IdleForm
<1> QED BY <1>2, BookInit DEF Init, PoolInv, Pooled, Has

LEMMA PoolStep == ASSUME ~Overlap, ~Devcon PROVE PoolInv /\ [Next]_vars => PoolInv'
<1> SUFFICES ASSUME PoolInv, [Next]_vars PROVE PoolInv'
  OBVIOUS
<1>1. ConstantsOK /\ BookInv
  BY ConstantsOK DEF PoolInv
<1>2. BookInv'
  BY <1>1, BookStep
<1>3. CASE Next
  <2>1. Pooled'
    BY <1>1, <1>3, MakesPooled, RunsPooled, LeavesPooled, OthersPooled DEF Next, Goes
  <2> QED BY <1>2, <2>1 DEF PoolInv
<1>4. CASE UNCHANGED vars
  <2>1. Pooled'
    BY <1>4 DEF vars, own, pool, PoolInv, Pooled, Has
  <2> QED BY <1>2, <2>1 DEF PoolInv
<1> QED BY <1>3, <1>4

\* When a target is neither revoked nor attached anew while it is attached, and adapters are
\* created by a program that names them: two cards never have one adapter, and none is
\* removed under its card (busyTaps, _reapTaps), whatever else fails.
THEOREM TapsAreOwned == ASSUME ~Overlap, ~Devcon PROVE Spec => []TapHasOneUser
<1>1. PoolInv => TapHasOneUser
  <2> SUFFICES ASSUME PoolInv, NEW n \in Attaches, Using(n)
               PROVE  /\ path[n].tap \in (present \cap busyTaps) \ reaping
                      /\ \A m \in Attaches \ {n} : Using(m) => path[m].tap # path[n].tap
    BY DEF TapHasOneUser
  <2>1. ASSUME NEW m \in Attaches, Using(m) PROVE Has(path[m]) /\ path[m].pc # "new"
    <3>1. path[m].tap \in Taps /\ path[m].stop = "no" /\ path[m].pc # "new"
      BY <2>1 DEF Using, Stopped, PoolInv, BookInv, PathInv, Carded, Tapped
    <3>2. path[m].tap # None
      BY <3>1, ConstantsOK DEF Taps, ConstantsOK
    <3> QED BY <3>1, <3>2 DEF Has
  <2> QED BY <2>1 DEF PoolInv, Pooled
<1>2. PoolInv /\ [Next]_vars => PoolInv'
  BY PoolStep
<1> QED BY <1>1, <1>2, PoolInit, PTL DEF Spec
=============================================================================
