--------------------------- MODULE NetShareProofs ---------------------------
(***************************************************************************)
(* What is proved of the lending of network cards, for every set of cards  *)
(* and holders and every bound, with scripts that fail, crashes and stops, *)
(* when no card is released and the program is not stopped while a lend of *)
(* the card is being assembled (~Overlap).                                 *)
(***************************************************************************)
EXTENDS NetShare, SequenceTheorems, TLAPS

Running == job \notin {None, SwitchOp}

\* The lend that is assembled is in the table; its way is chosen; its bridge stands.
Lending == Running /\ job.pc \notin {"undo", "unbridge"}
Chosen == Running /\ job.pc \in {"tap", "name", "bridge", "relay", "advice"}
Standing == Running /\ job.pc \in {"relay", "advice"}

\* A card that is lent and is not being assembled.
Settled(c) == c \in Lent /\ ~Assembled(c)

\* At most one card is lent, and nothing else while one is assembled.
OneLend ==
  /\ \A c, d \in Lent : c = d
  /\ Lending => Lent = {job.call.card}
  /\ Running /\ ~Lending => Lent = {}
  /\ job = SwitchOp => Lent = {}

\* The assembly and the table agree on the way, and know of the adapter.
Agreed ==
  /\ Chosen => lends[job.call.card].shared = job.shared
  /\ Chosen /\ job.pc # "tap" => lends[job.call.card].tap
  /\ \A c \in Cards : Settled(c) => lends[c].tap

\* One lend is taken apart at a time, and before the next is assembled.
Quiet ==
  /\ \A s, t \in teardowns : s = t
  /\ \A t \in teardowns : Tap \in t.what
  /\ Running /\ job.pc # "wait" => teardowns = {}
  /\ \A c \in Cards : Settled(c) => teardowns = {}

\* config.json names the members of the bridge of the lend.
Recorded ==
  /\ netLent # None => Tap \in netLent
  /\ Running /\ job.pc \in {"bridge", "relay", "advice", "undo", "unbridge"} => netLent = Built
  /\ \A c \in Cards : Settled(c) => netLent = Parts(c)

\* The scripts of the queue, one at most by each who changes the bridge.
Waiting(queue) == {queue[i] : i \in 1 .. Len(queue)}
OneByEach(queue) == \A i, j \in 1 .. Len(queue) : queue[i].by = queue[j].by => i = j

ByJob(s) ==
  s.by = "job" =>
    /\ Running
    /\ \/ job.pc = "clean" /\ s.act = "unbridge" /\ s.what = netLent
       \/ job.pc = "bridge" /\ s.act = "bridge" /\ s.what = Built
       \/ job.pc = "unbridge" /\ s.act = "unbridge" /\ s.what = Built

ByOp(s) ==
  s.by = "op" =>
    /\ op # None /\ Tap \notin s.what
    /\ \/ op.pc = "bridge"
       \/ op.pc = "undone" /\ s.act = "unbridge"
       \/ op.pc = "unbridge" /\ s.act = "unbridge" /\ s.what \subseteq nics \cup {Uplink}

ByTeardown(s) ==
  s.by = "teardown" =>
    s.act = "unbridge" /\ \E t \in teardowns : t.pc = "script" /\ t.what = s.what

InOrder ==
  /\ OneByEach(scripts)
  /\ \A s \in Waiting(scripts) : ByJob(s) /\ ByOp(s) /\ ByTeardown(s)

\* What an operation on a switch relies on while it goes on.
OpInOrder ==
  /\ op # None =>
       /\ op.pc \in {"check", "tap", "undo", "undone"} => op.kind = "build"
       /\ op.pc = "bridge" => op.kind \in {"build", "add"}
       /\ op.pc \in {"unplug", "unbridge"} => op.kind \in {"remove", "drop"}
       /\ op.kind = "build" => job = SwitchOp
       /\ op.kind = "add" => nics # {} /\ Lent \subseteq nics
       /\ op.kind = "remove" => op.card \in nics
  /\ job = SwitchOp => op # None /\ op.kind = "build"

\* A card lent by a bridge of its own, from the moment that way is chosen.
Own(c) == c \in Lent /\ ~lends[c].shared /\ (Assembled(c) => Chosen)

OwnApart ==
  \A c \in Cards : Own(c) =>
    /\ c \notin nics
    /\ op # None => op.kind \in {"remove", "drop"}
    /\ bridge = IF Assembled(c) /\ ~Standing THEN {} ELSE {Tap, c}

Counters == [calls : 0..MaxCalls, ops : 0..MaxOps, failures : 0..MaxFailures, stops : 0..MaxStops]
Teardowns == [what : SUBSET Members, pc : {"relay", "script"}]

Typed ==
  /\ claim \in [Cards -> Holders \cup {None}]
  /\ joins \in [Cards -> SUBSET Holders]
  /\ calls \subseteq Calls
  /\ lends \in [Cards -> Lends \cup {None}]
  /\ job \in Jobs \cup {SwitchOp, None}
  /\ teardowns \subseteq Teardowns
  /\ op \in Ops \cup {None}
  /\ scripts \in Seq(Scripts)
  /\ stopping \in BOOLEAN
  /\ bridge \subseteq Members
  /\ netLent \in (SUBSET Members) \cup {None}
  /\ nics \subseteq Cards
  /\ count \in Counters

\* The inductive invariant.
Core == OneLend /\ Agreed /\ Quiet /\ Recorded /\ InOrder /\ OpInOrder /\ OwnApart
NetInv == Typed /\ Core

\* An assembly is given up before its adapter is picked, while config.json still has the
\* record of an earlier lend: the record is lost (_lend, the catch branch; _teardownLend).
Forgets == (Step("clean") \/ Step("tap")) /\ netLent # None /\ Abandons

\* Nothing else makes the program forget a bridge with the adapter of a lend in it.
OnlyForgotten == [][BridgeIsRecorded /\ ~Forgets => BridgeIsRecorded']_vars

-----------------------------------------------------------------------------
(* The queue of scripts. *)

LEMMA QueueTail ==
  ASSUME NEW S, NEW queue \in Seq(S), queue # <<>>
  PROVE  /\ Head(queue) \in S /\ Tail(queue) \in Seq(S)
         /\ Head(queue) \in Waiting(queue)
         /\ Waiting(Tail(queue)) \subseteq Waiting(queue)
         /\ OneByEach(queue) =>
              /\ OneByEach(Tail(queue))
              /\ \A s \in Waiting(Tail(queue)) : s.by # Head(queue).by
<1>1. /\ Len(queue) \in Nat \ {0} /\ Head(queue) = queue[1]
      /\ Tail(queue) \in Seq(S) /\ Len(Tail(queue)) = Len(queue) - 1
      /\ \A i \in 1 .. Len(queue) - 1 : Tail(queue)[i] = queue[i + 1]
      /\ \A i \in 1 .. Len(queue) : queue[i] \in S
  OBVIOUS
<1>2. \A i \in 1 .. Len(Tail(queue)) : i + 1 \in 1 .. Len(queue) /\ i + 1 # 1
  BY <1>1
<1> QED  BY <1>1, <1>2 DEF Waiting, OneByEach

LEMMA QueueAppend ==
  ASSUME NEW S, NEW queue \in Seq(S), NEW s \in S
  PROVE  /\ Append(queue, s) \in Seq(S)
         /\ Waiting(Append(queue, s)) = Waiting(queue) \cup {s}
         /\ OneByEach(queue) /\ (\A q \in Waiting(queue) : q.by # s.by)
              => OneByEach(Append(queue, s))
<1> DEFINE longer == Append(queue, s)
<1>1. /\ Len(queue) \in Nat /\ longer \in Seq(S) /\ Len(longer) = Len(queue) + 1
      /\ \A i \in 1 .. Len(queue) : longer[i] = queue[i]
      /\ longer[Len(queue) + 1] = s
  OBVIOUS
<1> HIDE DEF longer
<1>2. \A i \in 1 .. Len(longer) : i \in 1 .. Len(queue) \/ i = Len(queue) + 1
  BY <1>1
<1>3. Waiting(longer) = Waiting(queue) \cup {s}
  <2>1. Waiting(longer) \subseteq Waiting(queue) \cup {s}
    BY <1>1, <1>2 DEF Waiting
  <2>2. Waiting(queue) \cup {s} \subseteq Waiting(longer)
    BY <1>1 DEF Waiting
  <2> QED  BY <2>1, <2>2
<1>4. OneByEach(queue) /\ (\A q \in Waiting(queue) : q.by # s.by) => OneByEach(longer)
  BY <1>1, <1>2 DEF Waiting, OneByEach
<1> QED  BY <1>1, <1>3, <1>4 DEF longer

LEMMA NothingWaits ==
  ASSUME NEW s
  PROVE  /\ OneByEach(<<>>) /\ Waiting(<<>>) = {}
         /\ OneByEach(<<s>>) /\ Waiting(<<s>>) = {s}
BY DEF OneByEach, Waiting

-----------------------------------------------------------------------------
(* Types. *)

LEMMA CountsTyped ==
  ASSUME Typed,
         \/ Counts("calls", MaxCalls) \/ Counts("ops", MaxOps)
         \/ Counts("failures", MaxFailures) \/ Counts("stops", MaxStops)
  PROVE  count' \in Counters
BY ConstantsOK DEF Typed, Counters, Counts

LEMMA WorkOrFail ==
  ASSUME Typed, NEW by, Works(by) \/ Fails(by)
  PROVE  /\ scripts \in Seq(Scripts) /\ scripts # <<>> /\ scripts' = Tail(scripts)
         /\ Head(scripts) \in Waiting(scripts) /\ Head(scripts) \in Scripts /\ Head(scripts).by = by
         /\ scripts' \in Seq(Scripts)
         /\ Head(scripts).act = "bridge" => bridge' \subseteq bridge \cup Head(scripts).what
         /\ Head(scripts).act # "bridge" => bridge' \subseteq bridge
         /\ bridge' \subseteq Members
         /\ count' \in Counters
<1>1. /\ scripts \in Seq(Scripts) /\ scripts # <<>> /\ scripts' = Tail(scripts) /\ Head(scripts).by = by
      /\ bridge \subseteq Members
  BY DEF Typed, Works, Fails
<1>2. Head(scripts) \in Waiting(scripts) /\ Head(scripts) \in Scripts /\ scripts' \in Seq(Scripts)
  BY <1>1, QueueTail
<1>3. /\ Head(scripts).act = "bridge" => bridge' \subseteq bridge \cup Head(scripts).what
      /\ Head(scripts).act # "bridge" => bridge' \subseteq bridge
  BY DEF Works, Fails
<1>4. Head(scripts).what \subseteq Members
  BY <1>2 DEF Scripts
<1>5. count' \in Counters
  BY CountsTyped DEF Typed, Works, Fails
<1> QED  BY <1>1, <1>2, <1>3, <1>4, <1>5

LEMMA TakesApartTyped ==
  ASSUME Typed, NEW c \in Cards, TakesApart(c)
  PROVE  /\ lends' \in [Cards -> Lends \cup {None}]
         /\ teardowns' \subseteq Teardowns
         /\ netLent' \in (SUBSET Members) \cup {None}
<1>1. Parts(c) \in SUBSET Members
  BY DEF Parts, Members
<1>2. lends' \in [Cards -> Lends \cup {None}]
  BY DEF Typed, TakesApart
<1>3. teardowns' \subseteq Teardowns
  BY <1>1 DEF Typed, TakesApart, Teardowns
<1> QED  BY <1>2, <1>3 DEF Typed, TakesApart

LEMMA EnqueueTyped ==
  ASSUME Typed, NEW by \in {"job", "op", "teardown"}, NEW act \in {"bridge", "unbridge"},
         NEW what \in SUBSET Members, Enqueue(by, act, what)
  PROVE  scripts' \in Seq(Scripts)
<1>1. [by |-> by, act |-> act, what |-> what] \in Scripts
  BY DEF Scripts
<1> QED  BY <1>1, QueueAppend DEF Typed, Enqueue

LEMMA RestartsTyped ==
  ASSUME Typed, Restarts, bridge' \subseteq Members,
         count' \in Counters
  PROVE  Typed'
<1>1. teardowns' \subseteq Teardowns
  BY DEF Typed, Restarts, Teardowns, kept
<1>2. scripts' \in Seq(Scripts)
  <2>1. netLent # None => [by |-> "teardown", act |-> "unbridge", what |-> netLent] \in Scripts
    BY DEF Typed, Scripts
  <2> QED  BY <2>1 DEF Restarts
<1> QED  BY <1>1, <1>2, ConstantsOK DEF Typed, Restarts, kept

LEMMA LostTyped ==
  ASSUME Typed,
         \E part \in SUBSET (IF scripts = <<>> THEN {} ELSE Head(scripts).what) :
           bridge' = IF part # {} /\ Head(scripts).act = "bridge" THEN bridge \cup part ELSE bridge \ part
  PROVE  bridge' \subseteq Members
<1>1. scripts # <<>> => Head(scripts).what \subseteq Members
  <2>1. scripts # <<>> => Head(scripts) \in Scripts
    BY QueueTail DEF Typed
  <2> QED  BY <2>1 DEF Scripts
<1> QED  BY <1>1 DEF Typed

LEMMA JobTyped ==
  ASSUME Typed, NEW pc, Step(pc)
  PROVE  /\ job \in Jobs /\ job.call \in Calls /\ job.call.card \in Cards
         /\ job.call.holder \in Holders
BY DEF Typed, Step, Jobs, Calls

LEMMA NotesTyped ==
  ASSUME Typed, job.call.card \in Cards, NEW b \in BOOLEAN, NEW held \in SUBSET Holders,
         Notes("shared", b) \/ Notes("tap", b) \/ Notes("holders", held)
  PROVE  lends' \in [Cards -> Lends \cup {None}]
<1> DEFINE c == job.call.card
<1>1. CASE lends[c] = None
  BY <1>1 DEF Typed, Notes
<1>2. CASE lends[c] # None
  <2>1. lends[c] \in Lends
    BY <1>2 DEF Typed
  <2>2. /\ [lends[c] EXCEPT !.shared = b] \in Lends /\ [lends[c] EXCEPT !.tap = b] \in Lends
        /\ [lends[c] EXCEPT !.holders = held] \in Lends
    BY <2>1 DEF Lends
  <2> QED  BY <1>2, <2>2 DEF Typed, Notes
<1> QED  BY <1>1, <1>2

LEMMA GoOnTyped ==
  ASSUME job \in Jobs,
         NEW pc \in {"wait", "check", "clean", "tap", "name", "bridge", "relay", "advice", "undo", "unbridge"},
         GoOn(pc)
  PROVE  job' \in Jobs
BY DEF Jobs, GoOn

LEMMA AbandonsTyped ==
  ASSUME Typed, Abandons
  PROVE  /\ lends' \in [Cards -> Lends \cup {None}] /\ job' = None /\ netLent' = None
BY DEF Typed, Abandons

LEMMA ClaimTyped ==
  ASSUME Typed, NEW c \in Cards, NEW h \in Holders, Claim(c, h)
  PROVE  Typed'
BY TakesApartTyped, CountsTyped, ConstantsOK DEF Typed, Claim, Calling, Unlend, Calls

LEMMA JoinTyped ==
  ASSUME Typed, NEW c \in Cards, NEW h \in Holders, Join(c, h)
  PROVE  Typed'
BY CountsTyped, ConstantsOK DEF Typed, table, Join, Calling, Calls

LEMMA LeaveTyped ==
  ASSUME Typed, NEW c \in Cards, NEW h \in Holders, Leave(c, h)
  PROVE  Typed'
BY TakesApartTyped, ConstantsOK DEF Typed, Leave, Unlend, Lends

LEMMA ReleaseTyped ==
  ASSUME Typed, NEW c \in Cards, Release(c)
  PROVE  Typed'
BY TakesApartTyped, ConstantsOK DEF Typed, Release, Unlend

LEMMA ConnectTyped ==
  ASSUME Typed, NEW c \in Cards, Connect(c)
  PROVE  Typed'
<1>1. lends[c] \in Lends
  BY DEF Typed, Connect, Whole
<1>2. lends' \in [Cards -> Lends \cup {None}]
  BY <1>1 DEF Typed, Connect, Lends
<1> QED  BY <1>2, ConstantsOK DEF Typed, vars, table, kept, Connect

LEMMA DisconnectTyped ==
  ASSUME Typed, NEW c \in Cards, Disconnect(c)
  PROVE  Typed'
<1>1. lends[c] \in Lends
  BY DEF Typed, Disconnect, Whole
<1>2. lends' \in [Cards -> Lends \cup {None}]
  BY <1>1 DEF Typed, Disconnect, Lends
<1> QED  BY <1>2, ConstantsOK DEF Typed, vars, table, kept, Disconnect

LEMMA TimerFiresTyped ==
  ASSUME Typed, NEW c \in Cards, TimerFires(c)
  PROVE  Typed'
BY TakesApartTyped, ConstantsOK DEF Typed, table, TimerFires

LEMMA BuildBeginsTyped ==
  ASSUME Typed, NEW c \in Cards, BuildBegins(c)
  PROVE  Typed'
BY CountsTyped, ConstantsOK DEF Typed, table, kept, BuildBegins, Begins, Ops

LEMMA AddBeginsTyped ==
  ASSUME Typed, NEW c \in Cards, AddBegins(c)
  PROVE  Typed'
BY CountsTyped, EnqueueTyped, ConstantsOK DEF Typed, table, kept, AddBegins, Begins, Ops, Members

LEMMA RemoveBeginsTyped ==
  ASSUME Typed, NEW c \in Cards, RemoveBegins(c)
  PROVE  Typed'
BY CountsTyped, EnqueueTyped, ConstantsOK DEF Typed, table, kept, RemoveBegins, Begins, Ops,
   Members

LEMMA DropBeginsTyped ==
  ASSUME Typed, NEW c \in Cards, DropBegins(c)
  PROVE  Typed'
BY CountsTyped, ConstantsOK DEF Typed, table, kept, DropBegins, Begins, Ops

LEMMA RefusedTyped ==
  ASSUME Typed, NEW k \in calls, Refused(k)
  PROVE  Typed'
BY ConstantsOK DEF Typed, table, kept, Refused

LEMMA AgainTyped ==
  ASSUME Typed, NEW k \in calls, Again(k)
  PROVE  Typed'
BY ConstantsOK DEF Typed, kept, Again, Granted, Calls, Lends

LEMMA JobStarts ==
  ASSUME Typed, NEW k \in calls, Start(k)
  PROVE  job' \in Jobs
<1>1. k \in Calls /\ k.card \in Cards
  BY DEF Typed, Calls
<1>2. CASE lends[k.card] = None
  <2>1. [call |-> k, shared |-> FALSE, pc |-> "wait"] \in Jobs
    BY <1>1 DEF Jobs
  <2> QED  BY <1>2, <2>1 DEF Start
<1>3. CASE lends[k.card] # None
  <2>1. lends[k.card].shared \in BOOLEAN
    BY <1>1, <1>3 DEF Typed, Lends
  <2>2. [call |-> k, shared |-> lends[k.card].shared, pc |-> "advice"] \in Jobs
    BY <1>1, <2>1 DEF Jobs
  <2> QED  BY <1>3, <2>2 DEF Start
<1> QED  BY <1>2, <1>3

LEMMA StartTyped ==
  ASSUME Typed, NEW k \in calls, Start(k)
  PROVE  Typed'
<1>1. k \in Calls /\ k.card \in Cards /\ k.holder \in Holders /\ k.mode \in {"whole", "bridge"}
  BY DEF Typed, Calls
<1>2. CASE lends[k.card] = None
  <2>1. [mode |-> k.mode, holders |-> {}, shared |-> FALSE, tap |-> FALSE,
         conn |-> FALSE, timer |-> FALSE] \in Lends
    BY <1>1 DEF Lends
  <2>2. [call |-> k, shared |-> FALSE, pc |-> "wait"] \in Jobs
    BY <1>1 DEF Jobs
  <2> QED  BY <1>1, <1>2, <2>1, <2>2 DEF Typed, table, kept, Start
<1>3. CASE lends[k.card] # None
  <2>1. lends[k.card] \in Lends
    BY <1>1, <1>3 DEF Typed
  <2>2. [lends[k.card] EXCEPT !.holders = @ \cup {k.holder}] \in Lends
    BY <1>1, <2>1 DEF Lends
  <2>3. [call |-> k, shared |-> lends[k.card].shared, pc |-> "advice"] \in Jobs
    BY <1>1, <2>1 DEF Jobs, Lends
  <2> QED  BY <1>1, <1>3, <2>2, <2>3 DEF Typed, table, kept, Start
<1> QED  BY <1>2, <1>3

LEMMA WaitTyped ==
  ASSUME Typed, Wait
  PROVE  Typed'
BY JobTyped, GoOnTyped DEF Typed, table, kept, Wait

LEMMA CheckTyped ==
  ASSUME Typed, Check
  PROVE  Typed'
<1>1. job \in Jobs /\ job.call.card \in Cards
  BY JobTyped DEF Check
<1>2. CASE ~Foreign(job.call.card)
  <2>. (job.call.card \in nics) \in BOOLEAN
    BY SMT
  <2>1. PICK b \in BOOLEAN : b = (job.call.card \in nics)
    BY Zenon
  <2>2. Notes("shared", b) /\ job' = [job EXCEPT !.pc = "tap", !.shared = b] /\ UNCHANGED <<scripts, netLent>>
    BY <1>2, <2>1, Zenon DEF Check
  <2>3. lends' \in [Cards -> Lends \cup {None}]
    BY <1>1, <2>2, NotesTyped
  <2>4. job' \in Jobs
    BY <1>1, <2>2 DEF Jobs
  <2> QED  BY <2>2, <2>3, <2>4 DEF Check, Typed, table
<1>3. CASE Foreign(job.call.card) /\ netLent # None
  BY <1>1, <1>3, GoOnTyped, EnqueueTyped DEF Check, Typed, table
<1>4. CASE Foreign(job.call.card) /\ netLent = None
  BY <1>1, <1>4, AbandonsTyped DEF Check, Typed, table
<1> QED  BY <1>2, <1>3, <1>4

LEMMA CleanTyped ==
  ASSUME Typed, Clean
  PROVE  Typed'
<1>1. Works("job") \/ Fails("job")
  BY DEF Clean
<1>2. CASE Abandons
  BY <1>1, <1>2, WorkOrFail, AbandonsTyped, JobTyped DEF Clean, Typed, table
<1>3. CASE netLent' = None /\ GoOn("check") /\ UNCHANGED lends
  BY <1>1, <1>3, WorkOrFail, GoOnTyped, JobTyped DEF Clean, Typed, table
<1> QED  BY <1>2, <1>3 DEF Clean

LEMMA PickTapTyped ==
  ASSUME Typed, PickTap
  PROVE  Typed'
<1>1. job \in Jobs /\ job.call.card \in Cards
  BY JobTyped DEF PickTap
<1>2. CASE Abandons /\ Counts("failures", MaxFailures)
  BY <1>1, <1>2, CountsTyped, AbandonsTyped DEF PickTap, Typed, table
<1>3. CASE Notes("tap", TRUE) /\ GoOn("name") /\ UNCHANGED <<netLent, count>>
  BY <1>1, <1>3, NotesTyped, GoOnTyped DEF PickTap, Typed, table
<1> QED  BY <1>2, <1>3 DEF PickTap

LEMMA RecordTyped ==
  ASSUME Typed, Record
  PROVE  Typed'
BY EnqueueTyped, ConstantsOK DEF Typed, table, Record, Step, GoOn, Built, Jobs, Calls, Members

LEMMA BridgeTyped ==
  ASSUME Typed, Bridge
  PROVE  Typed'
<1>1. job \in Jobs /\ job.call.card \in Cards /\ (Works("job") \/ Fails("job"))
  BY JobTyped DEF Bridge
<1>2. Built \in SUBSET Members
  BY <1>1 DEF Built, Members
<1>3. lends' \in [Cards -> Lends \cup {None}] /\ job' \in Jobs
  BY <1>1 DEF Typed, Bridge, GoOn, Undoes, Jobs
<1> QED  BY <1>1, <1>2, <1>3, WorkOrFail DEF Typed, table, Bridge

LEMMA RelayTyped ==
  ASSUME Typed, Relay
  PROVE  Typed'
<1>1. job \in Jobs /\ job.call.card \in Cards /\ job.call.holder \in Holders
  BY JobTyped DEF Relay
<1>2. CASE Undoes /\ Counts("failures", MaxFailures) /\ UNCHANGED <<table, scripts>>
  <2>1. lends' \in [Cards -> Lends \cup {None}] /\ job' \in Jobs
    BY <1>1, <1>2 DEF Typed, Undoes, Jobs
  <2> QED  BY <1>2, <2>1, CountsTyped DEF Relay, Typed, table, kept
<1>3. CASE /\ Notes("holders", {job.call.holder}) /\ UNCHANGED <<count, scripts>>
           /\ IF job.call.mode = "whole" THEN job' = None /\ Granted(job.call)
                                         ELSE GoOn("advice") /\ UNCHANGED table
  <2>1. lends' \in [Cards -> Lends \cup {None}]
    BY <1>1, <1>3, {job.call.holder} \in SUBSET Holders, NotesTyped
  <2>2. job' \in Jobs \cup {None}
    BY <1>1, <1>3, GoOnTyped
  <2>3. claim' \in [Cards -> Holders \cup {None}] /\ joins' \in [Cards -> SUBSET Holders]
    BY <1>1, <1>3 DEF Typed, Granted, table
  <2> QED  BY <1>3, <2>1, <2>2, <2>3 DEF Relay, Typed, kept
<1> QED  BY <1>2, <1>3 DEF Relay

LEMMA AdviceTyped ==
  ASSUME Typed, Advice
  PROVE  Typed'
BY ConstantsOK DEF Typed, kept, Advice, Granted, Step, Jobs, Calls, Members

LEMMA StopRelayTyped ==
  ASSUME Typed, StopRelay
  PROVE  Typed'
<1>1. job \in Jobs /\ job.call.card \in Cards
  BY JobTyped DEF StopRelay
<1>2. Built \in SUBSET Members
  BY <1>1 DEF Built, Members
<1> QED  BY <1>1, <1>2, EnqueueTyped, GoOnTyped DEF Typed, table, kept, StopRelay

LEMMA UndoTyped ==
  ASSUME Typed, Undo
  PROVE  Typed'
BY WorkOrFail, ConstantsOK DEF Typed, table, Undo, Step, Jobs, Members

LEMMA RelayStopsTyped ==
  ASSUME Typed, NEW t \in teardowns, RelayStops(t)
  PROVE  Typed'
BY EnqueueTyped, ConstantsOK DEF Typed, table, kept, RelayStops, Teardowns

LEMMA ReturnedTyped ==
  ASSUME Typed, NEW t \in teardowns, Returned(t)
  PROVE  Typed'
BY WorkOrFail, ConstantsOK DEF Typed, table, Returned

LEMMA MembersReadTyped ==
  ASSUME Typed, MembersRead
  PROVE  Typed'
BY ConstantsOK DEF Typed, table, kept, MembersRead, OpAt, Ends, Ops, Members

LEMMA UplinkMadeTyped ==
  ASSUME Typed, UplinkMade
  PROVE  Typed'
BY EnqueueTyped, ConstantsOK DEF Typed, table, kept, UplinkMade, OpAt, Ops, Members

LEMMA CardAddedTyped ==
  ASSUME Typed, CardAdded
  PROVE  Typed'
BY WorkOrFail, ConstantsOK DEF Typed, table, CardAdded, OpAt, Ends, Ops, Members

LEMMA UplinkFailsTyped ==
  ASSUME Typed, UplinkFails
  PROVE  Typed'
BY WorkOrFail, ConstantsOK DEF Typed, table, kept, UplinkFails, OpAt, Ops, Members

LEMMA UndoBeginsTyped ==
  ASSUME Typed, UndoBegins
  PROVE  Typed'
BY EnqueueTyped, ConstantsOK DEF Typed, table, kept, UndoBegins, OpAt, Ops, Members

LEMMA UplinkUndoneTyped ==
  ASSUME Typed, UplinkUndone
  PROVE  Typed'
BY WorkOrFail, ConstantsOK DEF Typed, table, kept, UplinkUndone, OpAt, Ends, Ops, Members

LEMMA UplinkUnpluggedTyped ==
  ASSUME Typed, UplinkUnplugged
  PROVE  Typed'
BY EnqueueTyped, ConstantsOK DEF Typed, table, kept, UplinkUnplugged, OpAt, Ops, Members

LEMMA CardRemovedTyped ==
  ASSUME Typed, CardRemoved
  PROVE  Typed'
BY WorkOrFail, ConstantsOK DEF Typed, table, CardRemoved, OpAt, Ends, Ops, Members

LEMMA CrashTyped ==
  ASSUME Typed, Crash
  PROVE  Typed'
BY RestartsTyped, LostTyped, CountsTyped DEF Typed, kept, Crash

LEMMA ExitTyped ==
  ASSUME Typed, Exit
  PROVE  Typed'
BY RestartsTyped, LostTyped DEF Typed, kept, Exit

LEMMA StopTyped ==
  ASSUME Typed, Stop
  PROVE  Typed'
BY TakesApartTyped, CountsTyped DEF Typed, table, Stop, Lent

-----------------------------------------------------------------------------
(* What the table and the holders do to a lend. *)

\* What is noted of a lend, but its way and its adapter, changes nothing.
LEMMA SameLendsKeeps ==
  ASSUME Core, UNCHANGED <<job, teardowns, op, scripts, bridge, netLent, nics>>,
         Lent' = Lent,
         \A c \in Lent : lends'[c].shared = lends[c].shared /\ lends'[c].tap = lends[c].tap
  PROVE  Core'
<1> USE DEF Running, Lending, Chosen, Standing, Settled, Assembled, Built, Parts, Own
<1> HIDE DEF Lent
<1>1. OneLend'
  BY DEF Core, OneLend
<1>2. Agreed'
  BY DEF Core, Agreed, OneLend
<1>3. Quiet'
  BY DEF Core, Quiet
<1>4. Recorded'
  BY DEF Core, Recorded
<1>5. InOrder'
  BY DEF Core, InOrder, ByJob, ByOp, ByTeardown
<1>6. OpInOrder'
  BY DEF Core, OpInOrder
<1>7. OwnApart'
  BY DEF Core, OwnApart
<1> QED  BY <1>1, <1>2, <1>3, <1>4, <1>5, <1>6, <1>7 DEF Core

\* A card that is lent is the only one, and then nothing else goes on with the lock.
LEMMA SettledAlone ==
  ASSUME Typed, Core, NEW c \in Cards, Settled(c)
  PROVE  /\ Lent = {c} /\ job = None /\ teardowns = {} /\ lends[c].tap
         /\ netLent = Parts(c) /\ Tap \in netLent /\ Parts(c) \in SUBSET Members
<1>1. Lent = {c}
  BY DEF Core, OneLend, Settled
<1>2. job = None
  BY <1>1 DEF Core, OneLend, Settled, Assembled, Lending, Running
<1>3. Tap \in Parts(c) /\ Parts(c) \in SUBSET Members
  BY DEF Parts, Members
<1> QED  BY <1>1, <1>2, <1>3 DEF Core, Quiet, Recorded, Agreed

LEMMA TakesApartKeeps ==
  ASSUME Typed, Core, NEW c \in Cards, Settled(c), TakesApart(c),
         UNCHANGED <<job, op, scripts, bridge, nics>>
  PROVE  Core' /\ netLent' = netLent
<1>1. /\ Lent = {c} /\ job = None /\ teardowns = {} /\ lends[c].tap
      /\ netLent = Parts(c) /\ Tap \in netLent
  BY SettledAlone
<1>2. Lent' = {}
  BY <1>1 DEF TakesApart, Lent, Typed
<1>3. teardowns' = {[what |-> netLent, pc |-> "relay"]} /\ netLent' = netLent /\ job' = None
  BY <1>1 DEF TakesApart
<1> USE <1>1, <1>2, <1>3 DEF Running, Lending, Chosen, Settled, Own
<1>4. OneLend' /\ Agreed' /\ Quiet' /\ Recorded' /\ OwnApart'
  BY ConstantsOK DEF Core, OneLend, Agreed, Quiet, Recorded, OwnApart
<1>5. InOrder'
  BY DEF Core, InOrder, ByJob, ByOp, ByTeardown
<1>6. OpInOrder'
  BY ConstantsOK DEF Core, OpInOrder
<1> QED  BY <1>3, <1>4, <1>5, <1>6 DEF Core

LEMMA UnlendKeeps ==
  ASSUME Typed, Core, NEW c \in Cards, ~Assembled(c), Unlend(c),
         UNCHANGED <<job, op, scripts, bridge, nics>>
  PROVE  Core' /\ netLent' = netLent
<1>1. CASE lends[c] = None
  <2>1. UNCHANGED <<lends, teardowns, netLent>>
    BY <1>1 DEF Unlend
  <2> QED  BY <2>1, SameLendsKeeps DEF Lent
<1>2. CASE lends[c] # None
  <2>1. Settled(c) /\ TakesApart(c)
    BY <1>2 DEF Unlend, Settled, Lent
  <2> QED  BY <2>1, TakesApartKeeps
<1> QED  BY <1>1, <1>2

LEMMA NotedLend ==
  ASSUME Typed, NEW c \in Cards, lends[c] \in Lends, NEW lend \in Lends,
         lends' = [lends EXCEPT ![c] = lend], lend.shared = lends[c].shared, lend.tap = lends[c].tap
  PROVE  /\ Lent' = Lent
         /\ \A d \in Lent : lends'[d].shared = lends[d].shared /\ lends'[d].tap = lends[d].tap
BY ConstantsOK DEF Typed, Lent

LEMMA ClaimKeeps ==
  ASSUME Typed, Core, ~Overlap, NEW c \in Cards, NEW h \in Holders, Claim(c, h)
  PROVE  Core' /\ UNCHANGED <<bridge, netLent>>
<1>1. UNCHANGED <<job, op, scripts, bridge, nics>>
  BY DEF Claim, Calling
<1>2. CASE joins[c] # {}
  <2>1. ~Assembled(c) /\ Unlend(c)
    BY <1>2 DEF Claim
  <2> QED  BY <1>1, <2>1, UnlendKeeps
<1>3. CASE joins[c] = {}
  <2>1. UNCHANGED <<lends, teardowns, netLent>>
    BY <1>3 DEF Claim
  <2> QED  BY <1>1, <2>1, SameLendsKeeps DEF Lent
<1> QED  BY <1>2, <1>3

LEMMA LeaveKeeps ==
  ASSUME Typed, Core, ~Overlap, NEW c \in Cards, NEW h \in Holders, Leave(c, h)
  PROVE  Core' /\ UNCHANGED <<bridge, netLent>>
<1>1. UNCHANGED <<job, op, scripts, bridge, nics>> /\ ~Assembled(c)
  BY DEF Leave
<1>2. CASE lends[c] # None /\ lends[c].mode = "bridge" /\ lends[c].holders \ {h} # {}
  <2>1. /\ lends' = [lends EXCEPT ![c].holders = @ \ {h}] /\ UNCHANGED <<teardowns, netLent>>
        /\ lends' \in [Cards -> Lends \cup {None}] /\ lends[c] \in Lends
    BY <1>2, LeaveTyped DEF Leave, Typed
  <2>2. lends'[c] # None
    BY <2>1, ConstantsOK DEF Typed, Lends
  <2>3. /\ Lent' = Lent
        /\ \A d \in Lent : lends'[d].shared = lends[d].shared /\ lends'[d].tap = lends[d].tap
    BY <1>2, <2>1, <2>2 DEF Lent, Typed, Lends
  <2> QED  BY <1>1, <2>1, <2>3, SameLendsKeeps
<1>3. CASE ~(lends[c] # None /\ lends[c].mode = "bridge" /\ lends[c].holders \ {h} # {})
  <2>1. Unlend(c)
    BY <1>3 DEF Leave
  <2> QED  BY <1>1, <2>1, UnlendKeeps
<1> QED  BY <1>2, <1>3

LEMMA ConnectKeeps ==
  ASSUME Typed, Core, NEW c \in Cards, Connect(c) \/ Disconnect(c)
  PROVE  Core' /\ UNCHANGED <<bridge, netLent>>
<1>1. /\ lends[c] \in Lends
      /\ UNCHANGED <<job, teardowns, op, scripts, bridge, netLent, nics>>
  BY DEF Connect, Disconnect, Whole, Typed, kept
<1>2. PICK b \in BOOLEAN : lends' = [lends EXCEPT ![c].conn = b, ![c].timer = ~b]
  BY DEF Connect, Disconnect
<1>3. lends' = [lends EXCEPT ![c] = [lends[c] EXCEPT !.conn = b, !.timer = ~b]]
  BY <1>1, <1>2 DEF Typed, Lends
<1>4. /\ [lends[c] EXCEPT !.conn = b, !.timer = ~b] \in Lends
      /\ [lends[c] EXCEPT !.conn = b, !.timer = ~b].shared = lends[c].shared
      /\ [lends[c] EXCEPT !.conn = b, !.timer = ~b].tap = lends[c].tap
  BY <1>1 DEF Lends
<1> QED  BY <1>1, <1>3, <1>4, NotedLend, SameLendsKeeps

LEMMA AgainKeeps ==
  ASSUME Typed, Core, NEW k \in calls, Again(k)
  PROVE  Core' /\ UNCHANGED <<bridge, netLent>>
<1>1. k.card \in Cards /\ lends[k.card] \in Lends
  BY DEF Again, Typed, Calls
<1>2. UNCHANGED <<job, teardowns, op, scripts, bridge, netLent, nics>>
  BY DEF Again, kept
<1>3. CASE lends' = lends
  BY <1>2, <1>3, SameLendsKeeps DEF Lent
<1>4. CASE lends' = [lends EXCEPT ![k.card].holders = {k.holder}, ![k.card].conn = FALSE]
  <2> DEFINE lend == [lends[k.card] EXCEPT !.holders = {k.holder}, !.conn = FALSE]
  <2>1. lends' = [lends EXCEPT ![k.card] = lend]
    BY <1>1, <1>4 DEF Typed, Lends
  <2>2. {k.holder} \in SUBSET Holders
    BY DEF Typed, Calls
  <2>3. lend \in Lends /\ lend.shared = lends[k.card].shared /\ lend.tap = lends[k.card].tap
    BY <1>1, <2>2 DEF Lends
  <2> QED  BY <1>1, <1>2, <2>1, <2>3, NotedLend, SameLendsKeeps
<1> QED  BY <1>3, <1>4 DEF Again

LEMMA TableKeeps ==
  ASSUME Typed, Core, ~Overlap, NEW c \in Cards, NEW h \in Holders,
         Join(c, h) \/ Release(c) \/ TimerFires(c) \/ Stop \/ \E k \in calls : Refused(k)
  PROVE  Core' /\ UNCHANGED <<bridge, netLent>>
<1>1. CASE Join(c, h) \/ \E k \in calls : Refused(k)
  <2>1. UNCHANGED <<lends, job, teardowns, op, scripts, bridge, netLent, nics>>
    BY <1>1 DEF Join, Calling, Refused, kept
  <2> QED  BY <2>1, SameLendsKeeps DEF Lent
<1>2. CASE Release(c)
  <2>1. ~Assembled(c) /\ Unlend(c) /\ UNCHANGED <<job, op, scripts, bridge, nics>>
    BY <1>2 DEF Release
  <2> QED  BY <2>1, UnlendKeeps
<1>3. CASE TimerFires(c)
  <2>1. Settled(c) /\ TakesApart(c) /\ UNCHANGED <<job, op, scripts, bridge, nics>>
    BY <1>3 DEF TimerFires, Whole, Settled, Lent
  <2> QED  BY <2>1, TakesApartKeeps
<1>4. CASE Stop
  <2>1. UNCHANGED <<job, op, scripts, bridge, nics>> /\ job = None
    BY <1>4 DEF Stop
  <2>2. CASE Lent = {}
    <3>1. UNCHANGED <<lends, teardowns, netLent>>
      BY <1>4, <2>2 DEF Stop
    <3> QED  BY <2>1, <3>1, SameLendsKeeps DEF Lent
  <2>3. CASE Lent # {}
    <3>1. PICK d \in Lent : TakesApart(d)
      BY <1>4, <2>3 DEF Stop
    <3>2. Settled(d) /\ d \in Cards
      BY <2>1, <3>1 DEF Settled, Assembled, Lent
    <3> QED  BY <2>1, <3>1, <3>2, TakesApartKeeps
  <2> QED  BY <2>2, <2>3
<1> QED  BY <1>1, <1>2, <1>3, <1>4

-----------------------------------------------------------------------------
(* The assembly of a lend. *)

LEMMA StartKeeps ==
  ASSUME Typed, Core, NEW k \in calls, Start(k)
  PROVE  Core' /\ UNCHANGED <<bridge, netLent>>
<1>1. /\ k.card \in Cards /\ job = None
      /\ UNCHANGED <<teardowns, op, scripts, bridge, netLent, nics>>
  BY DEF Start, Typed, Calls, kept
<1>2. job' \notin {None, SwitchOp}
  <2>1. job' \in Jobs
    BY JobStarts
  <2> QED  BY <2>1, ConstantsOK
<1>3. InOrder'
  <2>1. \A s \in Waiting(scripts) : ByJob(s)' /\ ByOp(s)' /\ ByTeardown(s)'
    BY <1>1 DEF Core, InOrder, ByJob, ByOp, ByTeardown, Running
  <2> QED  BY <1>1, <2>1 DEF Core, InOrder
<1>4. CASE lends[k.card] = None
  <2>1. job' = [call |-> k, shared |-> FALSE, pc |-> "wait"]
    BY <1>4 DEF Start
  <2>2. Lent = {} /\ (nics # {} => k.card \in nics)
    BY <1>4 DEF Start, Blocked
  <2>3. Lent' = {k.card}
    <3>1. [mode |-> k.mode, holders |-> {}, shared |-> FALSE, tap |-> FALSE,
           conn |-> FALSE, timer |-> FALSE] \in Lends
      BY DEF Typed, Calls, Lends
    <3>2. lends'[k.card] # None
      BY <1>1, <1>4, <3>1, ConstantsOK DEF Start, Typed
    <3> QED  BY <1>1, <1>4, <2>2, <3>2 DEF Start, Typed, Lent
  <2> USE DEF Running, Lending, Chosen, Standing, Settled, Assembled, Built, Parts, Own
  <2>4. OneLend' /\ Agreed' /\ Quiet' /\ Recorded' /\ OwnApart'
    BY <1>1, <1>2, <2>1, <2>3 DEF Core, OneLend, Agreed, Quiet, Recorded, OwnApart
  <2>5. OpInOrder'
    BY <1>1, <1>2, <2>1, <2>2, <2>3, ConstantsOK DEF Core, OpInOrder
  <2> QED  BY <1>1, <1>3, <2>4, <2>5 DEF Core
<1>5. CASE lends[k.card] # None
  <2>1. /\ job' = [call |-> k, shared |-> lends[k.card].shared, pc |-> "advice"]
        /\ lends' = [lends EXCEPT ![k.card].holders = @ \cup {k.holder}]
        /\ lends[k.card] \in Lends
    BY <1>1, <1>5 DEF Start, Typed
  <2>2. Settled(k.card)
    BY <1>1, <1>5 DEF Settled, Lent, Assembled
  <2>3. /\ Lent = {k.card} /\ teardowns = {} /\ lends[k.card].tap
        /\ netLent = Parts(k.card) /\ Tap \in netLent
    BY <1>1, <2>2, SettledAlone
  <2>4. /\ Lent' = {k.card}
        /\ lends'[k.card].shared = lends[k.card].shared /\ lends'[k.card].tap = lends[k.card].tap
    <3>1. k.holder \in Holders
      BY DEF Typed, Calls
    <3>2. /\ [lends[k.card] EXCEPT !.holders = @ \cup {k.holder}] \in Lends
          /\ [lends[k.card] EXCEPT !.holders = @ \cup {k.holder}].shared = lends[k.card].shared
          /\ [lends[k.card] EXCEPT !.holders = @ \cup {k.holder}].tap = lends[k.card].tap
      BY <2>1, <3>1 DEF Lends
    <3>3. lends' = [lends EXCEPT ![k.card] = [lends[k.card] EXCEPT !.holders = @ \cup {k.holder}]]
      BY <2>1
    <3> QED  BY <1>1, <2>1, <2>3, <3>2, <3>3, NotedLend
  <2>5. Own(k.card) => k.card \notin nics /\ (op # None => op.kind \in {"remove", "drop"}) /\ bridge = {Tap, k.card}
    BY <1>1, <2>2 DEF Core, OwnApart, Own, Settled
  <2>6. Own(k.card)' => Own(k.card)
    BY <1>1, <2>3, <2>4, <2>2 DEF Own, Settled
  <2> USE DEF Running, Lending, Chosen, Standing, Settled, Assembled, Built, Parts
  <2>7. OneLend' /\ Agreed' /\ Quiet' /\ Recorded'
    BY <1>1, <1>2, <2>1, <2>3, <2>4 DEF Core, OneLend, Agreed, Quiet, Recorded
  <2>8. OpInOrder'
    BY <1>1, <1>2, <2>1, <2>3, <2>4, ConstantsOK DEF Core, OpInOrder
  <2>9. OwnApart'
    BY <1>1, <1>2, <2>1, <2>4, <2>5, <2>6 DEF OwnApart, Own
  <2> QED  BY <1>1, <1>3, <2>7, <2>8, <2>9 DEF Core
<1> QED  BY <1>4, <1>5

\* What holds while a lend is assembled.
LEMMA AssemblyState == ASSUME Typed, NEW pc, Step(pc), Core
 PROVE /\ Running /\ job.pc = pc /\ Assembled(job.call.card)
       /\ pc \notin {"undo", "unbridge"} => Lent = {job.call.card} /\ lends[job.call.card] \in Lends
       /\ pc \in {"undo", "unbridge"} => Lent = {}
       /\ pc # "wait" => teardowns = {}
       /\ \A c \in Cards : ~Settled(c)
       /\ job.call.card \in Cards /\ job \in Jobs
<1>1. Running /\ job.pc = pc /\ Assembled(job.call.card)
  BY DEF Running, Step, Assembled
<1>2. job.call.card \in Cards /\ job \in Jobs
  BY JobTyped
<1>3. pc \notin {"undo", "unbridge"} => Lent = {job.call.card}
  BY <1>1 DEF Core, OneLend, Lending
<1>4. pc \in {"undo", "unbridge"} => Lent = {}
  BY <1>1 DEF Core, OneLend, Lending
<1>5. \A c \in Cards : ~Settled(c)
  BY <1>1, <1>2, <1>3, <1>4 DEF Settled
<1> QED  BY <1>1, <1>2, <1>3, <1>4, <1>5 DEF Core, Quiet, Lent, Typed

LEMMA Enqueued ==
  ASSUME Typed, Core, NEW by \in {"job", "op", "teardown"}, NEW act \in {"bridge", "unbridge"},
         NEW what \in SUBSET Members, Enqueue(by, act, what),
         \A s \in Waiting(scripts) : s.by # by
  PROVE  /\ OneByEach(scripts')
         /\ Waiting(scripts') = Waiting(scripts) \cup {[by |-> by, act |-> act, what |-> what]}
<1>1. [by |-> by, act |-> act, what |-> what] \in Scripts
  BY DEF Scripts
<1> QED  BY <1>1, QueueAppend DEF Typed, Core, InOrder, Enqueue

LEMMA Dequeued ==
  ASSUME Typed, Core, NEW by, Works(by) \/ Fails(by)
  PROVE  /\ OneByEach(scripts')
         /\ \A s \in Waiting(scripts') : s \in Waiting(scripts) /\ s.by # by
         /\ Head(scripts) \in Waiting(scripts) /\ Head(scripts).by = by
         /\ ByJob(Head(scripts)) /\ ByOp(Head(scripts)) /\ ByTeardown(Head(scripts))
<1>1. /\ scripts \in Seq(Scripts) /\ scripts # <<>> /\ scripts' = Tail(scripts)
      /\ Head(scripts) \in Waiting(scripts) /\ Head(scripts).by = by
  BY WorkOrFail
<1>2. OneByEach(scripts) /\ \A s \in Waiting(scripts) : ByJob(s) /\ ByOp(s) /\ ByTeardown(s)
  BY DEF Core, InOrder
<1>3. /\ Waiting(Tail(scripts)) \subseteq Waiting(scripts) /\ OneByEach(Tail(scripts))
      /\ \A s \in Waiting(Tail(scripts)) : s.by # Head(scripts).by
  BY <1>1, <1>2, QueueTail
<1> QED  BY <1>1, <1>2, <1>3

\* The lend that is assembled goes on.
LEMMA GoesOn ==
  ASSUME Typed, Core, Running, Lent = {job.call.card}, Lent' = Lent, teardowns = {},
         job' \notin {None, SwitchOp}, job'.call = job.call, job'.pc \notin {"undo", "unbridge"},
         UNCHANGED <<teardowns, op, nics>>, InOrder',
         Chosen' => lends'[job.call.card].shared = job'.shared,
         Chosen' /\ job'.pc # "tap" => lends'[job.call.card].tap,
         netLent' # None => Tap \in netLent',
         job'.pc \in {"bridge", "relay", "advice"} => netLent' = Built',
         Own(job.call.card)' =>
           /\ job.call.card \notin nics
           /\ op # None => op.kind \in {"remove", "drop"}
           /\ bridge' = IF Standing' THEN {Tap, job.call.card} ELSE {}
  PROVE  Core'
<1> USE DEF Running, Settled, Assembled
<1>1. OneLend'
  BY DEF Core, OneLend, Lending
<1>2. Agreed'
  BY DEF Core, Agreed, Chosen
<1>3. Quiet' /\ Recorded'
  BY DEF Core, Quiet, Recorded
<1>4. OpInOrder'
  BY ConstantsOK DEF Core, OpInOrder
<1>5. OwnApart'
  BY DEF OwnApart, Own
<1> QED  BY <1>1, <1>2, <1>3, <1>4, <1>5 DEF Core

\* The lend that is assembled is given up, or its bridge taken apart.
LEMMA GivenUp ==
  ASSUME Typed, Core, Running, Lent' = {}, teardowns = {}, UNCHANGED <<teardowns, op, nics>>,
         \/ job' = None
         \/ job' \notin {None, SwitchOp} /\ job'.pc = "undo" /\ netLent' = Built',
         netLent' = None \/ Tap \in netLent',
         OneByEach(scripts'),
         \A s \in Waiting(scripts') : s \in Waiting(scripts) /\ s.by # "job"
  PROVE  Core'
<1> USE DEF Running, Settled, Assembled
<1>1. OneLend' /\ Agreed' /\ Quiet' /\ Recorded' /\ OwnApart'
  BY ConstantsOK DEF Core, OneLend, Lending, Agreed, Chosen, Quiet, Recorded, OwnApart, Own, Lent
<1>2. InOrder'
  BY DEF Core, InOrder, ByJob, ByOp, ByTeardown
<1>3. OpInOrder'
  BY ConstantsOK DEF Core, OpInOrder
<1> QED  BY <1>1, <1>2, <1>3 DEF Core

LEMMA NotesEffect ==
  ASSUME Typed, NEW c \in Cards, c = job.call.card, Lent = {c}, lends[c] \in Lends,
         NEW b \in BOOLEAN, NEW held \in SUBSET Holders
  PROVE  /\ Notes("shared", b) =>
              Lent' = Lent /\ lends'[c].shared = b /\ lends'[c].tap = lends[c].tap
         /\ Notes("tap", b) =>
              Lent' = Lent /\ lends'[c].tap = b /\ lends'[c].shared = lends[c].shared
         /\ Notes("holders", held) =>
              Lent' = Lent /\ lends'[c].shared = lends[c].shared /\ lends'[c].tap = lends[c].tap
<1>1. lends[c] # None
  BY ConstantsOK
<1>2. ASSUME Notes("shared", b)
      PROVE  Lent' = Lent /\ lends'[c].shared = b /\ lends'[c].tap = lends[c].tap
  <2>1. lends' = [lends EXCEPT ![c] = [lends[c] EXCEPT !.shared = b]]
    BY <1>1, <1>2 DEF Notes
  <2>2. /\ [lends[c] EXCEPT !.shared = b] \in Lends
        /\ [lends[c] EXCEPT !.shared = b].tap = lends[c].tap
        /\ [lends[c] EXCEPT !.shared = b].shared = b
    BY DEF Lends
  <2> QED  BY <1>1, <2>1, <2>2, ConstantsOK DEF Typed, Lent
<1>3. ASSUME Notes("tap", b)
      PROVE  Lent' = Lent /\ lends'[c].tap = b /\ lends'[c].shared = lends[c].shared
  <2>1. lends' = [lends EXCEPT ![c] = [lends[c] EXCEPT !.tap = b]]
    BY <1>1, <1>3 DEF Notes
  <2>2. /\ [lends[c] EXCEPT !.tap = b] \in Lends
        /\ [lends[c] EXCEPT !.tap = b].shared = lends[c].shared
        /\ [lends[c] EXCEPT !.tap = b].tap = b
    BY DEF Lends
  <2> QED  BY <1>1, <2>1, <2>2, ConstantsOK DEF Typed, Lent
<1>4. ASSUME Notes("holders", held)
      PROVE  Lent' = Lent /\ lends'[c].shared = lends[c].shared /\ lends'[c].tap = lends[c].tap
  <2>1. lends' = [lends EXCEPT ![c] = [lends[c] EXCEPT !.holders = held]]
    BY <1>1, <1>4 DEF Notes
  <2>2. /\ [lends[c] EXCEPT !.holders = held] \in Lends
        /\ [lends[c] EXCEPT !.holders = held].shared = lends[c].shared
        /\ [lends[c] EXCEPT !.holders = held].tap = lends[c].tap
    BY DEF Lends
  <2> QED  BY <1>1, <2>1, <2>2, ConstantsOK DEF Typed, Lent
<1> QED  BY <1>2, <1>3, <1>4

LEMMA WaitKeeps ==
  ASSUME Typed, Core, Wait
  PROVE  Core' /\ UNCHANGED <<bridge, netLent>>
<1>1. /\ Running /\ job.pc = "wait" /\ Lent = {job.call.card} /\ job.call.card \in Cards /\ job \in Jobs
      /\ teardowns = {}
  BY AssemblyState DEF Wait
<1>2. /\ UNCHANGED <<teardowns, op, scripts, bridge, netLent, nics>> /\ Lent' = Lent
      /\ job'.pc = "check" /\ job'.call = job.call /\ job' \in Jobs
  BY <1>1 DEF Wait, GoOn, Jobs, kept, Lent
<1>3. InOrder'
  BY <1>1, <1>2 DEF Core, InOrder, ByJob, ByOp, ByTeardown
<1>4. Core'
  BY <1>1, <1>2, <1>3, GoesOn, ConstantsOK DEF Core, Recorded, Chosen, Own, Assembled, Running
<1> QED  BY <1>2, <1>4

LEMMA NoScriptOfJob ==
  ASSUME Core, NEW pc, pc \notin {"clean", "bridge", "unbridge"}, Step(pc)
  PROVE  \A s \in Waiting(scripts) : s.by # "job"
BY DEF Core, InOrder, ByJob, Step

LEMMA CheckKeeps ==
  ASSUME Typed, Core, Check
  PROVE  Core' /\ UNCHANGED <<bridge, netLent>>
<1> DEFINE c == job.call.card
<1>1. /\ Running /\ job.pc = "check" /\ Lent = {c} /\ c \in Cards /\ job \in Jobs
      /\ teardowns = {} /\ lends[c] \in Lends
  BY AssemblyState DEF Check
<1>2. UNCHANGED <<teardowns, op, bridge, nics>> /\ \A s \in Waiting(scripts) : s.by # "job"
  BY NoScriptOfJob DEF Check
<1>3. CASE ~Foreign(c)
  <2>. (c \in nics) \in BOOLEAN
    BY SMT
  <2>1. PICK b \in BOOLEAN : b = (c \in nics)
    BY Zenon
  <2>2. Notes("shared", b) /\ job' = [job EXCEPT !.pc = "tap", !.shared = b] /\ UNCHANGED <<scripts, netLent>>
    BY <1>3, <2>1, Zenon DEF Check
  <2>3. Lent' = Lent /\ lends'[c].shared = b
    BY <1>1, <2>2, NotesEffect
  <2>4. job' \in Jobs /\ job'.pc = "tap" /\ job'.call = job.call /\ job'.shared = b
    BY <1>1, <2>2 DEF Jobs
  <2>5. InOrder'
    BY <1>2, <2>2 DEF Core, InOrder, ByJob, ByOp, ByTeardown
  <2>6. ~b => c \notin nics /\ bridge = {} /\ (op # None => op.kind \in {"remove", "drop"})
    <3>1. op # None => op.kind # "build"
      BY <1>1 DEF Core, OpInOrder, Running
    <3>2. op # None /\ op.kind = "add" => c \in nics
      BY <1>1 DEF Core, OpInOrder
    <3>3. op # None => op.kind \in {"build", "add", "remove", "drop"}
      BY DEF Typed, Ops
    <3> QED  BY <1>3, <2>1, <3>1, <3>2, <3>3 DEF Foreign
  <2>7. Own(c)' => ~b /\ ~Standing'
    BY <2>3, <2>4 DEF Own, Standing
  <2>8. Core'
    BY <1>1, <1>2, <2>2, <2>3, <2>4, <2>5, <2>6, <2>7, GoesOn, ConstantsOK DEF Core, Recorded
  <2> QED  BY <1>2, <2>2, <2>8
<1>4. CASE Foreign(c) /\ netLent # None
  <2>1. /\ job' \in Jobs /\ job'.pc = "clean" /\ job'.call = job.call
        /\ UNCHANGED <<lends, netLent>> /\ netLent \in SUBSET Members
        /\ Enqueue("job", "unbridge", netLent)
    BY <1>1, <1>4 DEF Check, GoOn, Jobs, Typed
  <2>2. /\ OneByEach(scripts')
        /\ Waiting(scripts') = Waiting(scripts) \cup {[by |-> "job", act |-> "unbridge", what |-> netLent]}
    BY <1>2, <2>1, Enqueued
  <2>3. InOrder'
    BY <1>2, <2>1, <2>2, ConstantsOK DEF Core, InOrder, ByJob, ByOp, ByTeardown, Running
  <2>4. Core'
    BY <1>1, <1>2, <2>1, <2>3, GoesOn, ConstantsOK DEF Core, Recorded, Chosen, Own, Assembled, Lent, Running
  <2> QED  BY <1>2, <2>1, <2>4
<1>5. CASE Foreign(c) /\ netLent = None
  <2>1. Abandons /\ UNCHANGED scripts
    BY <1>5 DEF Check
  <2>2. Lent' = {} /\ job' = None /\ netLent' = None
    BY <1>1, <2>1 DEF Abandons, Lent, Typed
  <2>3. Core'
    BY <1>1, <1>2, <2>1, <2>2, GivenUp DEF Core, InOrder
  <2> QED  BY <1>2, <1>5, <2>2, <2>3
<1> QED  BY <1>3, <1>4, <1>5

LEMMA CleanKeeps ==
  ASSUME Typed, Core, Clean
  PROVE  Core' /\ (BridgeIsRecorded /\ ~Forgets => BridgeIsRecorded')
<1> DEFINE c == job.call.card
           s == Head(scripts)
<1>1. /\ Step("clean") /\ Running /\ job.pc = "clean" /\ Lent = {c} /\ c \in Cards /\ job \in Jobs
      /\ teardowns = {} /\ lends[c] \in Lends
  BY AssemblyState DEF Clean
<1>2. UNCHANGED <<teardowns, op, nics>> /\ (Works("job") \/ Fails("job"))
  BY DEF Clean
<1>3. /\ OneByEach(scripts')
      /\ \A q \in Waiting(scripts') : q \in Waiting(scripts) /\ q.by # "job"
      /\ s.act = "unbridge" /\ s.what = netLent
      /\ bridge' \subseteq bridge
  <2>1. s.by = "job" /\ ByJob(s)
    BY <1>2, Dequeued
  <2>2. s.act = "unbridge" /\ s.what = netLent
    BY <1>1, <2>1 DEF ByJob
  <2> QED  BY <1>2, <2>2, Dequeued, WorkOrFail
<1>4. CASE Works("job") /\ netLent' = None /\ GoOn("check") /\ UNCHANGED lends
  <2>1. job' \in Jobs /\ job'.pc = "check" /\ job'.call = job.call /\ Lent' = Lent
    BY <1>1, <1>4 DEF GoOn, Jobs, Lent
  <2>2. InOrder'
    BY <1>2, <1>3 DEF Core, InOrder, ByJob, ByOp, ByTeardown
  <2>3. Core'
    BY <1>1, <1>2, <1>4, <2>1, <2>2, GoesOn, ConstantsOK DEF Chosen, Own, Assembled, Running
  <2>4. BridgeIsRecorded => Tap \notin bridge'
    <3>1. bridge' = bridge \ netLent
      BY <1>3, <1>4 DEF Works
    <3> QED  BY <3>1 DEF BridgeIsRecorded, Core, Recorded
  <2> QED  BY <2>3, <2>4 DEF BridgeIsRecorded
<1>5. CASE Fails("job") /\ Abandons
  <2>1. Lent' = {} /\ job' = None /\ netLent' = None
    BY <1>1, <1>5 DEF Abandons, Lent, Typed
  <2>2. Core'
    BY <1>1, <1>2, <1>3, <2>1, GivenUp
  <2> QED  BY <1>1, <1>3, <1>5, <2>2 DEF Forgets, BridgeIsRecorded
<1> QED  BY <1>4, <1>5 DEF Clean

LEMMA PickTapKeeps ==
  ASSUME Typed, Core, PickTap
  PROVE  Core' /\ (BridgeIsRecorded /\ ~Forgets => BridgeIsRecorded')
<1> DEFINE c == job.call.card
<1>1. /\ Step("tap") /\ Running /\ job.pc = "tap" /\ Lent = {c} /\ c \in Cards /\ job \in Jobs
      /\ teardowns = {} /\ lends[c] \in Lends
  BY AssemblyState DEF PickTap
<1>2. UNCHANGED <<teardowns, op, scripts, bridge, nics>> /\ \A s \in Waiting(scripts) : s.by # "job"
  BY NoScriptOfJob DEF PickTap
<1>3. CASE Notes("tap", TRUE) /\ GoOn("name") /\ UNCHANGED netLent
  <2>1. Lent' = Lent /\ lends'[c].shared = lends[c].shared /\ lends'[c].tap
    BY <1>1, <1>3, NotesEffect
  <2>2. job' \in Jobs /\ job'.pc = "name" /\ job'.call = job.call /\ job'.shared = job.shared
    BY <1>1, <1>3 DEF GoOn, Jobs
  <2>3. InOrder'
    BY <1>2, <1>3 DEF Core, InOrder, ByJob, ByOp, ByTeardown
  <2>4. Chosen /\ (Own(c)' => Own(c) /\ ~Standing') /\ Assembled(c) /\ ~Standing
    BY <1>1, <2>1, <2>2 DEF Own, Standing, Chosen, Assembled, Running
  <2>5. Core'
    BY <1>1, <1>2, <1>3, <2>1, <2>2, <2>3, <2>4, GoesOn, ConstantsOK DEF Core, Recorded, Agreed, OwnApart
  <2> QED  BY <1>2, <1>3, <2>5 DEF BridgeIsRecorded
<1>4. CASE Abandons
  <2>1. Lent' = {} /\ job' = None /\ netLent' = None
    BY <1>1, <1>4 DEF Abandons, Lent, Typed
  <2>2. Core'
    BY <1>1, <1>2, <2>1, GivenUp DEF Core, InOrder
  <2> QED  BY <1>1, <1>2, <1>4, <2>2 DEF Forgets, BridgeIsRecorded
<1> QED  BY <1>3, <1>4 DEF PickTap

LEMMA RecordKeeps ==
  ASSUME Typed, Core, Record
  PROVE  Core' /\ (BridgeIsRecorded => BridgeIsRecorded')
<1> DEFINE c == job.call.card
<1>1. /\ Running /\ job.pc = "name" /\ Lent = {c} /\ c \in Cards /\ job \in Jobs
      /\ teardowns = {} /\ lends[c] \in Lends
  BY AssemblyState DEF Record
<1>2. UNCHANGED <<lends, teardowns, op, bridge, nics>> /\ \A s \in Waiting(scripts) : s.by # "job"
  BY NoScriptOfJob DEF Record
<1>3. Built \in SUBSET Members /\ Tap \in Built
  BY <1>1 DEF Built, Members
<1>4. netLent' = Built /\ Enqueue("job", "bridge", Built)
  BY DEF Record
<1>5. job' \in Jobs /\ job'.pc = "bridge" /\ job'.call = job.call /\ job'.shared = job.shared /\ Lent' = Lent
  BY <1>1, <1>2 DEF Record, GoOn, Jobs, Lent
<1>6. Built' = Built
  BY <1>5 DEF Built
<1>7. InOrder'
  <2>1. /\ OneByEach(scripts')
        /\ Waiting(scripts') = Waiting(scripts) \cup {[by |-> "job", act |-> "bridge", what |-> Built]}
    BY <1>2, <1>3, <1>4, Enqueued
  <2> QED  BY <1>2, <1>5, <1>6, <2>1, ConstantsOK DEF Core, InOrder, ByJob, ByOp, ByTeardown, Running
<1>8. Chosen /\ (Own(c)' => Own(c) /\ ~Standing') /\ Assembled(c) /\ ~Standing
  BY <1>1, <1>2, <1>5 DEF Own, Standing, Chosen, Assembled, Running
<1>9. Core'
  BY <1>1, <1>2, <1>3, <1>4, <1>5, <1>6, <1>7, <1>8, GoesOn, ConstantsOK DEF Core, Agreed, OwnApart
<1> QED  BY <1>3, <1>4, <1>9, ConstantsOK DEF BridgeIsRecorded

LEMMA BridgeKeeps ==
  ASSUME Typed, Core, Bridge
  PROVE  Core' /\ (BridgeIsRecorded => BridgeIsRecorded')
<1> DEFINE c == job.call.card
           s == Head(scripts)
<1>1. /\ Running /\ job.pc = "bridge" /\ Lent = {c} /\ c \in Cards /\ job \in Jobs
      /\ teardowns = {} /\ lends[c] \in Lends
  BY AssemblyState DEF Bridge
<1>2. UNCHANGED <<teardowns, op, nics>> /\ (Works("job") \/ Fails("job"))
  BY DEF Bridge
<1>3. /\ OneByEach(scripts')
      /\ \A q \in Waiting(scripts') : q \in Waiting(scripts) /\ q.by # "job"
      /\ s.act = "bridge" /\ s.what = Built
  <2>1. s.by = "job" /\ ByJob(s)
    BY <1>2, Dequeued
  <2> QED  BY <1>1, <1>2, <2>1, Dequeued DEF ByJob
<1>4. netLent = Built /\ Tap \in netLent /\ Built \in SUBSET Members
  BY <1>1 DEF Core, Recorded, Built, Members
<1>5. netLent' = netLent
  BY <1>4 DEF Bridge
<1>6. netLent # None
  BY <1>4, ConstantsOK
<1>7. CASE Works("job") /\ GoOn("relay") /\ UNCHANGED lends
  <2>1. job' \in Jobs /\ job'.pc = "relay" /\ job'.call = job.call /\ job'.shared = job.shared /\ Lent' = Lent
    BY <1>1, <1>7 DEF GoOn, Jobs, Lent
  <2>2. Built' = Built
    BY <2>1 DEF Built
  <2>3. InOrder'
    BY <1>2, <1>3 DEF Core, InOrder, ByJob, ByOp, ByTeardown
  <2>4. bridge' = bridge \cup Built
    BY <1>3, <1>7 DEF Works
  <2>5. Chosen /\ (Own(c)' => Own(c)) /\ Assembled(c) /\ ~Standing /\ Standing'
    BY <1>1, <1>7, <2>1, ConstantsOK DEF Own, Standing, Chosen, Assembled, Running
  <2>6. Own(c) => Built = {Tap, c} /\ bridge = {}
    BY <1>1, <2>5 DEF Core, Agreed, Own, OwnApart, Built
  <2>7. Own(c)' => bridge' = {Tap, c} /\ c \notin nics /\ (op # None => op.kind \in {"remove", "drop"})
    BY <1>1, <2>4, <2>5, <2>6 DEF Core, OwnApart
  <2>8. Core'
    BY <1>1, <1>2, <1>4, <1>5, <1>7, <2>1, <2>2, <2>3, <2>5, <2>7, GoesOn, ConstantsOK DEF Core, Agreed
  <2> QED  BY <1>5, <1>6, <2>8 DEF BridgeIsRecorded
<1>8. CASE Fails("job") /\ Undoes
  <2>1. Lent' = {} /\ job' \in Jobs /\ job'.pc = "undo" /\ Built' = Built
    BY <1>1, <1>8 DEF Undoes, Lent, Typed, Jobs, Built
  <2>2. Core'
    BY <1>1, <1>2, <1>3, <1>4, <1>5, <2>1, GivenUp, ConstantsOK
  <2> QED  BY <1>5, <1>6, <2>2 DEF BridgeIsRecorded
<1> QED  BY <1>7, <1>8 DEF Bridge

\* The call is over, and its card is lent.
LEMMA LentNow ==
  ASSUME Typed, Core, Running, NEW c \in Cards, c = job.call.card, Lent = {c},
         job.pc \in {"relay", "advice"}, Lent' = Lent,
         lends'[c].shared = lends[c].shared, lends'[c].tap = lends[c].tap, job' = None,
         UNCHANGED <<teardowns, op, bridge, netLent, nics>>, InOrder'
  PROVE  Core'
<1> USE DEF Running, Settled, Assembled
<1>1. /\ teardowns = {} /\ lends[c].shared = job.shared /\ lends[c].tap
      /\ netLent = Built /\ Tap \in netLent
  BY DEF Core, Quiet, Agreed, Recorded, Chosen, Built
<1>2. OneLend' /\ Agreed' /\ Quiet' /\ Recorded'
  BY <1>1, ConstantsOK DEF Core, OneLend, Agreed, Quiet, Recorded, Lending, Chosen, Built, Parts
<1>3. OpInOrder'
  BY ConstantsOK DEF Core, OpInOrder
<1>4. OwnApart'
  <2>1. Own(c) => c \notin nics /\ (op # None => op.kind \in {"remove", "drop"}) /\ bridge = {Tap, c}
    BY DEF Core, OwnApart, Own, Standing
  <2>2. \A d \in Cards : Own(d)' => d = c /\ Own(c) /\ ~Assembled(d)'
    BY DEF Own, Chosen
  <2> QED  BY <2>1, <2>2 DEF OwnApart
<1> QED  BY <1>2, <1>3, <1>4 DEF Core

LEMMA RelayKeeps ==
  ASSUME Typed, Core, Relay
  PROVE  Core' /\ UNCHANGED <<bridge, netLent>>
<1> DEFINE c == job.call.card
           Noted == Notes("holders", {job.call.holder}) /\ UNCHANGED scripts
<1>1. /\ Running /\ job.pc = "relay" /\ Lent = {c} /\ c \in Cards /\ job \in Jobs
      /\ teardowns = {} /\ lends[c] \in Lends /\ {job.call.holder} \in SUBSET Holders
  BY AssemblyState, JobTyped DEF Relay
<1>2. UNCHANGED <<teardowns, op, bridge, netLent, nics>> /\ \A s \in Waiting(scripts) : s.by # "job"
  BY NoScriptOfJob DEF Relay, kept
<1>3. netLent = Built /\ Tap \in netLent
  BY <1>1 DEF Core, Recorded, Built
<1>4. ASSUME Noted PROVE Lent' = Lent /\ lends'[c].shared = lends[c].shared /\ lends'[c].tap = lends[c].tap
  BY <1>1, <1>4, NotesEffect
<1>5. ASSUME UNCHANGED scripts PROVE InOrder'
  BY <1>2, <1>5 DEF Core, InOrder, ByJob, ByOp, ByTeardown
<1>6. CASE Noted /\ job' = None
  BY <1>1, <1>2, <1>4, <1>5, <1>6, LentNow
<1>7. CASE Noted /\ GoOn("advice")
  <2>1. job' \in Jobs /\ job'.pc = "advice" /\ job'.call = job.call /\ job'.shared = job.shared
    BY <1>1, <1>7 DEF GoOn, Jobs
  <2>2. Built' = Built
    BY <2>1 DEF Built
  <2>3. Chosen /\ (Own(c)' => Own(c)) /\ Standing /\ Standing'
    BY <1>1, <1>4, <1>7, <2>1, ConstantsOK DEF Own, Standing, Chosen, Assembled, Running
  <2>4. Core'
    BY <1>1, <1>2, <1>3, <1>4, <1>5, <1>7, <2>1, <2>2, <2>3, GoesOn, ConstantsOK DEF Core, Agreed, OwnApart
  <2> QED  BY <1>2, <2>4
<1>8. CASE Undoes /\ UNCHANGED scripts
  <2>1. Lent' = {} /\ job' \in Jobs /\ job'.pc = "undo" /\ Built' = Built
    BY <1>1, <1>8 DEF Undoes, Lent, Typed, Jobs, Built
  <2>2. OneByEach(scripts') /\ \A s \in Waiting(scripts') : s \in Waiting(scripts) /\ s.by # "job"
    BY <1>2, <1>8 DEF Core, InOrder
  <2>3. Core'
    BY <1>1, <1>2, <1>3, <2>1, <2>2, GivenUp, ConstantsOK
  <2> QED  BY <1>2, <2>3
<1> QED  BY <1>6, <1>7, <1>8 DEF Relay

LEMMA AdviceKeeps ==
  ASSUME Typed, Core, Advice
  PROVE  Core' /\ UNCHANGED <<bridge, netLent>>
<1>1. /\ Running /\ job.pc = "advice" /\ Lent = {job.call.card} /\ job.call.card \in Cards
  BY AssemblyState DEF Advice
<1>2. UNCHANGED <<lends, teardowns, op, scripts, bridge, netLent, nics>> /\ job' = None
      /\ \A s \in Waiting(scripts) : s.by # "job"
  BY NoScriptOfJob DEF Advice, kept
<1>3. InOrder'
  BY <1>2 DEF Core, InOrder, ByJob, ByOp, ByTeardown
<1> QED  BY <1>1, <1>2, <1>3, LentNow DEF Lent

LEMMA StopRelayKeeps ==
  ASSUME Typed, Core, StopRelay
  PROVE  Core' /\ UNCHANGED <<bridge, netLent>>
<1>1. /\ Running /\ job.pc = "undo" /\ Lent = {} /\ job.call.card \in Cards /\ job \in Jobs
      /\ teardowns = {}
  BY AssemblyState DEF StopRelay
<1>2. UNCHANGED <<lends, teardowns, op, bridge, netLent, nics>> /\ \A s \in Waiting(scripts) : s.by # "job"
  BY NoScriptOfJob DEF StopRelay, kept
<1>3. netLent = Built /\ Built \in SUBSET Members
  BY <1>1 DEF Core, Recorded, Built, Members
<1>4. job' \in Jobs /\ job'.pc = "unbridge" /\ job'.call = job.call /\ job'.shared = job.shared /\ Lent' = {}
  BY <1>1, <1>2 DEF StopRelay, GoOn, Jobs, Lent
<1>5. Built' = Built /\ job' \notin {None, SwitchOp}
  BY <1>4, ConstantsOK DEF Built
<1>6. InOrder'
  <2>1. /\ OneByEach(scripts')
        /\ Waiting(scripts') = Waiting(scripts) \cup {[by |-> "job", act |-> "unbridge", what |-> Built]}
    BY <1>2, <1>3, Enqueued DEF StopRelay
  <2> QED  BY <1>2, <1>4, <1>5, <2>1 DEF Core, InOrder, ByJob, ByOp, ByTeardown, Running
<1> USE DEF Running, Settled, Assembled
<1>7. OneLend' /\ Agreed' /\ Quiet' /\ Recorded' /\ OwnApart'
  BY <1>1, <1>2, <1>3, <1>4, <1>5 DEF Core, OneLend, Lending, Agreed, Chosen, Quiet, Recorded, OwnApart, Own, Lent
<1>8. OpInOrder'
  BY <1>1, <1>2, <1>4, <1>5, ConstantsOK DEF Core, OpInOrder
<1> QED  BY <1>2, <1>6, <1>7, <1>8 DEF Core

LEMMA UndoKeeps ==
  ASSUME Typed, Core, Undo
  PROVE  Core' /\ (BridgeIsRecorded => BridgeIsRecorded')
<1> DEFINE s == Head(scripts)
<1>1. /\ Running /\ job.pc = "unbridge" /\ Lent = {} /\ job.call.card \in Cards /\ job \in Jobs
      /\ teardowns = {}
  BY AssemblyState DEF Undo
<1>2. UNCHANGED <<lends, teardowns, op, nics>> /\ (Works("job") \/ Fails("job")) /\ job' = None
  BY DEF Undo
<1>3. netLent = Built /\ Tap \in netLent
  BY <1>1 DEF Core, Recorded, Built
<1>4. /\ OneByEach(scripts')
      /\ \A q \in Waiting(scripts') : q \in Waiting(scripts) /\ q.by # "job"
      /\ s.act = "unbridge" /\ s.what = Built /\ bridge' \subseteq bridge
  <2>1. s.by = "job" /\ ByJob(s)
    BY <1>2, Dequeued
  <2>2. s.act = "unbridge" /\ s.what = Built
    BY <1>1, <2>1 DEF ByJob
  <2> QED  BY <1>2, <2>2, Dequeued, WorkOrFail
<1>5. Core'
  BY <1>1, <1>2, <1>3, <1>4, GivenUp DEF Lent, Undo
<1>6. CASE Works("job") /\ netLent' = None
  <2>1. bridge' = bridge \ Built
    BY <1>4, <1>6 DEF Works
  <2> QED  BY <1>3, <1>5, <2>1 DEF BridgeIsRecorded
<1>7. CASE UNCHANGED netLent
  BY <1>4, <1>5, <1>7 DEF BridgeIsRecorded
<1> QED  BY <1>6, <1>7 DEF Undo

-----------------------------------------------------------------------------
(* The taking apart of a lend. *)

LEMMA RelayStopsKeeps ==
  ASSUME Typed, Core, NEW t \in teardowns, RelayStops(t)
  PROVE  Core' /\ UNCHANGED <<bridge, netLent>>
<1>1. UNCHANGED <<lends, job, op, bridge, netLent, nics>> /\ t.pc = "relay"
  BY DEF RelayStops, kept
<1>2. teardowns = {t} /\ Tap \in t.what /\ t.what \in SUBSET Members
  BY DEF Core, Quiet, Typed, Teardowns
<1>3. teardowns' = {[what |-> t.what, pc |-> "script"]}
  BY <1>2 DEF RelayStops, Typed, Teardowns
<1>4. \A s \in Waiting(scripts) : s.by # "teardown"
  BY <1>1, <1>2 DEF Core, InOrder, ByTeardown
<1>5. /\ OneByEach(scripts')
      /\ Waiting(scripts') = Waiting(scripts) \cup {[by |-> "teardown", act |-> "unbridge", what |-> t.what]}
  BY <1>2, <1>4, Enqueued DEF RelayStops
<1>6. InOrder'
  BY <1>1, <1>3, <1>4, <1>5 DEF Core, InOrder, ByJob, ByOp, ByTeardown, Running, Built
<1> USE DEF Running, Lending, Chosen, Standing, Settled, Assembled, Built, Parts, Own, Lent
<1>7. OneLend' /\ Agreed' /\ Recorded' /\ OpInOrder' /\ OwnApart'
  BY <1>1 DEF Core, OneLend, Agreed, Recorded, OpInOrder, OwnApart
<1>8. Quiet'
  BY <1>1, <1>2, <1>3 DEF Core, Quiet
<1> QED  BY <1>1, <1>6, <1>7, <1>8 DEF Core

LEMMA ReturnedKeeps ==
  ASSUME Typed, Core, NEW t \in teardowns, Returned(t)
  PROVE  Core' /\ (BridgeIsRecorded => BridgeIsRecorded')
<1> DEFINE s == Head(scripts)
<1>1. /\ UNCHANGED <<lends, job, op, nics>> /\ (Works("teardown") \/ Fails("teardown"))
      /\ s.what = t.what /\ teardowns' = teardowns \ {t}
  BY DEF Returned
<1>2. teardowns = {t} /\ Tap \in t.what
  BY DEF Core, Quiet
<1>3. teardowns' = {} /\ netLent' \in {netLent, None}
  BY <1>1, <1>2 DEF Returned
<1>4. /\ OneByEach(scripts')
      /\ \A q \in Waiting(scripts') : q \in Waiting(scripts) /\ q.by # "teardown"
      /\ s.act = "unbridge" /\ bridge' \subseteq bridge
  <2>1. s.by = "teardown" /\ ByTeardown(s)
    BY <1>1, Dequeued
  <2>2. s.act = "unbridge"
    BY <2>1 DEF ByTeardown
  <2> QED  BY <1>1, <2>2, Dequeued, WorkOrFail
<1>5. (Running => job.pc = "wait") /\ \A c \in Cards : ~Settled(c)
  BY <1>2 DEF Core, Quiet
<1>6. InOrder'
  BY <1>1, <1>4, <1>5 DEF Core, InOrder, ByJob, ByOp, ByTeardown, Running
<1> USE DEF Running, Lending, Chosen, Standing, Settled, Assembled, Built, Parts, Own, Lent
<1>7. OneLend' /\ Agreed' /\ Quiet' /\ Recorded' /\ OpInOrder' /\ OwnApart'
  BY <1>1, <1>3, <1>5 DEF Core, OneLend, Agreed, Quiet, Recorded, OpInOrder, OwnApart
<1>8. CASE Works("teardown") /\ netLent' = None
  <2>1. bridge' = bridge \ t.what
    BY <1>1, <1>4, <1>8 DEF Works
  <2> QED  BY <1>2, <1>6, <1>7, <2>1 DEF BridgeIsRecorded, Core
<1>9. CASE UNCHANGED netLent
  BY <1>4, <1>6, <1>7, <1>9 DEF BridgeIsRecorded, Core
<1> QED  BY <1>8, <1>9 DEF Returned

-----------------------------------------------------------------------------
(* Operations on switches. *)

LEMMA SwitchStep ==
  ASSUME Typed, Core, UNCHANGED <<lends, teardowns, netLent>>,
         \/ job' = job
         \/ job \in {None, SwitchOp} /\ job' = None /\ Lent = {}
         \/ job \in {None, SwitchOp} /\ job' = SwitchOp /\ Lent = {},
         InOrder', OpInOrder',
         \A c \in Cards : Own(c) =>
           bridge' = bridge /\ c \notin nics' /\ (op' # None => op'.kind \in {"remove", "drop"})
  PROVE  Core'
<1> USE DEF Running, Lending, Chosen, Standing, Settled, Assembled, Built, Parts, Own, Lent
<1>1. CASE job' = job
  BY <1>1 DEF Core, OneLend, Agreed, Quiet, Recorded, OwnApart
<1>2. CASE job \in {None, SwitchOp} /\ job' \in {None, SwitchOp} /\ Lent = {}
  BY <1>2 DEF Core, OneLend, Agreed, Quiet, Recorded, OwnApart
<1> QED  BY <1>1, <1>2

LEMMA BuildBeginsKeeps ==
  ASSUME Typed, Core, NEW c \in Cards, BuildBegins(c)
  PROVE  Core' /\ UNCHANGED <<bridge, netLent>>
<1>1. /\ UNCHANGED <<lends, teardowns, scripts, bridge, netLent, nics>> /\ Lent = {}
      /\ op = None /\ job = None /\ job' = SwitchOp
      /\ op' = [kind |-> "build", card |-> c, pc |-> "check"]
  BY DEF BuildBegins, Begins, NicProblem, kept
<1>2. op' # None
  BY BuildBeginsTyped, <1>1, ConstantsOK DEF Ops
<1>3. OpInOrder'
  BY <1>1, <1>2 DEF OpInOrder
<1>4. InOrder'
  BY <1>1, <1>2 DEF Core, InOrder, ByJob, ByOp, ByTeardown, Running
<1>5. \A d \in Cards : ~Own(d)
  BY <1>1 DEF Own
<1> QED  BY <1>1, <1>3, <1>4, <1>5, SwitchStep

LEMMA BeginsKeeps ==
  ASSUME Typed, Core, NEW c \in Cards, AddBegins(c) \/ RemoveBegins(c) \/ DropBegins(c)
  PROVE  Core' /\ UNCHANGED <<bridge, netLent>>
<1>1. UNCHANGED <<lends, job, teardowns, bridge, netLent, nics>> /\ op = None
  BY DEF AddBegins, RemoveBegins, DropBegins, Begins, kept
<1>2. job # SwitchOp /\ \A s \in Waiting(scripts) : s.by # "op"
  BY <1>1 DEF Core, OpInOrder, InOrder, ByOp
<1>3. {c} \in SUBSET Members /\ Tap # c
  BY ConstantsOK DEF Members
<1>4. CASE AddBegins(c)
  <2>1. /\ op' = [kind |-> "add", card |-> c, pc |-> "bridge"] /\ Enqueue("op", "bridge", {c})
        /\ nics # {} /\ Lent = {}
    BY <1>4 DEF AddBegins, Begins, NicProblem
  <2>2. op' # None
    BY <2>1, ConstantsOK DEF Ops
  <2>3. /\ OneByEach(scripts')
        /\ Waiting(scripts') = Waiting(scripts) \cup {[by |-> "op", act |-> "bridge", what |-> {c}]}
    BY <1>2, <1>3, <2>1, Enqueued
  <2>4. InOrder'
    <3>1. \A s \in Waiting(scripts) : ByJob(s)' /\ ByOp(s)' /\ ByTeardown(s)'
      BY <1>1, <1>2 DEF Core, InOrder, ByJob, ByOp, ByTeardown, Running, Built
    <3>2. /\ ByOp([by |-> "op", act |-> "bridge", what |-> {c}])'
          /\ ByJob([by |-> "op", act |-> "bridge", what |-> {c}])'
          /\ ByTeardown([by |-> "op", act |-> "bridge", what |-> {c}])'
      BY <1>1, <1>3, <2>1, <2>2 DEF ByJob, ByOp, ByTeardown
    <3> QED  BY <2>3, <3>1, <3>2 DEF InOrder
  <2>5. OpInOrder'
    BY <1>1, <1>2, <2>1, <2>2 DEF OpInOrder, Lent
  <2>6. \A d \in Cards : ~Own(d)
    BY <2>1 DEF Own
  <2> QED  BY <1>1, <2>4, <2>5, <2>6, SwitchStep
<1>5. CASE RemoveBegins(c)
  <2>1. /\ op' = [kind |-> "remove", card |-> c, pc |-> "unbridge"] /\ Enqueue("op", "unbridge", {c})
        /\ c \in nics
    BY <1>5 DEF RemoveBegins, Begins
  <2>2. op' # None
    BY <2>1, ConstantsOK DEF Ops
  <2>3. /\ OneByEach(scripts')
        /\ Waiting(scripts') = Waiting(scripts) \cup {[by |-> "op", act |-> "unbridge", what |-> {c}]}
    BY <1>2, <1>3, <2>1, Enqueued
  <2>4. InOrder'
    <3>1. \A s \in Waiting(scripts) : ByJob(s)' /\ ByOp(s)' /\ ByTeardown(s)'
      BY <1>1, <1>2 DEF Core, InOrder, ByJob, ByOp, ByTeardown, Running, Built
    <3>2. /\ ByOp([by |-> "op", act |-> "unbridge", what |-> {c}])'
          /\ ByJob([by |-> "op", act |-> "unbridge", what |-> {c}])'
          /\ ByTeardown([by |-> "op", act |-> "unbridge", what |-> {c}])'
      BY <1>1, <1>3, <2>1, <2>2 DEF ByJob, ByOp, ByTeardown
    <3> QED  BY <2>3, <3>1, <3>2 DEF InOrder
  <2>5. OpInOrder'
    BY <1>1, <1>2, <2>1, <2>2 DEF OpInOrder
  <2> QED  BY <1>1, <2>1, <2>4, <2>5, SwitchStep DEF Core, OwnApart
<1>6. CASE DropBegins(c)
  <2>1. op' = [kind |-> "drop", card |-> c, pc |-> "unplug"] /\ UNCHANGED scripts
    BY <1>6 DEF DropBegins, Begins
  <2>2. op' # None
    BY <2>1, ConstantsOK DEF Ops
  <2>4. InOrder'
    BY <1>1, <1>2, <2>1 DEF Core, InOrder, ByJob, ByOp, ByTeardown, Running, Built
  <2>5. OpInOrder'
    BY <1>1, <1>2, <2>1, <2>2 DEF OpInOrder
  <2> QED  BY <1>1, <2>1, <2>4, <2>5, SwitchStep DEF Core, OwnApart
<1> QED  BY <1>4, <1>5, <1>6

\* What holds while an operation on a switch goes on.
LEMMA OpState ==
  ASSUME Typed, Core, NEW pc, OpAt(pc)
  PROVE  /\ op \in Ops /\ op # None /\ op.pc = pc /\ op.card \in Cards
         /\ op.kind = "build" => job = SwitchOp /\ Lent = {}
         /\ op.kind # "build" => job # SwitchOp
         /\ pc \in {"check", "tap", "undo", "undone"} => op.kind = "build"
         /\ pc = "bridge" => op.kind \in {"build", "add"}
         /\ pc \in {"unplug", "unbridge"} => op.kind \in {"remove", "drop"}
         /\ op.kind \in {"build", "add"} => \A c \in Cards : ~Own(c)
BY DEF Typed, Ops, OpAt, Core, OpInOrder, OneLend, OwnApart, Own

LEMMA OpEnds ==
  ASSUME Typed, Core, NEW pc, OpAt(pc), Ends, UNCHANGED <<lends, teardowns, netLent>>,
         OneByEach(scripts'),
         \A s \in Waiting(scripts') : s \in Waiting(scripts) /\ s.by # "op",
         \A c \in Cards : Own(c) => bridge' = bridge /\ c \notin nics'
  PROVE  Core'
<1>1. op' = None /\ (op.kind = "build" => job = SwitchOp /\ job' = None /\ Lent = {})
      /\ (op.kind # "build" => job' = job /\ job # SwitchOp)
  BY OpState DEF Ends
<1>2. OpInOrder'
  BY <1>1, ConstantsOK DEF OpInOrder
<1>3. InOrder'
  BY <1>1 DEF Core, InOrder, ByJob, ByOp, ByTeardown, Running, Built
<1> QED  BY <1>1, <1>2, <1>3, SwitchStep

LEMMA BuildGoesOn ==
  ASSUME Typed, Core, NEW pc, OpAt(pc), op.kind = "build", op' \in Ops, op'.kind = "build",
         op'.pc \in {"tap", "bridge", "undo", "undone"},
         UNCHANGED <<lends, job, teardowns, netLent, nics>>,
         OneByEach(scripts'),
         \A s \in Waiting(scripts') : \/ s \in Waiting(scripts) /\ s.by # "op"
                                      \/ s.by = "op" /\ ByOp(s)'
  PROVE  Core'
<1>1. job = SwitchOp /\ Lent = {} /\ op' # None /\ \A c \in Cards : ~Own(c)
  BY OpState, ConstantsOK
<1>2. OpInOrder'
  BY <1>1 DEF OpInOrder
<1>3. InOrder'
  BY <1>1 DEF Core, InOrder, ByJob, ByOp, ByTeardown, Running
<1> QED  BY <1>1, <1>2, <1>3, SwitchStep

LEMMA MembersReadKeeps ==
  ASSUME Typed, Core, MembersRead
  PROVE  Core' /\ UNCHANGED <<bridge, netLent>>
<1>1. OpAt("check") /\ UNCHANGED <<lends, teardowns, scripts, bridge, netLent, nics>>
  BY DEF MembersRead, kept
<1>2. op.kind = "build" /\ op \in Ops /\ \A c \in Cards : ~Own(c)
  BY <1>1, OpState
<1>3. OneByEach(scripts') /\ \A s \in Waiting(scripts') : s \in Waiting(scripts) /\ s.by # "op"
  BY <1>1 DEF Core, InOrder, ByOp, OpAt
<1>4. CASE op' = [op EXCEPT !.pc = "tap"] /\ UNCHANGED job
  <2>1. op' \in Ops /\ op'.kind = "build" /\ op'.pc = "tap"
    BY <1>2, <1>4 DEF Ops
  <2> QED  BY <1>1, <1>2, <1>3, <1>4, <2>1, BuildGoesOn
<1>5. CASE Ends
  BY <1>1, <1>2, <1>3, <1>5, OpEnds
<1> QED  BY <1>4, <1>5 DEF MembersRead

LEMMA UplinkMadeKeeps ==
  ASSUME Typed, Core, UplinkMade \/ UndoBegins
  PROVE  Core' /\ UNCHANGED <<bridge, netLent>>
<1> DEFINE what == {op.card, Uplink}
<1>1. PICK pc \in {"tap", "undo"}, act \in {"bridge", "unbridge"} :
         /\ OpAt(pc) /\ Enqueue("op", act, what)
         /\ op' = [op EXCEPT !.pc = IF pc = "tap" THEN "bridge" ELSE "undone"]
         /\ pc = "undo" => act = "unbridge"
  BY DEF UplinkMade, UndoBegins
<1>2. UNCHANGED <<lends, job, teardowns, bridge, netLent, nics>>
  BY DEF UplinkMade, UndoBegins, kept
<1>3. op.kind = "build" /\ op \in Ops /\ op.card \in Cards /\ op # None /\ op.pc = pc
  BY <1>1, OpState
<1>4. /\ op' \in Ops /\ op'.kind = "build" /\ op'.pc = IF pc = "tap" THEN "bridge" ELSE "undone"
      /\ op' # None
  BY <1>1, <1>3, ConstantsOK DEF Ops
<1>5. what \in SUBSET Members /\ Tap \notin what
  BY <1>3, ConstantsOK DEF Members
<1>6. \A s \in Waiting(scripts) : s.by # "op"
  BY <1>1, <1>3 DEF Core, InOrder, ByOp
<1>7. /\ OneByEach(scripts')
      /\ Waiting(scripts') = Waiting(scripts) \cup {[by |-> "op", act |-> act, what |-> what]}
  BY <1>1, <1>5, <1>6, Enqueued
<1>8. ASSUME NEW s, s = [by |-> "op", act |-> act, what |-> what]
      PROVE  s.by = "op" /\ ByOp(s)'
  BY <1>1, <1>4, <1>5, <1>8 DEF ByOp
<1> HIDE DEF what
<1>9. \A s \in Waiting(scripts') : \/ s \in Waiting(scripts) /\ s.by # "op"
                                   \/ s.by = "op" /\ ByOp(s)'
  BY <1>6, <1>7, <1>8
<1>10. op'.pc \in {"tap", "bridge", "undo", "undone"}
  BY <1>4
<1> QED  BY <1>1, <1>2, <1>3, <1>4, <1>7, <1>9, <1>10, BuildGoesOn

\* A script of a switch takes no adapter of a lend into the bridge.
LEMMA OpScript ==
  ASSUME Typed, Core, Works("op") \/ Fails("op")
  PROVE  /\ OneByEach(scripts')
         /\ \A s \in Waiting(scripts') : s \in Waiting(scripts) /\ s.by # "op"
         /\ ByOp(Head(scripts)) /\ Head(scripts).by = "op"
         /\ Tap \in bridge' => Tap \in bridge
<1>1. ByOp(Head(scripts)) /\ Head(scripts).by = "op"
  BY Dequeued
<1>2. Tap \notin Head(scripts).what
  BY <1>1 DEF ByOp
<1> QED  BY <1>1, <1>2, Dequeued, WorkOrFail

LEMMA CardAddedKeeps ==
  ASSUME Typed, Core, CardAdded
  PROVE  Core' /\ (BridgeIsRecorded => BridgeIsRecorded')
<1>1. /\ OpAt("bridge") /\ UNCHANGED <<lends, teardowns, netLent>> /\ Ends
      /\ Works("op") \/ Fails("op")
  BY DEF CardAdded
<1>2. \A c \in Cards : ~Own(c)
  BY <1>1, OpState
<1>3. Core'
  BY <1>1, <1>2, OpScript, OpEnds
<1> QED  BY <1>1, <1>3, OpScript DEF BridgeIsRecorded

LEMMA UplinkFailsKeeps ==
  ASSUME Typed, Core, UplinkFails
  PROVE  Core' /\ (BridgeIsRecorded => BridgeIsRecorded')
<1>1. /\ OpAt("bridge") /\ UNCHANGED <<lends, job, teardowns, netLent, nics>> /\ Fails("op")
      /\ op.kind = "build" /\ op' = [op EXCEPT !.pc = "undo"]
  BY DEF UplinkFails, kept
<1>2. op' \in Ops /\ op'.kind = "build" /\ op'.pc = "undo"
  BY <1>1, OpState DEF Ops
<1>3. Core'
  BY <1>1, <1>2, OpScript, BuildGoesOn
<1> QED  BY <1>1, <1>3, OpScript DEF BridgeIsRecorded

LEMMA UplinkUndoneKeeps ==
  ASSUME Typed, Core, UplinkUndone
  PROVE  Core' /\ (BridgeIsRecorded => BridgeIsRecorded')
<1>1. /\ OpAt("undone") /\ UNCHANGED <<lends, teardowns, netLent, nics>> /\ Ends
      /\ Works("op") \/ Fails("op")
  BY DEF UplinkUndone, kept
<1>2. \A c \in Cards : ~Own(c)
  BY <1>1, OpState
<1>3. Core'
  BY <1>1, <1>2, OpScript, OpEnds
<1> QED  BY <1>1, <1>3, OpScript DEF BridgeIsRecorded

LEMMA UplinkUnpluggedKeeps ==
  ASSUME Typed, Core, UplinkUnplugged
  PROVE  Core' /\ UNCHANGED <<bridge, netLent>>
<1> DEFINE what == nics \cup {Uplink}
<1>1. /\ OpAt("unplug") /\ UNCHANGED <<lends, job, teardowns, bridge, netLent, nics>>
      /\ op' = [op EXCEPT !.pc = "unbridge"] /\ Enqueue("op", "unbridge", what)
  BY DEF UplinkUnplugged, kept
<1>2. op.kind \in {"remove", "drop"} /\ op \in Ops /\ op # None /\ op.pc = "unplug" /\ job # SwitchOp
  BY <1>1, OpState
<1>3. op' \in Ops /\ op'.kind = op.kind /\ op'.card = op.card /\ op'.pc = "unbridge" /\ op' # None
  BY <1>1, <1>2, ConstantsOK DEF Ops
<1>4. what \in SUBSET Members /\ Tap \notin what
  BY ConstantsOK DEF Members, Typed
<1>5. \A s \in Waiting(scripts) : s.by # "op"
  BY <1>2 DEF Core, InOrder, ByOp
<1>6. /\ OneByEach(scripts')
      /\ Waiting(scripts') = Waiting(scripts) \cup {[by |-> "op", act |-> "unbridge", what |-> what]}
  BY <1>1, <1>4, <1>5, Enqueued
<1>7. InOrder'
  <2>1. \A s \in Waiting(scripts) : ByJob(s)' /\ ByOp(s)' /\ ByTeardown(s)'
    BY <1>1, <1>5 DEF Core, InOrder, ByJob, ByOp, ByTeardown, Running, Built
  <2>2. ASSUME NEW s, s = [by |-> "op", act |-> "unbridge", what |-> what]
        PROVE  ByJob(s)' /\ ByOp(s)' /\ ByTeardown(s)'
    BY <1>1, <1>3, <1>4, <2>2 DEF ByJob, ByOp, ByTeardown
  <2> QED  BY <1>6, <2>1, <2>2 DEF InOrder
<1>8. OpInOrder'
  BY <1>1, <1>2, <1>3 DEF Core, OpInOrder
<1>9. \A c \in Cards : Own(c) => c \notin nics
  BY DEF Core, OwnApart
<1> QED  BY <1>1, <1>2, <1>3, <1>7, <1>8, <1>9, SwitchStep

LEMMA CardRemovedKeeps ==
  ASSUME Typed, Core, CardRemoved
  PROVE  Core' /\ (BridgeIsRecorded => BridgeIsRecorded')
<1> DEFINE s == Head(scripts)
<1>1. /\ OpAt("unbridge") /\ UNCHANGED <<lends, teardowns, netLent>> /\ Ends
      /\ nics' \subseteq nics /\ (Works("op") \/ Fails("op"))
  BY DEF CardRemoved
<1>2. s.act = "unbridge" /\ s.what \subseteq nics \cup {Uplink}
  BY <1>1, OpScript DEF ByOp, OpAt
<1>3. ASSUME NEW c \in Cards, Own(c)
      PROVE  bridge' = bridge /\ c \notin nics'
  <2>1. c \notin nics /\ (bridge = {} \/ bridge = {Tap, c})
    BY <1>3 DEF Core, OwnApart
  <2>2. bridge \cap s.what = {}
    BY <1>2, <2>1, ConstantsOK DEF Typed
  <2>3. bridge' = bridge
    BY <1>1, <1>2, <2>2 DEF Works, Fails
  <2> QED  BY <1>1, <2>1, <2>3
<1>4. Core'
  BY <1>1, <1>3, OpScript, OpEnds
<1> QED  BY <1>1, <1>4, OpScript DEF BridgeIsRecorded

-----------------------------------------------------------------------------
(* The end of the program, and its start. *)

LEMMA RestartsKeeps ==
  ASSUME Typed, Core, Restarts
  PROVE  Core'
<1>1. /\ job' = None /\ op' = None /\ Lent' = {} /\ UNCHANGED <<netLent, nics>>
  BY DEF Restarts, Lent, kept
<1>2. CASE netLent = None
  <2>1. teardowns' = {} /\ scripts' = <<>>
    BY <1>2 DEF Restarts
  <2>2. Waiting(scripts') = {} /\ OneByEach(scripts')
    BY <2>1, NothingWaits
  <2> QED  BY <1>1, <1>2, <2>1, <2>2, ConstantsOK
           DEF Core, OneLend, Agreed, Quiet, Recorded, InOrder, OpInOrder, OwnApart,
               Running, Lending, Chosen, Settled, Own
<1>3. CASE netLent # None
  <2>1. /\ teardowns' = {[what |-> netLent, pc |-> "script"]}
        /\ scripts' = <<[by |-> "teardown", act |-> "unbridge", what |-> netLent]>>
    BY <1>3 DEF Restarts
  <2>2. /\ Waiting(scripts') = {[by |-> "teardown", act |-> "unbridge", what |-> netLent]}
        /\ OneByEach(scripts')
    BY <2>1, NothingWaits
  <2>3. InOrder'
    BY <2>1, <2>2 DEF InOrder, ByJob, ByOp, ByTeardown
  <2>4. Tap \in netLent
    BY <1>3 DEF Core, Recorded
  <2> QED  BY <1>1, <2>1, <2>3, <2>4, ConstantsOK
           DEF Core, OneLend, Agreed, Quiet, Recorded, OpInOrder, OwnApart,
               Running, Lending, Chosen, Settled, Own
<1> QED  BY <1>2, <1>3

LEMMA EndsKeeps ==
  ASSUME Typed, Core, Crash \/ Exit
  PROVE  Core' /\ (BridgeIsRecorded => BridgeIsRecorded')
<1>1. Restarts /\ netLent' = netLent
  BY DEF Crash, Exit, Restarts, kept
<1>2. PICK part \in SUBSET (IF scripts = <<>> THEN {} ELSE Head(scripts).what) :
        bridge' = IF part # {} /\ Head(scripts).act = "bridge" THEN bridge \cup part ELSE bridge \ part
  BY DEF Crash, Exit
<1>3. CASE scripts = <<>>
  BY <1>1, <1>2, <1>3, RestartsKeeps DEF BridgeIsRecorded
<1>4. CASE scripts # <<>>
  <2> DEFINE s == Head(scripts)
  <2>1. s \in Scripts /\ ByJob(s) /\ ByOp(s) /\ ByTeardown(s)
    BY <1>4, QueueTail DEF Typed, Core, InOrder
  <2>2. s.act = "bridge" /\ Tap \in s.what => netLent # None
    <3>1. CASE s.by = "job" /\ s.act = "bridge"
      <4>1. Running /\ job.pc = "bridge" /\ Step("bridge")
        BY <2>1, <3>1 DEF ByJob, Running, Step
      <4>2. Built \in SUBSET Members
        BY <4>1, JobTyped DEF Built, Members
      <4> QED  BY <4>1, <4>2, ConstantsOK DEF Core, Recorded
    <3>2. CASE s.by # "job"
      BY <2>1, <3>2 DEF ByOp, ByTeardown, Scripts
    <3> QED  BY <3>1, <3>2
  <2> QED  BY <1>1, <1>2, <2>2, RestartsKeeps DEF BridgeIsRecorded
<1> QED  BY <1>3, <1>4

-----------------------------------------------------------------------------
(* Every step. *)

LEMMA InitNetInv == Init => NetInv /\ BridgeIsRecorded
<1> SUFFICES ASSUME Init PROVE NetInv /\ BridgeIsRecorded
  OBVIOUS
<1>1. Lent = {} /\ Waiting(scripts) = {} /\ OneByEach(scripts)
  BY NothingWaits DEF Init, Lent
<1>2. Typed
  <2>1. bridge \subseteq Members
    BY DEF Init, Members
  <2>2. count \in Counters
    BY ConstantsOK DEF Init, Counters
  <2>3. scripts \in Seq(Scripts)
    BY DEF Init
  <2>4. /\ claim \in [Cards -> Holders \cup {None}] /\ joins \in [Cards -> SUBSET Holders]
        /\ lends \in [Cards -> Lends \cup {None}]
    BY DEF Init
  <2> QED  BY <2>1, <2>2, <2>3, <2>4 DEF Init, Typed
<1>3. Core
  <2>1. job = None /\ op = None /\ teardowns = {} /\ netLent = None
    BY DEF Init
  <2>2. OneLend /\ Agreed /\ Quiet /\ Recorded /\ OwnApart
    BY <1>1, <2>1, ConstantsOK DEF OneLend, Agreed, Quiet, Recorded, OwnApart,
                                   Running, Lending, Chosen, Settled, Own
  <2> QED  BY <1>1, <2>1, <2>2, ConstantsOK DEF Core, InOrder, OpInOrder
<1>4. BridgeIsRecorded
  BY ConstantsOK DEF Init, BridgeIsRecorded
<1> QED  BY <1>2, <1>3, <1>4 DEF NetInv, Core

LEMMA TypedStep == Typed /\ [Next]_vars => Typed'
<1> SUFFICES ASSUME Typed, [Next]_vars PROVE Typed'
  OBVIOUS
<1>1. CASE UNCHANGED vars
  BY <1>1 DEF Typed, vars
<1>2. ASSUME NEW c \in Cards, NEW h \in Holders, Claim(c, h) \/ Join(c, h) \/ Leave(c, h)
      PROVE  Typed'
  BY <1>2, ClaimTyped, JoinTyped, LeaveTyped
<1>3. ASSUME NEW c \in Cards, Release(c) \/ Connect(c) \/ Disconnect(c) \/ TimerFires(c)
      PROVE  Typed'
  BY <1>3, ReleaseTyped, ConnectTyped, DisconnectTyped, TimerFiresTyped
<1>4. ASSUME NEW c \in Cards, BuildBegins(c) \/ AddBegins(c) \/ RemoveBegins(c) \/ DropBegins(c)
      PROVE  Typed'
  BY <1>4, BuildBeginsTyped, AddBeginsTyped, RemoveBeginsTyped, DropBeginsTyped
<1>5. CASE Calls_
  BY <1>5, RefusedTyped, AgainTyped, StartTyped DEF Calls_
<1>6. CASE Assembly
  BY <1>6, WaitTyped, CheckTyped, CleanTyped, PickTapTyped, RecordTyped, BridgeTyped, RelayTyped,
     AdviceTyped, StopRelayTyped, UndoTyped DEF Assembly
<1>7. CASE Taking
  BY <1>7, RelayStopsTyped, ReturnedTyped DEF Taking
<1>8. CASE Switching
  BY <1>8, MembersReadTyped, UplinkMadeTyped, CardAddedTyped, UplinkFailsTyped, UndoBeginsTyped,
     UplinkUndoneTyped, UplinkUnpluggedTyped, CardRemovedTyped DEF Switching
<1>9. CASE Crash \/ Stop \/ Exit
  BY <1>9, CrashTyped, StopTyped, ExitTyped
<1> QED  BY <1>1, <1>2, <1>3, <1>4, <1>5, <1>6, <1>7, <1>8, <1>9 DEF Next

LEMMA CoreStep ==
  ASSUME ~Overlap, NetInv, [Next]_vars
  PROVE  Core' /\ (BridgeIsRecorded /\ ~Forgets => BridgeIsRecorded')
<1> DEFINE Goal == Core' /\ (BridgeIsRecorded /\ ~Forgets => BridgeIsRecorded')
<1> USE DEF BridgeIsRecorded
<1>0. Typed /\ Core
  BY DEF NetInv, Core
<1>1. CASE UNCHANGED vars
  BY <1>0, <1>1, SameLendsKeeps DEF vars, Lent
<1>2. ASSUME NEW c \in Cards, NEW h \in Holders, Claim(c, h) \/ Join(c, h) \/ Leave(c, h)
      PROVE  Goal
  BY <1>0, <1>2, ClaimKeeps, TableKeeps, LeaveKeeps
<1>3. ASSUME NEW c \in Cards, Release(c) \/ Connect(c) \/ Disconnect(c) \/ TimerFires(c)
      PROVE  Goal
  BY <1>0, <1>3, TableKeeps, ConnectKeeps, ConstantsOK
<1>4. ASSUME NEW c \in Cards, BuildBegins(c) \/ AddBegins(c) \/ RemoveBegins(c) \/ DropBegins(c)
      PROVE  Goal
  BY <1>0, <1>4, BuildBeginsKeeps, BeginsKeeps
<1>5. CASE Calls_
  <2>1. CASE \E k \in calls : Refused(k)
    <3>1. UNCHANGED <<lends, job, teardowns, op, scripts, bridge, netLent, nics>>
      BY <2>1 DEF Refused, kept
    <3> QED  BY <1>0, <3>1, SameLendsKeeps DEF Lent
  <2>2. CASE \E k \in calls : Again(k) \/ Start(k)
    BY <1>0, <2>2, AgainKeeps, StartKeeps
  <2> QED  BY <1>5, <2>1, <2>2 DEF Calls_
<1>6. CASE Assembly
  BY <1>0, <1>6, WaitKeeps, CheckKeeps, CleanKeeps, PickTapKeeps, RecordKeeps, BridgeKeeps, RelayKeeps,
     AdviceKeeps, StopRelayKeeps, UndoKeeps DEF Assembly
<1>7. CASE Taking
  BY <1>0, <1>7, RelayStopsKeeps, ReturnedKeeps DEF Taking
<1>8. CASE Switching
  BY <1>0, <1>8, MembersReadKeeps, UplinkMadeKeeps, CardAddedKeeps, UplinkFailsKeeps,
     UplinkUndoneKeeps, UplinkUnpluggedKeeps, CardRemovedKeeps DEF Switching
<1>9. CASE Stop
  <2>1. CASE Lent = {}
    <3>1. UNCHANGED <<lends, job, teardowns, op, scripts, bridge, netLent, nics>>
      BY <1>9, <2>1 DEF Stop
    <3> QED  BY <1>0, <3>1, SameLendsKeeps DEF Lent
  <2>2. CASE Lent # {}
    <3>1. PICK c \in Cards : TRUE
      BY <2>2 DEF Lent
    <3> QED  BY <1>0, <1>9, <3>1, TableKeeps, ConstantsOK
  <2> QED  BY <2>1, <2>2
<1>10. CASE Crash \/ Exit
  BY <1>0, <1>10, EndsKeeps
<1> QED  BY <1>1, <1>2, <1>3, <1>4, <1>5, <1>6, <1>7, <1>8, <1>9, <1>10 DEF Next

LEMMA NetInvStep ==
  ASSUME ~Overlap
  PROVE  NetInv /\ [Next]_vars => NetInv'
BY TypedStep, CoreStep DEF NetInv, Core

\* Three may wait, since each who changes the bridge has one script at most.
LEMMA ThreeScripts == NetInv => TypeOK
<1> SUFFICES ASSUME NetInv PROVE TypeOK
  OBVIOUS
<1>1. Len(scripts) <= 3
  <2>1. scripts \in Seq(Scripts) /\ OneByEach(scripts)
    BY DEF NetInv, Core, Typed, InOrder
  <2>2. \A i \in 1 .. Len(scripts) : scripts[i].by \in {"job", "op", "teardown"}
    <3>1. \A i \in 1 .. Len(scripts) : scripts[i] \in Scripts
      BY <2>1
    <3> QED  BY <3>1 DEF Scripts
  <2> QED  BY <2>1, <2>2 DEF OneByEach
<1> QED  BY <1>1 DEF NetInv, Typed, TypeOK, Teardowns, Counters

\* The types of the table, the lends, the queue and the records are kept, and no more than
\* three scripts ever wait: one of the assembly, one of the switch and one of a taking apart
\* (bridge.js queues them one behind the other).
THEOREM CardsTyped ==
  ASSUME ~Overlap
  PROVE  Spec => []TypeOK
<1>1. Spec => []NetInv
  BY InitNetInv, NetInvStep, PTL DEF Spec
<1> QED  BY <1>1, ThreeScripts, PTL

\* A card lent by a bridge of its own is in it, alone with the adapter of the lend, until it
\* is given back: no taking apart of another lend and no operation on a switch reaches it.
THEOREM LentCardsBridged ==
  ASSUME ~Overlap
  PROVE  Spec => []LentCardIsBridged
<1>1. Spec => []NetInv
  BY InitNetInv, NetInvStep, PTL DEF Spec
<1>2. NetInv => LentCardIsBridged
  BY DEF NetInv, Core, OwnApart, Own, LentCardIsBridged, Lent
<1> QED  BY <1>1, <1>2, PTL

\* config.json knows of every bridge with the adapter of a lend in it, through failures and
\* crashes at any moment, until an assembly is given up while an earlier record stands:
\* no other step of the program loses the record of a bridge.
THEOREM RecordStands ==
  ASSUME ~Overlap
  PROVE  Spec => OnlyForgotten
<1>1. Spec => []NetInv
  BY InitNetInv, NetInvStep, PTL DEF Spec
<1>2. NetInv /\ [Next]_vars => [BridgeIsRecorded /\ ~Forgets => BridgeIsRecorded']_vars
  BY CoreStep
<1> QED  BY <1>1, <1>2, PTL DEF Spec, OnlyForgotten

\* ... so that, as long as no assembly is given up in that state, the next start always
\* knows what to take apart.
THEOREM BridgesRecorded ==
  ASSUME ~Overlap
  PROVE  Spec /\ [][~Forgets]_vars => []BridgeIsRecorded
<1>1. Spec => []NetInv
  BY InitNetInv, NetInvStep, PTL DEF Spec
<1>2. BridgeIsRecorded /\ NetInv /\ [Next]_vars /\ [~Forgets]_vars => BridgeIsRecorded'
  <2>1. BridgeIsRecorded /\ UNCHANGED vars => BridgeIsRecorded'
    BY DEF BridgeIsRecorded, vars
  <2> QED  BY <2>1, CoreStep
<1>3. Init => BridgeIsRecorded
  BY InitNetInv
<1> QED  BY <1>1, <1>2, <1>3, PTL DEF Spec

-----------------------------------------------------------------------------
(* Networks stay apart while no card is lent out of its switch. *)

\* The strengthening of NetworksApart: no switch is built while the adapter of a lend is in
\* the bridge; and while the bridge is recorded as one of its own, there is no switch.
Apart ==
  /\ op # None /\ op.kind = "build" /\ op.pc # "check" => Tap \notin bridge
  /\ Tap \in bridge /\ netLent # None /\ netLent \cap Cards # {} =>
       bridge \subseteq netLent /\ nics = {}

LEMMA SmallerApart ==
  ASSUME Apart, bridge' \subseteq bridge, nics' \subseteq nics, netLent' = netLent \/ netLent' = None,
         op' # None => \/ op' = op
                       \/ op'.kind # "build" \/ op'.pc = "check"
                       \/ Tap \notin bridge'
  PROVE  Apart'
BY DEF Apart

LEMMA RecordApart ==
  ASSUME Typed, Core, Apart, Record
  PROVE  Apart'
<1>1. /\ Running /\ job.pc = "name" /\ Lent = {job.call.card} /\ job.call.card \in Cards
      /\ Assembled(job.call.card)
  BY AssemblyState DEF Record
<1>2. UNCHANGED <<op, bridge, nics>> /\ netLent' = Built
  BY DEF Record
<1>3. Built \cap Cards # {} => bridge = {}
  <2>1. Built \cap Cards # {} => Own(job.call.card)
    BY <1>1, ConstantsOK DEF Built, Own, Core, Agreed, Chosen
  <2> QED  BY <1>1, <2>1 DEF Core, OwnApart, Standing
<1> QED  BY <1>2, <1>3 DEF Apart

\* A lend by a bridge of its own finds it empty, and no switch.
LEMMA OwnBridge ==
  ASSUME Typed, Core, ~Misplaced, Step("bridge")
  PROVE  /\ netLent = Built /\ (op # None => op.kind # "build")
         /\ Built \cap Cards # {} => bridge = {} /\ nics = {}
<1>1. /\ Running /\ job.pc = "bridge" /\ Lent = {job.call.card} /\ job.call.card \in Cards
      /\ Assembled(job.call.card)
  BY AssemblyState
<1>2. Built \cap Cards # {} => Own(job.call.card)
  BY <1>1, ConstantsOK DEF Built, Own, Core, Agreed, Chosen
<1>3. Built \cap Cards # {} => bridge = {} /\ job.call.card \notin nics
  BY <1>1, <1>2 DEF Core, OwnApart, Standing
<1>4. netLent = Built /\ (op # None => op.kind # "build")
  BY <1>1 DEF Core, Recorded, OpInOrder, Running
<1> QED  BY <1>1, <1>3, <1>4 DEF Misplaced

LEMMA BridgeApart ==
  ASSUME Typed, Core, ~Misplaced, Apart, Bridge
  PROVE  Apart'
<1>1. /\ netLent = Built /\ (op # None => op.kind # "build")
      /\ Built \cap Cards # {} => bridge = {} /\ nics = {}
  BY OwnBridge DEF Bridge
<1>2. UNCHANGED <<op, nics>> /\ netLent' = netLent /\ (Works("job") \/ Fails("job"))
  BY <1>1 DEF Bridge
<1>3. bridge' \subseteq bridge \cup Built
  <2>1. ByJob(Head(scripts)) /\ Head(scripts).by = "job"
    BY <1>2, Dequeued
  <2>2. Head(scripts).what = Built
    BY <2>1 DEF ByJob, Bridge, Step
  <2> QED  BY <1>2, <2>2, WorkOrFail
<1> QED  BY <1>1, <1>2, <1>3 DEF Apart

\* While the adapter of a lend is in a bridge of its own, no script adds to it for a switch.
LEMMA OpScriptApart ==
  ASSUME Typed, Core, Apart, OpAt("bridge")
  PROVE  ~(Tap \in bridge /\ netLent # None /\ netLent \cap Cards # {})
<1>1. op.kind \in {"build", "add"} /\ op # None /\ op.pc = "bridge"
  BY OpState
<1> QED  BY <1>1 DEF Apart, Core, OpInOrder

LEMMA SwitchingApart ==
  ASSUME Typed, Core, Apart, Switching
  PROVE  Apart'
<1>1. CASE MembersRead
  <2>1. UNCHANGED <<bridge, netLent, nics>> /\ (op' = None \/ bridge = {})
    BY <1>1 DEF MembersRead, Ends, kept
  <2> QED  BY <2>1, SmallerApart
<1>2. CASE UplinkMade \/ UndoBegins
  <2>1. PICK pc \in {"tap", "undo"} : OpAt(pc)
    BY <1>2 DEF UplinkMade, UndoBegins
  <2>2. UNCHANGED <<bridge, netLent, nics>>
    BY <1>2 DEF UplinkMade, UndoBegins, kept
  <2>3. op # None /\ op.kind = "build" /\ op.pc # "check"
    BY <2>1, OpState
  <2> QED  BY <2>2, <2>3 DEF Apart
<1>3. CASE CardAdded
  <2>1. /\ OpAt("bridge") /\ UNCHANGED netLent /\ op' = None
        /\ Works("op") \/ Fails("op")
    BY <1>3 DEF CardAdded, Ends
  <2> QED  BY <2>1, OpScriptApart, OpScript DEF Apart
<1>4. CASE UplinkFails
  <2>1. /\ OpAt("bridge") /\ op.kind = "build" /\ Fails("op")
    BY <1>4 DEF UplinkFails
  <2>2. Tap \notin bridge
    BY <2>1 DEF Apart, OpAt
  <2> QED  BY <2>1, <2>2, OpScript DEF Apart
<1>5. CASE UplinkUndone
  <2>1. /\ OpAt("undone") /\ op' = None /\ (Works("op") \/ Fails("op"))
    BY <1>5 DEF UplinkUndone, Ends
  <2>2. Tap \notin bridge
    BY <2>1, OpState DEF Apart
  <2> QED  BY <2>1, <2>2, OpScript DEF Apart
<1>6. CASE UplinkUnplugged
  <2>1. UNCHANGED <<bridge, netLent, nics>> /\ OpAt("unplug") /\ op' = [op EXCEPT !.pc = "unbridge"]
    BY <1>6 DEF UplinkUnplugged, kept
  <2>2. op'.kind # "build"
    BY <2>1, OpState DEF Ops
  <2> QED  BY <2>1, <2>2, SmallerApart
<1>7. CASE CardRemoved
  <2>1. /\ OpAt("unbridge") /\ UNCHANGED netLent /\ op' = None /\ nics' \subseteq nics
        /\ Works("op") \/ Fails("op")
    BY <1>7 DEF CardRemoved, Ends
  <2>2. Head(scripts).act = "unbridge"
    BY <2>1, OpScript DEF ByOp, OpAt
  <2> QED  BY <2>1, <2>2, WorkOrFail, SmallerApart
<1> QED  BY <1>1, <1>2, <1>3, <1>4, <1>5, <1>6, <1>7 DEF Switching

LEMMA EndsApart ==
  ASSUME Typed, Core, ~Misplaced, Apart, Crash \/ Exit
  PROVE  Apart'
<1>1. op' = None /\ UNCHANGED <<netLent, nics>>
  BY DEF Crash, Exit, Restarts, kept
<1>2. PICK part \in SUBSET (IF scripts = <<>> THEN {} ELSE Head(scripts).what) :
        bridge' = IF part # {} /\ Head(scripts).act = "bridge" THEN bridge \cup part ELSE bridge \ part
  BY DEF Crash, Exit
<1>3. CASE bridge' \subseteq bridge
  BY <1>1, <1>3, SmallerApart
<1>4. CASE scripts # <<>> /\ Head(scripts).act = "bridge" /\ bridge' \subseteq bridge \cup Head(scripts).what
  <2> DEFINE s == Head(scripts)
  <2>1. s \in Scripts /\ ByJob(s) /\ ByOp(s) /\ ByTeardown(s)
    BY <1>4, QueueTail DEF Typed, Core, InOrder
  <2>2. CASE s.by = "job"
    <3>1. Step("bridge") /\ s.what = Built
      BY <1>4, <2>1, <2>2 DEF ByJob, Running, Step
    <3> QED  BY <1>1, <1>4, <3>1, OwnBridge DEF Apart
  <2>3. CASE s.by = "op"
    <3>1. OpAt("bridge") /\ Tap \notin s.what
      BY <1>4, <2>1, <2>3 DEF ByOp, OpAt
    <3> QED  BY <1>1, <1>4, <3>1, OpScriptApart DEF Apart
  <2>4. s.by # "teardown"
    BY <1>4, <2>1 DEF ByTeardown
  <2> QED  BY <2>1, <2>2, <2>3, <2>4 DEF Scripts
<1> QED  BY <1>2, <1>3, <1>4

LEMMA ApartStep ==
  ASSUME ~Overlap, NetInv, ~Misplaced, Apart, [Next]_vars
  PROVE  Apart'
<1>0. Typed /\ Core
  BY DEF NetInv, Core
<1>1. CASE UNCHANGED vars
  BY <1>1, SmallerApart DEF vars
<1>2. ASSUME NEW c \in Cards, NEW h \in Holders,
             \/ Claim(c, h) \/ Join(c, h) \/ Leave(c, h)
             \/ Release(c) \/ Connect(c) \/ Disconnect(c) \/ TimerFires(c) \/ Stop
      PROVE  Apart'
  <2>1. UNCHANGED <<op, nics>>
    BY <1>2 DEF Claim, Join, Calling, Leave, Release, Connect, Disconnect, TimerFires, Stop, kept
  <2>2. UNCHANGED <<bridge, netLent>>
    BY <1>0, <1>2, ClaimKeeps, TableKeeps, LeaveKeeps, ConnectKeeps
  <2> QED  BY <2>1, <2>2, SmallerApart
<1>3. ASSUME NEW c \in Cards, BuildBegins(c) \/ AddBegins(c) \/ RemoveBegins(c) \/ DropBegins(c)
      PROVE  Apart'
  <2>1. UNCHANGED <<bridge, netLent, nics>> /\ (op'.kind # "build" \/ op'.pc = "check")
    BY <1>3 DEF BuildBegins, AddBegins, RemoveBegins, DropBegins, Begins, kept
  <2> QED  BY <2>1, SmallerApart
<1>4. CASE Calls_
  BY <1>4, SmallerApart DEF Calls_, Refused, Again, Start, kept
<1>5. CASE Assembly
  <2>1. CASE Record \/ Bridge
    BY <1>0, <2>1, RecordApart, BridgeApart
  <2>2. CASE Wait \/ Check \/ PickTap \/ Relay \/ Advice \/ StopRelay
    <3>1. UNCHANGED <<op, bridge, nics>> /\ (netLent' = netLent \/ netLent' = None)
      BY <2>2 DEF Wait, Check, PickTap, Relay, Advice, StopRelay, Abandons, kept
    <3> QED  BY <3>1, SmallerApart
  <2>3. CASE Clean \/ Undo
    <3>1. UNCHANGED <<op, nics>> /\ (netLent' = netLent \/ netLent' = None) /\ (Works("job") \/ Fails("job"))
      BY <2>3 DEF Clean, Undo, Abandons
    <3>2. Head(scripts).by = "job" /\ ByJob(Head(scripts))
      BY <1>0, <3>1, Dequeued
    <3>3. Head(scripts).act = "unbridge"
      BY <2>3, <3>2 DEF ByJob, Clean, Undo, Step
    <3> QED  BY <1>0, <3>1, <3>3, WorkOrFail, SmallerApart
  <2> QED  BY <1>5, <2>1, <2>2, <2>3 DEF Assembly
<1>6. ASSUME NEW t \in teardowns, RelayStops(t) \/ Returned(t)
      PROVE  Apart'
  <2>1. CASE RelayStops(t)
    BY <2>1, SmallerApart DEF RelayStops, kept
  <2>2. CASE Returned(t)
    <3>1. UNCHANGED <<op, nics>> /\ (netLent' = netLent \/ netLent' = None)
          /\ (Works("teardown") \/ Fails("teardown"))
      BY <2>2 DEF Returned
    <3>2. Head(scripts).by = "teardown" /\ ByTeardown(Head(scripts))
      BY <1>0, <3>1, Dequeued
    <3> QED  BY <1>0, <3>1, <3>2, WorkOrFail, SmallerApart DEF ByTeardown
  <2> QED  BY <1>6, <2>1, <2>2
<1>7. CASE Switching
  BY <1>0, <1>7, SwitchingApart
<1>8. CASE Crash \/ Exit
  BY <1>0, <1>8, EndsApart
<1>9. CASE Stop
  <2>1. CASE Lent = {}
    BY <1>9, <2>1, SmallerApart DEF Stop
  <2>2. CASE Lent # {}
    <3>1. PICK c \in Cards : TRUE
      BY <2>2 DEF Lent
    <3> QED  BY <1>2, <1>9, <3>1, ConstantsOK
  <2> QED  BY <2>1, <2>2
<1> QED  BY <1>1, <1>2, <1>3, <1>4, <1>5, <1>6, <1>7, <1>8, <1>9, ConstantsOK DEF Next, Taking

\* As long as no card is let out of its switch while a lend of it has begun, a bridge that
\* is recorded as one of its own never has another member: no two networks are made one,
\* whatever fails and whenever the program stops.
THEOREM NetworksAreApart ==
  ASSUME ~Overlap
  PROVE  Spec /\ []~Misplaced => []NetworksApart
<1>1. Spec => []NetInv
  BY InitNetInv, NetInvStep, PTL DEF Spec
<1>2. Init => Apart
  BY ConstantsOK DEF Init, Apart
<1>3. NetInv /\ ~Misplaced /\ Apart /\ [Next]_vars => Apart'
  BY ApartStep
<1>4. Apart => NetworksApart
  BY DEF Apart, NetworksApart
<1> QED  BY <1>1, <1>2, <1>3, <1>4, PTL DEF Spec
=============================================================================
