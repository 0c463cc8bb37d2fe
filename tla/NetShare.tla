------------------------------ MODULE NetShare ------------------------------
(***************************************************************************)
(* The owner's network cards: how a card is lent through the one bridge a  *)
(* Windows computer has (src/src/core/netShare.js, net/bridge.js), beside  *)
(* the software switches that use the same bridge (core/netManager.js).    *)
(*                                                                         *)
(* The table of the share manager claims a card whole for one node or      *)
(* joins several nodes to it, and calls lend and unlend.  lend and the     *)
(* first card of a switch are assembled one at a time (withBridgeLock);    *)
(* taking apart and the other operations of switches are not.  Every       *)
(* change of the bridge is a script, and scripts run in a queue.  What is  *)
(* lent is written to config.json (netLent) before its bridge is built,    *)
(* and taken apart by that record when the program starts again.           *)
(***************************************************************************)
EXTENDS Naturals, Sequences, FiniteSets

CONSTANTS
  Cards, Holders,
  Owner,        \* the owner's own node, which may take a card from its holder
  Tap, Uplink,  \* the adapter of a lent card and the one of a switch
  Overlap,      \* whether a card is released, or the program stopped, while it is assembled
  MaxCalls,     \* (bound) claims and joins
  MaxOps,       \* (bound) operations on switches
  MaxFailures,  \* (bound) scripts, adapters and relays that fail
  MaxStops,     \* (bound) crashes and orderly stops
  SwitchOp,     \* who holds the lock when it is the switch
  None

Members == Cards \cup {Tap, Uplink}
Calls == [card : Cards, holder : Holders, mode : {"whole", "bridge"}]

\* shared: through a switch; conn: the holder is connected; timer: the minute of grace.
Lends == [mode : {"whole", "bridge"}, holders : SUBSET Holders, shared : BOOLEAN, tap : BOOLEAN,
          conn : BOOLEAN, timer : BOOLEAN]

Jobs == [call : Calls, shared : BOOLEAN,
         pc : {"wait", "check", "clean", "tap", "name", "bridge", "relay", "advice", "undo", "unbridge"}]
Ops == [kind : {"build", "add", "remove", "drop"}, card : Cards,
        pc : {"check", "tap", "bridge", "undo", "undone", "unplug", "unbridge"}]
Scripts == [by : {"job", "op", "teardown"}, act : {"bridge", "unbridge"}, what : SUBSET Members]

ASSUME ConstantsOK ==
  /\ Owner \in Holders /\ Overlap \in BOOLEAN
  /\ Tap # Uplink /\ {Tap, Uplink} \cap Cards = {} /\ None \notin Cards \cup Holders
  /\ MaxCalls \in Nat /\ MaxOps \in Nat /\ MaxFailures \in Nat /\ MaxStops \in Nat
  \* what stands for nothing, and for the switch, is no record and no set
  /\ SwitchOp # None /\ {SwitchOp, None} \cap Jobs = {}
  /\ None \notin Lends /\ None \notin Ops /\ \A what \in SUBSET Members : what # None

VARIABLES
  claim,     \* the table: who has the card whole
  joins,     \* ... and who is joined to it
  calls,     \* calls of lend that wait for the lock
  lends,     \* lends[c]: the lend of a card, or None
  job,       \* who holds the lock: the assembly of a lend, SwitchOp, or None
  teardowns, \* what is being taken apart: sets of members of the bridge
  op,        \* the operation on a switch that is under way, or None
  scripts,   \* the queue of scripts that change the bridge
  stopping,
  bridge,    \* (Windows) the members of the bridge
  netLent,   \* (config.json) what is lent: the members to take out, or None
  nics,      \* (config.json) the cards of the switch that has the bridge
  count      \* of calls, ops, failures and stops

table == <<claim, joins>>
kept == <<netLent, nics>>
vars == <<claim, joins, calls, lends, job, teardowns, op, scripts, stopping, bridge, netLent, nics, count>>

TypeOK ==
  /\ claim \in [Cards -> Holders \cup {None}]
  /\ joins \in [Cards -> SUBSET Holders]
  /\ calls \subseteq Calls
  /\ lends \in [Cards -> Lends \cup {None}]
  /\ job \in Jobs \cup {SwitchOp, None}
  /\ teardowns \subseteq [what : SUBSET Members, pc : {"relay", "script"}]
  /\ op \in Ops \cup {None}
  /\ scripts \in Seq(Scripts) /\ Len(scripts) <= 3
  /\ stopping \in BOOLEAN
  /\ bridge \subseteq Members
  /\ netLent \in (SUBSET Members) \cup {None}
  /\ nics \subseteq Cards
  /\ count \in [calls : 0..MaxCalls, ops : 0..MaxOps, failures : 0..MaxFailures, stops : 0..MaxStops]

\* There may be a switch from before.
Init ==
  /\ claim = [c \in Cards |-> None] /\ joins = [c \in Cards |-> {}]
  /\ calls = {} /\ lends = [c \in Cards |-> None]
  /\ job = None /\ teardowns = {} /\ op = None /\ scripts = <<>> /\ stopping = FALSE
  /\ netLent = None
  /\ nics \in SUBSET Cards /\ bridge = IF nics = {} THEN {} ELSE nics \cup {Uplink}
  /\ count = [calls |-> 0, ops |-> 0, failures |-> 0, stops |-> 0]

Counts(what, limit) == count[what] < limit /\ count' = [count EXCEPT ![what] = @ + 1]

Lent == {c \in Cards : lends[c] # None}
Assembled(c) == job \notin {None, SwitchOp} /\ job.call.card = c
Parts(c) == IF lends[c].shared THEN {Tap} ELSE {Tap, c}
Preparing(c) == \/ \E k \in calls : k.card = c /\ k.mode = "whole"
                \/ Assembled(c) /\ job.call.mode = "whole"

-----------------------------------------------------------------------------
(* Scripts *)

Enqueue(by, act, what) == scripts' = Append(scripts, [by |-> by, act |-> act, what |-> what])

\* The script at the head of the queue is by this process; it does all of its work, or
\* it fails and may have done any part of it.
Works(by) ==
  /\ scripts # <<>> /\ Head(scripts).by = by
  /\ scripts' = Tail(scripts)
  /\ bridge' = IF Head(scripts).act = "bridge" THEN bridge \cup Head(scripts).what
                                               ELSE bridge \ Head(scripts).what
  /\ UNCHANGED count

Fails(by) ==
  /\ scripts # <<>> /\ Head(scripts).by = by
  /\ scripts' = Tail(scripts)
  /\ \E part \in SUBSET Head(scripts).what :
       bridge' = IF Head(scripts).act = "bridge" THEN bridge \cup part ELSE bridge \ part
  /\ Counts("failures", MaxFailures)

-----------------------------------------------------------------------------
(* What the table of the share manager calls. *)

\* (the end of unlend) sets the taking apart of a lend under way.
TakesApart(c) ==
  /\ lends' = [lends EXCEPT ![c] = None]
  /\ IF lends[c].tap
       THEN teardowns' = teardowns \cup {[what |-> Parts(c), pc |-> "relay"]} /\ UNCHANGED netLent
       ELSE netLent' = None /\ UNCHANGED teardowns

Unlend(c) ==
  IF lends[c] # None THEN TakesApart(c) ELSE UNCHANGED <<lends, teardowns, netLent>>

Calling(c, h, mode) ==
  /\ ~stopping
  /\ calls' = calls \cup {[card |-> c, holder |-> h, mode |-> mode]}
  /\ Counts("calls", MaxCalls)
  /\ UNCHANGED <<job, op, scripts, stopping, bridge, nics>>

\* A card is claimed whole; the owner takes it from its holder, or from those joined to it.
Claim(c, h) ==
  /\ \/ claim[c] \in {None, h} /\ joins[c] = {}
     \/ h = Owner /\ (Overlap \/ ~Assembled(c))
  /\ ~Preparing(c)
  /\ claim' = [claim EXCEPT ![c] = IF @ = h THEN @ ELSE None]
  /\ joins' = [joins EXCEPT ![c] = {}]
  /\ IF joins[c] # {} THEN Unlend(c) ELSE UNCHANGED <<lends, teardowns, netLent>>
  /\ Calling(c, h, "whole")

\* Joins to one card are carried out one after another.
Join(c, h) ==
  /\ h # Owner /\ claim[c] = None /\ ~Preparing(c)
  /\ ~Assembled(c) /\ ~\E k \in calls : k.card = c
  /\ Calling(c, h, "bridge")
  /\ UNCHANGED <<table, lends, teardowns, netLent>>

Release(c) ==
  /\ claim[c] # None /\ (Overlap \/ ~Assembled(c))
  /\ claim' = [claim EXCEPT ![c] = None]
  /\ Unlend(c)
  /\ UNCHANGED <<joins, calls, job, op, scripts, stopping, bridge, nics, count>>

\* (faulty variant: counted before the node has left)
LeaveCountedEarly(c, h) ==
  /\ h \in joins[c] /\ (Overlap \/ ~Assembled(c))
  /\ joins' = [joins EXCEPT ![c] = @ \ {h}]
  /\ IF lends[c] # None /\ lends[c].mode = "bridge" /\ lends[c].holders # {}
       THEN lends' = [lends EXCEPT ![c].holders = @ \ {h}] /\ UNCHANGED <<teardowns, netLent>>
       ELSE Unlend(c)
  /\ UNCHANGED <<claim, calls, job, op, scripts, stopping, bridge, nics, count>>

\* A node leaves the bridge of a card; the last one takes it apart.
Leave(c, h) ==
  /\ h \in joins[c] /\ (Overlap \/ ~Assembled(c))
  /\ joins' = [joins EXCEPT ![c] = @ \ {h}]
  /\ IF lends[c] # None /\ lends[c].mode = "bridge" /\ lends[c].holders \ {h} # {}
       THEN lends' = [lends EXCEPT ![c].holders = @ \ {h}] /\ UNCHANGED <<teardowns, netLent>>
       ELSE Unlend(c)
  /\ UNCHANGED <<claim, calls, job, op, scripts, stopping, bridge, nics, count>>

-----------------------------------------------------------------------------
(* The assembly of a lend, under the lock. *)

\* (faulty variant: another card that is lent is no obstacle)
BlockedByMode(k) ==
  \/ nics # {} /\ k.card \notin nics
  \/ lends[k.card] # None /\ lends[k.card].mode # k.mode

\* lendBlocker and the refusals at the head of _lend and _lendBridge.
Blocked(k) ==
  \/ nics # {} /\ k.card \notin nics
  \/ lends[k.card] # None /\ lends[k.card].mode # k.mode
  \/ lends[k.card] = None /\ Lent # {}

\* The call is over; a card that was lent is entered into the table.
Granted(k) ==
  IF k.mode = "whole"
    THEN claim' = [claim EXCEPT ![k.card] = k.holder] /\ UNCHANGED joins
    ELSE joins' = [joins EXCEPT ![k.card] = @ \cup {k.holder}] /\ UNCHANGED claim

Step(pc) == job \notin {None, SwitchOp} /\ job.pc = pc
GoOn(pc) == job' = [job EXCEPT !.pc = pc]

Refused(k) ==
  /\ job = None /\ k \in calls /\ Blocked(k)
  /\ calls' = calls \ {k}
  /\ UNCHANGED <<table, lends, job, teardowns, op, scripts, stopping, bridge, kept, count>>

\* The card is lent already: to the same holder, or handed over to another.
Again(k) ==
  /\ job = None /\ k \in calls /\ ~Blocked(k) /\ k.mode = "whole" /\ lends[k.card] # None
  /\ calls' = calls \ {k}
  /\ Granted(k)
  /\ lends' = IF lends[k.card].holders = {k.holder} THEN lends
              ELSE [lends EXCEPT ![k.card].holders = {k.holder}, ![k.card].conn = FALSE]
  /\ UNCHANGED <<job, teardowns, op, scripts, stopping, bridge, kept, count>>

Start(k) ==
  /\ job = None /\ k \in calls /\ ~Blocked(k)
  /\ k.mode = "bridge" \/ lends[k.card] = None
  /\ calls' = calls \ {k}
  /\ IF lends[k.card] = None
       THEN /\ lends' = [lends EXCEPT ![k.card] =
                  [mode |-> k.mode, holders |-> {}, shared |-> FALSE, tap |-> FALSE,
                   conn |-> FALSE, timer |-> FALSE]]
            /\ job' = [call |-> k, shared |-> FALSE, pc |-> "wait"]
       ELSE /\ lends' = [lends EXCEPT ![k.card].holders = @ \cup {k.holder}]
            /\ job' = [call |-> k, shared |-> lends[k.card].shared, pc |-> "advice"]
  /\ UNCHANGED <<table, teardowns, op, scripts, stopping, bridge, kept, count>>

\* The previous card may be on its way back.
Wait ==
  /\ Step("wait") /\ teardowns = {}
  /\ GoOn("check")
  /\ UNCHANGED <<table, calls, lends, teardowns, op, scripts, stopping, bridge, kept, count>>

\* Overlap: the lend may have been taken out of the table; its assembly goes on all the same.
Notes(what, value) ==
  LET c == job.call.card IN
    lends' = IF lends[c] = None THEN lends ELSE [lends EXCEPT ![c][what] = value]

Built == IF job.shared THEN {Tap} ELSE {Tap, job.call.card}

\* _teardownLend in the catch branch of _lend and _lendBridge, before an adapter is picked.
Abandons ==
  /\ lends' = [lends EXCEPT ![job.call.card] = None]
  /\ netLent' = None
  /\ job' = None

\* ... and after that.
Undoes ==
  /\ lends' = [lends EXCEPT ![job.call.card] = None]
  /\ job' = [job EXCEPT !.pc = "undo"]

Foreign(c) == bridge # {} /\ ~(c \in nics /\ c \in bridge)

\* _ensureBridgeFree: what the last lend has left behind is taken apart by its record.
Check ==
  /\ Step("check")
  /\ LET c == job.call.card IN
       \/ /\ ~Foreign(c)
          /\ Notes("shared", c \in nics) /\ job' = [job EXCEPT !.pc = "tap", !.shared = c \in nics]
          /\ UNCHANGED <<scripts, netLent>>
       \/ /\ Foreign(c) /\ netLent # None
          /\ GoOn("clean") /\ Enqueue("job", "unbridge", netLent) /\ UNCHANGED <<lends, netLent>>
       \/ Foreign(c) /\ netLent = None /\ Abandons /\ UNCHANGED scripts
  /\ UNCHANGED <<table, calls, teardowns, op, stopping, bridge, nics, count>>

Clean ==
  /\ Step("clean")
  /\ \/ Works("job") /\ netLent' = None /\ GoOn("check") /\ UNCHANGED lends
     \/ Fails("job") /\ Abandons
  /\ UNCHANGED <<table, calls, teardowns, op, stopping, nics>>

PickTap ==
  /\ Step("tap")
  /\ \/ Notes("tap", TRUE) /\ GoOn("name") /\ UNCHANGED <<netLent, count>>
     \/ Abandons /\ Counts("failures", MaxFailures)
  /\ UNCHANGED <<table, calls, teardowns, op, scripts, stopping, bridge, nics>>

\* (faulty variant: recorded when the bridge is built)
RecordLater ==
  /\ Step("name")
  /\ GoOn("bridge") /\ Enqueue("job", "bridge", Built)
  /\ UNCHANGED <<table, calls, lends, teardowns, op, stopping, bridge, netLent, nics, count>>

\* The adapter has its name; the record goes before the bridge.
Record ==
  /\ Step("name")
  /\ netLent' = Built
  /\ GoOn("bridge") /\ Enqueue("job", "bridge", Built)
  /\ UNCHANGED <<table, calls, lends, teardowns, op, stopping, bridge, nics, count>>

\* A bridge of its own: what its adapter had before is recorded too.
Bridge ==
  /\ Step("bridge")
  /\ \/ /\ Works("job") /\ GoOn("relay") /\ UNCHANGED lends
        /\ netLent' = IF job.shared THEN netLent ELSE Built
     \/ Fails("job") /\ Undoes /\ UNCHANGED netLent
  /\ UNCHANGED <<table, calls, teardowns, op, stopping, nics>>

\* keepRelay, then _openSession or _addHolder.
Relay ==
  /\ Step("relay")
  /\ \/ /\ Notes("holders", {job.call.holder}) /\ UNCHANGED <<count, scripts>>
        /\ IF job.call.mode = "whole" THEN job' = None /\ Granted(job.call)
                                     ELSE GoOn("advice") /\ UNCHANGED table
     \/ Undoes /\ Counts("failures", MaxFailures) /\ UNCHANGED <<table, scripts>>
  /\ UNCHANGED <<calls, teardowns, op, stopping, bridge, kept>>

\* _joinAdvice looks for a free address.
Advice ==
  /\ Step("advice")
  /\ Granted(job.call) /\ job' = None
  /\ UNCHANGED <<calls, lends, teardowns, op, scripts, stopping, bridge, kept, count>>

StopRelay ==
  /\ Step("undo")
  /\ GoOn("unbridge") /\ Enqueue("job", "unbridge", Built)
  /\ UNCHANGED <<table, calls, lends, teardowns, op, stopping, bridge, kept, count>>

Undo ==
  /\ Step("unbridge")
  /\ \/ Works("job") /\ netLent' = None
     \/ Fails("job") /\ UNCHANGED netLent
  /\ job' = None
  /\ UNCHANGED <<table, calls, lends, teardowns, op, stopping, nics>>

Assembly == Wait \/ Check \/ Clean \/ PickTap \/ Record \/ Bridge \/ Relay \/ Advice \/ StopRelay \/ Undo

-----------------------------------------------------------------------------
(* The holder's connection, and the taking apart of a lend. *)

Whole(c) == lends[c] # None /\ lends[c].mode = "whole" /\ ~Assembled(c)

Connect(c) ==
  /\ Whole(c) /\ ~lends[c].conn
  /\ lends' = [lends EXCEPT ![c].conn = TRUE, ![c].timer = FALSE]
  /\ UNCHANGED <<table, calls, job, teardowns, op, scripts, stopping, bridge, kept, count>>

Disconnect(c) ==
  /\ Whole(c) /\ lends[c].conn
  /\ lends' = [lends EXCEPT ![c].conn = FALSE, ![c].timer = TRUE]
  /\ UNCHANGED <<table, calls, job, teardowns, op, scripts, stopping, bridge, kept, count>>

\* _scheduleTeardownOnDisconnect, a minute later; the table is not told.
TimerFires(c) ==
  /\ Whole(c) /\ lends[c].timer /\ ~lends[c].conn
  /\ TakesApart(c)
  /\ UNCHANGED <<table, calls, job, op, scripts, stopping, bridge, nics, count>>

\* _teardownLend: the relay is stopped, then the bridge is taken apart.
RelayStops(t) ==
  /\ t.pc = "relay"
  /\ teardowns' = (teardowns \ {t}) \cup {[t EXCEPT !.pc = "script"]}
  /\ Enqueue("teardown", "unbridge", t.what)
  /\ UNCHANGED <<table, calls, lends, job, op, stopping, bridge, kept, count>>

Returned(t) ==
  /\ t.pc = "script"
  /\ \/ Works("teardown") /\ netLent' = None
     \/ Fails("teardown") /\ UNCHANGED netLent
  /\ Head(scripts).what = t.what
  /\ teardowns' = teardowns \ {t}
  /\ UNCHANGED <<table, calls, lends, job, op, stopping, nics>>

-----------------------------------------------------------------------------
(* The switch that has the bridge (netManager.js): one operation at a time. *)

\* _nicProblem: what keeps a card out of a switch.
NicProblem(c) == claim[c] # None \/ Preparing(c) \/ Lent # {}

Begins(kind, c, pc) ==
  /\ op = None /\ ~stopping /\ Counts("ops", MaxOps)
  /\ op' = [kind |-> kind, card |-> c, pc |-> pc]
  /\ UNCHANGED <<table, calls, lends, teardowns, stopping, bridge, kept>>

\* (faulty variant: without the lock)
BuildUnlocked(c) ==
  /\ nics = {} /\ ~NicProblem(c)
  /\ Begins("build", c, "check") /\ UNCHANGED <<scripts, job>>

\* _buildUplink, under the lock.
BuildBegins(c) ==
  /\ nics = {} /\ ~NicProblem(c)
  /\ job = None /\ job' = SwitchOp
  /\ Begins("build", c, "check") /\ UNCHANGED scripts

AddBegins(c) ==
  /\ nics # {} /\ c \notin nics /\ ~NicProblem(c)
  /\ Begins("add", c, "bridge") /\ Enqueue("op", "bridge", {c}) /\ UNCHANGED job

RemoveBegins(c) ==
  /\ c \in nics /\ nics # {c}
  /\ \A l \in Lent : l # c /\ ~lends[l].shared
  /\ Begins("remove", c, "unbridge") /\ Enqueue("op", "unbridge", {c}) /\ UNCHANGED job

\* deleteSwitch, and the removal of the only card.
DropBegins(c) ==
  /\ c \in nics /\ \A l \in Lent : ~lends[l].shared
  /\ Begins("drop", c, "unplug") /\ UNCHANGED <<scripts, job>>

OpAt(pc) == op # None /\ op.pc = pc
Ends == op' = None /\ job' = IF op.kind = "build" THEN None ELSE job

MembersRead ==
  /\ OpAt("check")
  /\ IF bridge = {} THEN op' = [op EXCEPT !.pc = "tap"] /\ UNCHANGED job ELSE Ends
  /\ UNCHANGED <<table, calls, lends, teardowns, scripts, stopping, bridge, kept, count>>

UplinkMade ==
  /\ OpAt("tap")
  /\ op' = [op EXCEPT !.pc = "bridge"] /\ Enqueue("op", "bridge", {op.card, Uplink})
  /\ UNCHANGED <<table, calls, lends, job, teardowns, stopping, bridge, kept, count>>

CardAdded ==
  /\ OpAt("bridge")
  /\ \/ Works("op") /\ nics' = nics \cup {op.card} /\ Ends
     \/ op.kind = "add" /\ Fails("op") /\ Ends /\ UNCHANGED nics
  /\ UNCHANGED <<table, calls, lends, teardowns, stopping, netLent>>

UplinkFails ==
  /\ OpAt("bridge") /\ op.kind = "build"
  /\ Fails("op") /\ op' = [op EXCEPT !.pc = "undo"]
  /\ UNCHANGED <<table, calls, lends, job, teardowns, stopping, kept>>

UndoBegins ==
  /\ OpAt("undo")
  /\ op' = [op EXCEPT !.pc = "undone"] /\ Enqueue("op", "unbridge", {op.card, Uplink})
  /\ UNCHANGED <<table, calls, lends, job, teardowns, stopping, bridge, kept, count>>

\* Whether it could be undone is not looked at.
UplinkUndone ==
  /\ OpAt("undone")
  /\ Works("op") \/ Fails("op")
  /\ Ends
  /\ UNCHANGED <<table, calls, lends, teardowns, stopping, kept>>

UplinkUnplugged ==
  /\ OpAt("unplug")
  /\ op' = [op EXCEPT !.pc = "unbridge"] /\ Enqueue("op", "unbridge", nics \cup {Uplink})
  /\ UNCHANGED <<table, calls, lends, job, teardowns, stopping, bridge, kept, count>>

CardRemoved ==
  /\ OpAt("unbridge")
  /\ \/ Works("op") /\ nics' = IF op.kind = "drop" THEN {} ELSE nics \ {op.card}
     \/ Fails("op") /\ UNCHANGED nics
  /\ Ends
  /\ UNCHANGED <<table, calls, lends, teardowns, stopping, netLent>>

Switching == MembersRead \/ UplinkMade \/ CardAdded \/ UplinkFails \/ UndoBegins \/ UplinkUndone
             \/ UplinkUnplugged \/ CardRemoved

-----------------------------------------------------------------------------
(* The program ends, and starts again. *)

\* _recover: what was lent is taken apart by its record.
Restarts ==
  /\ claim' = [c \in Cards |-> None] /\ joins' = [c \in Cards |-> {}]
  /\ calls' = {} /\ lends' = [c \in Cards |-> None] /\ job' = None /\ op' = None
  /\ stopping' = FALSE
  /\ teardowns' = IF netLent = None THEN {} ELSE {[what |-> netLent, pc |-> "script"]}
  /\ scripts' = IF netLent = None THEN <<>>
                 ELSE <<[by |-> "teardown", act |-> "unbridge", what |-> netLent]>>
  /\ UNCHANGED kept

\* A script that runs is a process of its own, and is done or not, or in part.
Crash ==
  /\ Counts("stops", MaxStops)
  /\ \E part \in SUBSET (IF scripts = <<>> THEN {} ELSE Head(scripts).what) :
       bridge' = IF part # {} /\ Head(scripts).act = "bridge" THEN bridge \cup part ELSE bridge \ part
  /\ Restarts

\* stop: the lend is taken apart, and waited for.
Stop ==
  /\ ~stopping /\ Counts("stops", MaxStops)
  /\ Overlap \/ (job = None /\ calls = {})
  /\ stopping' = TRUE
  /\ IF Lent = {} THEN UNCHANGED <<lends, teardowns, netLent>> ELSE \E c \in Lent : TakesApart(c)
  /\ UNCHANGED <<table, calls, job, op, scripts, bridge, nics>>

Exit ==
  /\ stopping /\ teardowns = {}
  /\ \E part \in SUBSET (IF scripts = <<>> THEN {} ELSE Head(scripts).what) :
       bridge' = IF part # {} /\ Head(scripts).act = "bridge" THEN bridge \cup part ELSE bridge \ part
  /\ Restarts /\ UNCHANGED count

Calls_ == \E k \in calls : Refused(k) \/ Again(k) \/ Start(k)
Taking == \E t \in teardowns : RelayStops(t) \/ Returned(t)

Next ==
  \/ \E c \in Cards, h \in Holders : Claim(c, h) \/ Join(c, h) \/ Leave(c, h)
  \/ \E c \in Cards : Release(c) \/ Connect(c) \/ Disconnect(c) \/ TimerFires(c)
  \/ \E c \in Cards : BuildBegins(c) \/ AddBegins(c) \/ RemoveBegins(c) \/ DropBegins(c)
  \/ Calls_ \/ Assembly \/ Taking \/ Switching
  \/ Crash \/ Stop \/ Exit

Spec == Init /\ [][Next]_vars

\* Promises are settled, scripts end (they are killed after two minutes), a stop goes on.
FairSpec == Spec /\ WF_vars(Calls_) /\ WF_vars(Assembly) /\ WF_vars(Taking) /\ WF_vars(Switching)
                 /\ WF_vars(Exit)

-----------------------------------------------------------------------------
(* Properties *)

\* Whenever the adapter of a lend is in the bridge, config.json says what to take apart,
\* so that a crash at any moment leaves a bridge the next start knows of (_lend, _recover).
\* It takes two failures to break: an assembly that is given up before its adapter is picked
\* erases the record an earlier lend has left behind (Abandons).
BridgeIsRecorded == Tap \in bridge => netLent # None

\* A card that is lent by a bridge of its own is not in one bridge with any other card,
\* nor with the adapter of a switch: two networks are never made one.  With a third card this
\* needs that no card is Misplaced (see CardsComeBack): a switch it has left can still grow.
NetworksApart ==
  Tap \in bridge /\ netLent # None /\ netLent \cap Cards # {} => bridge \subseteq netLent

\* A card that is lent by a bridge of its own is in it, with the adapter of the lend and
\* nothing else, until it is given back: no late taking apart of another lend and no
\* operation on a switch reaches it.
LentCardIsBridged ==
  \A c \in Lent : ~Assembled(c) /\ ~lends[c].shared => bridge = {Tap, c}

\* When nobody has a card any more, the computer gets its cards back, also after a crash
\* in the middle of an assembly (unlend, _recover).  This does not hold of a card that is
\* taken out of its switch while a lend of it has just begun (_switchNic looks at
\* lend.shared, which is set later): the owner's claim of it is refused, and the lend stays.
Misplaced == nics # {} /\ \E c \in Lent : c \notin nics
CardsComeBack ==
  [](count.failures = 0 /\ ~Misplaced)
  /\ <>[](calls = {} /\ \A c \in Cards : claim[c] = None /\ joins[c] = {})
  => <>[](Tap \notin bridge)
=============================================================================
