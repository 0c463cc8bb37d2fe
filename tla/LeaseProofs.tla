----------------------------- MODULE LeaseProofs -----------------------------
(***************************************************************************)
(* The owner's table implements the promise of module Lease: for every set *)
(* of nodes, devices, groups and handlers that wait for the driver, a card *)
(* is never claimed and joined at the same time, and every step of the     *)
(* table is, for each device, a grant, an end, a join, a leave, or nothing *)
(* to be seen.                                                             *)
(*                                                                         *)
(* Nothing in the table keeps a claim and a join of one card apart: both   *)
(* check it before they wait for the driver, and neither looks again.      *)
(* What keeps them apart is the card's own bridge, which is lent whole or  *)
(* joined, and the order in which calls get its lock.                      *)
(***************************************************************************)
EXTENDS ShareManagerProofs

\* The devices a handler has from the driver and still marks: bound already, or to be
\* rolled back.
Ready(k) == IF k.op = "bind" THEN k.held \ k.todo ELSE IF k.op = "rollback" THEN k.todo ELSE {}

JoinedIsBridged == \A d \in Devices : joins[d] # {} => d \in NetDevs /\ driver[d] = "bridge"
JoiningIsFree == \A t \in Tasks : tasks[t].op = "join" => ~Claimed(tasks[t].cur)
ReadyIsFree == \A t \in Tasks : \A d \in Ready(tasks[t]) : joins[d] = {} /\ ItsTurn(d)

BridgeInv == WholeOrBridge /\ JoinedIsBridged /\ JoiningIsFree /\ ReadyIsFree

-----------------------------------------------------------------------------
(* All actions but three are calm: they end claims and joins, leave the    *)
(* bridges that are still joined alone, start no join and bind nothing.    *)

JoinsOnlyEnd == \A d \in Devices : joins'[d] \subseteq joins[d]
BridgesStand == \A d \in NetDevs : joins'[d] # {} => driver'[d] = driver[d]
HandlersCalm ==
  \A t \in Tasks : /\ tasks'[t].op = "join" => tasks[t].op = "join" /\ tasks'[t].cur = tasks[t].cur
                   /\ Ready(tasks'[t]) \subseteq Ready(tasks[t])
Calm == ClaimsOnlyEnd /\ JoinsOnlyEnd /\ BridgesStand /\ HandlersCalm

LEMMA ReadyIsMarked ==
  ASSUME TypeOK, TaskInv, NEW t \in Tasks
  PROVE  Ready(tasks[t]) \subseteq tasks[t].held /\ Ready(tasks[t]) \subseteq Devices
<1>1. /\ tasks[t].op \in {"bind", "rollback"} => tasks[t].todo \subseteq tasks[t].held
      /\ tasks[t].held \subseteq Devices
  BY FormedTask DEF Formed
<1> QED BY <1>1 DEF Ready

LEMMA CalmKeeps ==
  ASSUME TypeOK, TaskInv, BridgeInv, Calm
  PROVE  BridgeInv'
<1>1. \A d \in Devices : Claimed(d)' => Claimed(d)
  BY DEF Calm, ClaimsOnlyEnd, Claimed
<1>2. WholeOrBridge'
  BY <1>1 DEF BridgeInv, WholeOrBridge, Calm, JoinsOnlyEnd
<1>3. JoinedIsBridged'
  BY DEF BridgeInv, JoinedIsBridged, Calm, JoinsOnlyEnd, BridgesStand
<1>4. JoiningIsFree'
  <2> SUFFICES ASSUME NEW t \in Tasks, tasks'[t].op = "join"
               PROVE  ~Claimed(tasks[t].cur)'
    BY DEF JoiningIsFree
  <2>1. tasks[t].op = "join" /\ tasks'[t].cur = tasks[t].cur
    BY DEF Calm, HandlersCalm
  <2>2. ~Claimed(tasks[t].cur) /\ tasks[t].cur \in Devices
    BY <2>1, FormedTask, ConstantsOK DEF BridgeInv, JoiningIsFree, Formed
  <2> QED BY <1>1, <2>1, <2>2 DEF Claimed
<1>5. ReadyIsFree'
  <2> SUFFICES ASSUME NEW t \in Tasks, NEW d \in Ready(tasks'[t])
               PROVE  joins'[d] = {} /\ ItsTurn(d)'
    BY DEF ReadyIsFree
  <2>1. d \in Ready(tasks[t]) /\ d \in Devices
    BY ReadyIsMarked DEF Calm, HandlersCalm
  <2>2. joins[d] = {} /\ ItsTurn(d)
    BY <2>1 DEF BridgeInv, ReadyIsFree
  <2>3. ItsTurn(d)'
    BY <2>2 DEF ItsTurn, Calm, HandlersCalm
  <2> QED BY <2>1, <2>2, <2>3 DEF Calm, JoinsOnlyEnd
<1> QED BY <1>2, <1>3, <1>4, <1>5 DEF BridgeInv

LEMMA UntouchedIsCalm == ASSUME UNCHANGED tasks PROVE HandlersCalm
BY DEF HandlersCalm

LEMMA OneIsCalm ==
  ASSUME NEW t \in Tasks, \A u \in Tasks \ {t} : tasks'[u] = tasks[u],
         tasks'[t].op # "join", Ready(tasks'[t]) \subseteq Ready(tasks[t])
  PROVE  HandlersCalm
BY DEF HandlersCalm

LEMMA EndIsCalm ==
  ASSUME TypeOK, NEW t \in Tasks, Finish(t)
  PROVE  HandlersCalm
<1>1. tasks'[t] = Idle /\ \A u \in Tasks \ {t} : tasks'[u] = tasks[u]
  BY FinishType
<1>2. Idle.op = "idle"
  BY IdleType
<1>3. Ready(Idle) = {}
  BY <1>2 DEF Ready
<1> QED BY <1>1, <1>2, <1>3, OneIsCalm

-----------------------------------------------------------------------------
(* Claiming. *)

LEMMA ClaimIsCalm ==
  ASSUME TypeOK, TaskInv, BridgeInv, NEW t \in Tasks, NEW x \in Targets, NEW h \in Nodes,
         NEW force \in BOOLEAN, Claim(t, x, h, force)
  PROVE  Calm
<1> DEFINE S == DevicesOf(x)
           k == StartBind(h, x, S)
<1>1. S \subseteq Devices
  BY DevicesOfType
<1>2. k \in TaskType /\ k.op = "bind" /\ k.held = S /\ k.todo = S
  BY <1>1, StartBindType
<1>3. Become(t, k)
  BY DEF Claim, StartBind
<1> HIDE DEF k
<1>4. tasks'[t] = k /\ \A u \in Tasks \ {t} : tasks'[u] = tasks[u]
  BY <1>2, <1>3, BecomeType
<1>5. HandlersCalm
  <2>1. Ready(k) = {} /\ k.op # "join"
    BY <1>2 DEF Ready
  <2> QED BY <1>4, <2>1, OneIsCalm
<1>6. ClaimsOnlyEnd
  BY ClaimTasks
<1>7. CASE force /\ h = Owner
  <2>1. Evict(S)
    BY <1>7 DEF Claim
  <2>2. /\ \A d \in Devices : joins'[d] = IF d \in S THEN {} ELSE joins[d]
        /\ \A d \in Devices : driver'[d] = IF d \in S /\ joins[d] # {} THEN "free" ELSE driver[d]
    BY <2>1 DEF Evict
  <2> QED BY <1>5, <1>6, <2>2, ConstantsOK DEF Calm, JoinsOnlyEnd, BridgesStand
<1>8. CASE ~(force /\ h = Owner)
  <2>1. UNCHANGED <<driver, joins>>
    BY <1>8 DEF Claim, leases
  <2> QED BY <1>5, <1>6, <2>1 DEF Calm, JoinsOnlyEnd, BridgesStand
<1> QED BY <1>7, <1>8

\* What the driver has bound for a claim is joined by nobody, and nobody is on the way
\* to join it: calls of the card's bridge are served in their order.
LEMMA BindOkKeepsBridges ==
  ASSUME TypeOK, TaskInv, BridgeInv, NEW t \in Tasks, NEW d \in Devices, BindOk(t, d)
  PROVE  BridgeInv' /\ UNCHANGED joins
<1>1. /\ tasks[t].op = "bind" /\ d \in tasks[t].todo
      /\ ItsTurn(d) /\ CanLend(d, "whole")
      /\ joins' = joins
      /\ \A e \in Devices : driver'[e] = IF e = d THEN "whole" ELSE driver[e]
  BY DEF BindOk, TypeOK
<1>2. joins[d] = {}
  BY <1>1 DEF BridgeInv, JoinedIsBridged, CanLend
<1>3. JoinedIsBridged'
  BY <1>1, <1>2 DEF BridgeInv, JoinedIsBridged
<1>4. tasks[t].todo \subseteq tasks[t].held /\ tasks[t].held \subseteq Devices /\ tasks[t] \in TaskType
  BY <1>1, FormedTask DEF Formed
<1>5. \A e \in tasks[t].held \ tasks[t].todo : joins[e] = {} /\ ItsTurn(e)
  BY <1>1 DEF BridgeInv, ReadyIsFree, Ready
<1>6. CASE tasks[t].todo = {d} /\ Grant(t)
  <2>1. \A e \in tasks[t].held : joins[e] = {} /\ ItsTurn(e)
    BY <1>1, <1>2, <1>5, <1>6
  <2>2. \A e \in Devices \ tasks[t].held : claims'[e] = claims[e]
    BY <1>6 DEF Grant
  <2>3. HandlersCalm
    BY <1>6, EndIsCalm DEF Grant
  <2>4. WholeOrBridge'
    BY <1>1, <2>1, <2>2 DEF BridgeInv, WholeOrBridge, Claimed
  <2>5. JoiningIsFree'
    <3> SUFFICES ASSUME NEW u \in Tasks, tasks'[u].op = "join"
                 PROVE  ~Claimed(tasks[u].cur)'
      BY DEF JoiningIsFree
    <3>1. tasks[u].op = "join" /\ tasks'[u].cur = tasks[u].cur
      BY <2>3 DEF HandlersCalm
    <3>2. ~Claimed(tasks[u].cur) /\ tasks[u].cur \in Devices
      BY <3>1, FormedTask, ConstantsOK DEF BridgeInv, JoiningIsFree, Formed
    <3>3. tasks[u].cur \notin tasks[t].held
      BY <2>1, <3>1 DEF ItsTurn
    <3> QED BY <2>2, <3>1, <3>2, <3>3 DEF Claimed
  <2>6. ReadyIsFree'
    <3> SUFFICES ASSUME NEW u \in Tasks, NEW e \in Ready(tasks'[u])
                 PROVE  joins'[e] = {} /\ ItsTurn(e)'
      BY DEF ReadyIsFree
    <3>1. joins[e] = {} /\ ItsTurn(e)
      BY <2>3 DEF HandlersCalm, BridgeInv, ReadyIsFree
    <3> QED BY <1>1, <2>3, <3>1 DEF HandlersCalm, ItsTurn
  <2> QED BY <1>1, <1>3, <2>4, <2>5, <2>6 DEF BridgeInv
<1>7. CASE Become(t, [tasks[t] EXCEPT !.todo = @ \ {d}]) /\ UNCHANGED claims
  <2> DEFINE k == Advance(tasks[t], d)
  <2>1. k \in TaskType /\ k.op = "bind" /\ k.held = tasks[t].held /\ k.todo = tasks[t].todo \ {d}
    BY <1>1, <1>4, AdvanceType
  <2>2. Become(t, k)
    BY <1>7 DEF Advance
  <2> HIDE DEF k
  <2>3. tasks'[t] = k /\ \A u \in Tasks \ {t} : tasks'[u] = tasks[u]
    BY <2>1, <2>2, BecomeType
  <2>4. Ready(k) \subseteq Ready(tasks[t]) \cup {d}
    BY <1>1, <2>1 DEF Ready
  <2>5. \A e : ItsTurn(e) => ItsTurn(e)'
    BY <2>1, <2>3 DEF ItsTurn
  <2>6. WholeOrBridge' /\ JoiningIsFree'
    BY <1>1, <1>7, <2>1, <2>3 DEF BridgeInv, WholeOrBridge, JoiningIsFree, Claimed
  <2>7. ReadyIsFree'
    <3> SUFFICES ASSUME NEW u \in Tasks, NEW e \in Ready(tasks'[u])
                 PROVE  joins'[e] = {} /\ ItsTurn(e)'
      BY DEF ReadyIsFree
    <3>1. e = d \/ e \in Ready(tasks[u])
      BY <2>3, <2>4
    <3>2. joins[e] = {} /\ ItsTurn(e)
      BY <1>1, <1>2, <3>1 DEF BridgeInv, ReadyIsFree
    <3> QED BY <1>1, <2>5, <3>2
  <2> QED BY <1>1, <1>3, <2>6, <2>7 DEF BridgeInv
<1> QED BY <1>1, <1>6, <1>7 DEF BindOk

LEMMA BindFailIsCalm ==
  ASSUME TypeOK, TaskInv, BridgeInv, NEW t \in Tasks, NEW d \in Devices, BindFail(t, d)
  PROVE  Calm
<1>1. tasks[t].op = "bind" /\ UNCHANGED <<driver, claims, joins>>
  BY DEF BindFail, leases
<1>2. ClaimsOnlyEnd /\ JoinsOnlyEnd /\ BridgesStand
  BY <1>1 DEF ClaimsOnlyEnd, JoinsOnlyEnd, BridgesStand
<1>3. CASE Finish(t)
  BY <1>2, <1>3, EndIsCalm DEF Calm
<1>4. CASE ~Finish(t)
  <2> DEFINE k == FallBack(tasks[t], d)
  <2>1. k \in TaskType /\ k.op = "rollback" /\ k.todo = tasks[t].held \ tasks[t].todo
    BY FormedTask, FallBackType
  <2>2. Become(t, k)
    BY <1>4 DEF BindFail, FallBack
  <2> HIDE DEF k
  <2>3. tasks'[t] = k /\ \A u \in Tasks \ {t} : tasks'[u] = tasks[u]
    BY <2>1, <2>2, BecomeType
  <2>4. Ready(k) = Ready(tasks[t]) /\ k.op # "join"
    BY <1>1, <2>1 DEF Ready
  <2> QED BY <1>2, <2>3, <2>4, OneIsCalm DEF Calm
<1> QED BY <1>3, <1>4

LEMMA RollbackIsCalm ==
  ASSUME TypeOK, TaskInv, BridgeInv, NEW t \in Tasks, NEW d \in Devices, Rollback(t, d)
  PROVE  Calm
<1>1. /\ tasks[t].op = "rollback" /\ d \in tasks[t].todo /\ UNCHANGED <<claims, joins>>
      /\ \A e \in Devices \ {d} : driver'[e] = driver[e]
  BY DEF Rollback, leases, TypeOK
<1>2. joins[d] = {}
  BY <1>1 DEF BridgeInv, ReadyIsFree, Ready
<1>3. ClaimsOnlyEnd /\ JoinsOnlyEnd /\ BridgesStand
  BY <1>1, <1>2, ConstantsOK DEF ClaimsOnlyEnd, JoinsOnlyEnd, BridgesStand
<1>4. CASE Finish(t)
  BY <1>3, <1>4, EndIsCalm DEF Calm
<1>5. CASE ~Finish(t)
  <2> DEFINE k == Advance(tasks[t], d)
  <2>1. k \in TaskType /\ k.op = "rollback" /\ k.todo = tasks[t].todo \ {d}
    BY <1>1, FormedTask, AdvanceType
  <2>2. Become(t, k)
    BY <1>5 DEF Rollback, Advance
  <2> HIDE DEF k
  <2>3. tasks'[t] = k /\ \A u \in Tasks \ {t} : tasks'[u] = tasks[u]
    BY <2>1, <2>2, BecomeType
  <2>4. Ready(k) \subseteq Ready(tasks[t]) /\ k.op # "join"
    BY <1>1, <2>1 DEF Ready
  <2> QED BY <1>3, <2>3, <2>4, OneIsCalm DEF Calm
<1> QED BY <1>4, <1>5

-----------------------------------------------------------------------------
(* Joining. *)

\* A join starts on a card nobody has, and nobody has bound.
LEMMA JoinKeepsBridges ==
  ASSUME TypeOK, TaskInv, BridgeInv, NEW t \in Tasks, NEW d \in NetDevs, NEW h \in Nodes, Join(t, d, h)
  PROVE  BridgeInv' /\ UNCHANGED joins
<1> DEFINE k == StartJoin(h, d)
<1>1. k \in TaskType /\ k.op = "join" /\ k.cur = d
  BY ConstantsOK, StartJoinType
<1>2. Become(t, k) /\ ~Claimed(d) /\ Unmarked({d}) /\ UNCHANGED <<driver, claims, joins>>
  BY DEF Join, StartJoin, leases
<1> HIDE DEF k
<1>3. tasks'[t] = k /\ \A u \in Tasks \ {t} : tasks'[u] = tasks[u]
  BY <1>1, <1>2, BecomeType
<1>4. WholeOrBridge' /\ JoinedIsBridged' /\ JoiningIsFree'
  BY <1>1, <1>2, <1>3 DEF BridgeInv, WholeOrBridge, JoinedIsBridged, JoiningIsFree, Claimed
<1>5. ReadyIsFree'
  <2> SUFFICES ASSUME NEW u \in Tasks, NEW e \in Ready(tasks'[u])
               PROVE  joins'[e] = {} /\ ItsTurn(e)'
    BY DEF ReadyIsFree
  <2>1. u # t
    BY <1>1, <1>3 DEF Ready
  <2>2. e \in Ready(tasks[u])
    BY <1>3, <2>1
  <2>3. joins[e] = {} /\ ItsTurn(e)
    BY <2>2 DEF BridgeInv, ReadyIsFree
  <2>4. e \in preparing
    BY <2>2, ReadyIsMarked DEF TaskInv, PreparingIsALock
  <2>5. e # d
    BY <1>2, <2>4 DEF Unmarked
  <2> QED BY <1>1, <1>2, <1>3, <2>3, <2>5 DEF ItsTurn
<1> QED BY <1>2, <1>4, <1>5 DEF BridgeInv

\* The card that takes a holder in is not claimed, and not bound for anybody.
LEMMA JoinOkKeepsBridges ==
  ASSUME TypeOK, TaskInv, BridgeInv, NEW t \in Tasks, JoinOk(t)
  PROVE  BridgeInv' /\ UNCHANGED claims
<1> DEFINE d == tasks[t].cur
<1>1. tasks[t].op = "join" /\ d \in NetDevs /\ d \in Devices /\ tasks[t].by \in Nodes
  BY FormedTask, ConstantsOK DEF JoinOk, Formed
<1>2. /\ UNCHANGED claims /\ Finish(t)
      /\ \A e \in Devices : joins'[e] = IF e = d THEN joins[e] \cup {tasks[t].by} ELSE joins[e]
      /\ \A e \in Devices : driver'[e] = IF e = d THEN "bridge" ELSE driver[e]
  BY <1>1 DEF JoinOk, TypeOK
<1>3. ~Claimed(d)
  BY <1>1 DEF BridgeInv, JoiningIsFree
<1>4. HandlersCalm
  BY <1>2, EndIsCalm
<1> HIDE DEF d
<1>5. WholeOrBridge'
  BY <1>2, <1>3 DEF BridgeInv, WholeOrBridge, Claimed
<1>6. JoinedIsBridged'
  BY <1>1, <1>2 DEF BridgeInv, JoinedIsBridged
<1>7. JoiningIsFree'
  BY <1>2, <1>4 DEF HandlersCalm, BridgeInv, JoiningIsFree, Claimed
<1>8. ReadyIsFree'
  <2> SUFFICES ASSUME NEW u \in Tasks, NEW e \in Ready(tasks'[u])
               PROVE  joins'[e] = {} /\ ItsTurn(e)'
    BY DEF ReadyIsFree
  <2>1. e \in Ready(tasks[u]) /\ e \in Devices
    BY <1>4, ReadyIsMarked DEF HandlersCalm
  <2>2. joins[e] = {} /\ ItsTurn(e)
    BY <2>1 DEF BridgeInv, ReadyIsFree
  <2>3. e # d
    BY <1>1, <2>2 DEF ItsTurn, d
  <2>4. ItsTurn(e)'
    BY <1>4, <2>2 DEF HandlersCalm, ItsTurn
  <2> QED BY <1>2, <2>1, <2>2, <2>3, <2>4
<1> QED BY <1>2, <1>5, <1>6, <1>7, <1>8 DEF BridgeInv

LEMMA LastStepIsCalm ==
  ASSUME TypeOK, TaskInv, BridgeInv, NEW t \in Tasks,
         JoinFail(t) \/ \E ok \in Outcomes : Unshared(t, ok)
  PROVE  Calm
<1>1. Finish(t) /\ UNCHANGED <<claims, joins>> /\ \A d \in NetDevs : driver'[d] = driver[d]
  BY ConstantsOK DEF JoinFail, Unshared, leases, TypeOK
<1>2. ClaimsOnlyEnd /\ JoinsOnlyEnd /\ BridgesStand
  BY <1>1 DEF ClaimsOnlyEnd, JoinsOnlyEnd, BridgesStand
<1> QED BY <1>1, <1>2, EndIsCalm DEF Calm

-----------------------------------------------------------------------------
(* Releasing. *)

\* The last one out takes the bridge apart.
LEMMA LeaveIsCalm ==
  ASSUME TypeOK, NEW d \in Devices, NEW H, Leave(d, H), UNCHANGED <<claims, tasks>>
  PROVE  Calm
<1>1. \A e \in Devices : joins'[e] = IF e = d THEN joins[e] \ H ELSE joins[e]
  BY DEF Leave, TypeOK
<1>2. \A e \in Devices : driver'[e] = driver[e] \/ (e = d /\ joins[d] \subseteq H)
  BY DEF Leave, TypeOK
<1>3. JoinsOnlyEnd /\ BridgesStand
  BY <1>1, <1>2, ConstantsOK DEF JoinsOnlyEnd, BridgesStand
<1>4. ClaimsOnlyEnd
  BY DEF ClaimsOnlyEnd
<1> QED BY <1>3, <1>4, UntouchedIsCalm DEF Calm

\* A claim is given back; what has a claim has no joins.
LEMMA GiveBackIsCalm ==
  ASSUME TypeOK, TaskInv, BridgeInv, NEW t \in Tasks, NEW k \in TaskType, k.op = "unbind",
         NEW d \in Devices, Claimed(d), GiveBack(t, k, d), UNCHANGED joins,
         \A e \in NetDevs \ {d} : driver'[e] = driver[e]
  PROVE  Calm
<1>1. /\ tasks'[t].op = "unbind"
      /\ \A u \in Tasks \ {t} : tasks'[u] = tasks[u]
  BY GiveBackType
<1>2. Ready(tasks'[t]) = {}
  BY <1>1 DEF Ready
<1>3. HandlersCalm
  BY <1>1, <1>2, OneIsCalm
<1>4. ClaimsOnlyEnd
  BY UnclaimOnlyEnds DEF GiveBack
<1>5. joins'[d] = {}
  BY DEF BridgeInv, WholeOrBridge
<1>6. JoinsOnlyEnd /\ BridgesStand
  BY <1>5 DEF JoinsOnlyEnd, BridgesStand
<1> QED BY <1>3, <1>4, <1>6 DEF Calm

LEMMA ReleaseIsCalm ==
  ASSUME TypeOK, TaskInv, BridgeInv, NEW t \in Tasks, NEW x \in Targets, NEW h \in Nodes \cup {None},
         NEW force \in BOOLEAN, Release(t, x, h, force)
  PROVE  Calm
<1>1. CASE InBridge(x, h, force)
  <2>1. x \in Devices
    BY <1>1 DEF InBridge
  <2>2. Leave(x, IF h \in joins[x] THEN {h} ELSE joins[x]) /\ UNCHANGED <<claims, tasks>>
    BY <1>1 DEF Release
  <2> QED BY <2>1, <2>2, LeaveIsCalm
<1>2. CASE ~InBridge(x, h, force)
  <2> DEFINE k == StartUnbind(h, x, force, Marks(x), DevicesOf(x))
  <2>1. PICK d \in DevicesOf(x) :
          /\ MayRelease(d, h, force) /\ GiveBack(t, k, d)
          /\ driver' = [driver EXCEPT ![d] = IF d \in NetDevs THEN "free" ELSE @]
    BY <1>2 DEF Release, StartUnbind
  <2>2. DevicesOf(x) \subseteq Devices /\ Marks(x) \subseteq Devices
    BY DevicesOfType DEF Marks
  <2>3. k \in TaskType /\ k.op = "unbind"
    BY <2>2, StartUnbindType
  <2> HIDE DEF k
  <2>4. Claimed(d) /\ d \in Devices /\ UNCHANGED joins
    BY <1>2, <2>1, <2>2 DEF MayRelease, Release
  <2>5. \A e \in NetDevs \ {d} : driver'[e] = driver[e]
    BY <2>1, ConstantsOK DEF TypeOK
  <2> QED BY <2>1, <2>3, <2>4, <2>5, GiveBackIsCalm
<1> QED BY <1>1, <1>2

LEMMA AcceptIsCalm ==
  ASSUME TypeOK, TaskInv, BridgeInv, NEW t \in Tasks, NEW q \in requests, Accept(t, q)
  PROVE  Calm
<1>1. q.target \in Targets /\ q.holder \in Nodes
  BY DEF TypeOK, Requests
<1>2. CASE Release(t, q.target, q.holder, TRUE)
  BY <1>1, <1>2, ReleaseIsCalm
<1>3. CASE ~Release(t, q.target, q.holder, TRUE)
  <2>1. UNCHANGED <<driver, claims, joins, tasks>>
    BY <1>3 DEF Accept, leases
  <2> QED BY <2>1, UntouchedIsCalm DEF Calm, ClaimsOnlyEnd, JoinsOnlyEnd, BridgesStand
<1> QED BY <1>2, <1>3

LEMMA UnboundIsCalm ==
  ASSUME TypeOK, TaskInv, BridgeInv, NEW t \in Tasks, NEW ok \in Outcomes, Unbound(t, ok)
  PROVE  Calm
<1> DEFINE k == tasks[t]
           freed == IF ok /\ k.cur \notin NetDevs THEN {k.cur} ELSE {}
<1>1. k \in TaskType /\ k.op = "unbind" /\ k.todo \subseteq Devices /\ UNCHANGED joins
  BY DEF Unbound, TypeOK, TaskType
<1>2. freed \cap NetDevs = {}
  OBVIOUS
<1>3. CASE /\ driver' = [x \in Devices |-> IF x \in freed THEN "free" ELSE driver[x]]
           /\ Finish(t) /\ UNCHANGED claims
  <2>1. \A d \in NetDevs : driver'[d] = driver[d]
    BY <1>2, <1>3, ConstantsOK
  <2>2. ClaimsOnlyEnd /\ JoinsOnlyEnd /\ BridgesStand
    BY <1>1, <1>3, <2>1 DEF ClaimsOnlyEnd, JoinsOnlyEnd, BridgesStand
  <2> QED BY <1>3, <2>2, EndIsCalm DEF Calm
<1>4. ASSUME NEW e \in k.todo, Claimed(e), GiveBack(t, k, e),
             driver' = [x \in Devices |-> IF x \in freed \cup ({e} \cap NetDevs) THEN "free" ELSE driver[x]]
      PROVE  Calm
  <2>1. e \in Devices
    BY <1>1
  <2>2. \A d \in NetDevs \ {e} : driver'[d] = driver[d]
    BY <1>2, <1>4, ConstantsOK
  <2> HIDE DEF k
  <2> QED BY <1>1, <1>4, <2>1, <2>2, GiveBackIsCalm
<1> QED BY <1>3, <1>4 DEF Unbound

-----------------------------------------------------------------------------
(* The clock, the poll and the owner's settings. *)

LEMMA UnshareIsCalm ==
  ASSUME TypeOK, TaskInv, BridgeInv, NEW t \in Tasks, NEW d \in Devices, Unshare(t, d)
  PROVE  Calm
<1>1. UNCHANGED <<claims, joins>> /\ joins[d] = {}
  BY DEF Unshare, leases, Held
<1>2. \A e \in Devices \ {d} : driver'[e] = driver[e]
  BY DEF Unshare, TypeOK
<1>3. ClaimsOnlyEnd /\ JoinsOnlyEnd /\ BridgesStand
  BY <1>1, <1>2, ConstantsOK DEF ClaimsOnlyEnd, JoinsOnlyEnd, BridgesStand
<1>4. HandlersCalm
  <2>1. CASE UNCHANGED tasks
    BY <2>1, UntouchedIsCalm
  <2>2. CASE ~UNCHANGED tasks
    <3> DEFINE k == StartUnshare(d)
    <3>1. Become(t, k)
      BY <2>2 DEF Unshare, StartUnshare
    <3>2. k \in TaskType /\ k.op = "unshare"
      BY StartUnshareType
    <3> HIDE DEF k
    <3>3. tasks'[t] = k /\ \A u \in Tasks \ {t} : tasks'[u] = tasks[u]
      BY <3>1, <3>2, BecomeType
    <3>4. Ready(k) = {}
      BY <3>2 DEF Ready
    <3> QED BY <3>2, <3>3, <3>4, OneIsCalm
  <2> QED BY <2>1, <2>2
<1> QED BY <1>3, <1>4 DEF Calm

LEMMA PollsAreCalm ==
  ASSUME TypeOK, TaskInv, BridgeInv, Polls
  PROVE  Calm
<1>1. UNCHANGED tasks
  BY DEF Polls, Plug, RefreshStart, RefreshEnd
<1>2. ClaimsOnlyEnd
  BY QuietTasks
<1>3. CASE RefreshEnd
  <2>1. PICK gone : /\ \A d \in Devices : joins'[d] = IF d \in gone THEN {} ELSE joins[d]
                    /\ \A d \in Devices : driver'[d] = IF d \in gone \cap NetDevs THEN "free" ELSE driver[d]
    BY <1>3 DEF RefreshEnd
  <2>2. JoinsOnlyEnd /\ BridgesStand
    BY <2>1, ConstantsOK DEF JoinsOnlyEnd, BridgesStand
  <2> QED BY <1>1, <1>2, <2>2, UntouchedIsCalm DEF Calm
<1>4. CASE ~RefreshEnd
  <2>1. UNCHANGED joins /\ \A d \in NetDevs : driver'[d] = driver[d]
    BY <1>4, ConstantsOK DEF Polls, Plug, RefreshStart, leases, TypeOK
  <2>2. JoinsOnlyEnd /\ BridgesStand
    BY <2>1 DEF JoinsOnlyEnd, BridgesStand
  <2> QED BY <1>1, <1>2, <2>2, UntouchedIsCalm DEF Calm
<1> QED BY <1>3, <1>4

\* A path that is given up is that of a card lent whole.
LEMMA PathGivenUpIsCalm ==
  ASSUME TypeOK, TaskInv, BridgeInv, NEW d \in NetDevs, PathGivenUp(d)
  PROVE  Calm
<1>1. UNCHANGED <<claims, joins, tasks>> /\ driver[d] = "whole" /\ d \in Devices
  BY ConstantsOK DEF PathGivenUp, leases
<1>2. \A e \in NetDevs \ {d} : driver'[e] = driver[e]
  BY ConstantsOK DEF PathGivenUp, TypeOK
<1>3. joins[d] = {}
  BY <1>1 DEF BridgeInv, JoinedIsBridged
<1>4. ClaimsOnlyEnd /\ JoinsOnlyEnd /\ BridgesStand
  BY <1>1, <1>2, <1>3 DEF ClaimsOnlyEnd, JoinsOnlyEnd, BridgesStand
<1> QED BY <1>1, <1>4, UntouchedIsCalm DEF Calm

LEMMA ClockIsCalm ==
  ASSUME TypeOK, TaskInv, BridgeInv, Clock
  PROVE  Calm
<1>1. ASSUME NEW t \in Tasks, NEW d \in Devices, SweepClaim(t, d) \/ DataLost(t, d)
      PROVE  Calm
  <2>1. claims[d].holder \in Nodes \cup {None} /\ LeaseTarget(d) \in Targets
    BY LeaseTargetType DEF TypeOK
  <2>2. Release(t, LeaseTarget(d), claims[d].holder, TRUE)
    BY <1>1 DEF SweepClaim, DataLost
  <2> QED BY <2>1, <2>2, ReleaseIsCalm
<1>2. ASSUME NEW d \in NetDevs, NEW h \in Nodes, SweepJoin(d, h)
      PROVE  Calm
  BY <1>2, LeaveIsCalm, ConstantsOK DEF SweepJoin
<1>3. ASSUME UNCHANGED <<driver, claims, joins, tasks>>
      PROVE  Calm
  BY <1>3, UntouchedIsCalm DEF Calm, ClaimsOnlyEnd, JoinsOnlyEnd, BridgesStand
<1>4. CASE \/ \E x \in Targets, h \in Nodes : Renew(x, h)
           \/ \E d \in Devices : LeaseRunsOut(d) \/ ReservationLapses(d)
           \/ \E d \in NetDevs, h \in Nodes : JoinRunsOut(d, h)
           \/ \E x \in Targets, r \in Nodes : CreateRequest(x, r)
           \/ \E q \in requests : DropRequest(q)
  BY <1>3, <1>4 DEF Renew, LeaseRunsOut, ReservationLapses, JoinRunsOut, CreateRequest, DropRequest, leases
<1> QED BY <1>1, <1>2, <1>4, PathGivenUpIsCalm DEF Clock

LEMMA EditIsCalm ==
  ASSUME TypeOK, TaskInv, BridgeInv, Edit
  PROVE  Calm
<1>1. CASE \E t \in Tasks, d \in Devices : Unshare(t, d)
  BY <1>1, UnshareIsCalm
<1>2. CASE \/ \E d \in Devices : Share(d)
           \/ \E g \in Groups, on \in BOOLEAN : PublishGroup(g, on)
           \/ \E g \in Groups, S \in SUBSET Devices : SaveGroup(g, S)
           \/ \E g \in Groups : DeleteGroup(g)
  <2>1. UNCHANGED <<driver, claims, joins, tasks>>
    BY <1>2 DEF Share, PublishGroup, SaveGroup, DeleteGroup, leases
  <2> QED BY <2>1, UntouchedIsCalm DEF Calm, ClaimsOnlyEnd, JoinsOnlyEnd, BridgesStand
<1> QED BY <1>1, <1>2 DEF Edit

-----------------------------------------------------------------------------
(* Every step. *)

\* What a step may do to the leases: end some, let one into a bridge, or give a claim.
LeasesMove ==
  \/ ClaimsOnlyEnd /\ JoinsOnlyEnd
  \/ \E t \in Tasks : JoinOk(t)
  \/ UNCHANGED joins

LEMMA StepKeepsBridges ==
  ASSUME TypeOK, TaskInv, BridgeInv, [Next]_vars
  PROVE  BridgeInv' /\ LeasesMove
<1>1. ASSUME Calm PROVE BridgeInv' /\ LeasesMove
  BY <1>1, CalmKeeps DEF Calm, LeasesMove
<1>2. ASSUME NEW t \in Tasks, DriverAnswers(t)
      PROVE  BridgeInv' /\ LeasesMove
  <2>1. CASE \E d \in Devices : BindOk(t, d)
    BY <2>1, BindOkKeepsBridges DEF LeasesMove
  <2>2. CASE \E d \in Devices : BindFail(t, d) \/ Rollback(t, d)
    BY <1>1, <2>2, BindFailIsCalm, RollbackIsCalm
  <2>3. CASE JoinOk(t)
    BY <2>3, JoinOkKeepsBridges DEF LeasesMove
  <2>4. CASE JoinFail(t) \/ \E ok \in Outcomes : Unshared(t, ok)
    BY <1>1, <2>4, LastStepIsCalm
  <2>5. CASE \E ok \in Outcomes : Unbound(t, ok)
    BY <1>1, <2>5, UnboundIsCalm
  <2> QED BY <1>2, <2>1, <2>2, <2>3, <2>4, <2>5 DEF DriverAnswers
<1>3. ASSUME NEW t \in Tasks, Calls(t)
      PROVE  BridgeInv' /\ LeasesMove
  <2>1. CASE \E x \in Targets, h \in Nodes, force \in BOOLEAN : Claim(t, x, h, force)
    BY <1>1, <2>1, ClaimIsCalm
  <2>2. CASE \E d \in NetDevs, h \in Nodes : Join(t, d, h)
    BY <2>2, JoinKeepsBridges DEF LeasesMove
  <2>3. CASE \E x \in Targets, h \in Nodes, force \in BOOLEAN : ReleaseBy(t, x, h, force)
    BY <1>1, <2>3, ReleaseIsCalm DEF ReleaseBy
  <2>4. CASE \E q \in requests : Accept(t, q)
    BY <1>1, <2>4, AcceptIsCalm
  <2> QED BY <1>3, <2>1, <2>2, <2>3, <2>4, ConstantsOK DEF Calls
<1>4. CASE Polls \/ Clock \/ Edit
  BY <1>1, <1>4, PollsAreCalm, ClockIsCalm, EditIsCalm
<1>5. CASE UNCHANGED vars
  <2>1. UNCHANGED <<driver, claims, joins, tasks>>
    BY <1>5 DEF vars, leases
  <2> QED BY <1>1, <2>1, UntouchedIsCalm DEF Calm, ClaimsOnlyEnd, JoinsOnlyEnd, BridgesStand
<1> QED BY <1>2, <1>3, <1>4, <1>5 DEF Next

LEMMA InitBridges == Init => BridgeInv
<1> SUFFICES ASSUME Init PROVE BridgeInv
  OBVIOUS
<1>1. \A d \in Devices : joins[d] = {} /\ ~Claimed(d)
  BY DEF Init, Claimed, NoClaim
<1>2. \A t \in Tasks : tasks[t].op = "idle"
  BY IdleType DEF Init
<1> QED BY <1>1, <1>2 DEF BridgeInv, WholeOrBridge, JoinedIsBridged, JoiningIsFree, ReadyIsFree, Ready

\* The whole invariant.
LEMMA BridgesHold == Spec => [](TypeOK /\ TaskInv /\ BridgeInv)
<1>1. Init => BridgeInv
  BY InitBridges
<1>2. TypeOK /\ TaskInv /\ BridgeInv /\ [Next]_vars => BridgeInv'
  BY StepKeepsBridges
<1> QED BY <1>1, <1>2, Inductive, PTL DEF Spec

\* A card is never claimed and joined at the same time (_claim, _join and netShare.lend).
THEOREM NeverBoth == Spec => []WholeOrBridge
<1>1. BridgeInv => WholeOrBridge
  BY DEF BridgeInv
<1> QED BY <1>1, BridgesHold, PTL

-----------------------------------------------------------------------------
(* The refinement: each device on its own. *)

HowLent(d) == IF Claimed(d) THEN "whole" ELSE IF joins[d] # {} THEN "bridge" ELSE "free"
ByWhom(d) == joins[d] \cup ({claims[d].holder} \ {None})

LEMMA FreeOrLent ==
  ASSUME TypeOK, WholeOrBridge, NEW d \in Devices
  PROVE  /\ Claimed(d) => HowLent(d) = "whole" /\ ByWhom(d) = {claims[d].holder} /\ joins[d] = {}
         /\ ~Claimed(d) => ByWhom(d) = joins[d] /\ HowLent(d) = IF joins[d] = {} THEN "free" ELSE "bridge"
BY DEF HowLent, ByWhom, Claimed, WholeOrBridge

Moves(d) ==
  \/ HowLent(d) = "free" /\ HowLent(d)' = "whole" /\ \E n \in Nodes : ByWhom(d)' = {n}
  \/ HowLent(d) = "whole" /\ HowLent(d)' = "free" /\ ByWhom(d)' = {}
  \/ HowLent(d) # "whole" /\ HowLent(d)' = "bridge" /\ \E n \in Nodes \ ByWhom(d) : ByWhom(d)' = ByWhom(d) \cup {n}
  \/ /\ HowLent(d) = "bridge" /\ HowLent(d)' = IF ByWhom(d)' = {} THEN "free" ELSE "bridge"
     /\ ByWhom(d)' \in SUBSET ByWhom(d)
  \/ HowLent(d)' = HowLent(d) /\ ByWhom(d)' = ByWhom(d)

\* Leases that end, for any reason.
LEMMA EndingMoves ==
  ASSUME TypeOK, TypeOK', WholeOrBridge, WholeOrBridge', ClaimsOnlyEnd, JoinsOnlyEnd, NEW d \in Devices
  PROVE  Moves(d)
<1>1. claims'[d].holder \in {None, claims[d].holder} /\ joins'[d] \subseteq joins[d]
  BY DEF ClaimsOnlyEnd, JoinsOnlyEnd
<1>2. CASE Claimed(d)
  BY <1>1, <1>2 DEF Moves, HowLent, ByWhom, Claimed, WholeOrBridge
<1>3. CASE ~Claimed(d)
  BY <1>1, <1>3 DEF Moves, HowLent, ByWhom, Claimed
<1> QED BY <1>2, <1>3

\* A holder taken into a bridge: the claims stay, and the card has none.
LEMMA JoiningMoves ==
  ASSUME TypeOK, TaskInv, BridgeInv, BridgeInv', NEW t \in Tasks, JoinOk(t), NEW d \in Devices
  PROVE  Moves(d)
<1>1. tasks[t].op = "join" /\ tasks[t].cur \in Devices /\ tasks[t].by \in Nodes
  BY FormedTask, ConstantsOK DEF JoinOk, Formed
<1>2. claims' = claims
  BY DEF JoinOk
<1>3. CASE d = tasks[t].cur
  <2>1. joins'[d] = joins[d] \cup {tasks[t].by} /\ ~Claimed(d)
    BY <1>1, <1>3 DEF JoinOk, TypeOK, BridgeInv, JoiningIsFree
  <2> QED BY <1>1, <1>2, <2>1 DEF Moves, HowLent, ByWhom, Claimed
<1>4. CASE d # tasks[t].cur
  <2>1. joins'[d] = joins[d]
    BY <1>1, <1>4 DEF JoinOk, TypeOK
  <2> QED BY <1>2, <2>1 DEF Moves, HowLent, ByWhom, Claimed
<1> QED BY <1>3, <1>4

\* A claim that is granted: the devices were free, or the claimer's already.
LEMMA GrantMoves ==
  ASSUME TypeOK, TypeOK', TaskInv, WholeOrBridge, WholeOrBridge', UNCHANGED joins,
         NEW t \in Tasks, tasks[t].op = "bind", Grant(t), NEW d \in Devices
  PROVE  Moves(d)
<1>1. CASE d \in tasks[t].held
  <2>1. claims'[d].holder = tasks[t].by /\ claims[d].holder \in {None, tasks[t].by}
    BY <1>1 DEF Grant, TaskInv, NoRivalOfAClaim
  <2>2. CASE tasks[t].by = None
    BY <2>1, <2>2 DEF Moves, HowLent, ByWhom, Claimed
  <2>3. CASE tasks[t].by # None
    <3>1. joins[d] = {} /\ Claimed(d)'
      BY <2>1, <2>3 DEF WholeOrBridge, Claimed
    <3>2. tasks[t].by \in Nodes
      BY <2>3, FormedTask DEF TaskType
    <3> QED BY <2>1, <2>3, <3>1, <3>2 DEF Moves, HowLent, ByWhom, Claimed
  <2> QED BY <2>2, <2>3
<1>2. CASE d \notin tasks[t].held
  <2>1. claims'[d] = claims[d]
    BY <1>2 DEF Grant
  <2> QED BY <2>1 DEF Moves, HowLent, ByWhom, Claimed
<1> QED BY <1>1, <1>2

LEMMA StepMoves ==
  ASSUME TypeOK, TypeOK', TaskInv, BridgeInv, [Next]_vars, NEW d \in Devices
  PROVE  Moves(d)
<1>1. BridgeInv' /\ LeasesMove
  BY StepKeepsBridges
<1>2. WholeOrBridge /\ WholeOrBridge'
  BY <1>1 DEF BridgeInv
<1>3. ClaimsOnlyEnd \/ \E t \in Tasks : tasks[t].op = "bind" /\ Grant(t)
  BY NextTasks
<1>4. CASE ClaimsOnlyEnd /\ JoinsOnlyEnd
  BY <1>2, <1>4, EndingMoves
<1>5. CASE \E t \in Tasks : JoinOk(t)
  BY <1>1, <1>5, JoiningMoves
<1>6. CASE UNCHANGED joins
  <2>1. CASE ClaimsOnlyEnd
    BY <1>2, <1>6, <2>1, EndingMoves DEF JoinsOnlyEnd
  <2>2. CASE \E t \in Tasks : tasks[t].op = "bind" /\ Grant(t)
    BY <1>2, <1>6, <2>2, GrantMoves
  <2> QED BY <1>3, <2>1, <2>2
<1> QED BY <1>1, <1>4, <1>5, <1>6 DEF LeasesMove

\* What is seen of the table, device by device, is what Lease calls mode and users.
LEMMA MovesAreSteps ==
  ASSUME \A d \in Devices : Moves(d)
  PROVE  Lent!Next
<1> SUFFICES ASSUME NEW d \in Devices
             PROVE  Lent!Grant(d) \/ Lent!End(d) \/ Lent!Join(d) \/ Lent!Leave(d) \/ Lent!Stay(d)
  BY DEF Lent!Next
<1> QED BY DEF Moves, HowLent, ByWhom, Lent!Grant, Lent!End, Lent!Join, Lent!Leave, Lent!Stay

LEMMA InitIsFree == Init => Lent!Init
BY DEF Init, Lent!Init, Claimed, NoClaim

\* The owner's table implements module Lease: to the other nodes a device is free, one
\* node's, or shared by those in its bridge, and it passes from one to another only
\* through being free, whatever handlers wait for the driver together (shareManager.js,
\* "the owner is the only source of truth").
THEOREM Refines == Spec => ImplementsLease
<1>1. TypeOK /\ TypeOK' /\ TaskInv /\ BridgeInv /\ [Next]_vars => Lent!Next
  BY StepMoves, MovesAreSteps
<1>2. TypeOK /\ TypeOK' /\ TaskInv /\ BridgeInv /\ [Next]_vars => [Lent!Next]_Lent!vars
  BY <1>1
<1> QED BY <1>2, InitIsFree, BridgesHold, PTL DEF Spec, ImplementsLease, Lent!Spec
=============================================================================
