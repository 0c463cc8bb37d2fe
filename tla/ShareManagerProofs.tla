------------------------- MODULE ShareManagerProofs -------------------------
(***************************************************************************)
(* Proofs about ShareManager for every set of nodes, devices, groups and   *)
(* tasks.                                                                  *)
(***************************************************************************)
EXTENDS ShareManager, TLAPS

BindStates == {"unbound", "bound", "error"}
DriverStates == {"free", "whole", "bridge"}
ReservationType == [for : Nodes \cup {None}, by : Nodes \cup {None}]
RefreshType == [on : BOOLEAN, seen : SUBSET Devices, bound : SUBSET Devices,
                touched : SUBSET Devices]
ClaimType == [holder : Nodes \cup {None}, group : Groups \cup {None}]

-----------------------------------------------------------------------------
(* What the operators the actions are built from return. *)

LEMMA SetBindStateType ==
  ASSUME TypeOK, NEW S, NEW s \in BindStates, SetBindState(S, s)
  PROVE  bindState' \in [Devices -> BindStates] /\ refresh' \in RefreshType
  BY DEF TypeOK, SetBindState, Touch, BindStates, RefreshType

LEMMA TouchType ==
  ASSUME TypeOK, NEW S, Touch(S)
  PROVE  refresh' \in RefreshType
  BY DEF TypeOK, Touch, RefreshType

LEMMA UnclaimType ==
  ASSUME TypeOK, NEW S, Unclaim(S)
  PROVE  claims' \in [Devices -> ClaimType] /\ expired' \subseteq Devices
  BY DEF TypeOK, Unclaim, NoClaim, ClaimType

LEMMA UnreserveType ==
  ASSUME TypeOK, NEW S, Unreserve(S)
  PROVE  reservations' \in [Devices -> ReservationType]
  BY DEF TypeOK, Unreserve, NoReservation, ReservationType

LEMMA IdleType == Idle \in TaskType /\ Idle.op = "idle" /\ Idle.held = {}
  BY DEF Idle, TaskType, Ops

LEMMA BecomeType ==
  ASSUME TypeOK, NEW t \in Tasks, NEW k \in TaskType, Become(t, k)
  PROVE  /\ tasks' \in [Tasks -> TaskType]
         /\ tasks'[t] = k
         /\ \A u \in Tasks \ {t} : tasks'[u] = tasks[u]
  BY DEF TypeOK, Become

LEMMA FinishType ==
  ASSUME TypeOK, NEW t \in Tasks, Finish(t)
  PROVE  /\ tasks' \in [Tasks -> TaskType]
         /\ preparing' = preparing \ tasks[t].held
         /\ preparing' \subseteq Devices
         /\ tasks'[t] = Idle
         /\ \A u \in Tasks \ {t} : tasks'[u] = tasks[u]
  BY IdleType, BecomeType DEF TypeOK, Finish

\* The forms a task takes as its handler goes on.
StartBind(h, x, S) ==
  [Idle EXCEPT !.op = "bind", !.by = h, !.target = x, !.held = S, !.todo = S]
StartJoin(h, d) == [Idle EXCEPT !.op = "join", !.by = h, !.cur = d]
Advance(k, d) == [k EXCEPT !.todo = @ \ {d}]
FallBack(k, d) == [k EXCEPT !.op = "rollback", !.todo = k.held \ k.todo, !.cur = d]
StartUnbind(h, x, force, S, T) ==
  [Idle EXCEPT !.op = "unbind", !.by = h, !.target = x, !.force = force, !.held = S, !.todo = T]
NextUnbind(k, d) == [k EXCEPT !.cur = d, !.todo = @ \ {d}]

LEMMA StartBindType ==
  ASSUME NEW h \in Nodes, NEW x \in Targets, NEW S \in SUBSET Devices
  PROVE  LET k == StartBind(h, x, S) IN
         k \in TaskType /\ k.op = "bind" /\ k.by = h /\ k.held = S /\ k.todo = S
  BY DEF StartBind, TaskType, Ops, Idle

LEMMA StartJoinType ==
  ASSUME NEW h \in Nodes, NEW d \in Devices
  PROVE  LET k == StartJoin(h, d) IN
         k \in TaskType /\ k.op = "join" /\ k.by = h /\ k.cur = d /\ k.held = {}
  BY DEF StartJoin, TaskType, Ops, Idle

LEMMA AdvanceType ==
  ASSUME NEW k \in TaskType, NEW d
  PROVE  LET n == Advance(k, d) IN
         n \in TaskType /\ n.op = k.op /\ n.by = k.by /\ n.held = k.held /\ n.todo = k.todo \ {d}
  BY DEF Advance, TaskType, Ops

LEMMA FallBackType ==
  ASSUME NEW k \in TaskType, NEW d \in Devices
  PROVE  LET n == FallBack(k, d) IN
         /\ n \in TaskType /\ n.op = "rollback" /\ n.by = k.by
         /\ n.held = k.held /\ n.todo = k.held \ k.todo
  BY DEF FallBack, TaskType, Ops

LEMMA StartUnbindType ==
  ASSUME NEW h \in Nodes \cup {None}, NEW x \in Targets, NEW force \in BOOLEAN,
         NEW S \in SUBSET Devices, NEW T \in SUBSET Devices
  PROVE  LET k == StartUnbind(h, x, force, S, T) IN
         k \in TaskType /\ k.op = "unbind" /\ k.held = S
  BY DEF StartUnbind, TaskType, Ops, Idle

LEMMA NextUnbindType ==
  ASSUME NEW k \in TaskType, NEW d \in Devices
  PROVE  LET n == NextUnbind(k, d) IN
         n \in TaskType /\ n.op = k.op /\ n.held = k.held
  BY DEF NextUnbind, TaskType, Ops

LEMMA LeaveType ==
  ASSUME TypeOK, NEW d \in Devices, NEW H, Leave(d, H)
  PROVE  /\ joins' \in [Devices -> SUBSET Nodes]
         /\ staleJoins' \subseteq Devices \X Nodes
         /\ driver' \in [Devices -> DriverStates]
         /\ bindState' \in [Devices -> BindStates]
         /\ refresh' \in RefreshType
  <1>1. CASE joins[d] \subseteq H
    <2>1. SetBindState({d}, "unbound")
      BY <1>1 DEF Leave
    <2>2. bindState' \in [Devices -> BindStates] /\ refresh' \in RefreshType
      BY <2>1, SetBindStateType DEF BindStates
    <2>3. QED
      BY <1>1, <2>2 DEF Leave, TypeOK, DriverStates
  <1>2. CASE ~(joins[d] \subseteq H)
    BY <1>2 DEF Leave, TypeOK, DriverStates, BindStates, RefreshType
  <1>3. QED
    BY <1>1, <1>2

LEMMA DevicesOfType ==
  ASSUME TypeOK, NEW x \in Targets
  PROVE  DevicesOf(x) \subseteq Devices
  BY DEF TypeOK, Targets, DevicesOf

LEMMA GiveBackType ==
  ASSUME TypeOK, NEW t \in Tasks, NEW k \in TaskType, NEW d \in Devices, GiveBack(t, k, d)
  PROVE  /\ claims' \in [Devices -> ClaimType]
         /\ expired' \subseteq Devices
         /\ tasks' \in [Tasks -> TaskType]
         /\ tasks'[t].op = k.op /\ tasks'[t].held = k.held
         /\ \A u \in Tasks \ {t} : tasks'[u] = tasks[u]
  <1> DEFINE n == NextUnbind(k, d)
  <1>1. n \in TaskType /\ n.op = k.op /\ n.held = k.held
    BY NextUnbindType
  <1>2. Become(t, n) /\ Unclaim({d})
    BY DEF GiveBack, NextUnbind
  <1> HIDE DEF n
  <1>3. QED
    BY <1>1, <1>2, BecomeType, UnclaimType

LEMMA ReleaseType ==
  ASSUME TypeOK, NEW t \in Tasks, NEW x \in Targets, NEW h \in Nodes \cup {None}, NEW force \in BOOLEAN,
         Release(t, x, h, force)
  PROVE  /\ driver' \in [Devices -> DriverStates]
         /\ bindState' \in [Devices -> BindStates]
         /\ refresh' \in RefreshType
         /\ claims' \in [Devices -> ClaimType]
         /\ expired' \subseteq Devices
         /\ joins' \in [Devices -> SUBSET Nodes]
         /\ staleJoins' \subseteq Devices \X Nodes
         /\ tasks' \in [Tasks -> TaskType]
         /\ preparing' \subseteq Devices
  <1>1. CASE InBridge(x, h, force)
    <2>1. x \in Devices
      BY <1>1 DEF InBridge
    <2>2. Leave(x, IF h \in joins[x] THEN {h} ELSE joins[x])
      BY <1>1 DEF Release
    <2>3. UNCHANGED <<claims, expired, preparing, tasks>>
      BY <1>1 DEF Release
    <2>4. QED
      BY <2>1, <2>2, <2>3, LeaveType DEF TypeOK, ClaimType
  <1>2. CASE ~InBridge(x, h, force)
    <2> DEFINE k == StartUnbind(h, x, force, Marks(x), DevicesOf(x))
    <2>1. PICK d \in DevicesOf(x) :
            /\ GiveBack(t, k, d)
            /\ driver' = [driver EXCEPT ![d] = IF d \in NetDevs THEN "free" ELSE @]
      BY <1>2 DEF Release, StartUnbind
    <2>2. DevicesOf(x) \subseteq Devices /\ Marks(x) \subseteq Devices
      BY DevicesOfType DEF Marks
    <2>3. k \in TaskType
      BY <2>2, StartUnbindType
    <2> HIDE DEF k
    <2>4. /\ claims' \in [Devices -> ClaimType]
          /\ expired' \subseteq Devices
          /\ tasks' \in [Tasks -> TaskType]
      BY <2>1, <2>2, <2>3, GiveBackType
    <2>5. driver' \in [Devices -> DriverStates]
      BY <2>1, <2>2 DEF TypeOK, DriverStates
    <2>6. preparing' = preparing \cup Marks(x) /\ UNCHANGED <<bindState, refresh, joins, staleJoins>>
      BY <1>2 DEF Release
    <2>7. QED
      BY <2>2, <2>4, <2>5, <2>6 DEF TypeOK, BindStates, RefreshType
  <1>3. QED
    BY <1>1, <1>2

-----------------------------------------------------------------------------
\* What TypeOK leaves open: a join is a node's, to a card; the devices a claim has
\* still to go through, forward or back, are among those it has marked.
WellFormed ==
  \A t \in Tasks :
    /\ tasks[t].op = "join" => tasks[t].by \in Nodes /\ tasks[t].cur \in NetDevs
    /\ tasks[t].op \in {"bind", "rollback"} => tasks[t].todo \subseteq tasks[t].held

-----------------------------------------------------------------------------
(* Every action keeps the types. *)

LEMMA InitTypeOK == Init => TypeOK
  BY ConstantsOK DEF Init, TypeOK, NoClaim, NoReservation, NoRefresh, Idle, TaskType, Ops

LEMMA ClaimKeepsTypes ==
  ASSUME TypeOK, NEW t \in Tasks, NEW x \in Targets, NEW h \in Nodes, NEW force \in BOOLEAN,
         Claim(t, x, h, force)
  PROVE  TypeOK'
  <1> DEFINE S == DevicesOf(x)
  <1>1. S \subseteq Devices
    BY DevicesOfType
  <1>2. tasks' \in [Tasks -> TaskType] /\ preparing' \subseteq Devices
    <2> DEFINE k == StartBind(h, x, S)
    <2>1. k \in TaskType
      BY <1>1, StartBindType
    <2>2. Become(t, k) /\ preparing' = preparing \cup S
      BY DEF Claim, StartBind
    <2> HIDE DEF k
    <2>3. QED
      BY <1>1, <2>1, <2>2, BecomeType DEF TypeOK
  <1>3. UNCHANGED <<plugged, devices, shared, groups, requests>>
    BY DEF Claim, config
  <1>4. CASE force /\ h = Owner
    <2>1. Evict(S)
      BY <1>4 DEF Claim
    <2>2. claims' \in [Devices -> ClaimType] /\ expired' \subseteq Devices
      BY <2>1, UnclaimType DEF Evict
    <2>3. reservations' \in [Devices -> ReservationType]
      BY <2>1, UnreserveType DEF Evict
    <2>4. bindState' \in [Devices -> BindStates] /\ refresh' \in RefreshType
      BY <2>1, <1>1, SetBindStateType DEF Evict, BindStates
    <2>5. /\ joins' \in [Devices -> SUBSET Nodes]
          /\ staleJoins' \subseteq Devices \X Nodes
          /\ driver' \in [Devices -> DriverStates]
      BY <2>1 DEF Evict, TypeOK, DriverStates
    <2>6. QED
      BY <1>2, <1>3, <2>2, <2>3, <2>4, <2>5
      DEF TypeOK, BindStates, DriverStates, RefreshType, ClaimType, ReservationType
  <1>5. CASE ~(force /\ h = Owner)
    <2>1. UNCHANGED <<driver, bindState, claims, expired, joins, staleJoins, reservations, refresh>>
      BY <1>5 DEF Claim, leases
    <2>2. QED
      BY <1>2, <1>3, <2>1 DEF TypeOK
  <1>6. QED
    BY <1>4, <1>5

LEMMA BindOkKeepsTypes ==
  ASSUME TypeOK, NEW t \in Tasks, NEW d \in Devices, BindOk(t, d)
  PROVE  TypeOK'
  <1>1. /\ UNCHANGED <<plugged, devices, shared, groups, joins, staleJoins>>
        /\ driver' \in [Devices -> DriverStates]
    BY DEF BindOk, config, TypeOK, DriverStates
  <1>2. bindState' \in [Devices -> BindStates] /\ refresh' \in RefreshType
    BY SetBindStateType DEF BindOk, BindStates
  <1>3. CASE tasks[t].todo = {d}
    <2>1. Grant(t)
      BY <1>3 DEF BindOk
    <2>2. tasks' \in [Tasks -> TaskType] /\ preparing' \subseteq Devices
      BY <2>1, FinishType DEF Grant
    <2>3. reservations' \in [Devices -> ReservationType]
      BY <2>1, UnreserveType DEF Grant
    <2>4. claims' \in [Devices -> ClaimType]
      BY <2>1 DEF Grant, TypeOK, ClaimType, TaskType
    <2>5. expired' \subseteq Devices /\ requests' \subseteq Requests
      BY <2>1 DEF Grant, TypeOK
    <2>6. QED
      BY <1>1, <1>2, <2>2, <2>3, <2>4, <2>5
      DEF TypeOK, BindStates, DriverStates, RefreshType, ClaimType, ReservationType
  <1>4. CASE tasks[t].todo # {d}
    <2>1. /\ Become(t, Advance(tasks[t], d))
          /\ UNCHANGED <<claims, expired, preparing, reservations, requests>>
      BY <1>4 DEF BindOk, Advance
    <2>2. tasks' \in [Tasks -> TaskType]
      BY <2>1, BecomeType, AdvanceType, FallBackType DEF TypeOK
    <2>3. QED
      BY <1>1, <1>2, <2>1, <2>2
      DEF TypeOK, BindStates, DriverStates, RefreshType
  <1>5. QED
    BY <1>3, <1>4

LEMMA BindFailKeepsTypes ==
  ASSUME TypeOK, NEW t \in Tasks, NEW d \in Devices, BindFail(t, d)
  PROVE  TypeOK'
  <1>1. UNCHANGED <<plugged, driver, devices, shared, groups, claims, expired, joins, staleJoins,
                    reservations, requests>>
    BY DEF BindFail, config, leases
  <1>2. CASE tasks[t].held \ tasks[t].todo = {}
    <2>1. SetBindState({d}, "error") /\ Finish(t)
      BY <1>2 DEF BindFail
    <2>2. QED
      BY <1>1, <2>1, FinishType, SetBindStateType DEF TypeOK, BindStates, RefreshType
  <1>3. CASE tasks[t].held \ tasks[t].todo # {}
    <2>1. /\ Become(t, FallBack(tasks[t], d))
          /\ UNCHANGED <<bindState, preparing, refresh>>
      BY <1>3 DEF BindFail, FallBack
    <2>2. tasks' \in [Tasks -> TaskType]
      BY <2>1, BecomeType, AdvanceType, FallBackType DEF TypeOK
    <2>3. QED
      BY <1>1, <2>1, <2>2 DEF TypeOK
  <1>4. QED
    BY <1>2, <1>3

LEMMA RollbackKeepsTypes ==
  ASSUME TypeOK, NEW t \in Tasks, NEW d \in Devices, Rollback(t, d)
  PROVE  TypeOK'
  <1>1. /\ UNCHANGED <<plugged, devices, shared, groups, claims, expired, joins, staleJoins,
                       reservations, requests>>
        /\ driver' \in [Devices -> DriverStates]
    BY DEF Rollback, config, leases, TypeOK, DriverStates
  <1>2. CASE tasks[t].todo = {d}
    <2>1. Finish(t) /\ Touch({d, tasks[t].cur})
      BY <1>2 DEF Rollback
    <2>2. bindState' \in [Devices -> BindStates]
      BY <1>2 DEF Rollback, TypeOK, BindStates
    <2>3. QED
      BY <1>1, <2>1, <2>2, FinishType, TouchType DEF TypeOK, BindStates, DriverStates, RefreshType
  <1>3. CASE tasks[t].todo # {d}
    <2>1. /\ SetBindState({d}, "unbound")
          /\ Become(t, Advance(tasks[t], d))
          /\ UNCHANGED preparing
      BY <1>3 DEF Rollback, Advance
    <2>2. tasks' \in [Tasks -> TaskType]
      BY <2>1, BecomeType, AdvanceType, FallBackType DEF TypeOK
    <2>3. bindState' \in [Devices -> BindStates] /\ refresh' \in RefreshType
      BY <2>1, SetBindStateType DEF BindStates
    <2>4. QED
      BY <1>1, <2>1, <2>2, <2>3 DEF TypeOK, BindStates, DriverStates, RefreshType
  <1>4. QED
    BY <1>2, <1>3

LEMMA JoinKeepsTypes ==
  ASSUME TypeOK, NEW t \in Tasks, NEW d \in Devices, NEW h \in Nodes, Join(t, d, h)
  PROVE  TypeOK'
  <1> DEFINE k == StartJoin(h, d)
  <1>1. k \in TaskType
    BY StartJoinType
  <1>2. /\ Become(t, k)
        /\ UNCHANGED <<plugged, driver, devices, bindState, config, leases, preparing,
                       reservations, requests, refresh>>
    BY DEF Join, StartJoin
  <1> HIDE DEF k
  <1>3. tasks' \in [Tasks -> TaskType]
    BY <1>1, <1>2, BecomeType
  <1>4. QED
    BY <1>2, <1>3 DEF TypeOK, config, leases

LEMMA JoinOkKeepsTypes ==
  ASSUME TypeOK, WellFormed, NEW t \in Tasks, JoinOk(t)
  PROVE  TypeOK'
  <1> DEFINE d == tasks[t].cur
             h == tasks[t].by
  <1>1. d \in Devices /\ h \in Nodes
    BY ConstantsOK DEF JoinOk, WellFormed
  <1>2. /\ driver' = [driver EXCEPT ![d] = "bridge"]
        /\ joins' = [joins EXCEPT ![d] = @ \cup {h}]
        /\ staleJoins' = staleJoins \ {<<d, h>>}
        /\ SetBindState({d}, "bound") /\ Unreserve({d}) /\ Finish(t)
        /\ UNCHANGED <<plugged, devices, shared, groups, claims, expired, requests>>
    BY DEF JoinOk, config
  <1> HIDE DEF d, h
  <1>3. tasks' \in [Tasks -> TaskType] /\ preparing' \subseteq Devices
    BY <1>2, FinishType
  <1>4. reservations' \in [Devices -> ReservationType]
    BY <1>2, UnreserveType
  <1>5. bindState' \in [Devices -> BindStates] /\ refresh' \in RefreshType
    BY <1>2, SetBindStateType DEF BindStates
  <1>6. /\ driver' \in [Devices -> DriverStates]
        /\ joins' \in [Devices -> SUBSET Nodes]
        /\ staleJoins' \subseteq Devices \X Nodes
    BY <1>1, <1>2 DEF TypeOK, DriverStates
  <1>7. QED
    BY <1>2, <1>3, <1>4, <1>5, <1>6
    DEF TypeOK, BindStates, DriverStates, RefreshType, ReservationType

LEMMA JoinFailKeepsTypes ==
  ASSUME TypeOK, NEW t \in Tasks, JoinFail(t)
  PROVE  TypeOK'
  <1>1. /\ UNCHANGED <<plugged, driver, devices, shared, groups, claims, expired, joins,
                       staleJoins, reservations, requests>>
        /\ SetBindState({tasks[t].cur}, "error") /\ Finish(t)
    BY DEF JoinFail, config, leases
  <1>2. QED
    BY <1>1, FinishType, SetBindStateType DEF TypeOK, BindStates, RefreshType

\* The rest of a release's caller.
LEMMA ReleaseKeepsTypes ==
  ASSUME TypeOK, NEW t \in Tasks, NEW x \in Targets, NEW h \in Nodes \cup {None},
         NEW force \in BOOLEAN, Release(t, x, h, force),
         UNCHANGED <<plugged, devices, config>>,
         reservations' \in [Devices -> ReservationType],
         requests' \subseteq requests
  PROVE  TypeOK'
  <1>1. /\ driver' \in [Devices -> DriverStates]
        /\ bindState' \in [Devices -> BindStates]
        /\ refresh' \in RefreshType
        /\ claims' \in [Devices -> ClaimType]
        /\ expired' \subseteq Devices
        /\ joins' \in [Devices -> SUBSET Nodes]
        /\ staleJoins' \subseteq Devices \X Nodes
        /\ tasks' \in [Tasks -> TaskType]
        /\ preparing' \subseteq Devices
    BY ReleaseType
  <1>2. UNCHANGED <<plugged, devices, shared, groups>>
    BY DEF config
  <1>3. QED
    BY <1>1, <1>2
    DEF TypeOK, BindStates, DriverStates, RefreshType, ClaimType, ReservationType

LEMMA LeaseTargetType ==
  ASSUME TypeOK, NEW d \in Devices
  PROVE  LeaseTarget(d) \in Targets
  BY DEF TypeOK, LeaseTarget, Targets

LEMMA ReleasesKeepTypes ==
  ASSUME TypeOK, NEW t \in Tasks,
         \/ \E x \in Targets, h \in Nodes, force \in BOOLEAN : ReleaseBy(t, x, h, force)
         \/ \E d \in Devices : SweepClaim(t, d) \/ DataLost(t, d)
  PROVE  TypeOK'
  <1>1. reservations \in [Devices -> ReservationType]
    BY DEF TypeOK, ReservationType
  <1>2. CASE \E x \in Targets, h \in Nodes, force \in BOOLEAN : ReleaseBy(t, x, h, force)
    BY <1>1, <1>2, ReleaseKeepsTypes DEF ReleaseBy
  <1>3. ASSUME NEW d \in Devices, SweepClaim(t, d) \/ DataLost(t, d)
        PROVE  TypeOK'
    <2>1. claims[d].holder \in Nodes \cup {None} /\ LeaseTarget(d) \in Targets
      BY LeaseTargetType DEF TypeOK
    <2>2. /\ Release(t, LeaseTarget(d), claims[d].holder, TRUE)
          /\ UNCHANGED <<plugged, devices, config, reservations, requests>>
      BY <1>3 DEF SweepClaim, DataLost
    <2>3. QED
      BY <1>1, <2>1, <2>2, ReleaseKeepsTypes
  <1>4. QED
    BY <1>2, <1>3

LEMMA AcceptKeepsTypes ==
  ASSUME TypeOK, NEW t \in Tasks, NEW q \in requests, Accept(t, q)
  PROVE  TypeOK'
  <1>1. q.target \in Targets /\ q.holder \in Nodes /\ q.requester \in Nodes
    BY DEF TypeOK, Requests
  <1>2. requests' \subseteq requests /\ UNCHANGED <<plugged, devices, config>>
    BY DEF Accept
  <1>3. CASE Resolves(q.target)
    <2>1. reservations' \in [Devices -> ReservationType]
      <3>1. reservations' = [d \in Devices |->
              IF d \in DevicesOf(q.target)
              THEN [for |-> q.requester,
                    by |-> IF claims[d].holder = q.holder THEN q.holder ELSE None]
              ELSE reservations[d]]
        BY <1>3 DEF Accept
      <3>2. QED
        BY <1>1, <3>1 DEF TypeOK, ReservationType
    <2>2. CASE Release(t, q.target, q.holder, TRUE)
      BY <1>1, <1>2, <2>1, <2>2, ReleaseKeepsTypes
    <2>3. CASE ~Release(t, q.target, q.holder, TRUE)
      <3>1. UNCHANGED <<driver, bindState, leases, preparing, refresh, tasks>>
        BY <1>3, <2>3 DEF Accept
      <3>2. QED
        BY <1>2, <2>1, <3>1 DEF TypeOK, config, leases, ReservationType
    <2>4. QED
      BY <2>2, <2>3
  <1>4. CASE ~Resolves(q.target)
    <2>1. UNCHANGED <<driver, bindState, leases, preparing, reservations, refresh, tasks>>
      BY <1>4 DEF Accept
    <2>2. QED
      BY <1>2, <2>1 DEF TypeOK, config, leases
  <1>5. QED
    BY <1>3, <1>4

LEMMA UnboundKeepsTypes ==
  ASSUME TypeOK, NEW t \in Tasks, NEW ok \in BOOLEAN, Unbound(t, ok)
  PROVE  TypeOK'
  <1> DEFINE k == tasks[t]
             left == {e \in k.todo : Claimed(e)}
             s == IF ok THEN "unbound" ELSE "error"
  <1>1. k \in TaskType /\ k.todo \subseteq Devices
    BY DEF TypeOK, TaskType
  <1>2. /\ UNCHANGED <<plugged, devices, shared, groups, joins, staleJoins, reservations, requests>>
        /\ SetBindState({k.cur}, s)
    BY DEF Unbound, config
  <1>3. bindState' \in [Devices -> BindStates] /\ refresh' \in RefreshType
    BY <1>2, SetBindStateType DEF BindStates
  <1>4. driver' \in [Devices -> DriverStates]
    BY DEF Unbound, TypeOK, DriverStates
  <1>5. \/ Finish(t) /\ UNCHANGED <<claims, expired>>
        \/ \E e \in left : GiveBack(t, k, e) /\ UNCHANGED preparing
    BY DEF Unbound
  <1>6. CASE Finish(t) /\ UNCHANGED <<claims, expired>>
    BY <1>2, <1>3, <1>4, <1>6, FinishType DEF TypeOK, BindStates, DriverStates, RefreshType
  <1>7. CASE \E e \in left : GiveBack(t, k, e) /\ UNCHANGED preparing
    <2>1. PICK e \in left : GiveBack(t, k, e) /\ UNCHANGED preparing
      BY <1>7
    <2>2. e \in Devices
      BY <1>1
    <2> HIDE DEF k, left
    <2>3. /\ claims' \in [Devices -> ClaimType]
          /\ expired' \subseteq Devices
          /\ tasks' \in [Tasks -> TaskType]
      BY <1>1, <2>1, <2>2, GiveBackType
    <2>4. QED
      BY <1>2, <1>3, <1>4, <2>1, <2>3
      DEF TypeOK, BindStates, DriverStates, RefreshType, ClaimType
  <1>8. QED
    BY <1>5, <1>6, <1>7

LEMMA SweepJoinKeepsTypes ==
  ASSUME TypeOK, NEW d \in NetDevs, NEW h \in Nodes, SweepJoin(d, h)
  PROVE  TypeOK'
  <1>1. d \in Devices
    BY ConstantsOK
  <1>2. /\ Leave(d, {h})
        /\ UNCHANGED <<plugged, devices, shared, groups, claims, expired, preparing, reservations,
                       requests, tasks>>
    BY DEF SweepJoin, config
  <1>3. QED
    BY <1>1, <1>2, LeaveType DEF TypeOK, BindStates, DriverStates, RefreshType

LEMMA ClockKeepsTypes ==
  ASSUME TypeOK,
         \/ \E x \in Targets, h \in Nodes : Renew(x, h)
         \/ \E d \in Devices : LeaseRunsOut(d)
         \/ \E d \in NetDevs, h \in Nodes : JoinRunsOut(d, h)
         \/ \E d \in NetDevs : PathGivenUp(d)
         \/ \E d \in Devices : ReservationLapses(d)
         \/ \E x \in Targets, r \in Nodes : CreateRequest(x, r)
         \/ \E q \in requests : DropRequest(q)
  PROVE  TypeOK'
  <1>1. ASSUME NEW x \in Targets, NEW h \in Nodes, Renew(x, h)
        PROVE  TypeOK'
    BY <1>1 DEF Renew, TypeOK, config
  <1>2. ASSUME NEW d \in Devices, LeaseRunsOut(d)
        PROVE  TypeOK'
    BY <1>2 DEF LeaseRunsOut, TypeOK, config
  <1>3. ASSUME NEW d \in NetDevs, NEW h \in Nodes, JoinRunsOut(d, h)
        PROVE  TypeOK'
    BY <1>3, ConstantsOK DEF JoinRunsOut, TypeOK, config
  <1>4. ASSUME NEW d \in Devices, ReservationLapses(d)
        PROVE  TypeOK'
    BY <1>4, UnreserveType DEF ReservationLapses, TypeOK, config, leases, ReservationType
  <1>5. ASSUME NEW x \in Targets, NEW r \in Nodes, CreateRequest(x, r)
        PROVE  TypeOK'
    <2>1. PICK d \in DevicesOf(x) :
            /\ claims[d].holder \notin {None, r}
            /\ requests' = requests \cup
                 {[target |-> x, requester |-> r, holder |-> claims[d].holder]}
      BY <1>5 DEF CreateRequest
    <2>2. claims[d].holder \in Nodes
      BY <2>1, DevicesOfType DEF TypeOK
    <2>3. requests' \subseteq Requests
      BY <2>1, <2>2 DEF TypeOK, Requests
    <2>4. QED
      BY <1>5, <2>3 DEF CreateRequest, TypeOK, config, leases
  <1>6. ASSUME NEW q \in requests, DropRequest(q)
        PROVE  TypeOK'
    BY <1>6 DEF DropRequest, TypeOK, config, leases
  <1>7. ASSUME NEW d \in NetDevs, PathGivenUp(d)
        PROVE  TypeOK'
    BY <1>7 DEF PathGivenUp, TypeOK, config, leases
  <1>8. QED
    BY <1>1, <1>2, <1>3, <1>4, <1>5, <1>6, <1>7

LEMMA PollsKeepTypes ==
  ASSUME TypeOK, Polls
  PROVE  TypeOK'
  <1>1. ASSUME NEW d \in Devices, Plug(d)
        PROVE  TypeOK'
    BY <1>1 DEF Plug, TypeOK, config, leases
  <1>2. ASSUME RefreshStart
        PROVE  TypeOK'
    BY <1>2 DEF RefreshStart, TypeOK, config, leases
  <1>3. ASSUME RefreshEnd
        PROVE  TypeOK'
    <2>1. claims' \in [Devices -> ClaimType] /\ expired' \subseteq Devices
      BY <1>3, UnclaimType DEF RefreshEnd
    <2>2. reservations' \in [Devices -> ReservationType]
      BY <1>3, UnreserveType DEF RefreshEnd
    <2>3. bindState' \in [Devices -> BindStates]
      BY <1>3 DEF RefreshEnd, TypeOK, BindStates
    <2>4. /\ joins' \in [Devices -> SUBSET Nodes]
          /\ staleJoins' \subseteq Devices \X Nodes
          /\ driver' \in [Devices -> DriverStates]
          /\ devices' \subseteq Devices
      BY <1>3 DEF RefreshEnd, TypeOK, DriverStates
    <2>5. refresh' \in RefreshType
      BY <1>3 DEF RefreshEnd, NoRefresh, RefreshType
    <2>6. UNCHANGED <<plugged, shared, groups, preparing, requests, tasks>>
      BY <1>3 DEF RefreshEnd, config
    <2>7. QED
      BY <2>1, <2>2, <2>3, <2>4, <2>5, <2>6
      DEF TypeOK, BindStates, DriverStates, RefreshType, ClaimType, ReservationType
  <1>4. QED
    BY <1>1, <1>2, <1>3 DEF Polls

LEMMA UnsharedKeepsTypes ==
  ASSUME TypeOK, NEW t \in Tasks, NEW ok \in BOOLEAN, Unshared(t, ok)
  PROVE  TypeOK'
  <1>1. /\ UNCHANGED <<plugged, devices, shared, groups, claims, expired, joins, staleJoins,
                       reservations, requests>>
        /\ SetBindState({tasks[t].cur}, IF ok THEN "unbound" ELSE "error") /\ Finish(t)
        /\ driver' \in [Devices -> DriverStates]
    BY DEF Unshared, config, leases, TypeOK, DriverStates
  <1>2. QED
    BY <1>1, FinishType, SetBindStateType DEF TypeOK, BindStates, RefreshType, DriverStates

StartUnshare(d) == [Idle EXCEPT !.op = "unshare", !.cur = d]

LEMMA StartUnshareType ==
  ASSUME NEW d \in Devices
  PROVE  StartUnshare(d) \in TaskType /\ StartUnshare(d).op = "unshare" /\ StartUnshare(d).held = {}
  BY DEF StartUnshare, TaskType, Ops, Idle

LEMMA EditKeepsTypes ==
  ASSUME TypeOK, Edit
  PROVE  TypeOK'
  <1>1. ASSUME NEW d \in Devices, Share(d)
        PROVE  TypeOK'
    BY <1>1 DEF Share, TypeOK, leases
  <1>2. ASSUME NEW t \in Tasks, NEW d \in Devices, Unshare(t, d)
        PROVE  TypeOK'
    <2>1. /\ UNCHANGED <<plugged, devices, bindState, groups, leases, preparing, reservations,
                         requests, refresh>>
          /\ shared' \subseteq Devices
          /\ Become(t, StartUnshare(d)) \/ UNCHANGED tasks
          /\ driver' \in [Devices -> DriverStates]
      BY <1>2 DEF Unshare, TypeOK, DriverStates, StartUnshare
    <2>2. tasks' \in [Tasks -> TaskType]
      BY <2>1, StartUnshareType, BecomeType DEF TypeOK
    <2>3. QED
      BY <2>1, <2>2 DEF TypeOK, leases, DriverStates
  <1>3. ASSUME NEW g \in Groups, NEW on \in BOOLEAN, PublishGroup(g, on)
        PROVE  TypeOK'
    BY <1>3 DEF PublishGroup, TypeOK, leases
  <1>4. ASSUME NEW g \in Groups, NEW S \in SUBSET Devices, SaveGroup(g, S)
        PROVE  TypeOK'
    <2>1. groups' \in [Groups -> [members : SUBSET Devices, shared : BOOLEAN]]
      <3>1. (groups[g].members = {} \/ groups[g].shared) \in BOOLEAN
        OBVIOUS
      <3>2. QED
        BY <1>4, <3>1 DEF SaveGroup, TypeOK
    <2>2. QED
      BY <1>4, <2>1 DEF SaveGroup, TypeOK, leases
  <1>5. ASSUME NEW g \in Groups, DeleteGroup(g)
        PROVE  TypeOK'
    BY <1>5 DEF DeleteGroup, TypeOK, leases
  <1>6. QED
    BY <1>1, <1>2, <1>3, <1>4, <1>5 DEF Edit

LEMMA NextKeepsTypes ==
  ASSUME TypeOK, WellFormed, [Next]_vars
  PROVE  TypeOK'
  <1>1. ASSUME NEW t \in Tasks, DriverAnswers(t)
        PROVE  TypeOK'
    <2>1. Outcomes \subseteq BOOLEAN
      BY DEF Outcomes
    <2>2. QED
      BY <1>1, <2>1, BindOkKeepsTypes, BindFailKeepsTypes, RollbackKeepsTypes, JoinOkKeepsTypes,
         JoinFailKeepsTypes, UnboundKeepsTypes, UnsharedKeepsTypes
      DEF DriverAnswers
  <1>2. ASSUME NEW t \in Tasks, Calls(t)
        PROVE  TypeOK'
    <2>1. CASE \E x \in Targets, h \in Nodes, force \in BOOLEAN : Claim(t, x, h, force)
      BY <2>1, ClaimKeepsTypes
    <2>2. CASE \E d \in NetDevs, h \in Nodes : Join(t, d, h)
      BY <2>2, ConstantsOK, JoinKeepsTypes
    <2>3. CASE \E x \in Targets, h \in Nodes, force \in BOOLEAN : ReleaseBy(t, x, h, force)
      BY <2>3, ReleasesKeepTypes
    <2>4. CASE \E q \in requests : Accept(t, q)
      BY <2>4, AcceptKeepsTypes
    <2>5. Owner \in Nodes
      BY ConstantsOK
    <2>6. QED
      BY <1>2, <2>1, <2>2, <2>3, <2>4, <2>5 DEF Calls
  <1>3. ASSUME Polls
        PROVE  TypeOK'
    BY <1>3, PollsKeepTypes
  <1>4. ASSUME Clock
        PROVE  TypeOK'
    BY <1>4, ClockKeepsTypes, ReleasesKeepTypes, SweepJoinKeepsTypes DEF Clock
  <1>5. ASSUME Edit
        PROVE  TypeOK'
    BY <1>5, EditKeepsTypes
  <1>6. CASE UNCHANGED vars
    BY <1>6 DEF vars, config, leases, TypeOK
  <1>7. QED
    BY <1>1, <1>2, <1>3, <1>4, <1>5, <1>6 DEF Next

-----------------------------------------------------------------------------
(***************************************************************************)
(* preparing is a lock, and a claim has no rival.  Every action but the    *)
(* grant of a claim does one of four things to the handlers and the marks: *)
(* nothing; it ends a handler and takes its marks off; it moves a handler  *)
(* on with the marks it has; it starts a handler that marks what nobody    *)
(* has marked.  And all of them but the grant can only end claims.         *)
(***************************************************************************)

TaskInv == WellFormed /\ PreparingIsALock /\ NoRivalOfAClaim

ClaimsOnlyEnd == \A d \in Devices : claims'[d].holder \in {None, claims[d].holder}

\* k is a task that may stand in the table.
Formed(k) ==
  /\ k.op = "join" => k.by \in Nodes /\ k.cur \in NetDevs
  /\ k.op \in {"bind", "rollback"} => k.todo \subseteq k.held

LEMMA UnclaimOnlyEnds ==
  ASSUME NEW S, Unclaim(S)
  PROVE  ClaimsOnlyEnd
  BY DEF Unclaim, ClaimsOnlyEnd, NoClaim

LEMMA TasksUntouched ==
  ASSUME TypeOK, TaskInv, UNCHANGED <<tasks, preparing>>, ClaimsOnlyEnd
  PROVE  TaskInv'
  BY DEF TypeOK, TaskType, TaskInv, WellFormed, PreparingIsALock, NoRivalOfAClaim, ClaimsOnlyEnd

LEMMA TaskEnds ==
  ASSUME TypeOK, TaskInv, NEW t \in Tasks, Finish(t),
         \A d \in Devices, u \in Tasks \ {t} :
           tasks[u].op \in {"bind", "rollback"} /\ d \in tasks[u].held =>
             claims'[d].holder \in {None, claims[d].holder}
  PROVE  TaskInv'
  <1>1. /\ tasks'[t] = Idle /\ Idle.held = {} /\ Idle.op = "idle"
        /\ \A u \in Tasks \ {t} : tasks'[u] = tasks[u]
        /\ preparing' = preparing \ tasks[t].held
    BY FinishType, IdleType
  <1>2. WellFormed'
    BY <1>1 DEF TaskInv, WellFormed
  <1>3. PreparingIsALock'
    BY <1>1 DEF TaskInv, PreparingIsALock
  <1>4. NoRivalOfAClaim'
    <2> SUFFICES ASSUME NEW u \in Tasks, (tasks[u].op \in {"bind", "rollback"})',
                        NEW d \in (tasks[u].held)'
                 PROVE  (claims[d].holder \in {None, tasks[u].by})'
      BY DEF NoRivalOfAClaim
    <2>1. u # t /\ tasks'[u] = tasks[u]
      BY <1>1
    <2>2. d \in Devices /\ claims[d].holder \in {None, tasks[u].by}
      BY <2>1 DEF TaskInv, NoRivalOfAClaim, TypeOK, TaskType
    <2>3. QED
      BY <2>1, <2>2
  <1>5. QED
    BY <1>2, <1>3, <1>4 DEF TaskInv

LEMMA TaskGoesOn ==
  ASSUME TypeOK, TaskInv, NEW t \in Tasks, NEW k \in TaskType,
         tasks'[t] = k, \A u \in Tasks \ {t} : tasks'[u] = tasks[u],
         UNCHANGED preparing, ClaimsOnlyEnd, Formed(k), k.held = tasks[t].held,
         k.op \in {"bind", "rollback"} =>
           tasks[t].op \in {"bind", "rollback"} /\ k.by = tasks[t].by
  PROVE  TaskInv'
  <1>1. WellFormed'
    BY DEF TaskInv, WellFormed, Formed
  <1>2. PreparingIsALock'
    BY DEF TaskInv, PreparingIsALock
  <1>3. NoRivalOfAClaim'
    <2> SUFFICES ASSUME NEW u \in Tasks, (tasks[u].op \in {"bind", "rollback"})',
                        NEW d \in (tasks[u].held)'
                 PROVE  (claims[d].holder \in {None, tasks[u].by})'
      BY DEF NoRivalOfAClaim
    <2>1. /\ tasks[u].op \in {"bind", "rollback"}
          /\ tasks'[u].by = tasks[u].by /\ tasks'[u].held = tasks[u].held
      BY DEF TypeOK
    <2>2. d \in Devices /\ claims[d].holder \in {None, tasks[u].by}
      BY <2>1 DEF TaskInv, NoRivalOfAClaim, TypeOK, TaskType
    <2>3. QED
      BY <2>1, <2>2 DEF ClaimsOnlyEnd
  <1>4. QED
    BY <1>1, <1>2, <1>3 DEF TaskInv

LEMMA TaskStarts ==
  ASSUME TypeOK, TaskInv, NEW t \in Tasks, tasks[t] = Idle, NEW k \in TaskType,
         tasks'[t] = k, \A u \in Tasks \ {t} : tasks'[u] = tasks[u],
         preparing' = preparing \cup k.held, k.held \cap preparing = {},
         ClaimsOnlyEnd, Formed(k),
         k.op \in {"bind", "rollback"} => \A d \in k.held : claims'[d].holder \in {None, k.by}
  PROVE  TaskInv'
  <1>1. WellFormed'
    BY DEF TaskInv, WellFormed, Formed
  <1>2. PreparingIsALock'
    <2>1. tasks[t].held = {}
      BY IdleType
    <2>2. \A u \in Tasks : tasks[u].held \subseteq preparing
      BY DEF TaskInv, PreparingIsALock, TypeOK, TaskType
    <2>3. \A u, v \in Tasks : u # v => tasks'[u].held \cap tasks'[v].held = {}
      BY <2>2 DEF TaskInv, PreparingIsALock
    <2>4. \A d \in Devices : d \in preparing' <=> \E u \in Tasks : d \in tasks'[u].held
      BY <2>1, <2>2 DEF TaskInv, PreparingIsALock
    <2>5. QED
      BY <2>3, <2>4 DEF PreparingIsALock
  <1>3. NoRivalOfAClaim'
    <2> SUFFICES ASSUME NEW u \in Tasks, (tasks[u].op \in {"bind", "rollback"})',
                        NEW d \in (tasks[u].held)'
                 PROVE  (claims[d].holder \in {None, tasks[u].by})'
      BY DEF NoRivalOfAClaim
    <2>1. CASE u = t
      BY <2>1
    <2>2. CASE u # t
      <3>1. d \in Devices /\ claims[d].holder \in {None, tasks[u].by}
        BY <2>2 DEF TaskInv, NoRivalOfAClaim, TypeOK, TaskType
      <3>2. QED
        BY <2>2, <3>1 DEF ClaimsOnlyEnd
    <2>3. QED
      BY <2>1, <2>2
  <1>4. QED
    BY <1>1, <1>2, <1>3 DEF TaskInv

\* What TaskInv says of the task a handler goes on with.
LEMMA FormedTask ==
  ASSUME TypeOK, TaskInv, NEW t \in Tasks
  PROVE  Formed(tasks[t]) /\ tasks[t] \in TaskType /\ tasks[t].held \subseteq Devices
  BY DEF TypeOK, TaskInv, WellFormed, Formed, TaskType

LEMMA ClaimTasks ==
  ASSUME TypeOK, TaskInv, NEW t \in Tasks, NEW x \in Targets, NEW h \in Nodes,
         NEW force \in BOOLEAN, Claim(t, x, h, force)
  PROVE  TaskInv' /\ ClaimsOnlyEnd
  <1> DEFINE S == DevicesOf(x)
             k == StartBind(h, x, S)
  <1>1. S \subseteq Devices
    BY DevicesOfType
  <1>2. k \in TaskType /\ k.op = "bind" /\ k.by = h /\ k.held = S /\ k.todo = S
    BY <1>1, StartBindType
  <1>3. Become(t, k)
    BY DEF Claim, StartBind
  <1>4. /\ tasks[t] = Idle
        /\ preparing' = preparing \cup S
        /\ S \cap preparing = {}
    BY DEF Claim, Unmarked
  <1>5. ClaimsOnlyEnd /\ \A d \in S : claims'[d].holder \in {None, h}
    <2>1. CASE force /\ h = Owner
      <3>1. Unclaim({d \in S : claims[d].holder \notin {None, Owner}})
        BY <2>1 DEF Claim, Evict
      <3>2. QED
        BY <1>1, <2>1, <3>1 DEF Unclaim, ClaimsOnlyEnd, NoClaim
    <2>2. CASE ~(force /\ h = Owner)
      BY <2>2 DEF Claim, FreeFor, leases, ClaimsOnlyEnd
    <2>3. QED
      BY <2>1, <2>2
  <1>6. Formed(k)
    BY <1>2 DEF Formed
  <1> HIDE DEF k
  <1>7. tasks'[t] = k /\ \A u \in Tasks \ {t} : tasks'[u] = tasks[u]
    BY <1>2, <1>3, BecomeType
  <1>8. TaskInv'
    BY <1>2, <1>4, <1>5, <1>6, <1>7, TaskStarts
  <1>9. QED
    BY <1>5, <1>8

\* The grant is the one step that gives a device to somebody: to the one who has
\* marked it, and who alone may hold it already.
LEMMA GrantTasks ==
  ASSUME TypeOK, TaskInv, NEW t \in Tasks, tasks[t].op = "bind", Grant(t)
  PROVE  /\ TaskInv'
         /\ \A d \in Devices :
              Claimed(d) /\ Claimed(d)' => claims'[d].holder = claims[d].holder
  <1>1. \A d \in Devices :
          claims'[d] = IF d \in tasks[t].held
                       THEN [holder |-> tasks[t].by,
                             group |-> IF tasks[t].target \in Groups THEN tasks[t].target ELSE None]
                       ELSE claims[d]
    BY DEF Grant
  <1>2. \A d \in Devices : d \in tasks[t].held => claims'[d].holder = tasks[t].by
    BY <1>1
  <1>3. \A d \in Devices : d \notin tasks[t].held => claims'[d] = claims[d]
    BY <1>1
  <1>4. \A d \in tasks[t].held : claims[d].holder \in {None, tasks[t].by}
    BY DEF TaskInv, NoRivalOfAClaim
  <1>5. \A u \in Tasks \ {t} : tasks[u].held \cap tasks[t].held = {}
    BY DEF TaskInv, PreparingIsALock
  <1>6. TaskInv'
    BY <1>3, <1>5, TaskEnds DEF Grant
  <1>7. QED
    BY <1>2, <1>3, <1>4, <1>6 DEF Claimed

LEMMA BindOkTasks ==
  ASSUME TypeOK, TaskInv, NEW t \in Tasks, NEW d \in Devices, BindOk(t, d)
  PROVE  TaskInv' /\ (Grant(t) \/ ClaimsOnlyEnd)
  <1>1. tasks[t].op = "bind"
    BY DEF BindOk
  <1>2. CASE Grant(t)
    BY <1>1, <1>2, GrantTasks
  <1>3. CASE ~Grant(t)
    <2> DEFINE k == Advance(tasks[t], d)
    <2>1. Become(t, k) /\ UNCHANGED <<claims, preparing>>
      BY <1>3 DEF BindOk, Advance
    <2>2. /\ k \in TaskType /\ k.op = "bind" /\ k.by = tasks[t].by
          /\ k.held = tasks[t].held /\ k.todo = tasks[t].todo \ {d}
      BY <1>1, FormedTask, AdvanceType
    <2>3. Formed(k)
      BY <1>1, <2>2, FormedTask DEF Formed
    <2> HIDE DEF k
    <2>4. tasks'[t] = k /\ \A u \in Tasks \ {t} : tasks'[u] = tasks[u]
      BY <2>1, <2>2, BecomeType
    <2>5. ClaimsOnlyEnd
      BY <2>1 DEF ClaimsOnlyEnd
    <2>6. QED
      BY <1>1, <2>1, <2>2, <2>3, <2>4, <2>5, TaskGoesOn
  <1>4. QED
    BY <1>2, <1>3

LEMMA BindFailTasks ==
  ASSUME TypeOK, TaskInv, NEW t \in Tasks, NEW d \in Devices, BindFail(t, d)
  PROVE  TaskInv' /\ ClaimsOnlyEnd
  <1>1. tasks[t].op = "bind" /\ UNCHANGED claims
    BY DEF BindFail, leases
  <1>2. ClaimsOnlyEnd
    BY <1>1 DEF ClaimsOnlyEnd
  <1>3. CASE tasks[t].held \ tasks[t].todo = {}
    BY <1>1, <1>3, TaskEnds, <1>2 DEF BindFail, ClaimsOnlyEnd
  <1>4. CASE tasks[t].held \ tasks[t].todo # {}
    <2> DEFINE k == FallBack(tasks[t], d)
    <2>1. Become(t, k) /\ UNCHANGED preparing
      BY <1>4 DEF BindFail, FallBack
    <2>2. /\ k \in TaskType /\ k.op = "rollback" /\ k.by = tasks[t].by
          /\ k.held = tasks[t].held /\ k.todo = tasks[t].held \ tasks[t].todo
      BY FormedTask, FallBackType
    <2>3. Formed(k)
      BY <2>2 DEF Formed
    <2> HIDE DEF k
    <2>4. tasks'[t] = k /\ \A u \in Tasks \ {t} : tasks'[u] = tasks[u]
      BY <2>1, <2>2, BecomeType
    <2>5. QED
      BY <1>1, <1>2, <2>1, <2>2, <2>3, <2>4, TaskGoesOn
  <1>5. QED
    BY <1>2, <1>3, <1>4

LEMMA RollbackTasks ==
  ASSUME TypeOK, TaskInv, NEW t \in Tasks, NEW d \in Devices, Rollback(t, d)
  PROVE  TaskInv' /\ ClaimsOnlyEnd
  <1>1. tasks[t].op = "rollback" /\ UNCHANGED claims
    BY DEF Rollback, leases
  <1>2. ClaimsOnlyEnd
    BY <1>1 DEF ClaimsOnlyEnd
  <1>3. CASE tasks[t].todo = {d}
    BY <1>1, <1>2, <1>3, TaskEnds DEF Rollback, ClaimsOnlyEnd
  <1>4. CASE tasks[t].todo # {d}
    <2> DEFINE k == Advance(tasks[t], d)
    <2>1. Become(t, k) /\ UNCHANGED preparing
      BY <1>4 DEF Rollback, Advance
    <2>2. /\ k \in TaskType /\ k.op = "rollback" /\ k.by = tasks[t].by
          /\ k.held = tasks[t].held /\ k.todo = tasks[t].todo \ {d}
      BY <1>1, FormedTask, AdvanceType
    <2>3. Formed(k)
      BY <1>1, <2>2, FormedTask DEF Formed
    <2> HIDE DEF k
    <2>4. tasks'[t] = k /\ \A u \in Tasks \ {t} : tasks'[u] = tasks[u]
      BY <2>1, <2>2, BecomeType
    <2>5. QED
      BY <1>1, <1>2, <2>1, <2>2, <2>3, <2>4, TaskGoesOn
  <1>5. QED
    BY <1>2, <1>3, <1>4

LEMMA JoinTasks ==
  ASSUME TypeOK, TaskInv, NEW t \in Tasks, NEW d \in NetDevs, NEW h \in Nodes, Join(t, d, h)
  PROVE  TaskInv' /\ ClaimsOnlyEnd
  <1> DEFINE k == StartJoin(h, d)
  <1>1. k \in TaskType /\ k.op = "join" /\ k.by = h /\ k.cur = d /\ k.held = {}
    BY ConstantsOK, StartJoinType
  <1>2. Become(t, k) /\ tasks[t] = Idle /\ UNCHANGED <<claims, preparing>>
    BY DEF Join, StartJoin, leases
  <1>3. Formed(k)
    BY <1>1 DEF Formed
  <1> HIDE DEF k
  <1>4. tasks'[t] = k /\ \A u \in Tasks \ {t} : tasks'[u] = tasks[u]
    BY <1>1, <1>2, BecomeType
  <1>5. ClaimsOnlyEnd
    BY <1>2 DEF ClaimsOnlyEnd
  <1>6. QED
    BY <1>1, <1>2, <1>3, <1>4, <1>5, TaskStarts

\* Handlers that end without touching a claim.
LEMMA LastStepTasks ==
  ASSUME TypeOK, TaskInv, NEW t \in Tasks,
         JoinOk(t) \/ JoinFail(t) \/ \E ok \in Outcomes : Unshared(t, ok)
  PROVE  TaskInv' /\ ClaimsOnlyEnd
  <1>1. Finish(t) /\ UNCHANGED claims
    BY DEF JoinOk, JoinFail, Unshared, leases
  <1>2. ClaimsOnlyEnd
    BY <1>1 DEF ClaimsOnlyEnd
  <1>3. QED
    BY <1>1, <1>2, TaskEnds DEF ClaimsOnlyEnd

LEMMA ReleaseTasks ==
  ASSUME TypeOK, TaskInv, NEW t \in Tasks, NEW x \in Targets, NEW h \in Nodes \cup {None},
         NEW force \in BOOLEAN, Release(t, x, h, force)
  PROVE  TaskInv' /\ ClaimsOnlyEnd
  <1>1. CASE InBridge(x, h, force)
    <2>1. UNCHANGED <<claims, preparing, tasks>>
      BY <1>1 DEF Release
    <2>2. ClaimsOnlyEnd
      BY <2>1 DEF ClaimsOnlyEnd
    <2>3. QED
      BY <2>1, <2>2, TasksUntouched
  <1>2. CASE ~InBridge(x, h, force)
    <2> DEFINE k == StartUnbind(h, x, force, Marks(x), DevicesOf(x))
    <2>1. PICK d \in DevicesOf(x) : GiveBack(t, k, d)
      BY <1>2 DEF Release, StartUnbind
    <2>2. DevicesOf(x) \subseteq Devices /\ Marks(x) \subseteq Devices
      BY DevicesOfType DEF Marks
    <2>3. k \in TaskType /\ k.op = "unbind" /\ k.held = Marks(x)
      BY <2>2, StartUnbindType
    <2>4. /\ tasks[t] = Idle
          /\ preparing' = preparing \cup Marks(x)
          /\ Marks(x) \cap preparing = {}
      BY <1>2 DEF Release, Marks
    <2> HIDE DEF k
    <2>5. /\ tasks' \in [Tasks -> TaskType]
          /\ tasks'[t].op = "unbind" /\ tasks'[t].held = Marks(x)
          /\ \A u \in Tasks \ {t} : tasks'[u] = tasks[u]
      BY <2>1, <2>2, <2>3, GiveBackType
    <2>6. ClaimsOnlyEnd
      BY <2>1, UnclaimOnlyEnds DEF GiveBack
    <2>7. Formed(tasks'[t])
      BY <2>5 DEF Formed
    <2>8. tasks'[t] \in TaskType
      BY <2>5
    <2> DEFINE n == tasks'[t]
    <2> HIDE DEF n
    <2>9. /\ n \in TaskType /\ tasks'[t] = n /\ Formed(n)
          /\ n.op = "unbind" /\ n.held = Marks(x)
      BY <2>5, <2>7, <2>8 DEF n
    <2>10. QED
      BY <2>4, <2>5, <2>6, <2>9, TaskStarts
  <1>3. QED
    BY <1>1, <1>2

LEMMA AcceptTasks ==
  ASSUME TypeOK, TaskInv, NEW t \in Tasks, NEW q \in requests, Accept(t, q)
  PROVE  TaskInv' /\ ClaimsOnlyEnd
  <1>1. q.target \in Targets /\ q.holder \in Nodes
    BY DEF TypeOK, Requests
  <1>2. CASE Release(t, q.target, q.holder, TRUE)
    BY <1>1, <1>2, ReleaseTasks
  <1>3. CASE ~Release(t, q.target, q.holder, TRUE)
    <2>1. UNCHANGED <<leases, preparing, tasks>>
      BY <1>3 DEF Accept
    <2>2. ClaimsOnlyEnd
      BY <2>1 DEF ClaimsOnlyEnd, leases
    <2>3. QED
      BY <2>1, <2>2, TasksUntouched
  <1>4. QED
    BY <1>2, <1>3

LEMMA UnboundTasks ==
  ASSUME TypeOK, TaskInv, NEW t \in Tasks, NEW ok \in Outcomes, Unbound(t, ok)
  PROVE  TaskInv' /\ ClaimsOnlyEnd
  <1> DEFINE k == tasks[t]
  <1>1. k \in TaskType /\ k.op = "unbind" /\ k.todo \subseteq Devices
    BY DEF Unbound, TypeOK, TaskType
  <1>2. \/ Finish(t) /\ UNCHANGED claims
        \/ \E e \in k.todo : GiveBack(t, k, e) /\ UNCHANGED preparing
    BY DEF Unbound
  <1>3. CASE Finish(t) /\ UNCHANGED claims
    <2>1. ClaimsOnlyEnd
      BY <1>3 DEF ClaimsOnlyEnd
    <2>2. QED
      BY <1>3, <2>1, TaskEnds DEF ClaimsOnlyEnd
  <1>4. CASE \E e \in k.todo : GiveBack(t, k, e) /\ UNCHANGED preparing
    <2>1. PICK e \in k.todo : GiveBack(t, k, e) /\ UNCHANGED preparing
      BY <1>4
    <2>2. e \in Devices
      BY <1>1
    <2>3. ClaimsOnlyEnd
      BY <2>1, UnclaimOnlyEnds DEF GiveBack
    <2> DEFINE n == tasks'[t]
    <2> HIDE DEF k
    <2>4. /\ n \in TaskType /\ n.op = "unbind" /\ n.held = k.held
          /\ \A u \in Tasks \ {t} : tasks'[u] = tasks[u]
      BY <1>1, <2>1, <2>2, GiveBackType
    <2>5. Formed(n) /\ tasks'[t] = n /\ k.held = tasks[t].held
      BY <2>4 DEF Formed, k
    <2> HIDE DEF n
    <2>6. QED
      BY <2>1, <2>3, <2>4, <2>5, TaskGoesOn
  <1>5. QED
    BY <1>2, <1>3, <1>4

LEMMA UnshareTasks ==
  ASSUME TypeOK, TaskInv, NEW t \in Tasks, NEW d \in Devices, Unshare(t, d)
  PROVE  TaskInv' /\ ClaimsOnlyEnd
  <1>1. UNCHANGED <<claims, preparing>>
    BY DEF Unshare, leases
  <1>2. ClaimsOnlyEnd
    BY <1>1 DEF ClaimsOnlyEnd
  <1>3. CASE UNCHANGED tasks
    BY <1>1, <1>2, <1>3, TasksUntouched
  <1>4. CASE ~UNCHANGED tasks
    <2> DEFINE k == StartUnshare(d)
    <2>1. Become(t, k) /\ tasks[t] = Idle
      BY <1>4 DEF Unshare, StartUnshare
    <2>2. k \in TaskType /\ k.op = "unshare" /\ k.held = {} /\ Formed(k)
      BY StartUnshareType DEF Formed
    <2> HIDE DEF k
    <2>3. tasks'[t] = k /\ \A u \in Tasks \ {t} : tasks'[u] = tasks[u]
      BY <2>1, <2>2, BecomeType
    <2>4. QED
      BY <1>1, <1>2, <2>1, <2>2, <2>3, TaskStarts
  <1>5. QED
    BY <1>3, <1>4

\* Actions that start and end no handler.
LEMMA QuietTasks ==
  ASSUME TypeOK, TaskInv,
         \/ Polls
         \/ \E x \in Targets, h \in Nodes : Renew(x, h)
         \/ \E d \in Devices : LeaseRunsOut(d)
         \/ \E d \in NetDevs, h \in Nodes : JoinRunsOut(d, h) \/ SweepJoin(d, h)
         \/ \E d \in NetDevs : PathGivenUp(d)
         \/ \E d \in Devices : ReservationLapses(d)
         \/ \E x \in Targets, r \in Nodes : CreateRequest(x, r)
         \/ \E q \in requests : DropRequest(q)
         \/ \E d \in Devices : Share(d)
         \/ \E g \in Groups, on \in BOOLEAN : PublishGroup(g, on)
         \/ \E g \in Groups, S \in SUBSET Devices : SaveGroup(g, S)
         \/ \E g \in Groups : DeleteGroup(g)
         \/ UNCHANGED vars
  PROVE  TaskInv' /\ ClaimsOnlyEnd
  <1>1. UNCHANGED <<tasks, preparing>>
    BY DEF Polls, Plug, RefreshStart, RefreshEnd, Renew, LeaseRunsOut, JoinRunsOut, SweepJoin, PathGivenUp,
           ReservationLapses, CreateRequest, DropRequest, Share, PublishGroup, SaveGroup,
           DeleteGroup, vars
  <1>2. ClaimsOnlyEnd
    <2>1. CASE RefreshEnd
      BY <2>1, UnclaimOnlyEnds DEF RefreshEnd
    <2>2. CASE ~RefreshEnd
      <3>1. UNCHANGED claims
        BY <2>2 DEF Polls, Plug, RefreshStart, Renew, LeaseRunsOut, JoinRunsOut, SweepJoin, PathGivenUp,
             ReservationLapses, CreateRequest, DropRequest, Share, PublishGroup, SaveGroup,
             DeleteGroup, vars, leases
      <3>2. QED
        BY <3>1 DEF ClaimsOnlyEnd
    <2>3. QED
      BY <2>1, <2>2
  <1>3. QED
    BY <1>1, <1>2, TasksUntouched

LEMMA NextTasks ==
  ASSUME TypeOK, TaskInv, [Next]_vars
  PROVE  TaskInv' /\ (ClaimsOnlyEnd \/ \E t \in Tasks : tasks[t].op = "bind" /\ Grant(t))
  <1>1. ASSUME NEW t \in Tasks, DriverAnswers(t)
        PROVE  TaskInv' /\ (ClaimsOnlyEnd \/ (tasks[t].op = "bind" /\ Grant(t)))
    <2>1. ASSUME NEW d \in Devices, BindOk(t, d)
          PROVE  TaskInv' /\ (ClaimsOnlyEnd \/ (tasks[t].op = "bind" /\ Grant(t)))
      <3>1. tasks[t].op = "bind"
        BY <2>1 DEF BindOk
      <3>2. QED
        BY <2>1, <3>1, BindOkTasks
    <2>2. QED
      BY <1>1, <2>1, BindFailTasks, RollbackTasks, LastStepTasks, UnboundTasks DEF DriverAnswers
  <1>2. ASSUME NEW t \in Tasks, Calls(t)
        PROVE  TaskInv' /\ ClaimsOnlyEnd
    <2>1. CASE \E x \in Targets, h \in Nodes, force \in BOOLEAN : Claim(t, x, h, force)
      BY <2>1, ClaimTasks
    <2>2. CASE \E d \in NetDevs, h \in Nodes : Join(t, d, h)
      BY <2>2, JoinTasks
    <2>3. CASE \E x \in Targets, h \in Nodes, force \in BOOLEAN : ReleaseBy(t, x, h, force)
      BY <2>3, ReleaseTasks DEF ReleaseBy
    <2>4. CASE \E q \in requests : Accept(t, q)
      BY <2>4, AcceptTasks
    <2>5. Owner \in Nodes
      BY ConstantsOK
    <2>6. QED
      BY <1>2, <2>1, <2>2, <2>3, <2>4, <2>5 DEF Calls
  <1>3. ASSUME NEW t \in Tasks, NEW d \in Devices, SweepClaim(t, d) \/ DataLost(t, d)
        PROVE  TaskInv' /\ ClaimsOnlyEnd
    <2>1. claims[d].holder \in Nodes \cup {None} /\ LeaseTarget(d) \in Targets
      BY LeaseTargetType DEF TypeOK
    <2>2. Release(t, LeaseTarget(d), claims[d].holder, TRUE)
      BY <1>3 DEF SweepClaim, DataLost
    <2>3. QED
      BY <2>1, <2>2, ReleaseTasks
  <1>4. ASSUME Clock
        PROVE  TaskInv' /\ ClaimsOnlyEnd
    BY <1>3, <1>4, QuietTasks DEF Clock
  <1>5. ASSUME Edit
        PROVE  TaskInv' /\ ClaimsOnlyEnd
    BY <1>5, QuietTasks, UnshareTasks DEF Edit
  <1>6. ASSUME Polls \/ UNCHANGED vars
        PROVE  TaskInv' /\ ClaimsOnlyEnd
    BY <1>6, QuietTasks
  <1>7. QED
    BY <1>1, <1>2, <1>4, <1>5, <1>6 DEF Next

LEMMA InitTasks == Init => TaskInv
  BY IdleType DEF Init, TaskInv, WellFormed, PreparingIsALock, NoRivalOfAClaim

-----------------------------------------------------------------------------
(* The results. *)

\* The inductive invariant.  TypeOK alone is not inductive (a join must be a node's),
\* nor is NoRivalOfAClaim without the lock: it is the marks that keep two claims of
\* one device from being granted one after the other.
THEOREM Inductive == Spec => [](TypeOK /\ TaskInv)
  <1>1. Init => TypeOK /\ TaskInv
    BY InitTypeOK, InitTasks
  <1>2. TypeOK /\ TaskInv /\ [Next]_vars => (TypeOK /\ TaskInv)'
    BY NextKeepsTypes, NextTasks DEF TaskInv
  <1>3. QED
    BY <1>1, <1>2, PTL DEF Spec

\* The table of the owner always has the types the code gives it.
THEOREM TypeCorrect == Spec => []TypeOK
  BY Inductive, PTL

\* Every mark in preparing belongs to exactly one handler that is waiting for the
\* driver (claim, lines 347-363; release, lines 657-677).
THEOREM PreparingCorrect == Spec => []PreparingIsALock
  <1>1. TypeOK /\ TaskInv => PreparingIsALock
    BY DEF TaskInv
  <1>2. QED
    BY <1>1, Inductive, PTL

\* The check of _claim (lines 376-413) still holds when the claim is granted, after
\* every device was awaited.
THEOREM NoRivals == Spec => []NoRivalOfAClaim
  <1>1. TypeOK /\ TaskInv => NoRivalOfAClaim
    BY DEF TaskInv
  <1>2. QED
    BY <1>1, Inductive, PTL

\* Nobody's lease is overwritten by another's: a device changes hands only through
\* being free.
THEOREM NoOverwrite == Spec => HandsOverThroughFree
  <1>1. TypeOK /\ TaskInv /\ [Next]_vars =>
          [\A d \in Devices : Claimed(d) /\ Claimed(d)' => claims'[d].holder = claims[d].holder]_vars
    <2> SUFFICES ASSUME TypeOK, TaskInv, [Next]_vars, NEW d \in Devices, Claimed(d), Claimed(d)'
                 PROVE  claims'[d].holder = claims[d].holder
      OBVIOUS
    <2>1. CASE ClaimsOnlyEnd
      BY <2>1 DEF ClaimsOnlyEnd, Claimed
    <2>2. CASE \E t \in Tasks : tasks[t].op = "bind" /\ Grant(t)
      BY <2>2, GrantTasks
    <2>3. QED
      BY <2>1, <2>2, NextTasks
  <1>2. QED
    BY <1>1, Inductive, PTL DEF Spec, HandsOverThroughFree

-----------------------------------------------------------------------------
(***************************************************************************)
(* What the table believes of the driver.  The driver lets a device go     *)
(* only in steps that write the table's own record of it, stamp included,  *)
(* so that neither the record nor the snapshot of a poll that is under way *)
(* speaks for a device that is free again.  Cards are out of this: the     *)
(* teardown of a card starts before its record is written (netShare.unlend *)
(* only starts it), and a card's path may be given up behind the table's   *)
(* back.  So is a device that is pulled out and put back between two polls.*)
(***************************************************************************)

\* The devices that are no cards and stay plugged in.
Staying == Devices \ (NetDevs \cup Unpluggable)

\* Neither the record of a device nor the snapshot under way calls it bound in vain.
HonestOf(d) ==
  /\ bindState[d] = "bound" => driver[d] # "free"
  /\ refresh.on /\ d \in refresh.bound \ refresh.touched => driver[d] # "free"

InView(d) == d \in plugged /\ d \in devices /\ (refresh.on => d \in refresh.seen)

DriverInv == \A d \in Staying : InView(d) /\ HonestOf(d)

\* A step that goes on under the same poll, and writes the record of what it frees.
Candid ==
  /\ plugged' = plugged /\ devices' = devices
  /\ refresh'.on = refresh.on /\ refresh'.seen = refresh.seen /\ refresh'.bound = refresh.bound
  /\ refresh.touched \subseteq refresh'.touched
  /\ \A d \in Staying :
       \/ driver'[d] # "free"
       \/ bindState'[d] # "bound" /\ (refresh.on => d \in refresh'.touched)
       \/ driver'[d] = driver[d] /\ (bindState'[d] = "bound" => bindState[d] = "bound")

LEMMA CandidKeeps ==
  ASSUME TypeOK, DriverInv, Candid
  PROVE  DriverInv'
<1> SUFFICES ASSUME NEW d \in Staying
             PROVE  InView(d)' /\ HonestOf(d)'
  BY DEF DriverInv, Staying
<1>1. InView(d) /\ HonestOf(d)
  BY DEF DriverInv
<1>2. InView(d)'
  BY <1>1 DEF Candid, InView
<1>3. HonestOf(d)'
  BY <1>1 DEF Candid, HonestOf
<1> QED BY <1>2, <1>3

\* Writing a record stamps it, for the poll that is under way.
LEMMA RecordIsStamped ==
  ASSUME TypeOK, NEW S, NEW s, SetBindState(S, s)
  PROVE  /\ refresh'.on = refresh.on /\ refresh'.seen = refresh.seen /\ refresh'.bound = refresh.bound
         /\ refresh.touched \subseteq refresh'.touched
         /\ \A d \in Devices : d \in devices =>
              IF d \in S THEN bindState'[d] = s /\ (refresh.on => d \in refresh'.touched)
                         ELSE bindState'[d] = bindState[d]
<1>1. \A d \in Devices : bindState'[d] = IF d \in S \cap devices THEN s ELSE bindState[d]
  BY DEF SetBindState
<1>2. refresh' = IF refresh.on THEN [refresh EXCEPT !.touched = @ \cup (S \cap devices)] ELSE refresh
  BY DEF SetBindState, Touch
<1>3. /\ refresh'.on = refresh.on /\ refresh'.seen = refresh.seen /\ refresh'.bound = refresh.bound
      /\ refresh'.touched = IF refresh.on THEN refresh.touched \cup (S \cap devices) ELSE refresh.touched
  BY <1>2 DEF TypeOK
<1> QED BY <1>1, <1>3

\* A step that frees devices by writing a record that does not call them bound.
LEMMA FreeingIsCandid ==
  ASSUME TypeOK, DriverInv, NEW S, NEW s, s # "bound", SetBindState(S, s),
         UNCHANGED <<plugged, devices>>,
         \A d \in Staying : d \notin S => driver'[d] \in {driver[d], "whole"}
  PROVE  Candid
<1>1. \A d \in Staying : d \in Devices /\ d \in devices
  BY DEF DriverInv, InView, Staying
<1>2. /\ refresh'.on = refresh.on /\ refresh'.seen = refresh.seen /\ refresh'.bound = refresh.bound
      /\ refresh.touched \subseteq refresh'.touched
      /\ \A d \in Devices : d \in devices =>
              IF d \in S THEN bindState'[d] = s /\ (refresh.on => d \in refresh'.touched)
                         ELSE bindState'[d] = bindState[d]
  BY RecordIsStamped
<1> QED BY <1>1, <1>2 DEF Candid

LEMMA UntouchedIsCandid ==
  ASSUME UNCHANGED <<plugged, devices, bindState, refresh>>,
         \A d \in Staying : driver'[d] = driver[d]
  PROVE  Candid
BY DEF Candid

LEMMA LeaveIsCandid ==
  ASSUME TypeOK, DriverInv, NEW d \in Devices, NEW H, Leave(d, H), UNCHANGED <<plugged, devices>>
  PROVE  Candid
<1>1. CASE joins[d] \subseteq H
  <2>1. SetBindState({d}, "unbound") /\ \A e \in Devices \ {d} : driver'[e] = driver[e]
    BY <1>1 DEF Leave, TypeOK
  <2> QED BY <2>1, FreeingIsCandid DEF Staying
<1>2. CASE ~(joins[d] \subseteq H)
  BY <1>2, UntouchedIsCandid DEF Leave
<1> QED BY <1>1, <1>2

LEMMA ReleaseIsCandid ==
  ASSUME TypeOK, DriverInv, NEW t \in Tasks, NEW x \in Targets, NEW h, NEW force,
         Release(t, x, h, force), UNCHANGED <<plugged, devices>>
  PROVE  Candid
<1>1. CASE InBridge(x, h, force)
  <2>1. x \in Devices /\ Leave(x, IF h \in joins[x] THEN {h} ELSE joins[x])
    BY <1>1 DEF Release, InBridge
  <2> QED BY <2>1, LeaveIsCandid
<1>2. CASE ~InBridge(x, h, force)
  <2>1. /\ UNCHANGED <<bindState, refresh>>
        /\ \E d \in DevicesOf(x) : driver' = [driver EXCEPT ![d] = IF d \in NetDevs THEN "free" ELSE @]
    BY <1>2 DEF Release
  <2>2. \A e \in Devices \ NetDevs : driver'[e] = driver[e]
    BY <2>1, ConstantsOK DEF TypeOK
  <2> QED BY <2>1, <2>2, UntouchedIsCandid DEF Staying
<1> QED BY <1>1, <1>2

LEMMA AnswersAreCandid ==
  ASSUME TypeOK, WellFormed, DriverInv, NEW t \in Tasks, DriverAnswers(t)
  PROVE  Candid
<1>1. ASSUME NEW d \in Devices, BindOk(t, d)
      PROVE  Candid
  <2>1. /\ UNCHANGED <<plugged, devices>> /\ SetBindState({d}, "bound")
        /\ \A e \in Devices : driver'[e] = IF e = d THEN "whole" ELSE driver[e]
    BY <1>1 DEF BindOk, TypeOK
  <2>2. \A e \in Staying : e \in Devices /\ e \in devices
    BY DEF DriverInv, InView, Staying
  <2> QED BY <2>1, <2>2, RecordIsStamped DEF Candid
<1>2. ASSUME NEW d \in Devices, BindFail(t, d)
      PROVE  Candid
  BY <1>2, FreeingIsCandid, UntouchedIsCandid DEF BindFail
<1>3. ASSUME NEW d \in Devices, Rollback(t, d)
      PROVE  Candid
  <2>1. UNCHANGED <<plugged, devices>> /\ \A e \in Devices \ {d} : driver'[e] = driver[e]
    BY <1>3 DEF Rollback, TypeOK
  <2>2. CASE tasks[t].todo = {d}
    <3>1. /\ bindState' = [e \in Devices |-> IF e \notin {d, tasks[t].cur} \cap devices
                                          THEN bindState[e]
                                          ELSE IF e = d THEN "unbound" ELSE "error"]
          /\ Touch({d, tasks[t].cur})
      BY <1>3, <2>2 DEF Rollback
    <3>2. /\ refresh'.on = refresh.on /\ refresh'.seen = refresh.seen /\ refresh'.bound = refresh.bound
          /\ refresh'.touched = IF refresh.on THEN refresh.touched \cup ({d, tasks[t].cur} \cap devices)
                                ELSE refresh.touched
      BY <3>1 DEF Touch, TypeOK
    <3>3. \A e \in Staying : e \in Devices /\ e \in devices
      BY DEF DriverInv, InView, Staying
    <3>4. \A e \in Staying : /\ e = d => bindState'[e] = "unbound"
                             /\ bindState'[e] \in {bindState[e], "unbound", "error"}
      BY <3>1, <3>3
    <3> QED BY <2>1, <3>2, <3>3, <3>4 DEF Candid
  <2>3. CASE tasks[t].todo # {d}
    <3>1. SetBindState({d}, "unbound")
      BY <1>3, <2>3 DEF Rollback
    <3> QED BY <2>1, <3>1, FreeingIsCandid DEF Staying
  <2> QED BY <2>2, <2>3
<1>4. CASE JoinOk(t)
  <2> DEFINE d == tasks[t].cur
  <2>1. d \in NetDevs /\ d \in Devices
    BY <1>4, ConstantsOK DEF JoinOk, WellFormed
  <2>2. /\ UNCHANGED <<plugged, devices>> /\ SetBindState({d}, "bound")
        /\ \A e \in Devices \ {d} : driver'[e] = driver[e]
    BY <1>4, <2>1 DEF JoinOk, TypeOK
  <2>3. \A e \in Staying : e \in Devices /\ e \in devices /\ e # d
    BY <2>1 DEF DriverInv, InView, Staying
  <2> HIDE DEF d
  <2> QED BY <2>2, <2>3, RecordIsStamped DEF Candid
<1>5. CASE JoinFail(t)
  BY <1>5, FreeingIsCandid DEF JoinFail
<1>6. ASSUME NEW ok \in Outcomes, Unbound(t, ok)
      PROVE  Candid
  <2> DEFINE d == tasks[t].cur
             s == IF ok THEN "unbound" ELSE "error"
  <2>1. UNCHANGED <<plugged, devices>> /\ SetBindState({d}, s)
    BY <1>6 DEF Unbound
  <2>2. \A e \in Devices \ NetDevs : e # d => driver'[e] = driver[e]
    BY <1>6 DEF Unbound
  <2>3. s # "bound"
    OBVIOUS
  <2> HIDE DEF s, d
  <2> QED BY <2>1, <2>2, <2>3, FreeingIsCandid DEF Staying
<1>7. ASSUME NEW ok \in Outcomes, Unshared(t, ok)
      PROVE  Candid
  <2> DEFINE d == tasks[t].cur
             s == IF ok THEN "unbound" ELSE "error"
  <2>1. UNCHANGED <<plugged, devices>> /\ SetBindState({d}, s)
    BY <1>7 DEF Unshared
  <2>2. \A e \in Devices : e # d => driver'[e] = driver[e]
    BY <1>7 DEF Unshared, TypeOK
  <2>3. s # "bound"
    OBVIOUS
  <2> HIDE DEF s, d
  <2> QED BY <2>1, <2>2, <2>3, FreeingIsCandid DEF Staying
<1> QED BY <1>1, <1>2, <1>3, <1>4, <1>5, <1>6, <1>7 DEF DriverAnswers

LEMMA CallsAreCandid ==
  ASSUME TypeOK, DriverInv, NEW t \in Tasks, Calls(t)
  PROVE  Candid
<1>1. ASSUME NEW x \in Targets, NEW h \in Nodes, NEW force \in BOOLEAN, Claim(t, x, h, force)
      PROVE  Candid
  <2>1. UNCHANGED <<plugged, devices>>
    BY <1>1 DEF Claim
  <2>2. CASE force /\ h = Owner
    <3> DEFINE B == {d \in DevicesOf(x) : joins[d] # {}}
    <3>1. /\ SetBindState(B, "unbound")
          /\ \A d \in Devices : d \notin B => driver'[d] = driver[d]
      BY <1>1, <2>2 DEF Claim, Evict
    <3> HIDE DEF B
    <3> QED BY <2>1, <3>1, FreeingIsCandid DEF Staying
  <2>3. CASE ~(force /\ h = Owner)
    BY <1>1, <2>1, <2>3, UntouchedIsCandid DEF Claim
  <2> QED BY <2>2, <2>3
<1>2. ASSUME NEW d \in NetDevs, NEW h \in Nodes, Join(t, d, h)
      PROVE  Candid
  BY <1>2, UntouchedIsCandid DEF Join
<1>3. ASSUME NEW x \in Targets, NEW h \in Nodes, NEW force \in BOOLEAN, ReleaseBy(t, x, h, force)
      PROVE  Candid
  BY <1>3, ReleaseIsCandid DEF ReleaseBy
<1>4. ASSUME NEW q \in requests, Accept(t, q)
      PROVE  Candid
  <2>1. q.target \in Targets /\ UNCHANGED <<plugged, devices>>
    BY <1>4 DEF TypeOK, Requests, Accept
  <2>2. CASE Release(t, q.target, q.holder, TRUE)
    BY <2>1, <2>2, ReleaseIsCandid
  <2>3. CASE ~Release(t, q.target, q.holder, TRUE)
    BY <1>4, <2>1, <2>3, UntouchedIsCandid DEF Accept
  <2> QED BY <2>2, <2>3
<1>5. Owner \in Nodes
  BY ConstantsOK
<1> QED BY <1>1, <1>2, <1>3, <1>4, <1>5 DEF Calls

LEMMA ClockIsCandid ==
  ASSUME TypeOK, DriverInv, Clock
  PROVE  Candid
<1>1. ASSUME NEW t \in Tasks, NEW d \in Devices, SweepClaim(t, d) \/ DataLost(t, d)
      PROVE  Candid
  <2>1. LeaseTarget(d) \in Targets /\ UNCHANGED <<plugged, devices>>
    BY <1>1, LeaseTargetType DEF SweepClaim, DataLost
  <2>2. Release(t, LeaseTarget(d), claims[d].holder, TRUE)
    BY <1>1 DEF SweepClaim, DataLost
  <2> QED BY <2>1, <2>2, ReleaseIsCandid
<1>2. ASSUME NEW d \in NetDevs, NEW h \in Nodes, SweepJoin(d, h)
      PROVE  Candid
  BY <1>2, LeaveIsCandid, ConstantsOK DEF SweepJoin
<1>3. ASSUME NEW d \in NetDevs, PathGivenUp(d)
      PROVE  Candid
  <2>1. UNCHANGED <<plugged, devices, bindState, refresh>> /\ \A e \in Devices \ {d} : driver'[e] = driver[e]
    BY <1>3 DEF PathGivenUp, TypeOK
  <2> QED BY <2>1, UntouchedIsCandid DEF Staying
<1>4. ASSUME \/ \E x \in Targets, h \in Nodes : Renew(x, h)
             \/ \E d \in Devices : LeaseRunsOut(d)
             \/ \E d \in NetDevs, h \in Nodes : JoinRunsOut(d, h)
             \/ \E d \in Devices : ReservationLapses(d)
             \/ \E x \in Targets, r \in Nodes : CreateRequest(x, r)
             \/ \E q \in requests : DropRequest(q)
      PROVE  Candid
  BY <1>4, UntouchedIsCandid
  DEF Renew, LeaseRunsOut, JoinRunsOut, ReservationLapses, CreateRequest, DropRequest
<1> QED BY <1>1, <1>2, <1>3, <1>4 DEF Clock

LEMMA EditIsCandid ==
  ASSUME TypeOK, Edit
  PROVE  Candid
<1>1. ASSUME NEW t \in Tasks, NEW d \in Devices, Unshare(t, d)
      PROVE  Candid
  <2>1. /\ UNCHANGED <<plugged, devices, bindState, refresh>>
        /\ \A e \in Devices \ NetDevs : driver'[e] = driver[e]
    BY <1>1, ConstantsOK DEF Unshare, TypeOK
  <2> QED BY <2>1, UntouchedIsCandid DEF Staying
<1>2. ASSUME \/ \E d \in Devices : Share(d)
             \/ \E g \in Groups, on \in BOOLEAN : PublishGroup(g, on)
             \/ \E g \in Groups, S \in SUBSET Devices : SaveGroup(g, S)
             \/ \E g \in Groups : DeleteGroup(g)
      PROVE  Candid
  BY <1>2, UntouchedIsCandid DEF Share, PublishGroup, SaveGroup, DeleteGroup
<1> QED BY <1>1, <1>2 DEF Edit

\* The three steps of a poll: what is plugged in changes, the snapshot is taken, and
\* what it says goes into the table.
LEMMA PollsKeepDriver ==
  ASSUME TypeOK, DriverInv, Polls
  PROVE  DriverInv'
<1> SUFFICES ASSUME NEW d \in Staying
             PROVE  InView(d)' /\ HonestOf(d)'
  BY DEF DriverInv, Staying
<1>1. d \in Devices /\ d \notin NetDevs /\ d \notin Unpluggable /\ InView(d) /\ HonestOf(d)
  BY DEF DriverInv, Staying
<1>2. ASSUME NEW e \in Devices, Plug(e)
      PROVE  InView(d)' /\ HonestOf(d)'
  <2>1. /\ e # d /\ UNCHANGED <<devices, bindState, refresh>>
        /\ driver'[d] = driver[d] /\ d \in plugged'
    BY <1>1, <1>2 DEF Plug, TypeOK, InView
  <2> QED BY <1>1, <2>1 DEF InView, HonestOf
<1>3. CASE RefreshStart
  <2>1. /\ UNCHANGED <<plugged, devices, bindState, driver>>
        /\ refresh'.on /\ refresh'.seen = plugged /\ refresh'.touched = {}
        /\ refresh'.bound = {e \in plugged : driver[e] # "free"}
    BY <1>3 DEF RefreshStart
  <2> QED BY <1>1, <2>1 DEF InView, HonestOf
<1>4. CASE RefreshEnd
  <2>1. /\ refresh.on /\ devices' = refresh.seen /\ plugged' = plugged
        /\ refresh' = NoRefresh /\ d \in refresh.seen
    BY <1>1, <1>4 DEF RefreshEnd, InView
  <2>2. driver'[d] = driver[d]
    BY <1>1, <1>4 DEF RefreshEnd
  <2>3. ~refresh'.on
    BY <2>1 DEF NoRefresh
  <2>4. bindState'[d] = "bound" => bindState[d] = "bound" \/ d \in refresh.bound \ refresh.touched
    BY <1>1, <1>4, <2>1 DEF RefreshEnd, Fresher
  <2> QED BY <1>1, <2>1, <2>2, <2>3, <2>4 DEF InView, HonestOf
<1> QED BY <1>2, <1>3, <1>4 DEF Polls

LEMMA NextKeepsDriver ==
  ASSUME TypeOK, WellFormed, DriverInv, [Next]_vars
  PROVE  DriverInv'
<1>1. CASE \E t \in Tasks : DriverAnswers(t) \/ Calls(t)
  BY <1>1, AnswersAreCandid, CallsAreCandid, CandidKeeps
<1>2. CASE Polls
  BY <1>2, PollsKeepDriver
<1>3. CASE Clock
  BY <1>3, ClockIsCandid, CandidKeeps
<1>4. CASE Edit
  BY <1>4, EditIsCandid, CandidKeeps
<1>5. CASE UNCHANGED vars
  <2>1. UNCHANGED <<plugged, devices, bindState, refresh, driver>>
    BY <1>5 DEF vars
  <2> QED BY <2>1, UntouchedIsCandid, CandidKeeps
<1> QED BY <1>1, <1>2, <1>3, <1>4, <1>5 DEF Next

LEMMA InitDriver == Init => DriverInv
BY DEF Init, DriverInv, Staying, InView, HonestOf, NoRefresh

\* What the table calls bound the driver really has, for every device that is no card
\* and stays plugged in, whatever else is lent, polled and unplugged meanwhile
\* (refresh, lines 209-265, compares stateStamp with the start of the poll).
THEOREM BoundOfStaying ==
  Spec => [](\A d \in Staying : bindState[d] = "bound" => driver[d] # "free")
<1>1. Init => TypeOK /\ TaskInv /\ DriverInv
  BY InitTypeOK, InitTasks, InitDriver
<1>2. TypeOK /\ TaskInv /\ DriverInv /\ [Next]_vars => (TypeOK /\ TaskInv /\ DriverInv)'
  BY NextKeepsTypes, NextTasks, NextKeepsDriver DEF TaskInv
<1>3. DriverInv => \A d \in Staying : bindState[d] = "bound" => driver[d] # "free"
  BY DEF DriverInv, HonestOf
<1> QED BY <1>1, <1>2, <1>3, PTL DEF Spec

\* Where no device is a card or is unplugged, the table never believes that a device
\* is bound when the driver has let it go.
THEOREM BoundCorrect == ASSUME NetDevs \cup Unpluggable = {} PROVE Spec => []BoundIsReal
<1>1. TypeOK /\ (\A d \in Staying : bindState[d] = "bound" => driver[d] # "free") => BoundIsReal
  BY DEF TypeOK, Staying, BoundIsReal
<1> QED BY <1>1, BoundOfStaying, TypeCorrect, PTL
=============================================================================
