---------------------------- MODULE PromiseProofs ----------------------------
(***************************************************************************)
(* A promised device goes to the one it was promised to: PromiseKept for   *)
(* every set of nodes, devices, groups and handlers.                       *)
(*                                                                         *)
(* A claim and a join look at the reservation before they wait for the     *)
(* driver, and a holder may promise the device while they wait.  What      *)
(* saves the promise is that a device somebody may promise is claimed, so  *)
(* that only its own holder can be waiting for it.                         *)
(***************************************************************************)
EXTENDS LeaseProofs

\* Who may get a promised device.
Entitled(d) == {reservations[d].for, reservations[d].by, Owner}
Promised(d) == reservations[d].by # None

Claiming(k) == k.op \in {"bind", "rollback"}

PromisesHaveAnAim == \A d \in Devices : Promised(d) => reservations[d].for # None
ClaimersAreEntitled ==
  \A t \in Tasks : Claiming(tasks[t]) =>
    \A d \in tasks[t].held : Promised(d) => tasks[t].by \in Entitled(d)
JoinersAreEntitled ==
  \A t \in Tasks : tasks[t].op = "join" /\ Promised(tasks[t].cur) =>
    tasks[t].by \in Entitled(tasks[t].cur)

PromiseInv == PromisesHaveAnAim /\ ClaimersAreEntitled /\ JoinersAreEntitled

-----------------------------------------------------------------------------
(* Most actions make no promise and start neither a claim nor a join.      *)

PromisesOnlyEnd == \A d \in Devices : reservations'[d] \in {reservations[d], NoReservation}

\* k' goes on with what k does, or does neither.
GoesOn(k, l) ==
  /\ Claiming(l) => Claiming(k) /\ l.by = k.by /\ l.held \subseteq k.held
  /\ l.op = "join" => k.op = "join" /\ l.by = k.by /\ l.cur = k.cur

HandlersGoOn == \A t \in Tasks : GoesOn(tasks[t], tasks'[t])

LEMMA UntouchedGoOn == ASSUME UNCHANGED tasks PROVE HandlersGoOn
BY DEF HandlersGoOn, GoesOn

LEMMA OneGoesOn ==
  ASSUME NEW t \in Tasks, \A u \in Tasks \ {t} : tasks'[u] = tasks[u], GoesOn(tasks[t], tasks'[t])
  PROVE  HandlersGoOn
BY DEF HandlersGoOn, GoesOn

LEMMA EndGoesOn ==
  ASSUME TypeOK, NEW t \in Tasks, Finish(t)
  PROVE  HandlersGoOn
<1>1. tasks'[t] = Idle /\ Idle.op = "idle" /\ \A u \in Tasks \ {t} : tasks'[u] = tasks[u]
  BY FinishType, IdleType
<1>2. GoesOn(tasks[t], tasks'[t])
  BY <1>1 DEF GoesOn, Claiming
<1> QED BY <1>1, <1>2, OneGoesOn

LEMMA BecomeGoesOn ==
  ASSUME TypeOK, NEW t \in Tasks, NEW k \in TaskType, Become(t, k), GoesOn(tasks[t], k)
  PROVE  HandlersGoOn
BY BecomeType, OneGoesOn

LEMMA QuietKeepsPromises ==
  ASSUME TypeOK, TaskInv, PromiseInv, PromisesOnlyEnd, HandlersGoOn
  PROVE  PromiseInv'
<1>1. NoReservation.by = None
  BY DEF NoReservation
<1>2. \A d \in Devices : Promised(d)' => Promised(d) /\ reservations'[d] = reservations[d]
  BY <1>1 DEF PromisesOnlyEnd, Promised
<1>3. PromisesHaveAnAim'
  BY <1>2 DEF PromiseInv, PromisesHaveAnAim
<1>4. ClaimersAreEntitled'
  <2> SUFFICES ASSUME NEW t \in Tasks, Claiming(tasks'[t]), NEW d \in tasks'[t].held, Promised(d)'
               PROVE  tasks'[t].by \in Entitled(d)'
    BY DEF ClaimersAreEntitled, Claiming
  <2>1. Claiming(tasks[t]) /\ tasks'[t].by = tasks[t].by /\ d \in tasks[t].held
    BY DEF HandlersGoOn, GoesOn
  <2>2. d \in Devices
    BY <2>1, FormedTask
  <2> QED BY <1>2, <2>1, <2>2 DEF PromiseInv, ClaimersAreEntitled, Entitled
<1>5. JoinersAreEntitled'
  <2> SUFFICES ASSUME NEW t \in Tasks, tasks'[t].op = "join", Promised(tasks[t].cur)'
               PROVE  tasks'[t].by \in Entitled(tasks[t].cur)'
    BY DEF JoinersAreEntitled
  <2>1. tasks[t].op = "join" /\ tasks'[t].by = tasks[t].by /\ tasks'[t].cur = tasks[t].cur
    BY DEF HandlersGoOn, GoesOn
  <2>2. tasks[t].cur \in Devices
    BY <2>1, FormedTask, ConstantsOK DEF Formed
  <2> QED BY <1>2, <2>1, <2>2 DEF PromiseInv, JoinersAreEntitled, Entitled
<1> QED BY <1>3, <1>4, <1>5 DEF PromiseInv

LEMMA UnreserveOnlyEnds == ASSUME NEW S, Unreserve(S) PROVE PromisesOnlyEnd
BY DEF Unreserve, PromisesOnlyEnd

LEMMA KeptOnlyEnds == ASSUME UNCHANGED reservations PROVE PromisesOnlyEnd
BY DEF PromisesOnlyEnd

-----------------------------------------------------------------------------
(* Where nothing is promised and nobody starts. *)

LEMMA ReleaseGoesOn ==
  ASSUME TypeOK, NEW t \in Tasks, NEW x \in Targets, NEW h \in Nodes \cup {None},
         NEW force \in BOOLEAN, Release(t, x, h, force)
  PROVE  HandlersGoOn
<1>1. CASE InBridge(x, h, force)
  BY <1>1, UntouchedGoOn DEF Release
<1>2. CASE ~InBridge(x, h, force)
  <2> DEFINE k == StartUnbind(h, x, force, Marks(x), DevicesOf(x))
  <2>1. PICK d \in DevicesOf(x) : GiveBack(t, k, d)
    BY <1>2 DEF Release, StartUnbind
  <2>2. DevicesOf(x) \subseteq Devices /\ Marks(x) \subseteq Devices
    BY DevicesOfType DEF Marks
  <2>3. k \in TaskType /\ k.op = "unbind" /\ d \in Devices
    BY <2>2, StartUnbindType
  <2> HIDE DEF k
  <2>4. tasks'[t].op = "unbind" /\ \A u \in Tasks \ {t} : tasks'[u] = tasks[u]
    BY <2>1, <2>3, GiveBackType
  <2> QED BY <2>4, OneGoesOn DEF GoesOn, Claiming
<1> QED BY <1>1, <1>2

LEMMA DriverGoesOn ==
  ASSUME TypeOK, TaskInv, NEW t \in Tasks, DriverAnswers(t)
  PROVE  PromisesOnlyEnd /\ HandlersGoOn
<1>1. ASSUME NEW d \in Devices, BindOk(t, d)
      PROVE  PromisesOnlyEnd /\ HandlersGoOn
  <2>1. CASE Grant(t)
    BY <2>1, EndGoesOn, UnreserveOnlyEnds DEF Grant
  <2>2. CASE ~Grant(t)
    <3> DEFINE k == Advance(tasks[t], d)
    <3>1. Become(t, k) /\ UNCHANGED reservations /\ tasks[t].op = "bind"
      BY <1>1, <2>2 DEF BindOk, Advance
    <3>2. k \in TaskType /\ k.op = "bind" /\ k.by = tasks[t].by /\ k.held = tasks[t].held
      BY <3>1, FormedTask, AdvanceType
    <3> HIDE DEF k
    <3>3. GoesOn(tasks[t], k)
      BY <3>1, <3>2 DEF GoesOn, Claiming
    <3> QED BY <3>1, <3>2, <3>3, BecomeGoesOn, KeptOnlyEnds
  <2> QED BY <2>1, <2>2
<1>2. ASSUME NEW d \in Devices, BindFail(t, d)
      PROVE  PromisesOnlyEnd /\ HandlersGoOn
  <2>1. UNCHANGED reservations /\ tasks[t].op = "bind"
    BY <1>2 DEF BindFail
  <2>2. CASE Finish(t)
    BY <2>1, <2>2, EndGoesOn, KeptOnlyEnds
  <2>3. CASE ~Finish(t)
    <3> DEFINE k == FallBack(tasks[t], d)
    <3>1. Become(t, k)
      BY <1>2, <2>3 DEF BindFail, FallBack
    <3>2. k \in TaskType /\ k.op = "rollback" /\ k.by = tasks[t].by /\ k.held = tasks[t].held
      BY FormedTask, FallBackType
    <3> HIDE DEF k
    <3>3. GoesOn(tasks[t], k)
      BY <2>1, <3>2 DEF GoesOn, Claiming
    <3> QED BY <2>1, <3>1, <3>2, <3>3, BecomeGoesOn, KeptOnlyEnds
  <2> QED BY <2>2, <2>3
<1>3. ASSUME NEW d \in Devices, Rollback(t, d)
      PROVE  PromisesOnlyEnd /\ HandlersGoOn
  <2>1. UNCHANGED reservations /\ tasks[t].op = "rollback"
    BY <1>3 DEF Rollback
  <2>2. CASE Finish(t)
    BY <2>1, <2>2, EndGoesOn, KeptOnlyEnds
  <2>3. CASE ~Finish(t)
    <3> DEFINE k == Advance(tasks[t], d)
    <3>1. Become(t, k)
      BY <1>3, <2>3 DEF Rollback, Advance
    <3>2. k \in TaskType /\ k.op = "rollback" /\ k.by = tasks[t].by /\ k.held = tasks[t].held
      BY <2>1, FormedTask, AdvanceType
    <3> HIDE DEF k
    <3>3. GoesOn(tasks[t], k)
      BY <2>1, <3>2 DEF GoesOn, Claiming
    <3> QED BY <2>1, <3>1, <3>2, <3>3, BecomeGoesOn, KeptOnlyEnds
  <2> QED BY <2>2, <2>3
<1>4. CASE JoinOk(t)
  BY <1>4, EndGoesOn, UnreserveOnlyEnds DEF JoinOk
<1>5. CASE JoinFail(t) \/ \E ok \in Outcomes : Unshared(t, ok)
  BY <1>5, EndGoesOn, KeptOnlyEnds DEF JoinFail, Unshared
<1>6. ASSUME NEW ok \in Outcomes, Unbound(t, ok)
      PROVE  PromisesOnlyEnd /\ HandlersGoOn
  <2> DEFINE k == tasks[t]
  <2>1. UNCHANGED reservations /\ k.op = "unbind" /\ k \in TaskType /\ k.todo \subseteq Devices
    BY <1>6 DEF Unbound, TypeOK, TaskType
  <2>2. Finish(t) \/ \E e \in k.todo : GiveBack(t, k, e)
    BY <1>6 DEF Unbound
  <2> HIDE DEF k
  <2>3. ASSUME NEW e \in k.todo, GiveBack(t, k, e)
        PROVE  HandlersGoOn
    <3>1. tasks'[t].op = "unbind" /\ \A u \in Tasks \ {t} : tasks'[u] = tasks[u]
      BY <2>1, <2>3, GiveBackType
    <3> QED BY <3>1, OneGoesOn DEF GoesOn, Claiming
  <2> QED BY <2>1, <2>2, <2>3, EndGoesOn, KeptOnlyEnds
<1> QED BY <1>1, <1>2, <1>3, <1>4, <1>5, <1>6 DEF DriverAnswers

LEMMA PollsGoOn ==
  ASSUME TypeOK, Polls
  PROVE  PromisesOnlyEnd /\ HandlersGoOn
<1>1. UNCHANGED tasks /\ (UNCHANGED reservations \/ \E S : Unreserve(S))
  BY DEF Polls, Plug, RefreshStart, RefreshEnd
<1> QED BY <1>1, UntouchedGoOn, KeptOnlyEnds, UnreserveOnlyEnds

LEMMA ClockGoesOn ==
  ASSUME TypeOK, Clock
  PROVE  PromisesOnlyEnd /\ HandlersGoOn
<1>1. ASSUME NEW t \in Tasks, NEW d \in Devices, SweepClaim(t, d) \/ DataLost(t, d)
      PROVE  PromisesOnlyEnd /\ HandlersGoOn
  <2>1. claims[d].holder \in Nodes \cup {None} /\ LeaseTarget(d) \in Targets
    BY LeaseTargetType DEF TypeOK
  <2>2. Release(t, LeaseTarget(d), claims[d].holder, TRUE) /\ UNCHANGED reservations
    BY <1>1 DEF SweepClaim, DataLost
  <2> QED BY <2>1, <2>2, ReleaseGoesOn, KeptOnlyEnds
<1>2. ASSUME NEW d \in Devices, ReservationLapses(d)
      PROVE  PromisesOnlyEnd /\ HandlersGoOn
  BY <1>2, UnreserveOnlyEnds, UntouchedGoOn DEF ReservationLapses
<1>3. ASSUME UNCHANGED <<reservations, tasks>>
      PROVE  PromisesOnlyEnd /\ HandlersGoOn
  BY <1>3, KeptOnlyEnds, UntouchedGoOn
<1>4. CASE \/ \E x \in Targets, h \in Nodes : Renew(x, h)
           \/ \E d \in Devices : LeaseRunsOut(d)
           \/ \E d \in NetDevs, h \in Nodes : JoinRunsOut(d, h) \/ SweepJoin(d, h)
           \/ \E d \in NetDevs : PathGivenUp(d)
           \/ \E x \in Targets, r \in Nodes : CreateRequest(x, r)
           \/ \E q \in requests : DropRequest(q)
  BY <1>3, <1>4 DEF Renew, LeaseRunsOut, JoinRunsOut, SweepJoin, PathGivenUp, CreateRequest, DropRequest
<1> QED BY <1>1, <1>2, <1>4 DEF Clock

LEMMA EditGoesOn ==
  ASSUME TypeOK, Edit
  PROVE  PromisesOnlyEnd /\ HandlersGoOn
<1>1. UNCHANGED reservations
  BY DEF Edit, Unshare, Share, PublishGroup, SaveGroup, DeleteGroup
<1>2. ASSUME NEW t \in Tasks, NEW d \in Devices, Become(t, StartUnshare(d))
      PROVE  HandlersGoOn
  <2> DEFINE k == StartUnshare(d)
  <2>1. k \in TaskType /\ k.op = "unshare" /\ Become(t, k)
    BY <1>2, StartUnshareType
  <2> HIDE DEF k
  <2>2. GoesOn(tasks[t], k)
    BY <2>1 DEF GoesOn, Claiming
  <2> QED BY <2>1, <2>2, BecomeGoesOn
<1>3. UNCHANGED tasks \/ \E t \in Tasks, d \in Devices : Become(t, StartUnshare(d))
  BY DEF Edit, Unshare, Share, PublishGroup, SaveGroup, DeleteGroup, StartUnshare
<1> QED BY <1>1, <1>2, <1>3, UntouchedGoOn, KeptOnlyEnds

-----------------------------------------------------------------------------
(* A claim, a join and a promise. *)

LEMMA ClaimKeepsPromises ==
  ASSUME TypeOK, TaskInv, PromiseInv, NEW t \in Tasks, NEW x \in Targets, NEW h \in Nodes,
         NEW force \in BOOLEAN, Claim(t, x, h, force)
  PROVE  PromiseInv'
<1> DEFINE S == DevicesOf(x)
           k == StartBind(h, x, S)
<1>1. S \subseteq Devices
  BY DevicesOfType
<1>2. k \in TaskType /\ k.op = "bind" /\ k.by = h /\ k.held = S
  BY <1>1, StartBindType
<1>3. Become(t, k)
  BY DEF Claim, StartBind
<1> HIDE DEF k
<1>4. tasks'[t] = k /\ \A u \in Tasks \ {t} : tasks'[u] = tasks[u]
  BY <1>2, <1>3, BecomeType
<1>5. PromisesOnlyEnd
  BY UnreserveOnlyEnds, KeptOnlyEnds DEF Claim, Evict
<1>6. \A d \in Devices : Promised(d)' => Promised(d) /\ reservations'[d] = reservations[d]
  BY <1>5 DEF PromisesOnlyEnd, Promised, NoReservation
<1>7. \A d \in S : Promised(d)' => h \in Entitled(d)'
  <2>1. CASE force /\ h = Owner
    BY <2>1 DEF Entitled
  <2>2. CASE ~(force /\ h = Owner)
    <3> SUFFICES ASSUME NEW d \in S, Promised(d)' PROVE h \in Entitled(d)'
      OBVIOUS
    <3>1. reservations'[d] = reservations[d] /\ Promised(d)
      BY <1>1, <1>6
    <3>2. reservations[d].for # None
      BY <1>1, <3>1 DEF PromiseInv, PromisesHaveAnAim
    <3>3. ~ReservedForOther(d, h)
      BY <2>2 DEF Claim, FreeFor
    <3> QED BY <3>1, <3>2, <3>3 DEF ReservedForOther, Entitled
  <2> QED BY <2>1, <2>2
<1>8. PromisesHaveAnAim'
  BY <1>6 DEF PromiseInv, PromisesHaveAnAim
<1>9. ClaimersAreEntitled'
  <2> SUFFICES ASSUME NEW u \in Tasks, Claiming(tasks'[u]), NEW d \in tasks'[u].held, Promised(d)'
               PROVE  tasks'[u].by \in Entitled(d)'
    BY DEF ClaimersAreEntitled, Claiming
  <2>1. CASE u = t
    BY <1>2, <1>4, <1>7, <2>1
  <2>2. CASE u # t
    <3>1. tasks'[u] = tasks[u] /\ d \in Devices
      BY <1>4, <2>2, FormedTask
    <3> QED BY <1>6, <3>1 DEF PromiseInv, ClaimersAreEntitled, Entitled
  <2> QED BY <2>1, <2>2
<1>10. JoinersAreEntitled'
  <2> SUFFICES ASSUME NEW u \in Tasks, tasks'[u].op = "join", Promised(tasks[u].cur)'
               PROVE  tasks'[u].by \in Entitled(tasks[u].cur)'
    BY DEF JoinersAreEntitled
  <2>1. tasks'[u] = tasks[u]
    BY <1>2, <1>4
  <2>2. tasks[u].cur \in Devices
    BY <2>1, FormedTask, ConstantsOK DEF Formed
  <2> QED BY <1>6, <2>1, <2>2 DEF PromiseInv, JoinersAreEntitled, Entitled
<1> QED BY <1>8, <1>9, <1>10 DEF PromiseInv

LEMMA JoinKeepsPromises ==
  ASSUME TypeOK, TaskInv, PromiseInv, NEW t \in Tasks, NEW d \in NetDevs, NEW h \in Nodes, Join(t, d, h)
  PROVE  PromiseInv' /\ UNCHANGED reservations
<1> DEFINE k == StartJoin(h, d)
<1>1. k \in TaskType /\ k.op = "join" /\ k.by = h /\ k.cur = d
  BY ConstantsOK, StartJoinType
<1>2. Become(t, k) /\ ~ReservedForOther(d, h) /\ UNCHANGED reservations
  BY DEF Join, StartJoin
<1> HIDE DEF k
<1>3. tasks'[t] = k /\ \A u \in Tasks \ {t} : tasks'[u] = tasks[u]
  BY <1>1, <1>2, BecomeType
<1>4. Promised(d) => h \in Entitled(d)
  BY <1>2, ConstantsOK DEF ReservedForOther, PromiseInv, PromisesHaveAnAim, Entitled
<1>5. PromisesHaveAnAim'
  BY <1>2 DEF PromiseInv, PromisesHaveAnAim, Promised
<1>6. ClaimersAreEntitled'
  BY <1>1, <1>2, <1>3 DEF PromiseInv, ClaimersAreEntitled, Claiming, Promised, Entitled
<1>7. JoinersAreEntitled'
  BY <1>1, <1>2, <1>3, <1>4 DEF PromiseInv, JoinersAreEntitled, Promised, Entitled
<1> QED BY <1>2, <1>5, <1>6, <1>7 DEF PromiseInv

\* A device that is promised by the one who has it is claimed: who is waiting to claim
\* it has it already, and nobody is waiting to join it.
LEMMA AcceptKeepsPromises ==
  ASSUME TypeOK, TaskInv, BridgeInv, PromiseInv, NEW t \in Tasks, NEW q \in requests, Accept(t, q)
  PROVE  PromiseInv'
<1>1. q.target \in Targets /\ q.holder \in Nodes /\ q.requester \in Nodes
  BY DEF TypeOK, Requests
<1>2. HandlersGoOn
  <2>1. CASE Release(t, q.target, q.holder, TRUE)
    BY <1>1, <2>1, ReleaseGoesOn
  <2>2. CASE ~Release(t, q.target, q.holder, TRUE)
    BY <2>2, UntouchedGoOn DEF Accept
  <2> QED BY <2>1, <2>2
<1>3. CASE UNCHANGED reservations
  BY <1>2, <1>3, KeptOnlyEnds, QuietKeepsPromises
<1>4. CASE ~UNCHANGED reservations
  <2>1. \A d \in Devices : reservations'[d] =
          IF d \in DevicesOf(q.target)
          THEN [for |-> q.requester, by |-> IF claims[d].holder = q.holder THEN q.holder ELSE None]
          ELSE reservations[d]
    BY <1>4 DEF Accept
  <2>2. \A d \in Devices :
          \/ reservations'[d] = reservations[d]
          \/ ~Promised(d)'
          \/ /\ reservations'[d].by = claims[d].holder /\ Claimed(d)
             /\ reservations'[d].for # None
    <3> SUFFICES ASSUME NEW d \in Devices, reservations'[d] # reservations[d], Promised(d)'
                 PROVE  /\ reservations'[d].by = claims[d].holder /\ Claimed(d)
                        /\ reservations'[d].for # None
      OBVIOUS
    <3>1. reservations'[d] =
            [for |-> q.requester, by |-> IF claims[d].holder = q.holder THEN q.holder ELSE None]
      BY <2>1
    <3>2. /\ reservations'[d].for = q.requester /\ reservations'[d].by \in {q.holder, None}
          /\ reservations'[d].by # None => claims[d].holder = q.holder
      BY <3>1
    <3>3. q.requester # None /\ q.holder # None
      BY <1>1, ConstantsOK
    <3> QED BY <3>2, <3>3 DEF Promised, Claimed
  <2>3. PromisesHaveAnAim'
    BY <2>2 DEF PromiseInv, PromisesHaveAnAim, Promised
  <2>4. ClaimersAreEntitled'
    <3> SUFFICES ASSUME NEW u \in Tasks, Claiming(tasks'[u]), NEW d \in tasks'[u].held, Promised(d)'
                 PROVE  tasks'[u].by \in Entitled(d)'
      BY DEF ClaimersAreEntitled, Claiming
    <3>1. Claiming(tasks[u]) /\ tasks'[u].by = tasks[u].by /\ d \in tasks[u].held /\ d \in Devices
      BY <1>2, FormedTask DEF HandlersGoOn, GoesOn
    <3>2. CASE reservations'[d] = reservations[d]
      BY <3>1, <3>2 DEF PromiseInv, ClaimersAreEntitled, Promised, Entitled
    <3>3. CASE reservations'[d].by = claims[d].holder /\ Claimed(d)
      <4>1. claims[d].holder = tasks[u].by
        BY <3>1, <3>3 DEF TaskInv, NoRivalOfAClaim, Claiming, Claimed
      <4> QED BY <3>1, <3>3, <4>1 DEF Entitled
    <3> QED BY <2>2, <3>1, <3>2, <3>3
  <2>5. JoinersAreEntitled'
    <3> SUFFICES ASSUME NEW u \in Tasks, tasks'[u].op = "join", Promised(tasks[u].cur)'
                 PROVE  tasks'[u].by \in Entitled(tasks[u].cur)'
      BY DEF JoinersAreEntitled
    <3>1. tasks[u].op = "join" /\ tasks'[u].by = tasks[u].by /\ tasks'[u].cur = tasks[u].cur
      BY <1>2 DEF HandlersGoOn, GoesOn
    <3>2. tasks[u].cur \in Devices /\ ~Claimed(tasks[u].cur)
      BY <3>1, FormedTask, ConstantsOK DEF Formed, BridgeInv, JoiningIsFree
    <3>3. reservations'[tasks[u].cur] = reservations[tasks[u].cur]
      BY <2>2, <3>1, <3>2 DEF Promised
    <3> QED BY <3>1, <3>3 DEF PromiseInv, JoinersAreEntitled, Promised, Entitled
  <2> QED BY <2>3, <2>4, <2>5 DEF PromiseInv
<1> QED BY <1>3, <1>4

-----------------------------------------------------------------------------
(* Every step. *)

LEMMA StepKeepsPromises ==
  ASSUME TypeOK, TaskInv, BridgeInv, PromiseInv, [Next]_vars
  PROVE  PromiseInv'
<1>1. ASSUME NEW t \in Tasks, Calls(t)
      PROVE  PromiseInv'
  <2>1. CASE \E x \in Targets, h \in Nodes, force \in BOOLEAN : Claim(t, x, h, force)
    BY <2>1, ClaimKeepsPromises
  <2>2. CASE \E d \in NetDevs, h \in Nodes : Join(t, d, h)
    BY <2>2, JoinKeepsPromises
  <2>3. ASSUME NEW x \in Targets, NEW h \in Nodes, NEW force \in BOOLEAN, ReleaseBy(t, x, h, force)
        PROVE  PromiseInv'
    BY <2>3, ReleaseGoesOn, KeptOnlyEnds, QuietKeepsPromises DEF ReleaseBy
  <2>4. CASE \E q \in requests : Accept(t, q)
    BY <2>4, AcceptKeepsPromises
  <2> QED BY <1>1, <2>1, <2>2, <2>3, <2>4, ConstantsOK DEF Calls
<1>2. CASE \E t \in Tasks : DriverAnswers(t)
  BY <1>2, DriverGoesOn, QuietKeepsPromises
<1>3. CASE Polls \/ Clock \/ Edit
  BY <1>3, PollsGoOn, ClockGoesOn, EditGoesOn, QuietKeepsPromises
<1>4. CASE UNCHANGED vars
  BY <1>4, UntouchedGoOn, KeptOnlyEnds, QuietKeepsPromises DEF vars
<1> QED BY <1>1, <1>2, <1>3, <1>4 DEF Next

\* Who gets a device in a step, and had it in no way before.
Newcomers(d) == ({claims'[d].holder} \cup joins'[d]) \ ({claims[d].holder, None} \cup joins[d])

\* Only a grant and the answer of a bridge give a device to somebody.
LEMMA NewcomersAreEntitled ==
  ASSUME TypeOK, TaskInv, BridgeInv, PromiseInv, [Next]_vars, NEW d \in Devices, Promised(d)
  PROVE  Newcomers(d) \subseteq Entitled(d)
<1>1. LeasesMove
  BY StepKeepsBridges
<1>2. ClaimsOnlyEnd \/ \E t \in Tasks : tasks[t].op = "bind" /\ Grant(t)
  BY NextTasks
<1>3. CASE ClaimsOnlyEnd /\ joins'[d] \subseteq joins[d]
  BY <1>3 DEF ClaimsOnlyEnd, Newcomers
<1>4. ASSUME NEW t \in Tasks, JoinOk(t)
      PROVE  Newcomers(d) \subseteq Entitled(d)
  <2>1. tasks[t].op = "join" /\ tasks[t].cur \in Devices /\ claims' = claims
    BY <1>4, FormedTask, ConstantsOK DEF JoinOk, Formed
  <2>2. joins'[d] = IF d = tasks[t].cur THEN joins[d] \cup {tasks[t].by} ELSE joins[d]
    BY <1>4, <2>1 DEF JoinOk, TypeOK
  <2> QED BY <2>1, <2>2 DEF Newcomers, PromiseInv, JoinersAreEntitled
<1>5. ASSUME UNCHANGED joins, NEW t \in Tasks, tasks[t].op = "bind", Grant(t)
      PROVE  Newcomers(d) \subseteq Entitled(d)
  <2>1. claims'[d].holder = IF d \in tasks[t].held THEN tasks[t].by ELSE claims[d].holder
    BY <1>5 DEF Grant
  <2>2. d \in tasks[t].held => tasks[t].by \in Entitled(d)
    BY <1>5 DEF PromiseInv, ClaimersAreEntitled, Claiming
  <2> QED BY <1>5, <2>1, <2>2 DEF Newcomers
<1> QED BY <1>1, <1>2, <1>3, <1>4, <1>5 DEF LeasesMove, JoinsOnlyEnd

LEMMA InitPromises == Init => PromiseInv
BY IdleType DEF Init, PromiseInv, PromisesHaveAnAim, ClaimersAreEntitled, JoinersAreEntitled,
   Promised, Claiming, NoReservation

\* What a holder has promised goes to the one he promised it to, or to nobody but
\* himself and the owner, although the release of a promised device, and the calls that
\* looked at its reservation earlier, wait for the driver (answerRequest, _claim, _join).
THEOREM PromisesAreKept == Spec => PromiseKept
<1>1. TypeOK /\ TaskInv /\ BridgeInv /\ PromiseInv /\ [Next]_vars => PromiseInv'
  BY StepKeepsPromises
<1>2. TypeOK /\ TaskInv /\ BridgeInv /\ PromiseInv /\ [Next]_vars =>
        [\A d \in Devices :
           LET new == ({claims'[d].holder} \cup joins'[d]) \ ({claims[d].holder, None} \cup joins[d]) IN
           reservations[d].by # None =>
             new \subseteq {reservations[d].for, reservations[d].by, Owner}]_vars
  BY NewcomersAreEntitled DEF Newcomers, Promised, Entitled
<1> QED BY <1>1, <1>2, InitPromises, BridgesHold, PTL DEF Spec, PromiseKept
=============================================================================
