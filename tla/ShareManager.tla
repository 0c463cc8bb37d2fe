---------------------------- MODULE ShareManager ----------------------------
(***************************************************************************)
(* The owner's table of shared devices (src/src/core/shareManager.js).     *)
(*                                                                         *)
(* The owner of a device is the only one who decides who uses it.  The     *)
(* table keeps claims (exclusive leases), joins (leases of a place in the  *)
(* common bridge of a network card), reservations, requests to give a      *)
(* device up, and groups that are claimed as a whole.                      *)
(*                                                                         *)
(* The code runs on one event loop: what happens between two awaits is one *)
(* action here.  The only calls that take real time are hub.bind,          *)
(* hub.unbind of a USB device and hub.listLocal.  A handler that is        *)
(* waiting for one of them is a task; an answer of the driver is an action *)
(* of its own, so any other handler may run in between.  hub.unbind of a   *)
(* network card only starts the teardown and returns (netShare.unlend), so *)
(* it takes effect where it is called.                                     *)
(*                                                                         *)
(* Time is abstract: a lease, a reservation or a request may run out at    *)
(* any moment after it was made.                                           *)
(***************************************************************************)
EXTENDS FiniteSets

CONSTANTS
  Nodes,        \* the nodes of the network
  Owner,        \* this node, which owns the devices (config nodeId)
  Devices,      \* the devices
  NetDevs,      \* those that are network cards with bridgeJoin
  Groups,       \* the identifiers of groups
  InitMembers,  \* the members of each group at the start ({}: no such group)
  Unpluggable,  \* the devices that may be unplugged and plugged in again
  OwnerEdits,   \* which settings the owner changes: see Edit
  Asking,       \* whether nodes ask a holder to give a device up
  DriverFails,  \* whether the driver may refuse a call for reasons of its own
  Tasks,        \* slots for handlers waiting for the driver
  None

ASSUME ConstantsOK ==
  /\ Owner \in Nodes
  /\ NetDevs \subseteq Devices
  /\ InitMembers \in [Groups -> SUBSET Devices]
  /\ \A g, h \in Groups : g # h => InitMembers[g] \cap InitMembers[h] = {}
  /\ Devices \cap Groups = {}
  /\ Asking \in BOOLEAN /\ DriverFails \in BOOLEAN
  /\ None \notin Nodes \cup Devices \cup Groups

VARIABLES
  plugged,      \* what is physically there
  driver,       \* what the driver really does with a device
  devices,      \* the devices the table knows
  bindState,    \* dev.bindState, what the table believes of the driver
  shared,       \* published devices
  groups,       \* the groups, with their members and publication
  claims,       \* who holds a device, and through which group
  expired,      \* claimed devices whose lease has run out
  joins,        \* who is joined into the bridge of a card
  staleJoins,   \* joins whose lease has run out
  preparing,    \* devices marked as being handed out or taken back
  reservations, \* for whom a device is kept, and who promised it
  requests,     \* pending requests
  refresh,      \* the poll of the devices that is under way
  tasks         \* handlers waiting for the driver

config == <<shared, groups>>
leases == <<claims, expired, joins, staleJoins>>
vars == <<plugged, driver, devices, bindState, config, leases, preparing,
          reservations, requests, refresh, tasks>>

Targets == Devices \cup Groups
NoClaim == [holder |-> None, group |-> None]
NoReservation == [for |-> None, by |-> None]
Requests == [target : Targets, requester : Nodes, holder : Nodes]

\* A task holds the marks `held` in preparing; `todo` are the devices it has
\* still to go through and `cur` the one it is at.
Idle == [op |-> "idle", by |-> None, target |-> None, force |-> FALSE,
         held |-> {}, todo |-> {}, cur |-> None]
Ops == {"idle", "bind", "rollback", "join", "unbind", "unshare"}
TaskType ==
  [op : Ops, by : Nodes \cup {None}, target : Targets \cup {None}, force : BOOLEAN,
   held : SUBSET Devices, todo : SUBSET Devices, cur : Devices \cup {None}]

NoRefresh == [on |-> FALSE, seen |-> {}, bound |-> {}, touched |-> {}]

TypeOK ==
  /\ plugged \subseteq Devices
  /\ driver \in [Devices -> {"free", "whole", "bridge"}]
  /\ devices \subseteq Devices
  /\ bindState \in [Devices -> {"unbound", "bound", "error"}]
  /\ shared \subseteq Devices
  /\ groups \in [Groups -> [members : SUBSET Devices, shared : BOOLEAN]]
  /\ claims \in [Devices -> [holder : Nodes \cup {None}, group : Groups \cup {None}]]
  /\ expired \subseteq Devices
  /\ joins \in [Devices -> SUBSET Nodes]
  /\ staleJoins \subseteq Devices \X Nodes
  /\ preparing \subseteq Devices
  /\ reservations \in [Devices -> [for : Nodes \cup {None}, by : Nodes \cup {None}]]
  /\ requests \subseteq Requests
  /\ refresh \in [on : BOOLEAN, seen : SUBSET Devices, bound : SUBSET Devices,
                  touched : SUBSET Devices]
  /\ tasks \in [Tasks -> TaskType]

Init ==
  /\ plugged = Devices
  /\ driver = [d \in Devices |-> "free"]
  /\ devices = Devices
  /\ bindState = [d \in Devices |-> "unbound"]
  /\ shared = Devices
  /\ groups = [g \in Groups |-> [members |-> InitMembers[g], shared |-> InitMembers[g] # {}]]
  /\ claims = [d \in Devices |-> NoClaim]
  /\ expired = {}
  /\ joins = [d \in Devices |-> {}]
  /\ staleJoins = {}
  /\ preparing = {}
  /\ reservations = [d \in Devices |-> NoReservation]
  /\ requests = {}
  /\ refresh = NoRefresh
  /\ tasks = [t \in Tasks |-> Idle]

-----------------------------------------------------------------------------
(* What the handlers ask of the table. *)

Claimed(d) == claims[d].holder # None

\* _held: taken in any way, by a claim or by joins.
Held(d) == Claimed(d) \/ joins[d] # {}

\* publishedGroupOf: the published group that disposes of a device, if any.
InPublishedGroup(d) == \E g \in Groups : groups[g].shared /\ d \in groups[g].members

\* _resolve succeeds: a group with all its members present, or a device that no
\* published group disposes of.  Otherwise it throws and nothing changes.
Resolves(target) ==
  IF target \in Groups
  THEN groups[target].members # {} /\ groups[target].members \subseteq devices
  ELSE target \in devices /\ ~InPublishedGroup(target)

DevicesOf(target) == IF target \in Groups THEN groups[target].members ELSE {target}

Offered(target) == IF target \in Groups THEN groups[target].shared ELSE target \in shared

\* (faulty variant: the reservation is not looked at)
ReservationIgnored(d, h) == FALSE

ReservedForOther(d, h) == reservations[d].for \notin {None, h}

\* (faulty variant: only joins and reservations block a claim)
FreeForUnchecked(d, h) == joins[d] \subseteq {h} /\ ~ReservedForOther(d, h)

\* Nothing of _claim's `blocking` list stands in the way of h.
FreeFor(d, h) ==
  /\ claims[d].holder \in {None, h}
  /\ joins[d] \subseteq {h}
  /\ ~ReservedForOther(d, h)

(* How the state changes. *)

\* Setting dev.bindState sets dev.stateStamp too: a poll that began earlier must
\* not overwrite it.  A device that has left the table has no record to set.
Touch(S) ==
  refresh' = IF refresh.on THEN [refresh EXCEPT !.touched = @ \cup (S \cap devices)] ELSE refresh

SetBindState(S, state) ==
  /\ bindState' = [d \in Devices |-> IF d \in S \cap devices THEN state ELSE bindState[d]]
  /\ Touch(S)

Unclaim(S) ==
  /\ claims' = [d \in Devices |-> IF d \in S THEN NoClaim ELSE claims[d]]
  /\ expired' = expired \ S

Unreserve(S) ==
  reservations' = [d \in Devices |-> IF d \in S THEN NoReservation ELSE reservations[d]]

\* (faulty variant: nobody looks at preparing)
UnmarkedUnchecked(S) == TRUE

\* None of the devices is being handed out or taken back.
Unmarked(S) == S \cap preparing = {}

\* What the handler t is waiting for.
Become(t, k) == tasks' = [tasks EXCEPT ![t] = k]

\* _leave for each h in H: the last one out takes the bridge apart.
Leave(d, H) ==
  /\ joins' = [joins EXCEPT ![d] = @ \ H]
  /\ staleJoins' = staleJoins \ ({d} \X H)
  /\ IF joins[d] \subseteq H
     THEN driver' = [driver EXCEPT ![d] = "free"] /\ SetBindState({d}, "unbound")
     ELSE UNCHANGED <<driver, bindState, refresh>>

\* (faulty variant: no finally takes the marks off)
FinishKeepingMarks(t) ==
  /\ Become(t, Idle)
  /\ UNCHANGED preparing

\* The marks a finished task leaves in preparing are taken off by its finally.
Finish(t) ==
  /\ Become(t, Idle)
  /\ preparing' = preparing \ tasks[t].held

\* (faulty variant: the card does not ask how it is lent already)
CanLendAnyhow(d, mode) == d \in plugged

\* The card's side of hub.bind (netShare.lend, under the bridge lock): a card is
\* lent whole or to a bridge, never both, and Windows has a single bridge.  A
\* second whole lend of the same card swaps the session to the new holder.
CanLend(d, mode) ==
  /\ d \in plugged
  /\ d \in NetDevs => /\ driver[d] \in {"free", mode}
                      /\ \A e \in NetDevs \ {d} : driver[e] = "free"

\* How an unbind may end.
Outcomes == IF DriverFails THEN BOOLEAN ELSE {TRUE}

\* The bridge lock is first come, first served, and a join never starts on a card
\* that is being prepared: the joins in flight are ahead of a claim's bind.
ItsTurn(d) == \A t \in Tasks : ~(tasks[t].op = "join" /\ tasks[t].cur = d)

-----------------------------------------------------------------------------
(* Claiming. *)

\* An owner who takes his own device back by force first evicts everyone.
Evict(S) ==
  LET bridged == {d \in S : joins[d] # {}}
      others == {d \in S : claims[d].holder \notin {None, Owner}} IN
  /\ Unclaim(others)
  /\ Unreserve(S)
  /\ joins' = [d \in Devices |-> IF d \in S THEN {} ELSE joins[d]]
  /\ staleJoins' = staleJoins \ (S \X Nodes)
  /\ driver' = [d \in Devices |-> IF d \in bridged THEN "free" ELSE driver[d]]
  /\ SetBindState(bridged, "unbound")

\* claim and _claim up to the first hub.bind.  A peer's claim never has force
\* (httpServer.js).
Claim(t, target, h, force) ==
  LET S == DevicesOf(target)
      preempt == force /\ h = Owner IN
  /\ tasks[t] = Idle
  /\ Resolves(target)
  /\ Unmarked(S)
  /\ Offered(target)
  /\ preempt \/ \A d \in S : FreeFor(d, h)
  /\ preparing' = preparing \cup S
  /\ Become(t, [Idle EXCEPT !.op = "bind", !.by = h, !.target = target, !.held = S, !.todo = S])
  /\ IF preempt THEN Evict(S)
     ELSE UNCHANGED <<driver, bindState, leases, reservations, refresh>>
  /\ UNCHANGED <<plugged, devices, config, requests>>

\* The last device is ready: all of them become the claimer's at once.
Grant(t) ==
  LET k == tasks[t] IN
  /\ claims' = [d \in Devices |->
       IF d \in k.held
       THEN [holder |-> k.by, group |-> IF k.target \in Groups THEN k.target ELSE None]
       ELSE claims[d]]
  /\ expired' = expired \ k.held
  /\ Unreserve(k.held)
  /\ requests' = {r \in requests : r.target # k.target}
  /\ Finish(t)

\* hub.bind of one device of a claim returns.
BindOk(t, d) ==
  /\ tasks[t].op = "bind"
  /\ d \in tasks[t].todo
  /\ ItsTurn(d)
  /\ CanLend(d, "whole")
  /\ driver' = [driver EXCEPT ![d] = "whole"]
  /\ SetBindState({d}, "bound")
  /\ \/ /\ tasks[t].todo = {d}
        /\ Grant(t)
     \/ /\ tasks[t].todo # {d}
        /\ Become(t, [tasks[t] EXCEPT !.todo = @ \ {d}])
        /\ UNCHANGED <<claims, expired, preparing, reservations, requests>>
  /\ UNCHANGED <<plugged, devices, config, joins, staleJoins>>

\* hub.bind of one device of a claim throws: what is ready is rolled back.
BindFail(t, d) ==
  LET done == tasks[t].held \ tasks[t].todo IN
  /\ tasks[t].op = "bind"
  /\ d \in tasks[t].todo
  /\ ItsTurn(d)
  /\ DriverFails \/ ~CanLend(d, "whole")
  /\ \/ /\ done = {}
        /\ SetBindState({d}, "error")
        /\ Finish(t)
     \/ /\ done # {}
        /\ Become(t, [tasks[t] EXCEPT !.op = "rollback", !.todo = done, !.cur = d])
        /\ UNCHANGED <<bindState, preparing, refresh>>
  /\ UNCHANGED <<plugged, driver, devices, config, leases, reservations, requests>>

\* An unbind of the rollback returns; its failure is ignored.
Rollback(t, d) ==
  /\ tasks[t].op = "rollback"
  /\ d \in tasks[t].todo
  /\ \E ok \in Outcomes : driver' = [driver EXCEPT ![d] = IF ok THEN "free" ELSE @]
  /\ \/ /\ tasks[t].todo = {d}
        /\ bindState' = [e \in Devices |-> IF e \notin {d, tasks[t].cur} \cap devices
                                          THEN bindState[e]
                                          ELSE IF e = d THEN "unbound" ELSE "error"]
        /\ Touch({d, tasks[t].cur})
        /\ Finish(t)
     \/ /\ tasks[t].todo # {d}
        /\ SetBindState({d}, "unbound")
        /\ Become(t, [tasks[t] EXCEPT !.todo = @ \ {d}])
        /\ UNCHANGED preparing
  /\ UNCHANGED <<plugged, devices, config, leases, reservations, requests>>

-----------------------------------------------------------------------------
(* Joining the bridge of a network card. *)

\* join and _join up to hub.bind; joinChains lets one join per card through.
Join(t, d, h) ==
  /\ tasks[t] = Idle
  /\ d \in NetDevs \cap devices \cap shared
  /\ h # Owner
  /\ ~Claimed(d)
  /\ Unmarked({d})
  /\ ~ReservedForOther(d, h)
  /\ ItsTurn(d)
  /\ Become(t, [Idle EXCEPT !.op = "join", !.by = h, !.cur = d])
  /\ UNCHANGED <<plugged, driver, devices, bindState, config, leases, preparing,
                 reservations, requests, refresh>>

\* The card's bridge took the holder in.
JoinOk(t) ==
  LET d == tasks[t].cur IN
  /\ tasks[t].op = "join"
  /\ CanLend(d, "bridge")
  /\ driver' = [driver EXCEPT ![d] = "bridge"]
  /\ joins' = [joins EXCEPT ![d] = @ \cup {tasks[t].by}]
  /\ staleJoins' = staleJoins \ {<<d, tasks[t].by>>}
  /\ SetBindState({d}, "bound")
  /\ Unreserve({d})
  /\ Finish(t)
  /\ UNCHANGED <<plugged, devices, config, claims, expired, requests>>

JoinFail(t) ==
  /\ tasks[t].op = "join"
  /\ DriverFails \/ ~CanLend(tasks[t].cur, "bridge")
  /\ SetBindState({tasks[t].cur}, "error")
  /\ Finish(t)
  /\ UNCHANGED <<plugged, driver, devices, config, leases, reservations, requests>>

-----------------------------------------------------------------------------
(* Releasing. *)

\* _release deletes the claim on d and calls hub.unbind(d).
GiveBack(t, k, d) ==
  /\ Unclaim({d})
  /\ Become(t, [k EXCEPT !.cur = d, !.todo = @ \ {d}])

\* _release takes the holder, or everyone by force, out of the bridge of a card
\* that is not claimed.
InBridge(target, h, force) ==
  /\ target \in Devices
  /\ h \in joins[target] \/ (force /\ joins[target] # {} /\ ~Claimed(target))

MayRelease(d, h, force) == Claimed(d) /\ (force \/ claims[d].holder = h)

\* (faulty variant: a release marks, and unmarks, what others have marked)
MarksAll(target) == DevicesOf(target)

\* What a release marks: what nobody else has marked.
Marks(target) == DevicesOf(target) \ preparing

\* release and _release up to the first hub.unbind.  A target without a claim is
\* released at once, and one claimed by another is refused: nothing changes.
Release(t, target, h, force) ==
  /\ tasks[t] = Idle
  /\ Resolves(target)
  /\ \/ /\ InBridge(target, h, force)
        /\ Leave(target, IF h \in joins[target] THEN {h} ELSE joins[target])
        /\ UNCHANGED <<claims, expired, preparing, tasks>>
     \/ /\ ~InBridge(target, h, force)
        /\ \E d \in DevicesOf(target) :
             /\ MayRelease(d, h, force)
             /\ GiveBack(t, [Idle EXCEPT !.op = "unbind", !.by = h, !.target = target,
                                         !.force = force, !.held = Marks(target),
                                         !.todo = DevicesOf(target)], d)
             /\ driver' = [driver EXCEPT ![d] = IF d \in NetDevs THEN "free" ELSE @]
        /\ preparing' = preparing \cup Marks(target)
        /\ UNCHANGED <<bindState, refresh, joins, staleJoins>>

\* The holder, or the owner by force, releases a target.
ReleaseBy(t, target, h, force) ==
  /\ Release(t, target, h, force)
  /\ UNCHANGED <<plugged, devices, config, reservations, requests>>

\* hub.unbind of one device of a release returns, at the first or the second
\* attempt, or fails twice.  The loop goes on with the next claimed device.
Unbound(t, ok) ==
  LET k == tasks[t]
      d == k.cur
      freed == IF ok /\ d \notin NetDevs THEN {d} ELSE {}
      left == {e \in k.todo : Claimed(e)} IN
  /\ k.op = "unbind"
  /\ SetBindState({d}, IF ok THEN "unbound" ELSE "error")
  /\ \/ /\ left = {} \/ \E e \in left : ~MayRelease(e, k.by, k.force)
        /\ driver' = [x \in Devices |-> IF x \in freed THEN "free" ELSE driver[x]]
        /\ Finish(t)
        /\ UNCHANGED <<claims, expired>>
     \/ \E e \in left :
          /\ MayRelease(e, k.by, k.force)
          /\ GiveBack(t, k, e)
          /\ driver' = [x \in Devices |-> IF x \in freed \cup ({e} \cap NetDevs)
                                          THEN "free" ELSE driver[x]]
          /\ UNCHANGED preparing
  /\ UNCHANGED <<plugged, devices, config, joins, staleJoins, reservations, requests>>

-----------------------------------------------------------------------------
(* Heartbeats, the sweep and the watch over data connections. *)

\* renew: extends what h has of a target; a device held by another node makes it
\* throw, after the devices before it.
Renew(target, h) ==
  LET S == DevicesOf(target)
      foreign == {d \in S : h \notin joins[d] /\ claims[d].holder \notin {None, h}}
      mine == {d \in S : h \in joins[d] \/ claims[d].holder = h} IN
  /\ Resolves(target)
  /\ \E R \in SUBSET mine :
       /\ foreign = {} => R = mine
       /\ expired' = expired \ {d \in R : h \notin joins[d]}
       /\ staleJoins' = staleJoins \ (R \X {h})
  /\ UNCHANGED <<plugged, driver, devices, bindState, config, claims, joins, preparing,
                 reservations, requests, refresh, tasks>>

\* No heartbeat came for the length of a lease.
LeaseRunsOut(d) ==
  /\ Claimed(d)
  /\ expired' = expired \cup {d}
  /\ UNCHANGED <<plugged, driver, devices, bindState, config, claims, joins, staleJoins,
                 preparing, reservations, requests, refresh, tasks>>

JoinRunsOut(d, h) ==
  /\ h \in joins[d]
  /\ staleJoins' = staleJoins \cup {<<d, h>>}
  /\ UNCHANGED <<plugged, driver, devices, bindState, config, claims, expired, joins,
                 preparing, reservations, requests, refresh, tasks>>

\* (faulty variant: the sweep releases the device, not its group)
LeaseTargetAlone(d) == d

\* The target a lease is released by: the group it was taken through, or itself.
LeaseTarget(d) == IF claims[d].group # None THEN claims[d].group ELSE d

\* _sweep: an expired lease is released by force, in its holder's name.
SweepClaim(t, d) ==
  /\ d \in expired
  /\ Release(t, LeaseTarget(d), claims[d].holder, TRUE)
  /\ UNCHANGED <<plugged, devices, config, reservations, requests>>

\* _sweep: an expired join is taken out of the bridge, if the card is still known.
SweepJoin(d, h) ==
  /\ <<d, h>> \in staleJoins
  /\ d \in devices
  /\ Leave(d, {h})
  /\ UNCHANGED <<plugged, devices, config, claims, expired, preparing, reservations,
                 requests, tasks>>

\* onDataClosed: the data connection of a remote holder stayed closed for the
\* length of a lease, although the heartbeat may go on.
DataLost(t, d) ==
  /\ claims[d].holder \notin {None, Owner}
  /\ Release(t, LeaseTarget(d), claims[d].holder, TRUE)
  /\ UNCHANGED <<plugged, devices, config, reservations, requests>>

\* The holder of a card has left its channel for a minute: netShare takes the path
\* apart, whatever the table says.
PathGivenUp(d) ==
  /\ driver[d] = "whole"
  /\ driver' = [driver EXCEPT ![d] = "free"]
  /\ UNCHANGED <<plugged, devices, bindState, config, leases, preparing, reservations,
                 requests, refresh, tasks>>

ReservationLapses(d) ==
  /\ reservations[d] # NoReservation
  /\ Unreserve({d})
  /\ UNCHANGED <<plugged, driver, devices, bindState, config, leases, preparing, requests,
                 refresh, tasks>>

-----------------------------------------------------------------------------
(* Requests. *)

\* createRequest: addressed to who holds the target now.
CreateRequest(target, r) ==
  /\ Asking
  /\ Resolves(target)
  /\ \A q \in requests : ~(q.target = target /\ q.requester = r)
  /\ \E d \in DevicesOf(target) :
       /\ claims[d].holder \notin {None, r}
       /\ requests' = requests \cup
            {[target |-> target, requester |-> r, holder |-> claims[d].holder]}
  /\ UNCHANGED <<plugged, driver, devices, bindState, config, leases, preparing,
                 reservations, refresh, tasks>>

\* answerRequest with accept: the reservation is set before the release.  Only the
\* holder the request was addressed to may answer; `by` records whether he still
\* is the one who holds the device.
Accept(t, q) ==
  /\ q \in requests
  /\ requests' = requests \ {q}
  /\ \/ /\ Resolves(q.target)
        /\ reservations' = [d \in Devices |->
             IF d \in DevicesOf(q.target)
             THEN [for |-> q.requester, by |-> IF claims[d].holder = q.holder THEN q.holder ELSE None]
             ELSE reservations[d]]
        /\ \/ Release(t, q.target, q.holder, TRUE)
           \/ /\ ~InBridge(q.target, q.holder, TRUE)
              /\ \A d \in DevicesOf(q.target) : ~Claimed(d)
              /\ UNCHANGED <<driver, bindState, leases, preparing, refresh, tasks>>
     \/ /\ ~Resolves(q.target)
        /\ UNCHANGED <<driver, bindState, leases, preparing, reservations, refresh, tasks>>
  /\ UNCHANGED <<plugged, devices, config>>

\* The request is declined, cancelled by its author, or runs out.
DropRequest(q) ==
  /\ q \in requests
  /\ requests' = requests \ {q}
  /\ UNCHANGED <<plugged, driver, devices, bindState, config, leases, preparing,
                 reservations, refresh, tasks>>

-----------------------------------------------------------------------------
(* The poll of the devices. *)

Plug(d) ==
  /\ d \in Unpluggable
  /\ plugged' = IF d \in plugged THEN plugged \ {d} ELSE plugged \cup {d}
  /\ driver' = [driver EXCEPT ![d] = IF d \in NetDevs THEN @ ELSE "free"]
  /\ UNCHANGED <<devices, bindState, config, leases, preparing, reservations, requests,
                 refresh, tasks>>

\* refresh calls hub.listLocal ...
RefreshStart ==
  /\ ~refresh.on
  /\ refresh' = [on |-> TRUE, seen |-> plugged,
                 bound |-> {d \in plugged : driver[d] # "free"}, touched |-> {}]
  /\ UNCHANGED <<plugged, driver, devices, bindState, config, leases, preparing,
                 reservations, requests, tasks>>

\* (faulty variant: stateStamp is not compared with the start of the poll)
NeverFresher(d) == FALSE

\* Whether the table knows better than the snapshot of the poll.
Fresher(d) == d \in refresh.touched

\* ... and puts its answer into the table.
RefreshEnd ==
  LET gone == devices \ refresh.seen IN
  /\ refresh.on
  /\ devices' = refresh.seen
  /\ bindState' = [d \in Devices |->
       CASE d \notin refresh.seen -> "unbound"
         [] d \in refresh.seen /\ Fresher(d) -> bindState[d]
         [] d \in refresh.bound /\ ~Fresher(d) -> "bound"
         [] OTHER -> IF bindState[d] = "error" THEN "error" ELSE "unbound"]
  /\ Unclaim(gone)
  /\ joins' = [d \in Devices |-> IF d \in gone THEN {} ELSE joins[d]]
  /\ staleJoins' = staleJoins \ (gone \X Nodes)
  /\ Unreserve(gone)
  /\ driver' = [d \in Devices |-> IF d \in gone \cap NetDevs THEN "free" ELSE driver[d]]
  /\ refresh' = NoRefresh
  /\ UNCHANGED <<plugged, config, preparing, requests, tasks>>

-----------------------------------------------------------------------------
(* The owner's settings. *)

\* setShared(d, true), by the owner or by autoShareNew.
Share(d) ==
  /\ "share" \in OwnerEdits
  /\ d \in devices
  /\ shared' = shared \cup {d}
  /\ UNCHANGED <<plugged, driver, devices, bindState, groups, leases, preparing,
                 reservations, requests, refresh, tasks>>

\* setShared(d, false): a device the driver still has is returned.
Unshare(t, d) ==
  /\ "share" \in OwnerEdits
  /\ d \in devices
  /\ ~Held(d)
  /\ ~InPublishedGroup(d)
  /\ shared' = shared \ {d}
  /\ \/ /\ bindState[d] = "bound"
        /\ tasks[t] = Idle
        /\ Become(t, [Idle EXCEPT !.op = "unshare", !.cur = d])
        /\ driver' = [driver EXCEPT ![d] = IF d \in NetDevs THEN "free" ELSE @]
     \/ bindState[d] # "bound" /\ UNCHANGED <<driver, tasks>>
  /\ UNCHANGED <<plugged, devices, bindState, groups, leases, preparing, reservations,
                 requests, refresh>>

Unshared(t, ok) ==
  LET d == tasks[t].cur IN
  /\ tasks[t].op = "unshare"
  /\ driver' = [driver EXCEPT ![d] = IF ok /\ d \notin NetDevs THEN "free" ELSE @]
  /\ SetBindState({d}, IF ok THEN "unbound" ELSE "error")
  /\ Finish(t)
  /\ UNCHANGED <<plugged, devices, config, leases, reservations, requests>>

\* setGroupShared: nothing is asked of the members when a group is published.
PublishGroup(g, on) ==
  /\ "publish" \in OwnerEdits
  /\ groups[g].members # {}
  /\ on \/ \A d \in groups[g].members : ~Held(d)
  /\ groups' = [groups EXCEPT ![g].shared = on]
  /\ UNCHANGED <<plugged, driver, devices, bindState, shared, leases, preparing,
                 reservations, requests, refresh, tasks>>

\* saveGroup: a new group is published at once.
SaveGroup(g, S) ==
  /\ "group" \in OwnerEdits
  /\ S # {} /\ S \subseteq devices
  /\ \A h \in Groups \ {g} : groups[h].members \cap S = {}
  /\ \A d \in S : ~Held(d)
  /\ groups' = [groups EXCEPT ![g] =
       [members |-> S, shared |-> groups[g].members = {} \/ groups[g].shared]]
  /\ UNCHANGED <<plugged, driver, devices, bindState, shared, leases, preparing,
                 reservations, requests, refresh, tasks>>

DeleteGroup(g) ==
  /\ "group" \in OwnerEdits
  /\ groups[g].members # {}
  /\ \A d \in groups[g].members : ~Held(d)
  /\ groups' = [groups EXCEPT ![g] = [members |-> {}, shared |-> FALSE]]
  /\ UNCHANGED <<plugged, driver, devices, bindState, shared, leases, preparing,
                 reservations, requests, refresh, tasks>>

Edit ==
  \/ \E d \in Devices : Share(d)
  \/ \E t \in Tasks, d \in Devices : Unshare(t, d)
  \/ \E g \in Groups, on \in BOOLEAN : PublishGroup(g, on)
  \/ \E g \in Groups, S \in SUBSET Devices : SaveGroup(g, S)
  \/ \E g \in Groups : DeleteGroup(g)

-----------------------------------------------------------------------------
DriverAnswers(t) ==
  \/ \E d \in Devices : BindOk(t, d)
  \/ \E d \in Devices : BindFail(t, d)
  \/ \E d \in Devices : Rollback(t, d)
  \/ JoinOk(t)
  \/ JoinFail(t)
  \/ \E ok \in Outcomes : Unbound(t, ok)
  \/ \E ok \in Outcomes : Unshared(t, ok)

Calls(t) ==
  \/ \E x \in Targets, h \in Nodes, force \in BOOLEAN : Claim(t, x, h, force)
  \/ \E d \in NetDevs, h \in Nodes : Join(t, d, h)
  \/ \E x \in Targets, h \in Nodes : ReleaseBy(t, x, h, FALSE)
  \/ \E x \in Targets : ReleaseBy(t, x, Owner, TRUE)
  \/ \E q \in requests : Accept(t, q)

Polls ==
  \/ \E d \in Devices : Plug(d)
  \/ RefreshStart
  \/ RefreshEnd

Clock ==
  \/ \E x \in Targets, h \in Nodes : Renew(x, h)
  \/ \E d \in Devices : LeaseRunsOut(d)
  \/ \E d \in NetDevs, h \in Nodes : JoinRunsOut(d, h)
  \/ \E t \in Tasks, d \in Devices : SweepClaim(t, d)
  \/ \E d \in NetDevs, h \in Nodes : SweepJoin(d, h)
  \/ \E t \in Tasks, d \in Devices : DataLost(t, d)
  \/ \E d \in NetDevs : PathGivenUp(d)
  \/ \E d \in Devices : ReservationLapses(d)
  \/ \E x \in Targets, r \in Nodes : CreateRequest(x, r)
  \/ \E q \in requests : DropRequest(q)

Next ==
  \/ \E t \in Tasks : DriverAnswers(t) \/ Calls(t)
  \/ Polls
  \/ Clock
  \/ Edit

Spec == Init /\ [][Next]_vars

\* The timers of the poll (4 s) and of the sweep (2 s) always fire again, and a
\* call of the driver returns.  A sweep never waits for a slot in the code, so
\* being enabled again and again is enough for it.
Fairness ==
  /\ WF_vars(RefreshStart) /\ WF_vars(RefreshEnd)
  /\ \A t \in Tasks : WF_vars(DriverAnswers(t))
  /\ \A d \in Devices : SF_vars(\E t \in Tasks : SweepClaim(t, d))
  /\ \A d \in NetDevs, h \in Nodes : WF_vars(SweepJoin(d, h))

FairSpec == Spec /\ Fairness

-----------------------------------------------------------------------------
(* Safety. *)

\* preparing is a lock: every mark belongs to exactly one handler that is waiting
\* for the driver, so no mark outlives its handler (the device would be busy for
\* ever) and none is taken off by a handler that did not set it.
PreparingIsALock ==
  /\ \A d \in Devices : d \in preparing <=> \E t \in Tasks : d \in tasks[t].held
  /\ \A t, u \in Tasks : t # u => tasks[t].held \cap tasks[u].held = {}

\* While a claim is being prepared, nobody but its claimer holds any of its
\* devices, although the check was made before the awaits.
NoRivalOfAClaim ==
  \A t \in Tasks : tasks[t].op \in {"bind", "rollback"} =>
    \A d \in tasks[t].held : claims[d].holder \in {None, tasks[t].by}

\* A device passes from one holder to another only through being free: a lease is
\* always ended (and its holder told so) before the next one is given.
HandsOverThroughFree ==
  [][\A d \in Devices : Claimed(d) /\ Claimed(d)' => claims'[d].holder = claims[d].holder]_vars

\* A card is either lent whole or to its bridge: it is never claimed and joined at
\* the same time, whatever calls were waiting for the driver together.
WholeOrBridge == \A d \in Devices : ~(Claimed(d) /\ joins[d] # {})

\* To the other nodes the table is what module Lease promises.
Lent == INSTANCE Lease WITH
  mode <- [d \in Devices |-> IF Claimed(d) THEN "whole" ELSE IF joins[d] # {} THEN "bridge" ELSE "free"],
  users <- [d \in Devices |-> joins[d] \cup ({claims[d].holder} \ {None})]

ImplementsLease == Lent!Spec

\* A device whose holder has promised it goes to the one it was promised to, stays
\* with the one who promised it, or is taken back by the owner; nobody else gets
\* it, although the release of a promised device waits for the driver.
PromiseKept ==
  [][\A d \in Devices :
       LET new == ({claims'[d].holder} \cup joins'[d]) \ ({claims[d].holder, None} \cup joins[d]) IN
       reservations[d].by # None =>
         new \subseteq {reservations[d].for, reservations[d].by, Owner}]_vars

\* The table never believes that a device is bound when the driver has let it go:
\* a snapshot taken before a release does not come back over it.
BoundIsReal ==
  \A d \in devices \cap plugged : bindState[d] = "bound" => driver[d] # "free"

\* Only the holder answers a request (answerRequest, line 790): nobody promises a
\* device that he does not hold.
OnlyTheHolderPromises == \A d \in Devices : reservations[d].for # None => reservations[d].by # None

\* "Until unbind is over the device is not free" (release, lines 667-669): no other
\* node holds a device that is still being taken back from the one who released it.
NotTakenWhileReturned ==
  \A t \in Tasks : tasks[t].op = "unbind" /\ ~tasks[t].force =>
    claims[tasks[t].cur].holder \in {None, tasks[t].by}

(* Liveness. *)

\* A lease that has run out ends, or is renewed, while the device is there.
LeaseIsReclaimed ==
  \A d \in Devices : (d \in expired) ~> (d \notin expired \/ d \notin devices)

\* A lease is out of reach of the sweep when the way it was taken no longer
\* resolves: a published group has come to dispose of the device, or the group it
\* was taken through is gone or incomplete.
OutOfReach(d) ==
  IF claims[d].group = None THEN InPublishedGroup(d)
  ELSE LET M == groups[claims[d].group].members IN M = {} \/ ~(M \subseteq devices)

\* Short of that, a lease that has run out ends or is renewed.
LeaseEnds ==
  \A d \in Devices : (d \in expired) ~> (d \notin expired \/ d \notin devices \/ OutOfReach(d))

\* A device is not being prepared for ever.
PreparingEnds == \A d \in Devices : (d \in preparing) ~> (d \notin preparing)
=============================================================================
