----------------------------- MODULE UpdateWave -----------------------------
(***************************************************************************)
(* How a version of the application spreads from node to node: the updater *)
(* (src/src/update/updater.js), the seeder (seeder.js) and the policy of   *)
(* restarts (policy.js), with what the launcher does with a trial.         *)
(*                                                                         *)
(* There is no coordinator.  A node sees from the announcements which      *)
(* versions its neighbours run and since when, downloads a newer one from  *)
(* whoever has it, and restarts into it when the neighbour that has run it *)
(* longest has done so for the canary time and its own turn has come.  A   *)
(* version that fails its trial is bad on that node, and neighbours ask    *)
(* each other what went bad.                                               *)
(*                                                                         *)
(* Time passes in units (Tick).  Within a unit everybody is heard, unless  *)
(* an announcement is lost.                                                *)
(***************************************************************************)
EXTENDS Naturals, FiniteSets, FiniteSetsExt

CONSTANTS
  Nodes,
  MaxVersion,   \* versions are 1 .. MaxVersion; all nodes start with 1
  Order,        \* the place of each node in the queue (a hash in the code)
  CanaryTime,   \* updateCanaryMinutes
  StepTime,     \* updateWaveStepSec
  TrialTime,    \* a trial is over by then
  Timeout,      \* how long a silent neighbour counts as online
  Slots,        \* downloads at a time from one node
  MaxTests,     \* (bound) versions put on nodes by hand
  MaxActs,      \* (bound) other acts of users
  MaxMishaps,   \* (bound) lost announcements, broken transfers, failures of good versions
  None

Versions == 1..MaxVersion

ASSUME ConstantsOK ==
  /\ IsFiniteSet(Nodes)
  /\ MaxVersion \in Nat \ {0}
  /\ Order \in [Nodes -> Nat] /\ \A m, n \in Nodes : Order[m] = Order[n] => m = n
  /\ StepTime \in Nat /\ TrialTime \in Nat /\ Timeout \in Nat
  /\ CanaryTime \in Nat /\ CanaryTime > TrialTime + Timeout
  /\ Slots \in Nat \ {0}
  /\ MaxTests \in Nat /\ MaxActs \in Nat /\ MaxMishaps \in Nat
  /\ None \notin Nodes \cup Versions

MaxAge == CanaryTime + StepTime * (Cardinality(Nodes) - 1)

VARIABLES
  faulty,     \* the versions that never pass a trial
  run,        \* the version each node runs
  age,        \* for how long, up to MaxAge
  current, previous, highest, bad,   \* state.json: of them, current is the confirmed one
  stored,     \* versions in releases/
  busy,       \* the node has devices in use
  view,       \* what the node knows of the others from their announcements
  reported,   \* what others have said is bad: pairs of node and version
  staged,     \* the version ready for the restart
  approved,   \* ... that the user allows
  hurry,      \* updateNowFor
  job,        \* what the tick of the updater is at
  slots,      \* the reservations of the seeder
  tested,     \* (history) versions the user of a node had it run
  tests, acts, mishaps

state == <<current, previous, highest, bad, stored>>
process == <<run, age, busy>>
choice == <<staged, approved, hurry>>
memory == <<view, reported, choice, job, slots>>
budget == <<tests, acts, mishaps>>
vars == <<faulty, state, process, memory, tested, budget>>

Trial(n) == run[n] # current[n]

Unknown == [ver |-> 0, age |-> 0, silent |-> 0]

\* at: "idle"; "asking", of the nodes in left; "granted", a slot at from; "receiving".
Resting == [at |-> "idle", ver |-> 0, from |-> None, left |-> {}]

TypeOK ==
  /\ faulty \subseteq Versions
  /\ run \in [Nodes -> Versions] /\ age \in [Nodes -> 0..MaxAge]
  /\ current \in [Nodes -> Versions] /\ previous \in [Nodes -> Versions \cup {None}]
  /\ highest \in [Nodes -> Versions]
  /\ bad \in [Nodes -> SUBSET Versions] /\ stored \in [Nodes -> SUBSET Versions]
  /\ busy \in [Nodes -> BOOLEAN]
  /\ view \in [Nodes -> [Nodes -> [ver : 0..MaxVersion, age : 0..MaxAge, silent : 0..Timeout]]]
  /\ reported \in [Nodes -> SUBSET (Nodes \X Versions)]
  /\ staged \in [Nodes -> Versions \cup {None}]
  /\ approved \in [Nodes -> Versions \cup {None}] /\ hurry \in [Nodes -> Versions \cup {None}]
  /\ job \in [Nodes -> [at : {"idle", "asking", "granted", "receiving"},
                        ver : 0..MaxVersion, from : Nodes \cup {None}, left : SUBSET Nodes]]
  /\ slots \in [Nodes -> SUBSET [to : Nodes, ver : Versions, active : BOOLEAN]]
  /\ tested \in [Nodes -> SUBSET Versions]
  /\ tests \in 0..MaxTests /\ acts \in 0..MaxActs /\ mishaps \in 0..MaxMishaps

Init ==
  /\ faulty \in SUBSET (Versions \ {1})
  /\ run = [n \in Nodes |-> 1] /\ age = [n \in Nodes |-> MaxAge]
  /\ current = run /\ highest = run
  /\ previous = [n \in Nodes |-> None]
  /\ bad = [n \in Nodes |-> {}] /\ stored = [n \in Nodes |-> {1}]
  /\ busy = [n \in Nodes |-> FALSE]
  /\ view = [n \in Nodes |-> [m \in Nodes |-> Unknown]]
  /\ reported = [n \in Nodes |-> {}]
  /\ staged = [n \in Nodes |-> None] /\ approved = staged /\ hurry = staged
  /\ job = [n \in Nodes |-> Resting]
  /\ slots = [n \in Nodes |-> {}]
  /\ tested = [n \in Nodes |-> {}]
  /\ tests = 0 /\ acts = 0 /\ mishaps = 0

Mishap == mishaps < MaxMishaps /\ mishaps' = mishaps + 1 /\ UNCHANGED <<tests, acts>>
Act == acts < MaxActs /\ acts' = acts + 1 /\ UNCHANGED <<tests, mishaps>>

-----------------------------------------------------------------------------
(* What a node sees. *)

Online(n) == {m \in Nodes \ {n} : view[n][m].ver # 0}

\* _reporters: how many have said that v is bad.
Accusers(reports, v) == Cardinality({r \in reports : r[2] = v})

\* The seeder hands out the newest version it has, save those reported by neighbours.
Best(n) == Max({0} \cup {v \in stored[n] : Accusers(reported[n], v) = 0})

\* The newest version a neighbour shows that this node may take; 0 when there is none.
Candidate(n, reports) ==
  Max({0} \cup {v \in {view[n][m].ver : m \in Online(n)} :
                  v > run[n] /\ v > highest[n] /\ v \notin bad[n] /\ Accusers(reports, v) < 2})

Sources(n, v) == {m \in Online(n) : view[n][m].ver = v}

\* The place in the queue of those who run something older.
Rank(n, v) == Cardinality({m \in Online(n) : view[n][m].ver < v /\ Order[m] < Order[n]})

\* (faulty variant: any neighbour that runs it will do, for however short a time)
ItsTurnAtOnce(n, v) == Sources(n, v) # {}

\* waveSchedule: the neighbour that has run it longest has run it long enough.
ItsTurn(n, v) == \E m \in Sources(n, v) : view[n][m].age >= CanaryTime + StepTime * Rank(n, v)

SafeToRestart(n) == ~busy[n] /\ \A s \in slots[n] : ~s.active

-----------------------------------------------------------------------------
(* Processes start and end; the launcher. *)

\* A transfer from n is cut when its process ends: the client goes on to its other sources.
CutOff(n) ==
  [m \in Nodes |->
     IF m = n THEN Resting
     ELSE IF job[m].from = n THEN [job[m] EXCEPT !.at = "asking", !.from = None]
     ELSE job[m]]

\* How long the oldest version has run makes no difference to anybody.
AgeAtStart(v) == IF v = 1 THEN MaxAge ELSE 0

\* The process of n ends and starts again with version v; its memory is lost.
Anew(n, v) ==
  /\ run' = [run EXCEPT ![n] = v] /\ age' = [age EXCEPT ![n] = AgeAtStart(v)]
  /\ busy' = [busy EXCEPT ![n] = FALSE]
  /\ view' = [view EXCEPT ![n] = [m \in Nodes |-> Unknown]]
  /\ reported' = [reported EXCEPT ![n] = {}]
  /\ staged' = [staged EXCEPT ![n] = None]
  /\ approved' = [approved EXCEPT ![n] = None]
  /\ hurry' = [hurry EXCEPT ![n] = None]
  /\ job' = CutOff(n)
  /\ UNCHANGED faulty
StartsAs(n, v) == Anew(n, v) /\ slots' = [slots EXCEPT ![n] = {}]

\* An installer or a release file on one node; the launcher puts the version on trial.
TestByHand(n, v) ==
  /\ tests < MaxTests /\ tests' = tests + 1 /\ UNCHANGED <<acts, mishaps>>
  /\ v > current[n] /\ v # run[n]
  /\ stored' = [stored EXCEPT ![n] = @ \cup {v}]
  /\ tested' = [tested EXCEPT ![n] = @ \cup {v}]
  /\ StartsAs(n, v)
  /\ UNCHANGED <<current, previous, highest, bad>>

\* The version on trial has reported itself healthy.
Confirm(n) ==
  /\ Trial(n) /\ run[n] \notin faulty /\ age[n] = TrialTime
  /\ current' = [current EXCEPT ![n] = run[n]]
  /\ previous' = [previous EXCEPT ![n] = current[n]]
  /\ highest' = [highest EXCEPT ![n] = Max({@, run[n]})]
  /\ stored' = [stored EXCEPT ![n] = @ \cap {run[n], current[n]}]
  /\ UNCHANGED <<faulty, bad, process, memory, tested, budget>>

\* It dies, or says nothing; a good one may die as well.
TrialFails(n) ==
  /\ Trial(n)
  /\ IF run[n] \in faulty THEN UNCHANGED budget ELSE Mishap
  /\ bad' = [bad EXCEPT ![n] = @ \cup {run[n]}]
  /\ StartsAs(n, current[n])
  /\ UNCHANGED <<current, previous, highest, stored, tested>>

\* rollbackCommitted
RollBack(n) ==
  /\ previous[n] # None
  /\ bad' = [bad EXCEPT ![n] = @ \cup {current[n]}]
  /\ current' = [current EXCEPT ![n] = previous[n]]
  /\ previous' = [previous EXCEPT ![n] = None]
  /\ StartsAs(n, previous[n])
  /\ UNCHANGED <<highest, stored, tested>>

\* The user asks for it, or a confirmed version keeps crashing.
RollbackNow(n) == Act /\ RollBack(n)
CrashLoop(n) == Mishap /\ ~Trial(n) /\ RollBack(n)

Reboot(n) == Mishap /\ ~Trial(n) /\ StartsAs(n, run[n]) /\ UNCHANGED <<state, tested>>

-----------------------------------------------------------------------------
(* Time, and announcements. *)

Older(a) == IF a = MaxAge THEN a ELSE a + 1

\* What n knows of m after a unit of time in which it has heard it, or has not.
Heard(m) == [ver |-> run[m], age |-> Older(age[m]), silent |-> 0]
Missed(known) ==
  IF known.ver = 0 \/ known.silent = Timeout THEN Unknown
  ELSE [known EXCEPT !.age = Older(@), !.silent = @ + 1]

\* A unit of time; lost holds the pairs of which the first has not heard the second.
TimePasses(lost) ==
  /\ \A n \in Nodes : Trial(n) => age[n] < TrialTime
  /\ age' = [n \in Nodes |-> Older(age[n])]
  /\ view' = [n \in Nodes |-> [m \in Nodes |->
                IF m = n THEN Unknown
                ELSE IF <<n, m>> \in lost THEN Missed(view[n][m]) ELSE Heard(m)]]
  /\ UNCHANGED <<faulty, state, run, busy, reported, choice, job, slots, tested>>

Tick == TimePasses({}) /\ UNCHANGED budget
TickWithLoss(m, n) == Mishap /\ m # n /\ TimePasses({<<m, n>>})

-----------------------------------------------------------------------------
(* The updater: a tick, from the question what went bad to the restart. *)

\* The answers to /peer/update-status; one may be lost.
Polled(n, silent) == {r \in (Online(n) \ silent) \X Versions : r[2] \in bad[r[1]]}
Silent(n, silent) ==
  \/ silent = {} /\ UNCHANGED budget
  \/ Mishap /\ silent \subseteq Online(n) /\ Cardinality(silent) = 1

\* _reactToReports: a staged version that two neighbours have reported is dropped,
\* when the reports have changed.
KeptStaged(n, reports) ==
  IF reports # reported[n] /\ staged[n] # None /\ Accusers(reports, staged[n]) >= 2
  THEN None ELSE staged[n]

\* (faulty variant: a report of a neighbour does not matter)
AllowedAnyway(n, v, reports) == TRUE

\* A version one neighbour has reported needs the word of the user.
Allowed(n, v, reports) == Accusers(reports, v) = 1 => approved[n] = v

\* _evaluateRestart says yes ...
Goes(n, v, reports) ==
  \/ hurry[n] = v
  \/ Allowed(n, v, reports) /\ ItsTurn(n, v) /\ SafeToRestart(n)

\* ... and restartInto follows, the launcher puts the version on trial.
NoteHurry(n, v) == tested' = IF hurry[n] = v THEN [tested EXCEPT ![n] = @ \cup {v}] ELSE tested
RestartInto(n, v) ==
  /\ StartsAs(n, v) /\ NoteHurry(n, v)
  /\ UNCHANGED state

\* The staged version stays the choice of the tick.
StillChosen(n, v, reports) ==
  /\ v # None /\ v > run[n] /\ v \notin bad[n]
  /\ Candidate(n, reports) <= v

\* tick, when it comes to nothing but waiting.
Waits(n, v, reports) ==
  /\ staged' = [staged EXCEPT ![n] = v]
  /\ approved' = [approved EXCEPT ![n] = IF v = None THEN None ELSE @]
  /\ reported' = [reported EXCEPT ![n] = reports]
  /\ UNCHANGED <<faulty, state, process, view, hurry, job, slots, tested>>

\* A version nobody runs any longer is forgotten after an hour.
CheckForgets(n) ==
  /\ job[n] = Resting /\ staged[n] # None /\ Sources(n, staged[n]) = {}
  /\ Candidate(n, reported[n]) <= staged[n]
  /\ Waits(n, None, reported[n])
  /\ UNCHANGED budget

Check(n, silent) ==
  /\ job[n] = Resting /\ ~Trial(n)
  /\ Silent(n, silent)
  /\ LET reports == Polled(n, silent)
         v == KeptStaged(n, reports)
         new == Candidate(n, reports) IN
     \/ /\ StillChosen(n, v, reports)
        /\ IF Goes(n, v, reports) THEN RestartInto(n, v) ELSE Waits(n, v, reports)
     \/ /\ ~StillChosen(n, v, reports) /\ new = 0
        /\ Waits(n, None, reports)
     \/ /\ ~StillChosen(n, v, reports) /\ new # 0
        /\ staged' = [staged EXCEPT ![n] = None] /\ approved' = [approved EXCEPT ![n] = None]
        /\ reported' = [reported EXCEPT ![n] = reports]
        /\ job' = [job EXCEPT ![n] = [at |-> "asking", ver |-> new, from |-> None, left |-> Online(n)]]
        /\ UNCHANGED <<faulty, state, process, view, hurry, slots, tested>>

\* Between two ticks the neighbours are asked as well, while a version is staged.
PollAside(n, silent) ==
  /\ staged[n] # None
  /\ Silent(n, silent)
  /\ LET reports == Polled(n, silent) IN Waits(n, KeptStaged(n, reports), reports)

-----------------------------------------------------------------------------
(* The download: a manifest, a slot, the archive; the seeder. *)

SlotsOf(m, n) == {s \in slots[m] : s.to = n}

\* (faulty variant: done is not called)
KeepSlot(m, s) == UNCHANGED slots

Without(m, s) == slots' = [slots EXCEPT ![m] = @ \ s]

\* _markSourceFailed, or the source is busy: the next one.
NextSource(n, m) ==
  job' = [job EXCEPT ![n].at = "asking", ![n].from = None, ![n].left = @ \ {m}]

\* What the manifest of m must be for n to ask for a slot: at least the version wanted (_acquire),
\* and not one that _judge refuses.
Acceptable(n, m) ==
  /\ Best(m) # 0 /\ Best(m) >= job[n].ver
  /\ Best(m) > run[n] /\ Best(m) > highest[n] /\ Best(m) \notin bad[n]

\* (faulty variant: the seeder counts the transfers, not the reservations)
SlotFreeOfTransfers(m, n) == Cardinality({s \in slots[m] : s.active}) < Slots

\* reserve: a free slot, one for an address; a reservation not used yet is given again.
SlotFree(m, n) ==
  \/ \E s \in SlotsOf(m, n) : s.ver = Best(m) /\ ~s.active
  \/ SlotsOf(m, n) = {} /\ Cardinality(slots[m]) < Slots

Ask(n, m) ==
  /\ job[n].at = "asking" /\ m \in job[n].left
  /\ \/ /\ Acceptable(n, m) /\ SlotFree(m, n)
        /\ slots' = [slots EXCEPT ![m] = @ \cup {[to |-> n, ver |-> Best(m), active |-> FALSE]}]
        /\ job' = [job EXCEPT ![n].at = "granted", ![n].from = m, ![n].ver = Best(m)]
        /\ UNCHANGED budget
     \/ /\ ~(Acceptable(n, m) /\ SlotFree(m, n))
        /\ NextSource(n, m)
        /\ UNCHANGED <<slots, budget>>
     \/ Mishap /\ NextSource(n, m) /\ UNCHANGED slots
  /\ UNCHANGED <<faulty, state, process, view, reported, choice, tested>>

\* begin: the reservation is still there, and so is the version.
Begin(n) ==
  LET m == job[n].from
      mine == {s \in SlotsOf(m, n) : s.ver = job[n].ver /\ Best(m) = s.ver} IN
  /\ job[n].at = "granted"
  /\ IF mine # {}
     THEN /\ slots' = [slots EXCEPT ![m] = (@ \ mine) \cup {[s EXCEPT !.active = TRUE] : s \in mine}]
          /\ job' = [job EXCEPT ![n].at = "receiving"]
     ELSE NextSource(n, m) /\ UNCHANGED slots
  /\ UNCHANGED <<faulty, state, process, view, reported, choice, tested, budget>>

\* The archive is complete and unpacked (installRelease); the end of _acquire, and of tick.
Receive(n) ==
  LET m == job[n].from
      v == job[n].ver IN
  /\ job[n].at = "receiving"
  /\ stored' = [stored EXCEPT ![n] = @ \cup {v}]
  /\ IF Goes(n, v, reported[n])
     THEN /\ Anew(n, v) /\ NoteHurry(n, v)
          /\ slots' = [slots EXCEPT ![n] = {}, ![m] = @ \ SlotsOf(m, n)]
     ELSE /\ staged' = [staged EXCEPT ![n] = v]
          /\ job' = [job EXCEPT ![n] = Resting]
          /\ Without(m, SlotsOf(m, n))
          /\ UNCHANGED <<faulty, process, view, reported, approved, hurry, tested>>
  /\ UNCHANGED <<current, previous, highest, bad, budget>>

\* The transfer breaks off.
Break(n) ==
  /\ Mishap
  /\ job[n].at = "receiving"
  /\ Without(job[n].from, SlotsOf(job[n].from, n))
  /\ NextSource(n, job[n].from)
  /\ UNCHANGED <<faulty, state, process, view, reported, choice, tested>>

\* No source is left: until the next tick.
GiveUp(n) ==
  /\ job[n].at = "asking" /\ job[n].left = {}
  /\ job' = [job EXCEPT ![n] = Resting]
  /\ UNCHANGED <<faulty, state, process, view, reported, choice, slots, tested, budget>>

\* done, when the client is gone; _gc, when it never came.
SlotEnds(m, n) ==
  /\ SlotsOf(m, n) # {} /\ job[n].from # m
  /\ Without(m, SlotsOf(m, n))
  /\ UNCHANGED <<faulty, state, process, view, reported, choice, job, tested, budget>>

-----------------------------------------------------------------------------
(* The user. *)

Approve(n) ==
  /\ Act
  /\ staged[n] # None
  /\ approved' = [approved EXCEPT ![n] = staged[n]]
  /\ UNCHANGED <<faulty, state, process, view, reported, staged, hurry, job, slots, tested>>

\* restartNow, and updateNow with a version staged.
RestartNow(n) ==
  /\ Act
  /\ staged[n] # None
  /\ tested' = [tested EXCEPT ![n] = @ \cup {staged[n]}]
  /\ StartsAs(n, staged[n])
  /\ UNCHANGED state

\* updateNow without one: restart as soon as it is here.
UpdateNow(n) ==
  /\ Act
  /\ staged[n] = None /\ ~Trial(n)
  /\ \/ job[n].ver # 0 /\ hurry' = [hurry EXCEPT ![n] = job[n].ver]
     \/ /\ job[n].ver = 0 /\ Candidate(n, reported[n]) # 0
        /\ hurry' = [hurry EXCEPT ![n] = Candidate(n, reported[n])]
  /\ UNCHANGED <<faulty, state, process, view, reported, staged, approved, job, slots, tested>>

\* The wish is good for ten minutes.
HurryLapses(n) ==
  /\ hurry[n] # None
  /\ hurry' = [hurry EXCEPT ![n] = None]
  /\ UNCHANGED <<faulty, state, process, view, reported, staged, approved, job, slots, tested, budget>>

\* retry: what went bad here may be tried again.
Retry(n) ==
  /\ Act
  /\ bad' = [bad EXCEPT ![n] = {}]
  /\ UNCHANGED <<faulty, current, previous, highest, stored, process, memory, tested>>

\* Devices are taken into use, and given back.
BecomeBusy(n) ==
  /\ Act
  /\ ~busy[n] /\ busy' = [busy EXCEPT ![n] = TRUE]
  /\ UNCHANGED <<faulty, state, run, age, memory, tested>>
BecomeFree(n) ==
  /\ busy[n] /\ busy' = [busy EXCEPT ![n] = FALSE]
  /\ UNCHANGED <<faulty, state, run, age, memory, tested, budget>>

-----------------------------------------------------------------------------
Launch(n) ==
  \/ \E v \in Versions : TestByHand(n, v)
  \/ Confirm(n) \/ TrialFails(n) \/ CrashLoop(n) \/ Reboot(n)
Update(n) ==
  \/ \E silent \in {{}} \cup {{m} : m \in Nodes} : Check(n, silent) \/ PollAside(n, silent)
  \/ CheckForgets(n)
Download(n) ==
  \/ \E m \in Nodes : Ask(n, m) \/ SlotEnds(m, n)
  \/ Begin(n) \/ Receive(n) \/ Break(n) \/ GiveUp(n)
User(n) ==
  \/ Approve(n) \/ RestartNow(n) \/ UpdateNow(n) \/ HurryLapses(n)
  \/ RollbackNow(n) \/ Retry(n) \/ BecomeBusy(n) \/ BecomeFree(n)

Next ==
  \/ Tick
  \/ \E m, n \in Nodes : TickWithLoss(m, n)
  \/ \E n \in Nodes : Launch(n) \/ Update(n) \/ Download(n) \/ User(n)

Spec == Init /\ [][Next]_vars

\* What ends at a node by itself: a trial, the use of devices, a slot whose client is gone.
Settles(n) ==
  \/ Confirm(n) \/ (run[n] \in faulty /\ TrialFails(n))
  \/ BecomeFree(n)
  \/ \E m \in Nodes : SlotEnds(n, m)
\* A download gets on.
Transfers(n) == (\E m \in Nodes : Ask(n, m)) \/ Begin(n) \/ Receive(n) \/ GiveUp(n)

\* Timers fire, and each of these goes on.
FairSpec ==
  /\ Spec
  /\ WF_vars(Tick)
  /\ \A n \in Nodes : WF_vars(Check(n, {})) /\ WF_vars(CheckForgets(n)) /\ WF_vars(Settles(n)) /\ WF_vars(Transfers(n))

-----------------------------------------------------------------------------
(* Properties. *)

\* A version that cannot pass a trial does not leave the nodes on which a user has put it:
\* the others wait for somebody to have run it longer than a trial lasts.
FaultyStaysWithItsTester == \A n \in Nodes : run[n] \in faulty => run[n] \in tested[n]

\* No more neighbours download from a node at a time than it has slots, whatever reservations
\* lapse, transfers break off and nodes restart meanwhile.
TransfersWithinSlots ==
  \A m \in Nodes : Cardinality({n \in Nodes : job[n].at = "receiving" /\ job[n].from = m}) <= Slots

\* A restart into a newer version that no user of the node has asked for.
IntoOnItsOwn(n) == run'[n] > run[n] /\ hurry[n] # run'[n] /\ UNCHANGED <<tests, acts>>
ToldBad(n, v) == approved[n] # v /\ \E m \in Nodes : <<m, v>> \in reported[n] /\ v \in bad[m]
OnlyTeller(n, m, v) == m \in Online(n) /\ {r \in reported[n] : r[2] = v} = {<<m, v>>}

\* A node that one neighbour has told that a version is bad there does not restart into it
\* without the word of its user while that stands, as long as the neighbours answer its questions.
HeedsReports ==
  [][\A n \in Nodes : IntoOnItsOwn(n) /\ mishaps' = mishaps =>
       ~(ToldBad(n, run'[n]) /\ \E m \in Nodes : OnlyTeller(n, m, run'[n]))]_vars

\* ... whether they answer or not: docs/UPDATE.md says that a report stays until the user of
\* the neighbour takes it back.
ReportsStay == [][\A n \in Nodes : IntoOnItsOwn(n) => ~ToldBad(n, run'[n])]_vars

\* A version that two neighbours have reported is dropped (updater.js, line 668: it does not
\* come as far as a restart).
TwoReportsStop ==
  [][\A n \in Nodes : IntoOnItsOwn(n) /\ approved[n] # run'[n] => Accusers(reported[n], run'[n]) < 2]_vars

\* What one node has confirmed and runs reaches the others, unless a version of that number or
\* a later one has gone bad somewhere, or nobody runs it any more.
GoodVersionSpreads ==
  \A n \in Nodes : \A v \in Versions \ {1} :
    (\E m \in Nodes : run[m] = v /\ current[m] = v) ~>
      \/ highest[n] >= v
      \/ \E k \in Nodes : \E w \in bad[k] : w >= v
      \/ \A k \in Nodes : run[k] # v
=============================================================================
