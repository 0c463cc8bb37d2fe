------------------------------ MODULE Launcher ------------------------------
(***************************************************************************)
(* The launcher and the update state it shares with the application        *)
(* (src/launcher/supervisor.mjs, src/launcher/lib/layout.js, and what      *)
(* src/src/update/updater.js and src/src/main.js do to that state).        *)
(*                                                                         *)
(* The launcher starts the application and starts it again when it dies.   *)
(* A version that came over the network is first on trial: the launcher    *)
(* copies config.json, counts the attempt, and confirms the version when   *)
(* it reports itself healthy, or rejects it and puts the settings back.    *)
(* A confirmed version that keeps crashing is rolled back to the previous. *)
(*                                                                         *)
(* state.json is replaced as a whole by a rename, so a write of it is one  *)
(* step; between two writes the power may fail, and what is in memory is   *)
(* lost.  Whether a version works is not fixed: any may crash at any time. *)
(***************************************************************************)
EXTENDS Naturals, FiniteSets

CONSTANTS
  Versions,     \* the releases there are, ordered as their numbers
  First,        \* the version that is installed at the start
  MaxAttempts,  \* MAX_TRIAL_ATTEMPTS
  CrashLimit,   \* CRASH_LIMIT
  Mishaps,      \* which of "power", "damage", "stop" and "installer" happen
  MaxMishaps,   \* how many of them (a bound of the model)
  UserActs,     \* which of "rollback" and "retry" the user does
  None

ASSUME ConstantsOK ==
  /\ Versions \subseteq Nat /\ IsFiniteSet(Versions) /\ First \in Versions
  /\ MaxAttempts \in Nat \ {0} /\ CrashLimit \in Nat \ {0} /\ MaxMishaps \in Nat
  /\ None \notin Versions /\ None \notin {"own", "changed"}

VARIABLES
  state,      \* state.json
  app,        \* the unpacked versions: app/<version>/
  releases,   \* the archives that are whole: releases/<version>/
  config,     \* whose settings are in config.json: see Settings
  copy,       \* config.json.snapshot
  pc,         \* what the launcher is doing
  choice,     \* the version it has chosen, and whether on trial
  healthy,    \* the version on trial has reported itself healthy
  crashes,    \* crashes in a row of a confirmed version (crashTimes)
  staged,     \* the version the running application has prepared
  leaving,    \* the running application has asked for a restart
  proven,     \* (history) versions that have been confirmed on this node
  givenUp,    \* (history) the copy was given up while config.json needed it
  mishaps     \* how many mishaps there have been

disk == <<app, releases>>
settings == <<config, copy, givenUp>>
memory == <<choice, healthy, crashes, staged, leaving>>
vars == <<state, disk, settings, pc, memory, proven, mishaps>>

\* "changed": a version wrote them that was on trial and is not confirmed.
Settings == {"own", "changed"}
NoChoice == [version |-> None, trial |-> FALSE]
Maybe(S) == S \cup {None}

\* rollbackRequest holds the version that asked; the code stores a reason.
StateType ==
  [current : Versions, previous : Maybe(Versions), pending : Maybe(Versions), attempts : Nat,
   highestInstalled : Versions, bad : SUBSET Versions, configSnapshot : BOOLEAN,
   rollbackRequest : Maybe(Versions)]

TypeOK ==
  /\ state \in StateType
  /\ app \in [Versions -> {"absent", "whole", "damaged"}]
  /\ releases \subseteq Versions
  /\ config \in Settings /\ copy \in Maybe(Settings)
  /\ pc \in {"off", "loop", "snapshot", "flag", "count", "up", "restore", "unflag"}
  /\ choice \in [version : Maybe(Versions), trial : BOOLEAN]
  /\ pc \in {"snapshot", "flag", "count", "up"} => choice.version # None
  /\ healthy \in BOOLEAN /\ crashes \in 0..CrashLimit
  /\ staged \in Maybe(Versions) /\ leaving \in BOOLEAN
  /\ proven \subseteq Versions /\ givenUp \in BOOLEAN /\ mishaps \in 0..MaxMishaps

Init ==
  /\ state = [current |-> First, previous |-> None, pending |-> None, attempts |-> 0,
              highestInstalled |-> First, bad |-> {}, configSnapshot |-> FALSE,
              rollbackRequest |-> None]
  /\ app = [v \in Versions |-> IF v = First THEN "whole" ELSE "absent"]
  /\ releases = {First}
  /\ config = "own" /\ copy = None /\ givenUp = FALSE
  /\ pc = "off" /\ choice = NoChoice /\ healthy = FALSE /\ crashes = 0
  /\ staged = None /\ leaving = FALSE
  /\ proven = {First} /\ mishaps = 0

-----------------------------------------------------------------------------
(* What the actions are made of. *)

OnTrial == pc = "up" /\ choice.trial /\ ~healthy

\* verifyInstalled, after restoreFromArchive where it is needed.
Usable(v) == v # None /\ (app[v] = "whole" \/ v \in releases)
Repaired(v) == [app EXCEPT ![v] = "whole"]

\* The launcher goes back to the top of its loop.
Again ==
  /\ pc' = "loop" /\ choice' = NoChoice /\ healthy' = FALSE
  /\ staged' = None /\ leaving' = FALSE

\* It exits, or dies; what is in memory is gone.
Off ==
  /\ pc' = "off" /\ choice' = NoChoice /\ healthy' = FALSE /\ crashes' = 0
  /\ staged' = None /\ leaving' = FALSE

Mishap(m) == m \in Mishaps /\ mishaps < MaxMishaps /\ mishaps' = mishaps + 1

\* failTrial writes the state first; the settings follow in Restore and Unflag.
FailTrial(v) ==
  state' = [state EXCEPT !.bad = @ \cup {v}, !.pending = None, !.attempts = 0]

\* (faulty variant: the version is made current at once)
TakeAtOnce(v) == [state EXCEPT !.previous = state.current, !.current = v]

\* A version is put on trial at the next start.
TakeOnTrial(v) ==
  [state EXCEPT !.pending = v, !.attempts = 0, !.configSnapshot = FALSE]

CanRollBack ==
  state.previous # None /\ state.previous # state.current /\ Usable(state.previous)

\* rollbackCommitted; config.json stays as it is.
RollbackCommitted ==
  /\ CanRollBack
  /\ app' = Repaired(state.previous)
  /\ state' = [state EXCEPT !.bad = @ \cup {state.current}, !.current = state.previous,
                            !.previous = None, !.pending = None, !.attempts = 0,
                            !.configSnapshot = FALSE, !.rollbackRequest = None]
  /\ givenUp' = (givenUp \/ config = "changed")

-----------------------------------------------------------------------------
(* The loop of the launcher. *)

Start ==
  /\ pc = "off"
  /\ pc' = "loop"
  /\ UNCHANGED <<state, disk, settings, memory, proven, mishaps>>

\* A request to roll back is carried out before a version is chosen.
HandleRequest ==
  /\ pc = "loop" /\ state.rollbackRequest # None
  /\ \/ RollbackCommitted
     \/ /\ ~CanRollBack
        /\ state' = [state EXCEPT !.rollbackRequest = None]
        /\ UNCHANGED <<app, givenUp>>
  /\ crashes' = 0
  /\ UNCHANGED <<releases, config, copy, pc, choice, healthy, staged, leaving, proven, mishaps>>

\* chooseLaunch: the pending version if it is whole or can be mended ...
ChooseTrial ==
  /\ pc = "loop" /\ state.rollbackRequest = None
  /\ Usable(state.pending)
  /\ app' = Repaired(state.pending)
  /\ choice' = [version |-> state.pending, trial |-> TRUE]
  /\ pc' = "snapshot"
  /\ UNCHANGED <<state, releases, settings, healthy, crashes, staged, leaving, proven, mishaps>>

\* ... otherwise it is rejected ...
RejectTrial ==
  /\ pc = "loop" /\ state.rollbackRequest = None
  /\ state.pending # None /\ ~Usable(state.pending)
  /\ FailTrial(state.pending)
  /\ pc' = "restore"
  /\ UNCHANGED <<disk, settings, memory, proven, mishaps>>

\* ... and the current version is started, or the previous one.
ChooseStable ==
  /\ pc = "loop" /\ state.rollbackRequest = None /\ state.pending = None
  /\ \E v \in {state.current, state.previous} :
       /\ Usable(v)
       /\ v = state.current \/ ~Usable(state.current)
       /\ app' = Repaired(v)
       /\ choice' = [version |-> v, trial |-> FALSE]
  /\ pc' = "up"
  /\ UNCHANGED <<state, releases, settings, healthy, crashes, staged, leaving, proven, mishaps>>

NothingToStart ==
  /\ pc = "loop" /\ state.rollbackRequest = None /\ state.pending = None
  /\ ~Usable(state.current) /\ ~Usable(state.previous)
  /\ Off
  /\ UNCHANGED <<state, disk, settings, proven, mishaps>>

\* (faulty variant: the settings are copied before every attempt)
CopyAlways == TRUE

\* snapshotConfig: only once in a trial.
CopyNeeded == ~state.configSnapshot

Snapshot ==
  /\ pc = "snapshot"
  /\ \/ CopyNeeded /\ copy' = config /\ pc' = "flag"
     \/ ~CopyNeeded /\ copy' = copy /\ pc' = "count"
  /\ UNCHANGED <<state, disk, config, givenUp, memory, proven, mishaps>>

Flag ==
  /\ pc = "flag"
  /\ state' = [state EXCEPT !.configSnapshot = TRUE]
  /\ pc' = "count"
  /\ UNCHANGED <<disk, settings, memory, proven, mishaps>>

\* (faulty variant: the attempts before this one are forgotten)
FirstAttempt(n) == 1

OneMore(n) == n + 1

Count ==
  /\ pc = "count"
  /\ state' = [state EXCEPT !.attempts = OneMore(@)]
  /\ pc' = "up"
  /\ UNCHANGED <<disk, settings, memory, proven, mishaps>>

\* restoreConfigSnapshot: the copy goes back, then the flag is cleared.
Restore ==
  /\ pc = "restore"
  /\ config' = IF state.configSnapshot /\ copy # None THEN copy ELSE config
  /\ pc' = "unflag"
  /\ UNCHANGED <<state, disk, copy, givenUp, memory, proven, mishaps>>

Unflag ==
  /\ pc = "unflag"
  /\ state' = [state EXCEPT !.configSnapshot = FALSE]
  /\ Again
  /\ UNCHANGED <<disk, settings, crashes, proven, mishaps>>

-----------------------------------------------------------------------------
(* The version on trial. *)

\* (faulty variant: only the new version is kept)
KeepNewOnly(st) == {st.current}

\* What prune leaves on the disk.
Kept(st) == {st.current, st.previous} \ {None}

\* The application reports that it is healthy after its first seconds: commitTrial.
Commit ==
  LET v == choice.version
      st == [state EXCEPT !.previous = IF state.current # v THEN state.current ELSE @,
                          !.current = v, !.pending = None, !.attempts = 0,
                          !.configSnapshot = FALSE,
                          !.highestInstalled = IF v > @ THEN v ELSE @] IN
  /\ OnTrial
  /\ state' = st
  /\ app' = [w \in Versions |-> IF w \in Kept(st) THEN app[w] ELSE "absent"]
  /\ releases' = releases \cap Kept(st)
  /\ healthy' = TRUE
  /\ config' = "own" /\ copy' = None /\ givenUp' = FALSE
  /\ proven' = proven \cup {v}
  /\ UNCHANGED <<pc, choice, crashes, staged, leaving, mishaps>>

\* On trial the application may write config.json: a migration, a new field.
ChangeSettings ==
  /\ OnTrial
  /\ config' = "changed"
  /\ UNCHANGED <<state, disk, copy, givenUp, pc, memory, proven, mishaps>>

\* It crashes, or is killed because it was silent for too long.
TrialDies ==
  /\ OnTrial
  /\ \/ /\ state.attempts >= MaxAttempts
        /\ FailTrial(choice.version)
        /\ pc' = "restore"
        /\ UNCHANGED memory
     \/ /\ state.attempts < MaxAttempts
        /\ Again
        /\ UNCHANGED <<state, crashes>>
  /\ UNCHANGED <<disk, settings, proven, mishaps>>

-----------------------------------------------------------------------------
(* A confirmed version, and what any running version does. *)

\* A confirmed version crashes.  A crash that looks like the environment's fault is
\* not counted, one that is too long ago is forgotten, and a version confirmed more
\* than a day ago is not rolled back.
Crash ==
  /\ pc = "up" /\ ~OnTrial
  /\ \E n \in 0..CrashLimit :
       /\ n <= crashes + 1
       /\ \/ /\ n = CrashLimit
             /\ RollbackCommitted
             /\ crashes' = 0
          \/ /\ crashes' = n
             /\ UNCHANGED <<state, app, givenUp>>
  /\ pc' = "loop" /\ choice' = NoChoice /\ healthy' = FALSE
  /\ staged' = None /\ leaving' = FALSE
  /\ UNCHANGED <<releases, config, copy, proven, mishaps>>

\* (faulty variant: the version is compared with the running one alone)
NewerThanRunning(v) == v > choice.version /\ v \notin state.bad

\* _pickCandidate and _judge: what may come over the network.
MayStage(v) ==
  v > choice.version /\ v > state.highestInstalled /\ v \notin state.bad

\* tick: a version is fetched from a neighbour and unpacked, never during a trial.
Stage(v) ==
  /\ pc = "up" /\ ~OnTrial /\ ~leaving
  /\ MayStage(v)
  /\ app' = Repaired(v)
  /\ releases' = releases \cup {v}
  /\ staged' = v
  /\ UNCHANGED <<state, settings, pc, choice, healthy, crashes, leaving, proven, mishaps>>

\* restartInto
RestartInto ==
  /\ pc = "up" /\ staged # None
  /\ state' = TakeOnTrial(staged)
  /\ leaving' = TRUE
  /\ UNCHANGED <<disk, settings, pc, choice, healthy, crashes, staged, proven, mishaps>>

\* rollbackNow, also during a trial: nothing but the previous version is asked for.
\* The launcher restarts a trial after a request it cannot carry out, whatever
\* attempts it has had; MaxAttempts bounds how often the user asks in one trial.
RollbackNow ==
  /\ "rollback" \in UserActs
  /\ pc = "up" /\ state.previous # None
  /\ OnTrial => state.attempts <= MaxAttempts
  /\ state' = [state EXCEPT !.rollbackRequest = choice.version]
  /\ leaving' = TRUE
  /\ UNCHANGED <<disk, settings, pc, choice, healthy, crashes, staged, proven, mishaps>>

\* retry forgets which versions were bad.
Retry ==
  /\ "retry" \in UserActs
  /\ pc = "up"
  /\ state' = [state EXCEPT !.bad = {}]
  /\ UNCHANGED <<disk, settings, pc, memory, proven, mishaps>>

\* The application exits with code 75 and is started again.  An exit that takes
\* longer than 15 s ends with code 1: that is a crash.
Restart ==
  /\ pc = "up" /\ leaving
  /\ Again
  /\ UNCHANGED <<state, disk, settings, crashes, proven, mishaps>>

OneLess(n) == IF n > 0 THEN n - 1 ELSE 0

\* The user quits the application: code 0.  An attempt of a trial does not count.
Quit ==
  /\ pc = "up"
  /\ state' = IF choice.trial THEN [state EXCEPT !.attempts = OneLess(@)] ELSE state
  /\ Off
  /\ UNCHANGED <<disk, settings, proven, mishaps>>

-----------------------------------------------------------------------------
(* Mishaps. *)

\* Ctrl+C or --stop: both processes end, and the attempt stays counted.
Stop ==
  /\ Mishap("stop")
  /\ pc = "up"
  /\ Off
  /\ UNCHANGED <<state, disk, settings, proven>>

\* The power fails, between any two writes.
PowerLoss ==
  /\ Mishap("power")
  /\ pc # "off"
  /\ givenUp' = (givenUp \/ (pc = "restore" /\ config = "changed"))
  /\ Off
  /\ UNCHANGED <<state, disk, config, copy, proven>>

\* A file of a version, or its archive, is spoiled.
Damage(v) ==
  /\ Mishap("damage")
  /\ pc # "up"
  /\ \/ /\ app[v] = "whole"
        /\ app' = [app EXCEPT ![v] = "damaged"]
        /\ UNCHANGED releases
     \/ /\ releases' = releases \ {v}
        /\ UNCHANGED app
  /\ UNCHANGED <<state, settings, pc, memory, proven>>

\* The installer brings a version and calls --adopt, which takes the newest whole
\* version of the disk, if that is newer than the current one, on trial.
Adopt(v, newest) ==
  LET whole == {w \in Versions : w = v \/ app[w] = "whole"} IN
  /\ Mishap("installer")
  /\ pc = "off"
  /\ newest \in whole /\ \A w \in whole : newest >= w
  /\ app' = Repaired(v)
  /\ releases' = releases \cup {v}
  /\ \/ /\ newest > state.current
        /\ state' = TakeOnTrial(newest)
        /\ givenUp' = (givenUp \/ config = "changed")
     \/ newest <= state.current /\ UNCHANGED <<state, givenUp>>
  /\ UNCHANGED <<config, copy, pc, memory, proven>>

-----------------------------------------------------------------------------
LauncherStep ==
  \/ HandleRequest \/ ChooseTrial \/ RejectTrial \/ ChooseStable \/ NothingToStart
  \/ Snapshot \/ Flag \/ Count \/ Restore \/ Unflag

TrialSettles == Commit \/ TrialDies

Leave == leaving /\ (Restart \/ Crash \/ TrialDies)

Next ==
  \/ LauncherStep
  \/ Start
  \/ TrialSettles
  \/ ChangeSettings
  \/ Crash
  \/ \E v \in Versions : Stage(v)
  \/ RestartInto
  \/ RollbackNow
  \/ Retry
  \/ Restart
  \/ Quit
  \/ Stop
  \/ PowerLoss
  \/ \E v \in Versions : Damage(v)
  \/ \E v, newest \in Versions : Adopt(v, newest)

Spec == Init /\ [][Next]_vars

\* The launcher is one sequence of steps; a version on trial is confirmed, dies or is
\* killed by the launcher's timer; an orderly exit ends after 15 s at the latest.
Fairness == WF_vars(LauncherStep) /\ WF_vars(TrialSettles) /\ WF_vars(Leave)

FairSpec == Spec /\ Fairness

-----------------------------------------------------------------------------
(* Properties. *)

\* Without the net of a trial the launcher starts only versions that have been
\* confirmed on this node, after whatever trials, crashes, rollbacks and repairs.
OnlyProvenWithoutTrial == pc = "up" /\ ~choice.trial => choice.version \in proven

\* What the launcher falls back to is never pruned: the current and the previous
\* version have a directory.
FallbackKept == \A v \in {state.current, state.previous} \ {None} : app[v] # "absent"

\* A version that has been confirmed here and rolled back does not come back over
\* the network, also after `retry` has forgotten that it was bad.
NoReturnOverNetwork == staged # None => staged \notin proven

\* After a rejected trial the node goes on with the settings from before it, unless
\* the copy was given up: see SettingsComeBack.
SettingsReturned == pc = "up" /\ ~OnTrial /\ ~givenUp => config = "own"

\* "config.json comes back from the copy" when a version is rejected
\* (docs/UPDATE.md:76-77): a version without trial never runs with settings that a
\* rejected one has changed.
SettingsComeBack == pc = "up" /\ ~OnTrial => config = "own"

\* A request to roll back marks the version bad that the request was made about
\* ("and mark this one bad", updater.js:815-819).
RollbackBlamesTheAsker ==
  [][state.rollbackRequest # None /\ state'.rollbackRequest = None =>
       state'.bad \subseteq state.bad \cup {state.rollbackRequest}]_vars

\* A trial comes to an end: the version is confirmed or rejected, or the launcher
\* does not run.
TrialEnds == (state.pending # None) ~> (state.pending = None \/ pc = "off")
=============================================================================
