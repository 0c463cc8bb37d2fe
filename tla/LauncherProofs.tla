--------------------------- MODULE LauncherProofs ---------------------------
(***************************************************************************)
(* Proofs about Launcher, for any set of versions, any number of mishaps   *)
(* and any limits on attempts and crashes.                                 *)
(*                                                                         *)
(* The inductive invariant IInv adds to the properties what a step relies  *)
(* on: a trial is always that of the pending version, nothing is staged    *)
(* outside a running confirmed version, the version chosen is on the disk, *)
(* and the copy of the settings is good while it may still be needed.      *)
(***************************************************************************)
EXTENDS Launcher, TLAPS

Preparing == {"snapshot", "flag", "count"}

\* A trial is that of the pending version, and nothing is staged meanwhile.
TrialInv ==
  /\ pc \in Preparing => choice.trial
  /\ pc \in Preparing \/ OnTrial => state.pending = choice.version
  /\ pc # "up" \/ OnTrial => staged = None
  /\ healthy => pc = "up"
  /\ pc \in {"restore", "unflag"} => state.pending = None

\* Current and previous have been confirmed here, and so has whatever runs without
\* a trial; nothing confirmed is newer than highestInstalled.
ProvenInv ==
  /\ state.current \in proven
  /\ state.previous \in Maybe(proven)
  /\ \A w \in proven : w <= state.highestInstalled
  /\ OnlyProvenWithoutTrial
  /\ NoReturnOverNetwork

DiskInv ==
  /\ FallbackKept
  /\ choice.version # None => app[choice.version] # "absent"

\* While settings are changed, a good copy is there and somebody will restore it.
SettingsInv ==
  ~givenUp =>
    /\ config = "changed" => state.configSnapshot /\ (state.pending # None \/ pc = "restore")
    /\ state.configSnapshot => copy = "own"
    /\ pc = "flag" => copy = "own"
    /\ pc = "count" \/ OnTrial => state.configSnapshot
    /\ pc = "up" /\ ~OnTrial => config = "own"

IInv == TypeOK /\ TrialInv /\ ProvenInv /\ DiskInv /\ SettingsInv

-----------------------------------------------------------------------------
\* The parts of steps that several actions share.

LEMMA ZeroCrashes == 0 \in 0..CrashLimit
  BY ConstantsOK DEF ConstantsOK

LEMMA OffTyped ==
  ASSUME Off
  PROVE  /\ pc' = "off" /\ choice' \in [version : Maybe(Versions), trial : BOOLEAN]
         /\ healthy' \in BOOLEAN /\ crashes' \in 0..CrashLimit
         /\ staged' \in Maybe(Versions) /\ leaving' \in BOOLEAN
  BY ZeroCrashes DEF Off, NoChoice, Maybe

LEMMA MishapTyped ==
  ASSUME TypeOK, NEW m, Mishap(m)
  PROVE  mishaps' \in 0..MaxMishaps
  BY ConstantsOK DEF ConstantsOK, Mishap, TypeOK

LEMMA RollbackTyped ==
  ASSUME TypeOK, RollbackCommitted
  PROVE  /\ state' \in StateType
         /\ app' \in [Versions -> {"absent", "whole", "damaged"}]
         /\ givenUp' \in BOOLEAN
         /\ state.previous # None
         /\ state'.current = state.previous /\ state'.previous = None
         /\ state'.highestInstalled = state.highestInstalled
<1>1. state.previous \in Versions /\ state.previous # None
  BY DEF RollbackCommitted, CanRollBack, TypeOK, StateType, Maybe
<1>2. givenUp' \in BOOLEAN
  BY Zenon DEF RollbackCommitted
<1>3. app' \in [Versions -> {"absent", "whole", "damaged"}]
  BY <1>1 DEF RollbackCommitted, Repaired, TypeOK
<1>4. state' \in StateType
  BY <1>1 DEF RollbackCommitted, TypeOK, StateType, Maybe
<1> QED
  BY <1>1, <1>2, <1>3, <1>4 DEF RollbackCommitted, TypeOK, StateType

LEMMA RollbackDisk ==
  ASSUME TypeOK, RollbackCommitted
  PROVE  /\ app'[state'.current] = "whole" /\ state'.previous = None
         /\ \A w \in Versions : app[w] # "absent" => app'[w] # "absent"
  BY RollbackTyped DEF RollbackCommitted, Repaired, TypeOK, StateType, Maybe

LEMMA RollbackSettings ==
  ASSUME TypeOK, RollbackCommitted
  PROVE  /\ ~state'.configSnapshot
         /\ ~givenUp' => ~givenUp /\ config # "changed"
  BY DEF RollbackCommitted, TypeOK, StateType

LEMMA TypeStep == TypeOK /\ [Next]_vars => TypeOK'
<1> SUFFICES ASSUME TypeOK, [Next]_vars PROVE TypeOK'
  OBVIOUS
<1> USE ConstantsOK DEF ConstantsOK
<1>1. CASE HandleRequest
  <2>1. CASE RollbackCommitted
    BY <1>1, <2>1, RollbackTyped, ZeroCrashes DEF HandleRequest, TypeOK
  <2>2. CASE ~CanRollBack /\ state' = [state EXCEPT !.rollbackRequest = None]
                          /\ UNCHANGED <<app, givenUp>>
    <3>1. state' \in StateType
      BY <2>2 DEF TypeOK, StateType, Maybe
    <3> QED
      BY <1>1, <2>2, <3>1, ZeroCrashes DEF HandleRequest, TypeOK
  <2> QED
    BY <1>1, <2>1, <2>2 DEF HandleRequest
<1>2. CASE ChooseTrial
  BY <1>2 DEF ChooseTrial, Usable, Repaired, settings, TypeOK, StateType
<1>3. CASE RejectTrial
  BY <1>3 DEF RejectTrial, Usable, FailTrial, disk, settings, memory, TypeOK, StateType,
    Maybe
<1>4. CASE ChooseStable
  BY <1>4 DEF ChooseStable, Usable, Repaired, settings, TypeOK, StateType, Maybe
<1>5. CASE NothingToStart
  BY <1>5, OffTyped DEF NothingToStart, disk, settings, TypeOK
<1>6. CASE Snapshot
  BY <1>6 DEF Snapshot, CopyNeeded, disk, memory, TypeOK, Maybe
<1>7. CASE Flag
  BY <1>7 DEF Flag, disk, settings, memory, TypeOK, StateType
<1>8. CASE Count
  BY <1>8 DEF Count, OneMore, disk, settings, memory, TypeOK, StateType
<1>9. CASE Restore
  BY <1>9 DEF Restore, disk, memory, TypeOK, Maybe
<1>10. CASE Unflag
  BY <1>10 DEF Unflag, Again, disk, settings, TypeOK, StateType, Maybe, NoChoice
<1>11. CASE Start
  BY <1>11 DEF Start, disk, settings, memory, TypeOK
<1>12. CASE Commit
  BY <1>12 DEF Commit, Kept, TypeOK, StateType, Maybe, Settings, OnTrial
<1>13. CASE TrialDies
  <2>1. choice.version \in Versions
    BY <1>13 DEF TrialDies, OnTrial, TypeOK, Maybe
  <2>2. CASE FailTrial(choice.version) /\ pc' = "restore" /\ UNCHANGED memory
    <3>1. state' \in StateType
      BY <2>1, <2>2 DEF FailTrial, TypeOK, StateType, Maybe
    <3> QED
      BY <1>13, <2>2, <3>1 DEF TrialDies, disk, settings, memory, TypeOK
  <2>3. CASE Again /\ UNCHANGED <<state, crashes>>
    BY <1>13, <2>3 DEF TrialDies, Again, disk, settings, TypeOK, NoChoice, Maybe
  <2> QED
    BY <1>13, <2>2, <2>3 DEF TrialDies
<1>14. CASE ChangeSettings
  BY <1>14 DEF ChangeSettings, disk, memory, TypeOK, Settings
<1>15. CASE Crash
  <2>1. choice' \in [version : Maybe(Versions), trial : BOOLEAN]
    BY <1>15 DEF Crash, NoChoice, Maybe
  <2>2. /\ state' \in StateType /\ app' \in [Versions -> {"absent", "whole", "damaged"}]
        /\ givenUp' \in BOOLEAN /\ crashes' \in 0..CrashLimit
    <3>1. PICK n \in 0..CrashLimit : \/ RollbackCommitted /\ crashes' = 0
                                     \/ crashes' = n /\ UNCHANGED <<state, app, givenUp>>
      BY <1>15 DEF Crash
    <3>2. CASE RollbackCommitted /\ crashes' = 0
      BY <3>2, RollbackTyped, ZeroCrashes
    <3>3. CASE crashes' = n /\ UNCHANGED <<state, app, givenUp>>
      BY <3>3 DEF TypeOK
    <3> QED
      BY <3>1, <3>2, <3>3
  <2> QED
    BY <1>15, <2>1, <2>2 DEF Crash, TypeOK, Maybe
<1>16. ASSUME NEW v \in Versions, Stage(v) PROVE TypeOK'
  BY <1>16 DEF Stage, MayStage, Repaired, settings, TypeOK, Maybe
<1>17. CASE RestartInto
  BY <1>17 DEF RestartInto, TakeOnTrial, disk, settings, TypeOK, StateType
<1>18. CASE RollbackNow
  BY <1>18 DEF RollbackNow, disk, settings, TypeOK, StateType
<1>19. CASE Retry
  BY <1>19 DEF Retry, disk, settings, memory, TypeOK, StateType
<1>20. CASE Restart
  BY <1>20 DEF Restart, Again, disk, settings, TypeOK, Maybe, NoChoice
<1>21. CASE Quit
  <2>1. state' \in StateType
    BY <1>21 DEF Quit, OneLess, TypeOK, StateType, Maybe
  <2> QED
    BY <1>21, <2>1, OffTyped DEF Quit, disk, settings, TypeOK
<1>22. CASE Stop
  BY <1>22, OffTyped, MishapTyped DEF Stop, disk, settings, TypeOK
<1>23. CASE PowerLoss
  <2>1. givenUp' \in BOOLEAN
    BY <1>23, Zenon DEF PowerLoss
  <2> QED
    BY <1>23, <2>1, OffTyped, MishapTyped DEF PowerLoss, disk, TypeOK
<1>24. ASSUME NEW v \in Versions, Damage(v) PROVE TypeOK'
  <2>1. app' \in [Versions -> {"absent", "whole", "damaged"}] /\ releases' \subseteq Versions
    BY <1>24 DEF Damage, TypeOK
  <2> QED
    BY <1>24, <2>1, MishapTyped DEF Damage, settings, memory, TypeOK
<1>25. ASSUME NEW v \in Versions, NEW newest \in Versions, Adopt(v, newest) PROVE TypeOK'
  <2>1. state' \in StateType
    <3>1. TakeOnTrial(newest) \in StateType
      BY DEF TakeOnTrial, TypeOK, StateType, Maybe
    <3> QED
      BY <1>25, <3>1 DEF Adopt, TypeOK
  <2>2. givenUp' \in BOOLEAN
    BY <1>25, Zenon DEF Adopt, TypeOK
  <2>3. app' \in [Versions -> {"absent", "whole", "damaged"}] /\ releases' \subseteq Versions
    BY <1>25 DEF Adopt, Repaired, TypeOK
  <2> QED
    BY <1>25, <2>1, <2>2, <2>3, MishapTyped DEF Adopt, memory, TypeOK
<1>26. CASE UNCHANGED vars
  BY <1>26 DEF vars, disk, settings, memory, TypeOK
<1> QED
  BY <1>1, <1>2, <1>3, <1>4, <1>5, <1>6, <1>7, <1>8, <1>9, <1>10, <1>11, <1>12, <1>13,
    <1>14, <1>15, <1>16, <1>17, <1>18, <1>19, <1>20, <1>21, <1>22, <1>23, <1>24, <1>25,
    <1>26 DEF Next, LauncherStep, TrialSettles

LEMMA TrialStep == IInv /\ [Next]_vars => TrialInv'
<1> SUFFICES ASSUME IInv, [Next]_vars PROVE TrialInv'
  OBVIOUS
<1> USE ConstantsOK DEF ConstantsOK
<1>1. CASE HandleRequest
  BY <1>1 DEF HandleRequest, RollbackCommitted, CanRollBack, Usable, Repaired, IInv,
    TrialInv, Preparing, OnTrial
<1>2. CASE ChooseTrial
  BY <1>2 DEF ChooseTrial, Usable, Repaired, IInv, TrialInv
<1>3. CASE RejectTrial
  BY <1>3 DEF RejectTrial, Usable, FailTrial, memory, IInv, TrialInv, Preparing, OnTrial
<1>4. CASE ChooseStable
  BY <1>4 DEF ChooseStable, Usable, Repaired, IInv, TrialInv, Preparing, OnTrial
<1>5. CASE NothingToStart
  BY <1>5 DEF NothingToStart, Off, Usable, IInv, TrialInv, Preparing, OnTrial
<1>6. CASE Snapshot
  BY <1>6 DEF Snapshot, CopyNeeded, memory, IInv, TrialInv, Preparing
<1>7. CASE Flag
  BY <1>7 DEF Flag, memory, IInv, TrialInv, Preparing
<1>8. CASE Count
  BY <1>8 DEF Count, OneMore, memory, IInv, TrialInv, Preparing
<1>9. CASE Restore
  BY <1>9 DEF Restore, memory, IInv, TrialInv, Preparing, OnTrial
<1>10. CASE Unflag
  BY <1>10 DEF Unflag, Again, IInv, TrialInv, Preparing, OnTrial
<1>11. CASE Start
  BY <1>11 DEF Start, memory, IInv, TrialInv, Preparing, OnTrial
<1>12. CASE Commit
  BY <1>12 DEF Commit, Kept, IInv, TrialInv, Preparing, OnTrial
<1>13. CASE TrialDies
  <2>1. OnTrial /\ staged = None /\ pc = "up"
    BY <1>13 DEF TrialDies, OnTrial, IInv, TrialInv
  <2>2. CASE FailTrial(choice.version) /\ pc' = "restore" /\ UNCHANGED memory
    <3>1. state'.pending = None
      BY <2>2 DEF FailTrial, IInv, TypeOK, StateType
    <3> QED
      BY <2>1, <2>2, <3>1 DEF memory, TrialInv, Preparing, OnTrial
  <2>3. CASE Again
    BY <2>3 DEF Again, TrialInv, Preparing, OnTrial
  <2> QED
    BY <1>13, <2>2, <2>3 DEF TrialDies
<1>14. CASE ChangeSettings
  BY <1>14 DEF ChangeSettings, memory, IInv, TrialInv
<1>15. CASE Crash
  BY <1>15 DEF Crash, RollbackCommitted, CanRollBack, Usable, Repaired, IInv, TrialInv,
    Preparing, OnTrial
<1>16. ASSUME NEW v \in Versions, Stage(v) PROVE TrialInv'
  BY <1>16 DEF Stage, MayStage, Repaired, IInv, TrialInv, OnTrial
<1>17. CASE RestartInto
  BY <1>17 DEF RestartInto, TakeOnTrial, IInv, TrialInv, Preparing, OnTrial
<1>18. CASE RollbackNow
  BY <1>18 DEF RollbackNow, IInv, TrialInv, OnTrial
<1>19. CASE Retry
  BY <1>19 DEF Retry, memory, IInv, TrialInv, OnTrial
<1>20. CASE Restart
  BY <1>20 DEF Restart, Again, IInv, TrialInv, Preparing, OnTrial
<1>21. CASE Quit
  BY <1>21 DEF Quit, Off, OneLess, IInv, TrialInv, Preparing, OnTrial
<1>22. CASE Stop
  BY <1>22 DEF Stop, Off, Mishap, IInv, TrialInv, Preparing, OnTrial
<1>23. CASE PowerLoss
  BY <1>23 DEF PowerLoss, Off, Mishap, IInv, TrialInv, Preparing, OnTrial
<1>24. ASSUME NEW v \in Versions, Damage(v) PROVE TrialInv'
  BY <1>24 DEF Damage, Mishap, memory, IInv, TrialInv, OnTrial
<1>25. ASSUME NEW v \in Versions, NEW newest \in Versions, Adopt(v, newest) PROVE TrialInv'
  BY <1>25 DEF Adopt, Mishap, Repaired, TakeOnTrial, memory, IInv, TrialInv, Preparing,
    OnTrial
<1>26. CASE UNCHANGED vars
  BY <1>26 DEF vars, memory, IInv, TrialInv, OnTrial
<1> QED
  BY <1>1, <1>2, <1>3, <1>4, <1>5, <1>6, <1>7, <1>8, <1>9, <1>10, <1>11, <1>12, <1>13,
    <1>14, <1>15, <1>16, <1>17, <1>18, <1>19, <1>20, <1>21, <1>22, <1>23, <1>24, <1>25,
    <1>26 DEF Next, LauncherStep, TrialSettles

LEMMA ProvenStep == IInv /\ [Next]_vars => ProvenInv'
<1> SUFFICES ASSUME IInv, [Next]_vars PROVE ProvenInv'
  OBVIOUS
<1> USE ConstantsOK DEF ConstantsOK
<1>1. CASE HandleRequest
  <2>1. CASE RollbackCommitted
    BY <1>1, <2>1, RollbackTyped
      DEF HandleRequest, IInv, ProvenInv, OnlyProvenWithoutTrial, NoReturnOverNetwork, Maybe
  <2>2. CASE state' = [state EXCEPT !.rollbackRequest = None]
    BY <1>1, <2>2
      DEF HandleRequest, IInv, ProvenInv, OnlyProvenWithoutTrial, NoReturnOverNetwork, TypeOK,
          StateType
  <2> QED
    BY <1>1, <2>1, <2>2 DEF HandleRequest
<1>2. CASE ChooseTrial
  BY <1>2 DEF ChooseTrial, Usable, Repaired, IInv, ProvenInv, OnlyProvenWithoutTrial,
    NoReturnOverNetwork
<1>3. CASE RejectTrial
  BY <1>3 DEF RejectTrial, Usable, FailTrial, memory, IInv, ProvenInv,
    OnlyProvenWithoutTrial, NoReturnOverNetwork
<1>4. CASE ChooseStable
  BY <1>4 DEF ChooseStable, Usable, Repaired, IInv, ProvenInv, OnlyProvenWithoutTrial,
    NoReturnOverNetwork, Maybe
<1>5. CASE NothingToStart
  BY <1>5 DEF NothingToStart, Off, Usable, IInv, ProvenInv, OnlyProvenWithoutTrial,
    NoReturnOverNetwork
<1>6. CASE Snapshot
  BY <1>6 DEF Snapshot, CopyNeeded, memory, IInv, ProvenInv, OnlyProvenWithoutTrial,
    NoReturnOverNetwork
<1>7. CASE Flag
  BY <1>7 DEF Flag, memory, IInv, ProvenInv, OnlyProvenWithoutTrial, NoReturnOverNetwork
<1>8. CASE Count
  BY <1>8 DEF Count, OneMore, memory, IInv, TrialInv, Preparing, ProvenInv,
    OnlyProvenWithoutTrial, NoReturnOverNetwork
<1>9. CASE Restore
  BY <1>9 DEF Restore, memory, IInv, ProvenInv, OnlyProvenWithoutTrial,
    NoReturnOverNetwork
<1>10. CASE Unflag
  BY <1>10 DEF Unflag, Again, IInv, ProvenInv, OnlyProvenWithoutTrial,
    NoReturnOverNetwork
<1>11. CASE Start
  BY <1>11 DEF Start, memory, IInv, ProvenInv, OnlyProvenWithoutTrial,
    NoReturnOverNetwork
<1>12. CASE Commit
  BY <1>12 DEF Commit, Kept, IInv, TrialInv, ProvenInv, OnlyProvenWithoutTrial,
    NoReturnOverNetwork, OnTrial, TypeOK, StateType, Maybe
<1>13. CASE TrialDies
  BY <1>13 DEF TrialDies, FailTrial, Again, memory, IInv, ProvenInv,
    OnlyProvenWithoutTrial, NoReturnOverNetwork, TypeOK, StateType
<1>14. CASE ChangeSettings
  BY <1>14 DEF ChangeSettings, memory, IInv, ProvenInv, OnlyProvenWithoutTrial,
    NoReturnOverNetwork
<1>15. CASE Crash
  <2>1. pc' = "loop" /\ staged' = None /\ proven' = proven
    BY <1>15 DEF Crash
  <2>2. CASE RollbackCommitted
    BY <2>1, <2>2, RollbackTyped
      DEF IInv, ProvenInv, OnlyProvenWithoutTrial, NoReturnOverNetwork, Maybe
  <2>3. CASE state' = state
    BY <2>1, <2>3 DEF IInv, ProvenInv, OnlyProvenWithoutTrial, NoReturnOverNetwork
  <2> QED
    BY <1>15, <2>2, <2>3 DEF Crash
<1>16. ASSUME NEW v \in Versions, Stage(v) PROVE ProvenInv'
  <2>1. v \notin proven
    <3> SUFFICES ASSUME v \in proven PROVE FALSE
      OBVIOUS
    <3>1. v <= state.highestInstalled /\ v > state.highestInstalled
      BY <1>16 DEF Stage, MayStage, IInv, ProvenInv
    <3>2. v \in Nat /\ state.highestInstalled \in Nat
      BY DEF IInv, TypeOK, StateType
    <3> QED
      BY <3>1, <3>2
  <2> QED
    BY <1>16, <2>1
      DEF Stage, settings, IInv, ProvenInv, OnlyProvenWithoutTrial, NoReturnOverNetwork
<1>17. CASE RestartInto
  BY <1>17 DEF RestartInto, TakeOnTrial, IInv, ProvenInv, OnlyProvenWithoutTrial,
    NoReturnOverNetwork
<1>18. CASE RollbackNow
  BY <1>18 DEF RollbackNow, IInv, ProvenInv, OnlyProvenWithoutTrial, NoReturnOverNetwork
<1>19. CASE Retry
  BY <1>19 DEF Retry, memory, IInv, ProvenInv, OnlyProvenWithoutTrial,
    NoReturnOverNetwork
<1>20. CASE Restart
  BY <1>20 DEF Restart, Again, IInv, ProvenInv, OnlyProvenWithoutTrial,
    NoReturnOverNetwork
<1>21. CASE Quit
  BY <1>21 DEF Quit, Off, OneLess, IInv, ProvenInv, OnlyProvenWithoutTrial,
    NoReturnOverNetwork
<1>22. CASE Stop
  BY <1>22 DEF Stop, Off, Mishap, IInv, ProvenInv, OnlyProvenWithoutTrial,
    NoReturnOverNetwork
<1>23. CASE PowerLoss
  BY <1>23 DEF PowerLoss, Off, Mishap, IInv, ProvenInv, OnlyProvenWithoutTrial,
    NoReturnOverNetwork
<1>24. ASSUME NEW v \in Versions, Damage(v) PROVE ProvenInv'
  BY <1>24 DEF Damage, Mishap, memory, IInv, ProvenInv, OnlyProvenWithoutTrial,
    NoReturnOverNetwork
<1>25. ASSUME NEW v \in Versions, NEW newest \in Versions, Adopt(v, newest) PROVE ProvenInv'
  BY <1>25 DEF Adopt, Mishap, Repaired, TakeOnTrial, memory, IInv, TrialInv, ProvenInv,
    OnlyProvenWithoutTrial, NoReturnOverNetwork, TypeOK, StateType
<1>26. CASE UNCHANGED vars
  BY <1>26 DEF vars, memory, IInv, ProvenInv, OnlyProvenWithoutTrial,
    NoReturnOverNetwork
<1> QED
  BY <1>1, <1>2, <1>3, <1>4, <1>5, <1>6, <1>7, <1>8, <1>9, <1>10, <1>11, <1>12, <1>13,
    <1>14, <1>15, <1>16, <1>17, <1>18, <1>19, <1>20, <1>21, <1>22, <1>23, <1>24, <1>25,
    <1>26 DEF Next, LauncherStep, TrialSettles

LEMMA DiskStep == IInv /\ [Next]_vars => DiskInv'
<1> SUFFICES ASSUME IInv, [Next]_vars PROVE DiskInv'
  OBVIOUS
<1> USE ConstantsOK DEF ConstantsOK
<1>1. CASE HandleRequest
  <2>1. CASE RollbackCommitted
    BY <1>1, <2>1, RollbackDisk DEF HandleRequest, IInv, DiskInv, FallbackKept, TypeOK, Maybe
  <2>2. CASE state' = [state EXCEPT !.rollbackRequest = None] /\ app' = app
    BY <1>1, <2>2 DEF HandleRequest, IInv, DiskInv, FallbackKept, TypeOK, StateType
  <2> QED
    BY <1>1, <2>1, <2>2 DEF HandleRequest
<1>2. CASE ChooseTrial
  BY <1>2 DEF ChooseTrial, Usable, Repaired, IInv, DiskInv, FallbackKept, TypeOK,
    StateType, Maybe
<1>3. CASE RejectTrial
  BY <1>3 DEF RejectTrial, Usable, FailTrial, disk, memory, IInv, DiskInv, FallbackKept
<1>4. CASE ChooseStable
  BY <1>4 DEF ChooseStable, Usable, Repaired, IInv, DiskInv, FallbackKept
<1>5. CASE NothingToStart
  BY <1>5 DEF NothingToStart, Off, Usable, disk, IInv, DiskInv, FallbackKept, NoChoice
<1>6. CASE Snapshot
  BY <1>6 DEF Snapshot, CopyNeeded, disk, memory, IInv, DiskInv, FallbackKept
<1>7. CASE Flag
  BY <1>7 DEF Flag, disk, memory, IInv, DiskInv, FallbackKept
<1>8. CASE Count
  BY <1>8 DEF Count, OneMore, disk, memory, IInv, DiskInv, FallbackKept
<1>9. CASE Restore
  BY <1>9 DEF Restore, disk, memory, IInv, DiskInv, FallbackKept
<1>10. CASE Unflag
  BY <1>10 DEF Unflag, Again, disk, IInv, DiskInv, FallbackKept, NoChoice
<1>11. CASE Start
  BY <1>11 DEF Start, disk, memory, IInv, DiskInv, FallbackKept
<1>12. CASE Commit
  BY <1>12 DEF Commit, Kept, IInv, DiskInv, FallbackKept, TypeOK, StateType, Maybe
<1>13. CASE TrialDies
  <2>1. app' = app /\ state'.current = state.current /\ state'.previous = state.previous
    BY <1>13 DEF TrialDies, FailTrial, disk, IInv, TypeOK, StateType
  <2>2. choice' = choice \/ choice'.version = None
    BY <1>13 DEF TrialDies, Again, NoChoice, memory
  <2> QED
    BY <2>1, <2>2 DEF IInv, DiskInv, FallbackKept
<1>14. CASE ChangeSettings
  BY <1>14 DEF ChangeSettings, disk, memory, IInv, DiskInv, FallbackKept
<1>15. CASE Crash
  <2>1. choice'.version = None
    BY <1>15 DEF Crash, NoChoice
  <2>2. CASE RollbackCommitted
    BY <2>1, <2>2, RollbackDisk DEF IInv, DiskInv, FallbackKept
  <2>3. CASE UNCHANGED <<state, app>>
    BY <2>1, <2>3 DEF IInv, DiskInv, FallbackKept
  <2> QED
    BY <1>15, <2>2, <2>3 DEF Crash
<1>16. ASSUME NEW v \in Versions, Stage(v) PROVE DiskInv'
  BY <1>16 DEF Stage, MayStage, Repaired, IInv, DiskInv, FallbackKept
<1>17. CASE RestartInto
  BY <1>17 DEF RestartInto, TakeOnTrial, disk, IInv, DiskInv, FallbackKept
<1>18. CASE RollbackNow
  BY <1>18 DEF RollbackNow, disk, IInv, DiskInv, FallbackKept
<1>19. CASE Retry
  BY <1>19 DEF Retry, disk, memory, IInv, DiskInv, FallbackKept
<1>20. CASE Restart
  BY <1>20 DEF Restart, Again, disk, IInv, DiskInv, FallbackKept, NoChoice
<1>21. CASE Quit
  BY <1>21 DEF Quit, Off, OneLess, disk, IInv, DiskInv, FallbackKept, NoChoice
<1>22. CASE Stop
  BY <1>22 DEF Stop, Off, Mishap, disk, IInv, DiskInv, FallbackKept, NoChoice
<1>23. CASE PowerLoss
  BY <1>23 DEF PowerLoss, Off, Mishap, disk, IInv, DiskInv, FallbackKept, NoChoice
<1>24. ASSUME NEW v \in Versions, Damage(v) PROVE DiskInv'
  <2>1. \A w \in Versions : app[w] # "absent" => app'[w] # "absent"
    BY <1>24 DEF Damage, IInv, TypeOK
  <2>2. UNCHANGED <<state, choice>>
    BY <1>24 DEF Damage, memory
  <2> QED
    BY <2>1, <2>2 DEF IInv, DiskInv, FallbackKept, TypeOK, StateType, Maybe
<1>25. ASSUME NEW v \in Versions, NEW newest \in Versions, Adopt(v, newest) PROVE DiskInv'
  <2>1. \A w \in Versions : app[w] # "absent" => app'[w] # "absent"
    BY <1>25 DEF Adopt, Repaired, IInv, TypeOK
  <2>2. choice' = choice
    BY <1>25 DEF Adopt, memory
  <2>3. state'.current = state.current /\ state'.previous = state.previous
    <3>1. CASE state' = TakeOnTrial(newest)
      BY <3>1 DEF TakeOnTrial, IInv, TypeOK, StateType
    <3>2. CASE state' = state
      BY <3>2
    <3> QED
      BY <1>25, <3>1, <3>2 DEF Adopt
  <2> QED
    BY <2>1, <2>2, <2>3 DEF IInv, DiskInv, FallbackKept, TypeOK, StateType, Maybe
<1>26. CASE UNCHANGED vars
  BY <1>26 DEF vars, disk, memory, IInv, DiskInv, FallbackKept
<1> QED
  BY <1>1, <1>2, <1>3, <1>4, <1>5, <1>6, <1>7, <1>8, <1>9, <1>10, <1>11, <1>12, <1>13,
    <1>14, <1>15, <1>16, <1>17, <1>18, <1>19, <1>20, <1>21, <1>22, <1>23, <1>24, <1>25,
    <1>26 DEF Next, LauncherStep, TrialSettles

LEMMA SettingsStep == IInv /\ [Next]_vars => SettingsInv'
<1> SUFFICES ASSUME IInv, [Next]_vars PROVE SettingsInv'
  OBVIOUS
<1> USE ConstantsOK DEF ConstantsOK
<1>1. CASE HandleRequest
  <2>1. pc' = "loop" /\ UNCHANGED <<config, copy>>
    BY <1>1 DEF HandleRequest
  <2>2. CASE RollbackCommitted
    BY <2>1, <2>2, RollbackSettings DEF IInv, SettingsInv, OnTrial
  <2>3. CASE state' = [state EXCEPT !.rollbackRequest = None] /\ givenUp' = givenUp
    <3>1. state'.configSnapshot = state.configSnapshot /\ state'.pending = state.pending
      BY <2>3 DEF IInv, TypeOK, StateType
    <3>2. pc = "loop"
      BY <1>1 DEF HandleRequest
    <3> QED
      BY <2>1, <2>3, <3>1, <3>2 DEF IInv, SettingsInv, OnTrial
  <2> QED
    BY <1>1, <2>2, <2>3 DEF HandleRequest
<1>2. CASE ChooseTrial
  BY <1>2 DEF ChooseTrial, Usable, Repaired, settings, IInv, SettingsInv, OnTrial
<1>3. CASE RejectTrial
  BY <1>3 DEF RejectTrial, Usable, FailTrial, settings, IInv, SettingsInv, OnTrial
<1>4. CASE ChooseStable
  BY <1>4 DEF ChooseStable, Usable, Repaired, settings, IInv, SettingsInv, OnTrial,
    TypeOK, Settings
<1>5. CASE NothingToStart
  BY <1>5 DEF NothingToStart, Off, Usable, settings, IInv, SettingsInv, OnTrial
<1>6. CASE Snapshot
  BY <1>6 DEF Snapshot, CopyNeeded, IInv, SettingsInv, OnTrial, TypeOK, Settings
<1>7. CASE Flag
  BY <1>7 DEF Flag, settings, IInv, SettingsInv
<1>8. CASE Count
  <2>1. state'.configSnapshot = state.configSnapshot /\ state'.pending = state.pending
    BY <1>8 DEF Count, IInv, TypeOK, StateType
  <2>2. pc = "count" /\ pc' = "up" /\ UNCHANGED <<config, copy, givenUp, choice, healthy>>
    BY <1>8 DEF Count, settings, memory
  <2>3. choice.trial /\ ~healthy
    BY <2>2 DEF IInv, TrialInv, Preparing
  <2> QED
    BY <2>1, <2>2, <2>3 DEF IInv, SettingsInv, OnTrial
<1>9. CASE Restore
  <2>1. pc = "restore" /\ pc' = "unflag" /\ UNCHANGED <<state, copy, givenUp>>
    BY <1>9 DEF Restore
  <2>2. ~givenUp => config' = "own"
    <3>1. state.pending = None
      BY <1>9 DEF Restore, IInv, TrialInv
    <3>2. config \in {"own", "changed"}
      BY DEF IInv, TypeOK, Settings
    <3> QED
      BY <1>9, <3>1, <3>2 DEF Restore, IInv, SettingsInv
  <2> QED
    BY <2>1, <2>2 DEF IInv, SettingsInv, OnTrial
<1>10. CASE Unflag
  <2>1. pc = "unflag" /\ pc' = "loop" /\ UNCHANGED <<config, copy, givenUp>>
    BY <1>10 DEF Unflag, Again, settings
  <2>2. ~state'.configSnapshot /\ state.pending = None
    BY <1>10 DEF Unflag, IInv, TrialInv, TypeOK, StateType
  <2> QED
    BY <2>1, <2>2 DEF IInv, SettingsInv, OnTrial
<1>11. CASE Start
  BY <1>11 DEF Start, settings, IInv, SettingsInv, OnTrial
<1>12. CASE Commit
  BY <1>12 DEF Commit, Kept, IInv, SettingsInv, OnTrial
<1>13. CASE TrialDies
  BY <1>13 DEF TrialDies, FailTrial, Again, settings, IInv, SettingsInv, OnTrial,
    TypeOK, StateType
<1>14. CASE ChangeSettings
  BY <1>14 DEF ChangeSettings, memory, IInv, TrialInv, SettingsInv, OnTrial, TypeOK
<1>15. CASE Crash
  <2>1. pc = "up" /\ ~OnTrial /\ pc' = "loop" /\ UNCHANGED <<config, copy>>
    BY <1>15 DEF Crash
  <2>2. CASE RollbackCommitted
    BY <2>1, <2>2, RollbackSettings DEF IInv, SettingsInv, OnTrial
  <2>3. CASE UNCHANGED <<state, givenUp>>
    BY <2>1, <2>3 DEF IInv, SettingsInv, OnTrial
  <2> QED
    BY <1>15, <2>2, <2>3 DEF Crash
<1>16. ASSUME NEW v \in Versions, Stage(v) PROVE SettingsInv'
  BY <1>16 DEF Stage, MayStage, Repaired, settings, IInv, SettingsInv, OnTrial
<1>17. CASE RestartInto
  BY <1>17 DEF RestartInto, TakeOnTrial, settings, IInv, TrialInv, SettingsInv, OnTrial
<1>18. CASE RollbackNow
  BY <1>18 DEF RollbackNow, settings, IInv, SettingsInv, OnTrial
<1>19. CASE Retry
  BY <1>19 DEF Retry, settings, memory, IInv, SettingsInv, OnTrial
<1>20. CASE Restart
  BY <1>20 DEF Restart, Again, settings, IInv, SettingsInv, OnTrial
<1>21. CASE Quit
  BY <1>21 DEF Quit, Off, OneLess, settings, IInv, SettingsInv, OnTrial
<1>22. CASE Stop
  BY <1>22 DEF Stop, Off, Mishap, settings, IInv, SettingsInv, OnTrial
<1>23. CASE PowerLoss
  BY <1>23 DEF PowerLoss, Off, Mishap, IInv, SettingsInv, OnTrial
<1>24. ASSUME NEW v \in Versions, Damage(v) PROVE SettingsInv'
  BY <1>24 DEF Damage, Mishap, settings, IInv, SettingsInv, OnTrial
<1>25. ASSUME NEW v \in Versions, NEW newest \in Versions, Adopt(v, newest)
      PROVE  SettingsInv'
  <2>1. pc = "off" /\ UNCHANGED <<config, copy, pc>>
    BY <1>25 DEF Adopt
  <2>2. CASE state' = TakeOnTrial(newest) /\ givenUp' = (givenUp \/ config = "changed")
    <3>1. ~state'.configSnapshot
      BY <2>2 DEF TakeOnTrial, IInv, TypeOK, StateType
    <3>2. ~givenUp' => config # "changed"
      BY <2>2
    <3> QED
      BY <2>1, <3>1, <3>2 DEF IInv, SettingsInv, OnTrial
  <2>3. CASE UNCHANGED <<state, givenUp>>
    BY <2>1, <2>3 DEF IInv, SettingsInv, OnTrial
  <2> QED
    BY <1>25, <2>2, <2>3 DEF Adopt
<1>26. CASE UNCHANGED vars
  BY <1>26 DEF vars, settings, memory, IInv, SettingsInv, OnTrial
<1> QED
  BY <1>1, <1>2, <1>3, <1>4, <1>5, <1>6, <1>7, <1>8, <1>9, <1>10, <1>11, <1>12, <1>13,
    <1>14, <1>15, <1>16, <1>17, <1>18, <1>19, <1>20, <1>21, <1>22, <1>23, <1>24, <1>25,
    <1>26 DEF Next, LauncherStep, TrialSettles

-----------------------------------------------------------------------------
LEMMA InitInv == Init => IInv
<1> SUFFICES ASSUME Init PROVE IInv
  OBVIOUS
<1> USE ConstantsOK DEF ConstantsOK, Init
<1>1. TypeOK
  <2>1. state \in StateType
    BY DEF StateType, Maybe
  <2>2. choice \in [version : Maybe(Versions), trial : BOOLEAN]
    BY DEF NoChoice, Maybe
  <2>3. app \in [Versions -> {"absent", "whole", "damaged"}]
    OBVIOUS
  <2>4. mishaps \in 0..MaxMishaps
    OBVIOUS
  <2> QED
    BY <2>1, <2>2, <2>3, <2>4, ZeroCrashes DEF TypeOK, Settings, Maybe
<1>2. TrialInv
  BY DEF TrialInv, Preparing, OnTrial
<1>3. ProvenInv
  BY DEF ProvenInv, OnlyProvenWithoutTrial, NoReturnOverNetwork, Maybe
<1>4. DiskInv
  BY DEF DiskInv, FallbackKept, NoChoice
<1>5. SettingsInv
  BY DEF SettingsInv, OnTrial
<1> QED
  BY <1>1, <1>2, <1>3, <1>4, <1>5 DEF IInv

\* IInv is inductive: no step of the launcher, the application, the user or a mishap
\* breaks it.
THEOREM Inductive == Spec => []IInv
<1>1. IInv /\ [Next]_vars => IInv'
  BY TypeStep, TrialStep, ProvenStep, DiskStep, SettingsStep DEF IInv
<1> QED
  BY InitInv, <1>1, PTL DEF Spec

\* The update state, the disk and the launcher's memory always have their types.
THEOREM TypeCorrect == Spec => []TypeOK
<1>1. IInv => TypeOK
  BY DEF IInv
<1> QED
  BY Inductive, <1>1, PTL

\* Without a trial only versions confirmed on this node are started.
THEOREM StableIsProven == Spec => []OnlyProvenWithoutTrial
<1>1. IInv => OnlyProvenWithoutTrial
  BY DEF IInv, ProvenInv
<1> QED
  BY Inductive, <1>1, PTL

\* The current and the previous version are never pruned.
THEOREM FallbackStays == Spec => []FallbackKept
<1>1. IInv => FallbackKept
  BY DEF IInv, DiskInv
<1> QED
  BY Inductive, <1>1, PTL

\* A version confirmed here and rolled back does not come back over the network.
THEOREM NoReturn == Spec => []NoReturnOverNetwork
<1>1. IInv => NoReturnOverNetwork
  BY DEF IInv, ProvenInv
<1> QED
  BY Inductive, <1>1, PTL

\* Settings changed by a rejected version are put back, or the copy was given up.
THEOREM SettingsPutBack == Spec => []SettingsReturned
<1>1. IInv => SettingsReturned
  BY DEF IInv, SettingsInv, SettingsReturned
<1> QED
  BY Inductive, <1>1, PTL
=============================================================================
