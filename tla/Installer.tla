----------------------------- MODULE Installer -----------------------------
(***************************************************************************)
(* Installation of what the node lacks from the files beside it            *)
(* (src/src/core/installer.js; Node: _autoInstall, reprobeBackend,         *)
(* refreshAll of core/app.js).  Every file of a round is checked before    *)
(* the first installer runs, the installers run one after the other, each  *)
(* asking for the administrator's consent, and at the end the environment  *)
(* is probed again.  The program knows only what the last probe has seen.  *)
(***************************************************************************)
EXTENDS Naturals, FiniteSets, Sequences

CONSTANTS
  Runtime, Server, Client,  \* the components, named by their role in the manifest
  MaxRounds, MaxFaults      \* bounds: rounds begun, and what goes wrong

Components == {Runtime, Server, Client}

ConstantsOK ==
  /\ Cardinality(Components) = 3 /\ MaxRounds \in Nat \ {0} /\ MaxFaults \in Nat

VARIABLES
  disk,    \* the components the system really has
  info,    \* what the last probe found (backendInfo)
  catalog, \* the components whose installer lies beside the program
  state,   \* idle, running, done, error
  stage,   \* of a round: none, checking, installing, probing
  left,    \* what the stage has yet to do
  work,    \* the components of the round
  checked, \* (history) the files checked in this round
  rounds, faults

TypeOK ==
  /\ disk \subseteq Components /\ info \subseteq Components \ {Runtime}
  /\ catalog \subseteq Components /\ state \in {"idle", "running", "done", "error"}
  /\ stage \in {"none", "checking", "installing", "probing"}
  /\ \A s \in {left, work} : s \in UNION {[1..n -> Components] : n \in 0..3}
  /\ checked \subseteq Components /\ rounds \in 0..MaxRounds /\ faults \in 0..MaxFaults

instVars == <<disk, info, catalog, state, stage, left, work, checked, rounds, faults>>

Init ==
  /\ disk \in SUBSET Components /\ info = disk \ {Runtime}
  /\ catalog \in SUBSET Components
  /\ state = "idle" /\ stage = "none" /\ left = <<>> /\ work = <<>>
  /\ checked = {} /\ rounds = 0 /\ faults = 0

\* plan: the program's parts are known from the probe, Node.js from the disk itself.
Installed == info \cup (disk \cap {Runtime})
Needed == catalog \ Installed

\* In the order of the manifest.
InOrder(S) ==
  LET If(c) == IF c \in S THEN <<c>> ELSE <<>> IN If(Runtime) \o If(Server) \o If(Client)

\* start, by the user or by _autoInstall at the start of the node: one round at a time.
Start ==
  /\ state # "running" /\ Needed # {} /\ rounds < MaxRounds
  /\ state' = "running" /\ stage' = "checking"
  /\ work' = InOrder(Needed) /\ left' = InOrder(Needed)
  /\ checked' = {} /\ rounds' = rounds + 1
  /\ UNCHANGED <<disk, info, catalog, faults>>

\* The round is over: the reason is shown, and nothing is probed.
Fails ==
  /\ state' = "error" /\ stage' = "none" /\ left' = <<>>
  /\ UNCHANGED <<info, catalog, work, checked, rounds>>

\* The files of a round are checked first, all of them.
GoesOn == Len(left) = 1

\* SHA-256 and the publisher's signature of the next file.
Check ==
  /\ stage = "checking"
  /\ checked' = checked \cup {Head(left)}
  /\ IF GoesOn THEN stage' = "installing" /\ left' = work
     ELSE stage' = stage /\ left' = Tail(left)
  /\ UNCHANGED <<disk, info, catalog, state, work, rounds, faults>>
BadFile ==
  /\ stage = "checking" /\ faults < MaxFaults /\ faults' = faults + 1
  /\ Fails /\ UNCHANGED disk

\* An installer that says all is well has as a rule done its work; whether it has, the
\* program looks up but goes on in any case.
Install ==
  /\ stage = "installing" /\ left # <<>>
  /\ \/ disk' = disk \cup {Head(left)} /\ faults' = faults
     \/ faults < MaxFaults /\ faults' = faults + 1 /\ disk' = disk
  /\ left' = Tail(left) /\ stage' = IF Len(left) = 1 THEN "probing" ELSE stage
  /\ UNCHANGED <<info, catalog, state, work, checked, rounds>>

\* The administrator has not consented, or the installer ends with an error: those that
\* have been installed before it stay.
Declined ==
  /\ stage = "installing" /\ faults < MaxFaults /\ faults' = faults + 1
  /\ Fails /\ UNCHANGED disk

\* What a probe finds.
Seen == disk \ {Runtime}

\* (faulty variant: the installers have all said that all is well)
TakenAtTheirWord(found) == TRUE

\* How the result is judged: every component but the server by what is known of the client.
Confirmed(found) == \A i \in 1..Len(work) : (IF work[i] = Server THEN Server ELSE Client) \in found

\* The round ends with a probe.
Probe ==
  /\ stage = "probing"
  /\ info' = Seen /\ state' = IF Confirmed(Seen) THEN "done" ELSE "error"
  /\ stage' = "none"
  /\ UNCHANGED <<disk, catalog, left, work, checked, rounds, faults>>

\* refreshAll: the user asks to look again.
Refresh ==
  /\ info' = Seen /\ info' # info
  /\ UNCHANGED <<disk, catalog, state, stage, left, work, checked, rounds, faults>>

\* Somebody installs or removes a component without the program.
ByHand(c) ==
  /\ faults < MaxFaults /\ faults' = faults + 1
  /\ disk' = IF c \in disk THEN disk \ {c} ELSE disk \cup {c}
  /\ UNCHANGED <<info, catalog, state, stage, left, work, checked, rounds>>

Next ==
  \/ Start \/ Check \/ BadFile \/ Install \/ Declined \/ Probe \/ Refresh
  \/ \E c \in Components : ByHand(c)

Spec == Init /\ [][Next]_instVars

----------------------------------------------------------------------------
(* Properties.                                                             *)

\* A round that says it is done has been followed by a probe, and what the node can share
\* and attach by then is what it tells the neighbours (backendInfo is what is announced).
DoneIsKnown ==
  [][state = "running" /\ state' = "done" =>
       \A i \in 1..Len(work) : work[i] # Runtime => work[i] \in info' /\ work[i] \in disk]_instVars
=============================================================================
