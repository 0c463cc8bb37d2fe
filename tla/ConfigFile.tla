----------------------------- MODULE ConfigFile -----------------------------
(***************************************************************************)
(* config.json (src/config.js, src/main.js): what a node knows of itself   *)
(* over its restarts.  load reads it, fills in what is missing, moves the  *)
(* settings of older versions to their new place, and saves; set changes   *)
(* it and saves; save writes a file beside it and puts that in its place,  *)
(* on Windows by copying if the renaming is refused (EPERM).               *)
(*                                                                         *)
(* The process may be killed at any moment, the disk may refuse a write.   *)
(* Of the settings are kept: the node's id, a switch that can also be      *)
(* given on the command line for one run (metricsEnabled), the key of the  *)
(* second version (preSharedKey) and the networks of the third.            *)
(***************************************************************************)
EXTENDS Naturals, FiniteSets

CONSTANTS
  Keys,       \* keys of networks
  MaxStarts,  \* starts of the program, each of which may need a new id
  MaxSets,    \* changes of settings
  MaxFaults,  \* writes that fail, renamings that are refused
  Torn, None

Settings == [id : 0 .. MaxStarts, switch : {"on", "off", "flag", None}, key : Keys \cup {None}, nets : SUBSET Keys]

ConstantsOK ==
  /\ MaxStarts \in Nat \ {0} /\ Torn # None /\ None \notin Keys \cup {"on", "off", "flag"}
  /\ Torn \notin Settings /\ None \notin Settings

VARIABLES
  file, tmp,  \* config.json and config.json.tmp: settings, Torn, or None: not there
  copies,     \* contents kept beside as unreadable (config.json.bad-...)
  data,       \* Config.data of the running process
  override,   \* runtimeOverrides: the switch was given on the command line
  phase,      \* "off", "on", or the step of a save
  loading,    \* the save is that of load
  before,     \* (history) what the file held when the present save began
  known,      \* (history) the id under which the node was first seen, 0: not yet
  legacy,     \* (history) the key the file had in its old place at first
  mishap,     \* (history) killed in the middle of a copy, or a write that failed
  starts, sets, faults

vars == <<file, tmp, copies, data, override, phase, loading, before, known, legacy, mishap, starts, sets, faults>>
Disk == <<file, tmp, copies>>
Told == <<before, known, legacy, mishap>>

Empty == [id |-> 0, switch |-> None, key |-> None, nets |-> {}]    \* id 0: none yet

\* The file of a first start, of a version before, damaged by hand, or in order.
Init ==
  /\ file \in {None, Torn, [Empty EXCEPT !.id = 1, !.switch = "off"]}
               \cup {[Empty EXCEPT !.id = 1, !.key = k] : k \in Keys}
  /\ tmp = None /\ copies = {} /\ data = Empty /\ override = FALSE /\ phase = "off" /\ loading = FALSE
  /\ before = file /\ known = (IF file \in Settings THEN 1 ELSE 0) /\ mishap = FALSE
  /\ legacy = (IF file \in Settings THEN {file.key} \ {None} ELSE {})
  /\ starts = 1 /\ sets = 0 /\ faults = 0

----------------------------------------------------------------------------
(* Loading.                                                                *)

Read == IF file \in Settings THEN file ELSE Empty

\* Missing fields get their values, a key of the second version becomes a network.
Filled(s) ==
  [s EXCEPT !.id = IF @ = 0 THEN starts + 1 ELSE @,
            !.nets = IF s.key = None THEN @ ELSE @ \cup {s.key}, !.key = None]

Seen(id) == known' = IF known = 0 THEN id ELSE known
Ready == phase' = "on" /\ loading' = FALSE

\* load, with _keepUnreadable; then applyCliOverrides and main.
Start ==
  /\ phase = "off" /\ starts < MaxStarts /\ starts' = starts + 1
  /\ override' \in BOOLEAN
  /\ copies' = IF file = Torn THEN copies \cup {Torn} ELSE copies
  /\ LET filled == Filled(Read) IN
     IF filled # Read
       THEN data' = filled /\ phase' = "write" /\ loading' = TRUE /\ before' = file /\ UNCHANGED known
       ELSE /\ data' = [Read EXCEPT !.switch = IF override' THEN "flag" ELSE @]
            /\ Seen(Read.id) /\ Ready /\ UNCHANGED before
  /\ UNCHANGED <<file, tmp, legacy, mishap, sets, faults>>

----------------------------------------------------------------------------
(* Saving.                                                                 *)

\* A change of settings; a switch given on the command line can be changed, too.
Set ==
  /\ phase = "on" /\ sets < MaxSets /\ sets' = sets + 1
  /\ \/ \E n \in SUBSET Keys : data' = [data EXCEPT !.nets = n]
     \/ \E v \in {"on", "off"} : data' = [data EXCEPT !.switch = v]
  /\ phase' = "write" /\ before' = file
  /\ UNCHANGED <<Disk, override, loading, known, legacy, mishap, starts, faults>>

\* (faulty variant: all of it)
\* What goes into the file: all but the overrides of this run, which are not yet there
\* while load saves.
Written == IF override /\ ~loading THEN [data EXCEPT !.switch = None] ELSE data

\* The end of a save: the program goes on, at its start with the overrides.
Saved ==
  /\ Ready
  /\ IF loading
       THEN data' = [data EXCEPT !.switch = IF override THEN "flag" ELSE @] /\ Seen(data.id)
       ELSE UNCHANGED <<data, known>>

\* A write begins, and ends; where it goes is the file beside.
Beside(content) == tmp' = content /\ UNCHANGED file
Write ==
  /\ phase = "write" /\ Beside(Torn) /\ phase' = "written"
  /\ UNCHANGED <<copies, data, override, loading, Told, starts, sets, faults>>
WriteDone ==
  /\ phase = "written" /\ Beside(Written) /\ phase' = "rename"
  /\ UNCHANGED <<copies, data, override, loading, Told, starts, sets, faults>>

\* save logs an error and goes on without the file.
WriteFails ==
  /\ phase \in {"write", "written"} /\ faults < MaxFaults /\ faults' = faults + 1 /\ mishap' = TRUE
  /\ Saved /\ UNCHANGED <<Disk, override, before, legacy, starts, sets>>

Rename ==
  /\ phase = "rename" /\ file' = tmp /\ tmp' = None /\ Saved
  /\ UNCHANGED <<copies, override, before, legacy, mishap, starts, sets, faults>>

\* The renaming is refused: the file is written over.
Refused ==
  /\ phase = "rename" /\ faults < MaxFaults /\ faults' = faults + 1
  /\ file' = Torn /\ phase' = "copy"
  /\ UNCHANGED <<tmp, copies, data, override, loading, Told, starts, sets>>
Copied ==
  /\ phase = "copy" /\ file' = tmp /\ tmp' = None /\ Saved
  /\ UNCHANGED <<copies, override, before, legacy, mishap, starts, sets, faults>>

\* The process is killed, or stopped.
Killed ==
  /\ phase # "off" /\ phase' = "off" /\ loading' = FALSE /\ data' = Empty /\ override' = FALSE
  /\ mishap' = (mishap \/ phase = "copy")
  /\ UNCHANGED <<Disk, before, known, legacy, starts, sets, faults>>

Next == Start \/ Set \/ Write \/ WriteDone \/ WriteFails \/ Rename \/ Refused \/ Copied \/ Killed

Spec == Init /\ [][Next]_vars

----------------------------------------------------------------------------
(* Properties.                                                             *)

TypeOK ==
  /\ {file, tmp} \ {Torn, None} \subseteq Settings /\ data \in Settings
  /\ phase \in {"off", "on", "write", "written", "rename", "copy"}

\* Whenever the process is killed, the file is whole and holds the settings of before the
\* save or those of after it (comment of save: the old settings survive a failure), unless
\* it was killed within the copy; one that could not be read is there as a copy.
OldOrNew ==
  /\ file # before => file \in Settings \/ phase = "copy" \/ mishap
  /\ before = Torn /\ file # Torn => Torn \in copies

\* The neighbours know the node by its id and a circle by its key: a file that could be
\* read keeps both, the key also on its way from its old place to the networks.
KeepsItsId == ~mishap /\ phase = "on" => data.id = known
KeepsItsKey == ~mishap /\ file \in Settings /\ sets = 0 => legacy \subseteq file.nets \cup {file.key}

\* What was given on the command line for one run is not in the file (comment of save: one
\* start would make it permanent).
OneRunOnly == \A f \in {file, tmp} : f \in Settings => f.switch # "flag"
=============================================================================
