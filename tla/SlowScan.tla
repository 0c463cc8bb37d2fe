------------------------------ MODULE SlowScan ------------------------------
(***************************************************************************)
(* The cache of the slow device lists, ports and network cards, in         *)
(* src/devices/hub.js: reading them starts PowerShell, so a cheap          *)
(* signature decides whether the last list still holds, and a full read is *)
(* due now and then for what the signature does not see.                   *)
(*                                                                         *)
(* The hardware changes at any moment, also while it is read; the          *)
(* signature or the read of a source may fail; kinds of devices are        *)
(* switched on and off; a user asks to look anew.                          *)
(***************************************************************************)
EXTENDS Naturals, FiniteSets

CONSTANTS
  Fresh,        \* ticks a checked list is not checked again (freshMs)
  Full,         \* ticks until a full read is due (fullRefreshMs)
  MaxChanges,   \* changes of the hardware and of the kinds that are on
  MaxFaults,    \* signatures and reads that fail
  None

ConstantsOK == Fresh \in Nat \ {0} /\ Full \in Nat /\ Full > Fresh

Sources == {"ports", "nets"}

VARIABLES
  world,     \* the hardware: what the signature sees of each source and what it does not
  on,        \* the sources wanted: those of the enabled types
  fresh,     \* ticks until the list is checked again; 0 for ts = 0, too
  due,       \* ticks until a full read
  checked,   \* ts # 0
  sig, want, \* the signature and the sources of the last read
  list,      \* ports, nets
  job,       \* _slowInFlight: [at, prev, want, sig, got]
  changes, faults

vars == <<world, on, fresh, due, checked, sig, want, list, job, changes, faults>>

Seen == 0 .. 1
Hidden == 0 .. 1
Kinds(s) == IF s = "nets" THEN Seen \X Hidden ELSE Seen \X {0}
Empty == [s \in Sources |-> None]
NoJob == [at |-> "no"]

Init ==
  /\ world = [s \in Sources |-> <<0, 0>>] /\ on = Sources /\ fresh = 0 /\ due = 0 /\ checked = FALSE
  /\ sig = None /\ want = {} /\ list = Empty /\ job = NoJob /\ changes = 0 /\ faults = 0

\* slowSignature of the sources wanted: the names of ports, the addresses of cards, not
\* the state of a card.
Signature(w) == [s \in w |-> world[s][1]]

Changed == changes < MaxChanges /\ changes' = changes + 1 /\ UNCHANGED faults
Fails == faults < MaxFaults /\ faults' = faults + 1 /\ UNCHANGED changes
Works == UNCHANGED <<changes, faults>>

Cache == <<fresh, due, checked, sig, want, list>>

----------------------------------------------------------------------------
(* The poll.                                                               *)

\* _listSlow: the poll of the share manager; who comes while a job runs shares it.
Begins ==
  /\ on # {} /\ fresh = 0 /\ job = NoJob
  /\ job' = [at |-> "probing", want |-> on, prev |-> [checked |-> checked, sig |-> sig, want |-> want]]
  /\ Works /\ UNCHANGED <<world, on, Cache>>

\* _unchanged: by the record the job began with, but the clock of now.
Unchanged ==
  LET p == job.prev IN p.sig = Signature(job.want) /\ p.checked /\ p.want = job.want /\ due > 0

\* The signature is as it was: the record the job began with is written back as checked now.
Skips ==
  /\ job.at = "probing" /\ Unchanged
  /\ fresh' = Fresh /\ checked' = TRUE /\ sig' = job.prev.sig /\ job' = NoJob
  /\ Works /\ UNCHANGED <<world, on, due, want, list>>

\* It is another one, or cannot be taken: a full read begins.
Loading(s, left, got) == [at |-> "loading", want |-> job.want, sig |-> s, left |-> left, got |-> got]
LoadsWith(s) == job' = Loading(s, job.want, Empty)
Loads ==
  /\ job.at = "probing"
  /\ \/ ~Unchanged /\ LoadsWith(Signature(job.want)) /\ Works
     \/ LoadsWith(None) /\ Fails
  /\ UNCHANGED <<world, on, Cache>>

\* A source is read at some moment of it, or cannot be.
ReadOne(s) ==
  /\ job.at = "loading" /\ s \in job.left
  /\ \/ job' = Loading(job.sig, job.left \ {s}, [job.got EXCEPT ![s] = world[s]]) /\ Works
     \/ job' = Loading(job.sig, job.left \ {s}, job.got) /\ Fails
  /\ UNCHANGED <<world, on, Cache>>

\* _reload: a source that could not be read keeps its last list, and the next poll tries
\* again; one that is not wanted is empty.
Loaded(kept) ==
  LET missed == \E s \in job.want : job.got[s] = None IN
  /\ job.at = "loading" /\ job.left = {}
  /\ fresh' = (IF missed THEN 0 ELSE Fresh) /\ due' = (IF missed THEN 0 ELSE Full)
  /\ checked' = ~missed /\ sig' = (IF missed THEN None ELSE job.sig) /\ want' = job.want
  /\ list' = [s \in Sources |-> IF s \in job.want /\ job.got[s] = None THEN kept[s] ELSE job.got[s]]
  /\ job' = NoJob /\ Works /\ UNCHANGED <<world, on>>

ReloadNothing == Loaded(Empty)
Reload == Loaded(list)

\* invalidateSlow: the user asks to look anew.
Invalidate ==
  /\ fresh' = 0 /\ checked' = FALSE /\ sig' = None
  /\ Works /\ UNCHANGED <<world, on, due, want, list, job>>

----------------------------------------------------------------------------
(* The world.                                                              *)

Changes ==
  /\ \E s \in Sources : \E v \in Kinds(s) \ {world[s]} : world' = [world EXCEPT ![s] = v]
  /\ Changed /\ UNCHANGED <<on, Cache, job>>

Switch ==
  /\ \E w \in SUBSET Sources \ {on} : on' = w
  /\ Changed /\ UNCHANGED <<world, Cache, job>>

Tick ==
  /\ fresh + due > 0
  /\ fresh' = (IF fresh > 0 THEN fresh - 1 ELSE 0) /\ due' = (IF due > 0 THEN due - 1 ELSE 0)
  /\ Works /\ UNCHANGED <<world, on, checked, sig, want, list, job>>

Polls == Begins \/ Skips \/ Loads \/ Reload \/ \E s \in Sources : ReadOne(s)
Next == Polls \/ Invalidate \/ Changes \/ Switch \/ Tick

Spec == Init /\ [][Next]_vars
FairSpec == Spec /\ WF_vars(Polls) /\ WF_vars(Tick)

----------------------------------------------------------------------------
(* Properties.                                                             *)

TypeOK ==
  /\ world \in [Sources -> Seen \X Hidden] /\ on \subseteq Sources /\ fresh \in 0 .. Fresh /\ due \in 0 .. Full
  /\ \A s \in Sources : list[s] \in (Seen \X Hidden) \cup {None}

\* A failed read is not an absence of devices: what is wanted and was known stays in the
\* list (an empty list would take every claim back; comment of _reload).
KeepsKnown ==
  [][\A s \in want \cap want' : list[s] # None => list'[s] # None]_vars

\* When the hardware has stopped changing the list comes to show it, also where the
\* signature is blind and where the change fell into a read.
ShowsWorld == <>[](\A s \in on : list[s] = world[s])
=============================================================================
