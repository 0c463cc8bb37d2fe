---------------------------- MODULE DriverShare ----------------------------
(***************************************************************************)
(* The driver of a device goes from its owner to its holder                *)
(* (src/src/core/driverShare.js; prepareDriver, installDriver and          *)
(* cancelDriver of core/app.js; POST /api/v1/peer/driver-package).  The    *)
(* owner exports the packages into a folder of its own and sends the       *)
(* files; the holder unpacks them, has the signatures checked and keeps    *)
(* them as a session, until the user confirms the installation or forgets  *)
(* about it.  Both write into the temporary folder of the system.          *)
(***************************************************************************)
EXTENDS Naturals, FiniteSets

CONSTANTS
  Requests,    \* the user's requests, and the token each is answered by
  Infs,        \* the packages of the owner's store that fit the device
  Bound,       \* those the device really runs on
  Newest,      \* the one with the latest date
  MaxPackages, \* how many are sent at most
  Ttl, MaxAge, \* a session's life, and the age beyond which the model does not look
  None

ConstantsOK ==
  /\ Bound \subseteq Infs /\ Newest \in Infs /\ MaxPackages \in Nat \ {0}
  /\ Ttl \in Nat /\ MaxAge \in Nat /\ Ttl < MaxAge /\ None \notin Nat

VARIABLES
  holds,     \* the requester holds the device (the owner's claims)
  phase,     \* of a request: new, exporting, sent, unpacking, over
  todo,      \* the packages a stage of it has yet to handle
  got,       \* the packages it has handled
  outFolder, \* the requests whose export folder exists at the owner
  inFolder,  \* the tokens whose folder exists at the holder
  session,   \* the age of a token's session, None: there is none
  installing,\* what the installation under a token has yet to install, None: none runs
  added      \* the packages that have been installed at the holder

drvVars == <<holds, phase, todo, got, outFolder, inFolder, session, installing, added>>

TypeOK ==
  /\ holds \in BOOLEAN
  /\ phase \in [Requests -> {"new", "exporting", "sent", "unpacking", "over"}]
  /\ todo \in [Requests -> SUBSET Infs] /\ got \in [Requests -> SUBSET Infs]
  /\ outFolder \subseteq Requests /\ inFolder \subseteq Requests
  /\ session \in [Requests -> 0..MaxAge \cup {None}]
  /\ installing \in [Requests -> (SUBSET Infs) \cup {None}] /\ added \subseteq Infs

Init ==
  /\ holds = TRUE /\ phase = [r \in Requests |-> "new"]
  /\ todo = [r \in Requests |-> {}] /\ got = [r \in Requests |-> {}]
  /\ outFolder = {} /\ inFolder = {} /\ session = [r \in Requests |-> None]
  /\ installing = [r \in Requests |-> None] /\ added = {}

holderVars == <<inFolder, session, installing, added>>

----------------------------------------------------------------------------
(* The owner.                                                              *)

\* chooseCandidates: the packages the device runs on; if none is known, the newest.
Chosen(found, bound) ==
  IF found \cap bound # {} THEN found \cap bound
  ELSE IF Cardinality(found) <= 1 THEN found ELSE {Newest}

\* What exportFor sends at most: the first packages of the list.
FirstOf(S) == {T \in SUBSET S : Cardinality(T) = IF Cardinality(S) < MaxPackages THEN Cardinality(S) ELSE MaxPackages}

\* driver-package, exportFor, _findInfs: only he who holds the device may have its driver.
\* The system may not say which package the device runs on.
Export(r) ==
  /\ phase[r] = "new" /\ holds
  /\ \E bound \in {Bound, {}}, found \in SUBSET Infs :
       \E list \in FirstOf(Chosen(found \cup bound, bound)) :
         /\ list # {} /\ todo' = [todo EXCEPT ![r] = list]
  /\ outFolder' = outFolder \cup {r} /\ phase' = [phase EXCEPT ![r] = "exporting"]
  /\ UNCHANGED <<holds, got, holderVars>>

\* Not the holder, no rights, no package: the answer says why.
Denied(r) ==
  /\ phase[r] = "new" /\ phase' = [phase EXCEPT ![r] = "over"]
  /\ UNCHANGED <<holds, todo, got, outFolder, holderVars>>

\* pnputil has exported a package, or has not: then it is left out.
ExportOne(r) ==
  /\ phase[r] = "exporting"
  /\ \E p \in todo[r] :
       /\ todo' = [todo EXCEPT ![r] = @ \ {p}]
       /\ got' \in {got, [got EXCEPT ![r] = @ \cup {p}]}
  /\ UNCHANGED <<holds, phase, outFolder, holderVars>>

\* The files are read and the folder removed, whether all went well or they are too large.
Sent(r) ==
  /\ phase[r] = "exporting"
  /\ \/ todo[r] = {} /\ got[r] # {} /\ phase' = [phase EXCEPT ![r] = "sent"]
     \/ phase' = [phase EXCEPT ![r] = "over"]
  /\ outFolder' = outFolder \ {r}
  /\ UNCHANGED <<holds, todo, got, holderVars>>

----------------------------------------------------------------------------
(* The holder.                                                             *)

\* The sessions that have been there for too long.
Old == {r \in Requests : session[r] # None /\ session[r] > Ttl}

\* _gc, cancel: a session goes with its folder.
Without(S) == [r \in Requests |-> IF r \in S THEN None ELSE session[r]]

\* The answer does not come, or comes too late.
Lost(r) ==
  /\ phase[r] = "sent" /\ phase' = [phase EXCEPT ![r] = "over"]
  /\ UNCHANGED <<holds, todo, got, outFolder, holderVars>>

\* prepare, up to the first signature.
Receive(r) ==
  /\ phase[r] = "sent" /\ phase' = [phase EXCEPT ![r] = "unpacking"]
  /\ todo' = [todo EXCEPT ![r] = got[r]] /\ got' = [got EXCEPT ![r] = {}]
  /\ session' = Without(Old) /\ inFolder' = (inFolder \ Old) \cup {r}
  /\ UNCHANGED <<holds, outFolder, installing, added>>

\* _signature: what it finds is shown to the user, and forbids nothing.
Unpack(r) ==
  /\ phase[r] = "unpacking"
  /\ \E p \in todo[r] : todo' = [todo EXCEPT ![r] = @ \ {p}] /\ got' = [got EXCEPT ![r] = @ \cup {p}]
  /\ UNCHANGED <<holds, phase, outFolder, holderVars>>

\* (faulty variant: the folder of a rejected package is left behind)
LeftByReject(r) == inFolder

\* The folder goes when the package is rejected.
KeptByReject(r) == inFolder \ {r}

\* A forbidden path, a package too large or without an INF.
Reject(r) ==
  /\ phase[r] = "unpacking" /\ todo[r] # {}
  /\ phase' = [phase EXCEPT ![r] = "over"] /\ inFolder' = KeptByReject(r)
  /\ UNCHANGED <<holds, todo, got, outFolder, session, installing, added>>

Prepared(r) ==
  /\ phase[r] = "unpacking" /\ todo[r] = {}
  /\ phase' = [phase EXCEPT ![r] = "over"] /\ session' = [session EXCEPT ![r] = 0]
  /\ UNCHANGED <<holds, todo, got, outFolder, inFolder, installing, added>>

\* install: the user has confirmed.
Install(r) ==
  /\ session[r] # None /\ r \notin Old /\ installing[r] = None
  /\ installing' = [installing EXCEPT ![r] = got[r]]
  /\ session' = Without(Old) /\ inFolder' = inFolder \ Old
  /\ UNCHANGED <<holds, phase, todo, got, outFolder, added>>

\* One package after the other, from the folder, which may be gone by then: the
\* user has closed the window, another installation of the same token has ended, or the
\* session has grown old.  A package that fails does not stop those after it.
InstallOne(r) ==
  /\ installing[r] # None
  /\ \E p \in installing[r] :
       /\ installing' = [installing EXCEPT ![r] = @ \ {p}]
       /\ added' \in {added, IF r \in inFolder THEN added \cup {p} ELSE added}
  /\ UNCHANGED <<holds, phase, todo, got, outFolder, inFolder, session>>

\* The folder of a session that is there; one that is not has been removed already.
Gone(r) == IF session[r] = None THEN {} ELSE {r}

\* The last of them: cancel.
Installed(r) ==
  /\ installing[r] = {}
  /\ installing' = [installing EXCEPT ![r] = None]
  /\ session' = Without({r}) /\ inFolder' = inFolder \ Gone(r)
  /\ UNCHANGED <<holds, phase, todo, got, outFolder, added>>

\* The user closes the window.
Cancel(r) ==
  /\ session[r] # None
  /\ session' = Without({r}) /\ inFolder' = inFolder \ {r}
  /\ UNCHANGED <<holds, phase, todo, got, outFolder, installing, added>>

\* The device is given up, and time passes.
GivenUp ==
  /\ holds /\ holds' = FALSE
  /\ UNCHANGED <<phase, todo, got, outFolder, holderVars>>
Tick ==
  /\ \E r \in Requests : session[r] # None /\ session[r] < MaxAge
  /\ session' = [r \in Requests |-> IF session[r] \in 0..(MaxAge - 1) THEN session[r] + 1 ELSE session[r]]
  /\ UNCHANGED <<holds, phase, todo, got, outFolder, inFolder, installing, added>>

Next ==
  \/ GivenUp \/ Tick
  \/ \E r \in Requests :
       \/ Export(r) \/ Denied(r) \/ ExportOne(r) \/ Sent(r) \/ Lost(r) \/ Receive(r) \/ Unpack(r)
       \/ Reject(r) \/ Prepared(r) \/ Install(r) \/ InstallOne(r) \/ Installed(r) \/ Cancel(r)

Spec == Init /\ [][Next]_drvVars

----------------------------------------------------------------------------
(* Properties.                                                             *)

\* Every folder with a foreign driver in it belongs to an export that runs, to a package
\* being checked or to a session: none is left in the temporary folder of which the node
\* does not know, however requests, refusals, installations and the sweep overlap.
NoFolderLeft ==
  /\ \A r \in outFolder : phase[r] = "exporting"
  /\ inFolder = {r \in Requests : phase[r] = "unpacking" \/ session[r] # None}
=============================================================================
