--------------------------- MODULE AttachProtocol ---------------------------
(***************************************************************************)
(* How a node uses a device of another: the records of the holder          *)
(* (src/src/core/attachManager.js), the calls it makes to the owner        *)
(* (src/src/net/rpc.js, src/src/api/httpServer.js), and the owner's table  *)
(* for this one USB device (a small part of module ShareManager).          *)
(*                                                                         *)
(* A node first asks for the lease, then connects the device with USB/IP,  *)
(* and keeps the lease alive with heartbeats.  To give the device back it  *)
(* disconnects first and returns the lease then.  Each step waits: for the *)
(* owner's answer, which may be late or never come, or for the driver.     *)
(* In between anything else may happen on the same node: the user presses  *)
(* a button, a revocation arrives, the heartbeat fails, the process dies.  *)
(*                                                                         *)
(* Time is abstract: a call may time out, and a lease may run out, at any  *)
(* moment.                                                                 *)
(***************************************************************************)
EXTENDS Naturals, FiniteSets

CONSTANTS
  Nodes,       \* the nodes that use the device
  MaxRecords,  \* (bound) record objects of attachManager, of all nodes
  MaxTasks,    \* (bound) handlers of holders that wait
  Faults,      \* what may go wrong: see Fault
  MaxFaults,   \* (bound) how many times something goes wrong
  MaxLate,     \* (bound) requests on their way whose callers have given up
  MaxUnbinds,  \* (bound) releases that wait for the driver
  MaxFails,    \* calls without an answer before the holder detaches: 3 in the code
  None

\* "lost": calls time out and notices get lost; "crash": a holder's process or its
\* machine dies; "usbip", "bind", "unbind": the driver refuses; "cut": the data
\* connection breaks; "refresh" (no fault): the user asks for the list anew.
Fault == {"lost", "crash", "usbip", "bind", "unbind", "cut", "refresh"}

Records == 1..MaxRecords
Tasks == 1..MaxTasks

ASSUME ConstantsOK ==
  /\ Faults \subseteq Fault
  /\ MaxRecords \in Nat /\ MaxTasks \in Nat
  /\ None \notin Nodes \cup Records \cup Tasks
  /\ MaxFaults \in Nat /\ MaxLate \in Nat /\ MaxUnbinds \in Nat /\ MaxFails \in Nat \ {0}

VARIABLES
  claim,      \* (owner) the holder of the lease
  bound,      \* (owner) the device is exported
  bind,       \* (owner) the claim that waits for the driver
  unbinds,    \* (owner) the releases that wait for the driver
  conn,       \* the node that the device is connected to by USB/IP
  current,    \* (holder) the record of the device in `attachments`
  record,     \* (holder) the records
  orphan,     \* (holder) the connection is listed as one from outside
  tasks,      \* (holder) handlers that wait
  strays,     \* requests on their way whose callers have given up
  notices,    \* revocations on their way
  mishaps     \* how many times something has gone wrong

owner == <<claim, bound, bind, unbinds>>
holders == <<current, record, orphan>>
network == <<strays, notices>>
system == <<owner, conn, holders, tasks, network>>
vars == <<system, mishaps>>

Unused == [state |-> "unused", port |-> FALSE, fails |-> 0]
RecordType ==
  [state : {"unused", "attaching", "attached", "detaching", "error"}, port : BOOLEAN, fails : 0..MaxFails - 1]

\* `at` is what the handler waits for, `rpc` how far its call to the owner is, `keep`
\* the parameter keepClaim, and `beat` that the heartbeat round waits for it.
Idle == [op |-> "idle", node |-> None, rec |-> None, at |-> "-", rpc |-> "-",
         keep |-> FALSE, beat |-> FALSE]
TaskType ==
  [op : {"idle", "attach", "undo", "detach", "beat", "adopt"},
   node : Nodes \cup {None}, rec : Records \cup {None},
   at : {"-", "claim", "usbip", "release", "heartbeat"},
   rpc : {"-", "sent", "handled", "ok", "no", "timeout"},
   keep : BOOLEAN, beat : BOOLEAN]

NoBind == [by |-> None, call |-> None]

TypeOK ==
  /\ claim \in Nodes \cup {None}
  /\ bound \in BOOLEAN
  /\ bind \in [by : Nodes \cup {None}, call : Tasks \cup {None}]
  /\ unbinds \subseteq [by : Nodes, call : Tasks \cup {None}, marked : BOOLEAN]
  /\ conn \in Nodes \cup {None}
  /\ current \in [Nodes -> Records \cup {None}]
  /\ record \in [Records -> RecordType]
  /\ orphan \in [Nodes -> BOOLEAN]
  /\ tasks \in [Tasks -> TaskType]
  /\ strays \subseteq {"claim", "release"} \X Nodes
  /\ notices \subseteq Nodes
  /\ mishaps \in 0..MaxFaults

Init ==
  /\ claim = None /\ bound = FALSE /\ bind = NoBind /\ unbinds = {}
  /\ conn = None
  /\ current = [n \in Nodes |-> None]
  /\ record = [r \in Records |-> Unused]
  /\ orphan = [n \in Nodes |-> FALSE]
  /\ tasks = [t \in Tasks |-> Idle]
  /\ strays = {} /\ notices = {} /\ mishaps = 0

-----------------------------------------------------------------------------
(* The owner.  A call t = None comes from a caller that has given up. *)

Arrives(what, n, t) ==
  \/ /\ t # None
     /\ tasks[t].rpc = "sent" /\ tasks[t].at = what /\ tasks[t].node = n
     /\ UNCHANGED strays
  \/ /\ t = None
     /\ <<what, n>> \in strays
     /\ strays' = strays \ {<<what, n>>}

Answer(t, a) == tasks' = IF t = None THEN tasks ELSE [tasks EXCEPT ![t].rpc = a]

\* `preparing` has the device.
Busy == bind # NoBind \/ \E u \in unbinds : u.marked

MayClaim(n) == ~Busy /\ claim \in {None, n}

\* POST /peer/claim
HandleClaim(n, t) ==
  /\ Arrives("claim", n, t)
  /\ \/ MayClaim(n) /\ bind' = [by |-> n, call |-> t] /\ Answer(t, "handled")
     \/ ~MayClaim(n) /\ bind' = bind /\ Answer(t, "no")
  /\ UNCHANGED <<claim, bound, unbinds, conn, holders, notices>>

BindDone ==
  /\ bind # NoBind
  /\ claim' = bind.by /\ bound' = TRUE /\ bind' = NoBind
  /\ Answer(bind.call, "ok")
  /\ UNCHANGED <<unbinds, conn, holders, network>>

BindFails ==
  /\ "bind" \in Faults
  /\ bind # NoBind
  /\ bind' = NoBind
  /\ Answer(bind.call, "no")
  /\ UNCHANGED <<claim, bound, unbinds, conn, holders, network>>

\* The lease ends at once and the owner cuts the data connection; the driver follows.
StartRelease(t) ==
  /\ Cardinality(unbinds) < MaxUnbinds
  /\ unbinds' = unbinds \cup {[by |-> claim, call |-> t, marked |-> ~Busy]}
  /\ claim' = None
  /\ conn' = None
  /\ UNCHANGED <<bound, bind, holders, notices>>

\* POST /peer/release
HandleRelease(n, t) ==
  /\ Arrives("release", n, t)
  /\ \/ claim = n /\ StartRelease(t) /\ Answer(t, "handled")
     \/ claim # n /\ Answer(t, "ok") /\ UNCHANGED <<owner, conn, holders, notices>>

\* After the release the former holder is told, whoever ended the lease.
AfterUnbind(u) ==
  /\ u \in unbinds
  /\ unbinds' = unbinds \ {u}
  /\ notices' = notices \cup {u.by}
  /\ Answer(u.call, "ok")
  /\ UNCHANGED <<claim, bind, holders, strays>>

UnbindDone(u) ==
  /\ AfterUnbind(u)
  /\ bound' = FALSE /\ conn' = None

UnbindFails(u) ==
  /\ "unbind" \in Faults
  /\ AfterUnbind(u)
  /\ UNCHANGED <<bound, conn>>

\* POST /peer/heartbeat
HandleHeartbeat(n, t) ==
  /\ Arrives("heartbeat", n, t)
  /\ \/ claim = n /\ Answer(t, "ok")
     \/ claim # n /\ Answer(t, "no")
  /\ UNCHANGED <<claim, bound, bind, unbinds, conn, holders, notices>>

\* The owner ends the lease by itself: it has run out (_sweep), the data connection
\* has not come back (onDataClosed), the owner takes the device back.
EndLease ==
  /\ claim # None
  /\ StartRelease(None)
  /\ UNCHANGED <<tasks, strays>>

-----------------------------------------------------------------------------
(* The holder. *)

\* Records nobody refers to any more are gone.
Holder(cur, recs, ts) ==
  /\ current' = cur /\ tasks' = ts
  /\ record' = [r \in Records |->
       IF (\E n \in Nodes : cur[n] = r) \/ (\E t \in Tasks : ts[t].rec = r) THEN recs[r] ELSE Unused]

\* Unused slots are taken in their order.
NewRecord(r) == record[r] = Unused /\ \A q \in 1..r - 1 : record[q] # Unused
NewTask(t) == tasks[t] = Idle /\ \A u \in 1..t - 1 : tasks[u] # Idle

Listed(n, S) == current[n] # None /\ record[current[n]].state \in S

\* attach: refused while the device is being attached or is attached.
Attach(t, n, r) ==
  /\ NewTask(t) /\ NewRecord(r)
  /\ ~Listed(n, {"attaching", "attached"})
  /\ Holder([current EXCEPT ![n] = r],
            [record EXCEPT ![r] = [Unused EXCEPT !.state = "attaching"]],
            [tasks EXCEPT ![t] = [Idle EXCEPT !.op = "attach", !.node = n, !.rec = r,
                                              !.at = "claim", !.rpc = "sent"]])
  /\ UNCHANGED <<owner, conn, orphan, network>>

Granted(t) ==
  /\ tasks[t].op = "attach" /\ tasks[t].at = "claim" /\ tasks[t].rpc = "ok"
  /\ tasks' = [tasks EXCEPT ![t].at = "usbip", ![t].rpc = "-"]
  /\ UNCHANGED <<owner, conn, holders, network>>

\* USB/IP connects whoever asks while the device is exported and not in use.
Connected(t) ==
  /\ tasks[t].op = "attach" /\ tasks[t].at = "usbip"
  /\ bound /\ conn = None
  /\ conn' = tasks[t].node
  /\ Holder(current, [record EXCEPT ![tasks[t].rec].state = "attached", ![tasks[t].rec].port = TRUE],
            [tasks EXCEPT ![t] = Idle])
  /\ UNCHANGED <<claim, bound, bind, unbinds, orphan, network>>

\* The catch branch: the lease is given back.
GiveUp(t) ==
  /\ Holder(current, [record EXCEPT ![tasks[t].rec].state = "error"],
            [tasks EXCEPT ![t].op = "undo", ![t].at = "release", ![t].rpc = "sent"])
  /\ UNCHANGED <<owner, conn, orphan, network>>

AttachFails(t) ==
  /\ tasks[t].op = "attach"
  /\ \/ tasks[t].at = "claim" /\ tasks[t].rpc \in {"no", "timeout"}
     \/ tasks[t].at = "usbip" /\ (~bound \/ conn # None)
  /\ GiveUp(t)

ConnectFails(t) ==
  /\ "usbip" \in Faults
  /\ tasks[t].op = "attach" /\ tasks[t].at = "usbip"
  /\ GiveUp(t)

\* ... and the entry is deleted, whichever record it is by now.
Undone(t) ==
  /\ tasks[t].op = "undo" /\ tasks[t].rpc \in {"ok", "no", "timeout"}
  /\ Holder([current EXCEPT ![tasks[t].node] = None], record, [tasks EXCEPT ![t] = Idle])
  /\ UNCHANGED <<owner, conn, orphan, network>>

\* detach: of the record that is listed now.
StartDetach(t, n, keep, beat) ==
  LET r == current[n]
      recs == [record EXCEPT ![r].state = "detaching"]
      task == [Idle EXCEPT !.op = "detach", !.node = n, !.rec = r, !.keep = keep, !.beat = beat] IN
  \/ /\ record[r].port
     /\ Holder(current, recs, [tasks EXCEPT ![t] = [task EXCEPT !.at = "usbip"]])
  \/ /\ ~record[r].port /\ ~keep
     /\ Holder(current, recs, [tasks EXCEPT ![t] = [task EXCEPT !.at = "release", !.rpc = "sent"]])
  \/ /\ ~record[r].port /\ keep
     /\ Holder([current EXCEPT ![n] = None], recs, [tasks EXCEPT ![t] = Idle])

\* detach deletes only its own record.
Finish(t) ==
  Holder([current EXCEPT ![tasks[t].node] = IF @ = tasks[t].rec THEN None ELSE @], record,
         [tasks EXCEPT ![t] = Idle])

\* A failure of the driver is only logged.
AfterDisconnect(t) ==
  /\ tasks[t].op = "detach" /\ tasks[t].at = "usbip"
  /\ \/ tasks[t].keep /\ Finish(t)
     \/ /\ ~tasks[t].keep
        /\ tasks' = [tasks EXCEPT ![t].at = "release", ![t].rpc = "sent"]
        /\ UNCHANGED <<current, record>>
  /\ UNCHANGED <<owner, orphan, network>>

\* A port that is not in use any more is nothing to disconnect, and one that is in
\* use again is disconnected.
Disconnected(t) ==
  /\ AfterDisconnect(t)
  /\ conn' = IF conn = tasks[t].node THEN None ELSE conn

DisconnectFails(t) ==
  /\ "usbip" \in Faults
  /\ AfterDisconnect(t)
  /\ UNCHANGED conn

Released(t) ==
  /\ tasks[t].op = "detach" /\ tasks[t].at = "release" /\ tasks[t].rpc \in {"ok", "no", "timeout"}
  /\ Finish(t)
  /\ UNCHANGED <<owner, conn, orphan, network>>

UserDetaches(t, n) ==
  /\ NewTask(t) /\ current[n] # None
  /\ StartDetach(t, n, FALSE, FALSE)
  /\ UNCHANGED <<owner, conn, orphan, network>>

\* revokedByOwner
Revoked(t, n) ==
  /\ n \in notices
  /\ notices' = notices \ {n}
  /\ \/ NewTask(t) /\ current[n] # None /\ StartDetach(t, n, TRUE, FALSE)
     \/ current[n] = None /\ UNCHANGED <<current, record, tasks>>
  /\ UNCHANGED <<owner, conn, orphan, strays>>

-----------------------------------------------------------------------------
(* The heartbeat of the holder. *)

\* A round waits for the one before it.
NoRound(n) == \A t \in Tasks : tasks[t].node = n => ~tasks[t].beat

Call(op, n, r) ==
  [Idle EXCEPT !.op = op, !.node = n, !.rec = r, !.at = "heartbeat", !.rpc = "sent", !.beat = TRUE]

Beat(t, n) ==
  /\ NewTask(t) /\ NoRound(n)
  /\ Listed(n, {"attached"})
  /\ tasks' = [tasks EXCEPT ![t] = Call("beat", n, current[n])]
  /\ UNCHANGED <<owner, conn, holders, network>>

\* (faulty variant: any answer counts, that the lease is gone too)
Answered(t) == tasks[t].rpc \in {"ok", "no"}

LeaseIsOurs(t) == tasks[t].rpc = "ok"

BeatOk(t) ==
  /\ tasks[t].op = "beat" /\ LeaseIsOurs(t)
  /\ Holder(current, [record EXCEPT ![tasks[t].rec].fails = 0], [tasks EXCEPT ![t] = Idle])
  /\ UNCHANGED <<owner, conn, orphan, network>>

Patient(r) == record[r].fails + 1 < MaxFails

\* The lease is gone, or three calls in a row got no answer: the device is detached,
\* whichever record it has by now.
BeatFails(t) ==
  LET n == tasks[t].node
      r == tasks[t].rec
      gone == tasks[t].rpc = "no" IN
  /\ tasks[t].op = "beat" /\ tasks[t].rpc \in {"no", "timeout"}
  /\ \/ /\ ~gone /\ Patient(r)
        /\ Holder(current, [record EXCEPT ![r].fails = @ + 1], [tasks EXCEPT ![t] = Idle])
     \/ /\ gone \/ ~Patient(r)
        /\ \/ current[n] # None /\ StartDetach(t, n, gone, TRUE)
           \/ current[n] = None /\ Holder(current, record, [tasks EXCEPT ![t] = Idle])
  /\ UNCHANGED <<owner, conn, orphan, network>>

\* reconcile, at the start and when the user refreshes the list.
Reconcile(n) ==
  /\ "refresh" \in Faults
  /\ conn = n
  /\ \/ /\ current[n] # None
        /\ record' = [record EXCEPT ![current[n]].port = TRUE] /\ UNCHANGED orphan
     \/ current[n] = None /\ orphan' = [orphan EXCEPT ![n] = TRUE] /\ UNCHANGED record
  /\ UNCHANGED <<owner, conn, current, tasks, network>>

\* (faulty variant: the test of the list is the wrong way round)
AdoptableIfListed(n) == orphan[n] /\ current[n] # None

Adoptable(n) == orphan[n] /\ current[n] = None

\* _adoptOrphans: a connection from before the restart becomes a record again when
\* the owner still has the lease; that the list had no record is asked before the call.
Adopt(t, n) ==
  /\ NewTask(t) /\ NoRound(n)
  /\ Adoptable(n)
  /\ tasks' = [tasks EXCEPT ![t] = Call("adopt", n, None)]
  /\ UNCHANGED <<owner, conn, holders, network>>

Adopted(t, r) ==
  LET n == tasks[t].node IN
  /\ tasks[t].op = "adopt"
  /\ \/ /\ tasks[t].rpc = "ok" /\ NewRecord(r)
        /\ orphan' = [orphan EXCEPT ![n] = FALSE]
        /\ Holder([current EXCEPT ![n] = r],
                  [record EXCEPT ![r] = [state |-> "attached", port |-> TRUE, fails |-> 0]],
                  [tasks EXCEPT ![t] = Idle])
     \/ /\ tasks[t].rpc \in {"no", "timeout"}
        /\ tasks' = [tasks EXCEPT ![t] = Idle]
        /\ UNCHANGED holders
  /\ UNCHANGED <<owner, conn, network>>

\* The user detaches a connection from outside: there is no lease to give back.
DetachOrphan(n) ==
  /\ orphan[n]
  /\ orphan' = [orphan EXCEPT ![n] = FALSE]
  /\ \/ conn = n /\ conn' = None
     \/ conn # n /\ UNCHANGED conn
  /\ UNCHANGED <<claim, bound, bind, unbinds, current, record, tasks, network>>

-----------------------------------------------------------------------------
(* Faults.  A notice or a late request that never arrives is lost. *)

\* Nobody waits any more for the calls of T; those that are still under way may arrive.
\* (A late heartbeat would only prolong a lease.)
Forget(T) ==
  LET late == {<<tasks[t].at, tasks[t].node>> :
                 t \in {u \in T : tasks[u].rpc = "sent" /\ tasks[u].at # "heartbeat"}} IN
  /\ bind' = IF bind.call \in T THEN [bind EXCEPT !.call = None] ELSE bind
  /\ unbinds' = {IF u.call \in T THEN [u EXCEPT !.call = None] ELSE u : u \in unbinds}
  /\ strays' \in {strays, strays \cup late}
  /\ Cardinality(strays') <= MaxLate

\* The caller stops waiting.
TimeOut(t) ==
  /\ "lost" \in Faults
  /\ tasks[t].op # "beat"
  /\ tasks[t].rpc \in {"sent", "handled", "ok", "no"}
  /\ tasks' = [tasks EXCEPT ![t].rpc = "timeout"]
  /\ Forget({t})
  /\ UNCHANGED <<claim, bound, conn, holders, notices>>

BeatTimesOut(t) ==
  /\ "lost" \in Faults
  /\ tasks[t].op = "beat" /\ tasks[t].rpc \in {"sent", "ok", "no"}
  /\ tasks' = [tasks EXCEPT ![t].rpc = "timeout"]
  /\ UNCHANGED <<owner, conn, holders, network>>

\* The process of a holder dies and starts again; its connection lives on in the
\* driver, unless the machine has gone down with it.
Crash(n) ==
  LET T == {t \in Tasks : tasks[t].node = n} IN
  /\ "crash" \in Faults
  /\ Forget(T)
  /\ Holder([current EXCEPT ![n] = None], record, [t \in Tasks |-> IF t \in T THEN Idle ELSE tasks[t]])
  /\ \/ orphan' = [orphan EXCEPT ![n] = (conn = n)] /\ UNCHANGED conn
     \/ conn = n /\ conn' = None /\ orphan' = [orphan EXCEPT ![n] = FALSE]
  /\ UNCHANGED <<claim, bound, notices>>

\* The network breaks the data connection.
Cut ==
  /\ "cut" \in Faults
  /\ conn # None /\ conn' = None
  /\ UNCHANGED <<claim, bound, bind, unbinds, holders, tasks, network>>

-----------------------------------------------------------------------------
Calls(n) ==
  \E t \in Tasks \cup {None} :
    HandleClaim(n, t) \/ HandleRelease(n, t) \/ HandleHeartbeat(n, t)

Driver == BindDone \/ \E u \in unbinds : UnbindDone(u)

Continue(t) ==
  \/ Granted(t) \/ Connected(t) \/ AttachFails(t) \/ Undone(t) \/ Disconnected(t) \/ Released(t)
  \/ BeatOk(t) \/ BeatFails(t) \/ \E r \in Records : Adopted(t, r)

Round(n) == \E t \in Tasks : Beat(t, n) \/ Adopt(t, n)

User ==
  \/ \E t \in Tasks, n \in Nodes, r \in Records : Attach(t, n, r)
  \/ \E t \in Tasks, n \in Nodes : UserDetaches(t, n)
  \/ \E n \in Nodes : DetachOrphan(n)

Faulty ==
  /\ mishaps < MaxFaults /\ mishaps' = mishaps + 1
  /\ \/ \E t \in Tasks : TimeOut(t) \/ ConnectFails(t) \/ DisconnectFails(t)
     \/ BindFails \/ \E u \in unbinds : UnbindFails(u)
     \/ \E n \in Nodes : Crash(n) \/ Reconcile(n)
     \/ Cut

Work ==
  \/ \E n \in Nodes : Calls(n) \/ Round(n)
  \/ Driver \/ EndLease
  \/ \E t \in Tasks : Continue(t)
  \/ \E t \in Tasks, n \in Nodes : Revoked(t, n)
  \/ \E t \in Tasks : BeatTimesOut(t)
  \/ User

Next == Faulty \/ (Work /\ UNCHANGED mishaps)

Spec == Init /\ [][Next]_vars

\* The owner answers what arrives and its driver ends; a handler of a holder goes on
\* when what it waits for is there, and the heartbeat round comes again and again.
Fairness ==
  /\ \A n \in Nodes : WF_system(Calls(n)) /\ SF_system(Round(n))
  /\ WF_system(Driver)
  /\ \A t \in Tasks : WF_system(Continue(t))

FairSpec == Spec /\ Fairness

-----------------------------------------------------------------------------
(* Properties. *)

\* A node that believes it has attached the device, but has no lease, finds out, if
\* not by a notice then by its heartbeat (docs/PROTOCOL.md:534).
StaleAttachmentEnds ==
  \A n \in Nodes :
    (Listed(n, {"attached"}) /\ claim # n) ~> (~Listed(n, {"attached"}) \/ claim = n)

\* A connection that has survived a restart of its node is taken back as an ordinary
\* attachment while the node still has the lease (_adoptOrphans).
SurvivorIsAdopted ==
  \A n \in Nodes :
    (orphan[n] /\ claim = n) ~> (current[n] # None \/ claim # n \/ ~orphan[n])

\* A handler that ends removes its own record, never that of a later attempt that has
\* the same key by now ("by identity, not by key", docs/REVIEW.md:108).
OnlyItsOwnRecord ==
  [][\A t \in Tasks :
       /\ tasks[t].op \in {"undo", "detach"} /\ tasks'[t] = Idle
       /\ current[tasks[t].node] \notin {None, tasks[t].rec}
       => current'[tasks[t].node] = current[tasks[t].node]]_vars
=============================================================================
