------------------------------ MODULE Requests ------------------------------
(***************************************************************************)
(* A request for a busy device on its way between three nodes: the owner   *)
(* keeps it (src/core/shareManager.js), the holder is told of it twice, by *)
(* a direct call at once and by the answer to his next heartbeat           *)
(* (src/core/attachManager.js), sees it as a dialog and answers it.        *)
(*                                                                         *)
(* Calls and their answers may be lost, a direct call may come late; a     *)
(* holder whose heartbeat fails three times in a row gives the device up.  *)
(* One tick is the heartbeat's interval, ten seconds.  Of the owner's      *)
(* table only what concerns one device is kept: who holds it (the holder   *)
(* modelled or someone else) and its requests.                             *)
(***************************************************************************)
EXTENDS Naturals, FiniteSets

CONSTANTS
  Ids,        \* requests, in the order they are made
  Ttl,        \* ticks a request waits for its answer (REQUEST_TTL_MS)
  Keep,       \* ticks a closed one is kept by the owner and by the holder (120000)
  Tries       \* heartbeats that fail in a row until the holder gives up

\* 120 s against 30 s.
ConstantsOK == Ids \subseteq Nat /\ Ttl \in Nat \ {0} /\ Keep \in Nat /\ Tries \in 1 .. Keep - 1

VARIABLES
  holds,      \* the owner's claim is the holder's
  attached,   \* the holder's record is attached: he sends heartbeats
  table,      \* requests of the owner: [state, age]
  seen,       \* incomingRequests of the holder: [state, age]
  calls,      \* direct calls on their way: snapshots of requests just made
  beaten,     \* the heartbeat of this tick is over
  fails       \* heartbeatFails

vars == <<holds, attached, table, seen, calls, beaten, fails>>

Unknown == [state |-> "unknown", age |-> 0]
Request(state) == [state |-> state, age |-> 0]
Pending(t) == {q \in Ids : t[q].state = "pending"}
Known(t) == {q \in Ids : t[q].state \notin {"unknown", "gone"}}

Init ==
  /\ holds = TRUE /\ attached = TRUE
  /\ table = [q \in Ids |-> Unknown] /\ seen = table /\ calls = {} /\ beaten = FALSE /\ fails = 0

\* _closeRequestsFor: a new claim settles what waits.
Settled == [q \in Ids |-> IF q \in Pending(table) THEN Request("granted") ELSE table[q]]

----------------------------------------------------------------------------
(* The owner.                                                              *)

\* createRequest: one request of a node for a target at a time (of others, the next of
\* Ids), addressed to the holder; the direct call to him leaves, if he is known to run.
Ask(q) ==
  /\ holds /\ table[q].state = "unknown" /\ \A p \in Ids : p < q => table[p].state # "unknown"
  /\ table' = [table EXCEPT ![q] = Request("pending")]
  /\ \/ calls' = calls \cup {q}
     \/ UNCHANGED calls
  /\ UNCHANGED <<holds, attached, seen, beaten, fails>>

\* cancelRequest
Cancel(q) ==
  /\ q \in Pending(table)
  /\ table' = [table EXCEPT ![q] = Request("cancelled")]
  /\ UNCHANGED <<holds, attached, seen, calls, beaten, fails>>

\* Someone claims the device the holder has left.
OtherClaims ==
  /\ ~holds /\ Pending(table) # {} /\ table' = Settled
  /\ UNCHANGED <<holds, attached, seen, calls, beaten, fails>>

----------------------------------------------------------------------------
(* The holder is told.                                                     *)

\* acceptPush
Push(q) ==
  /\ q \in calls /\ calls' = calls \ {q}
  /\ seen' = [seen EXCEPT ![q] = Request("pending")]
  /\ UNCHANGED <<holds, attached, table, beaten, fails>>

Lost(q) ==
  /\ q \in calls /\ calls' = calls \ {q}
  /\ UNCHANGED <<holds, attached, table, seen, beaten, fails>>

\* _absorbRequests: what the owner tells, as he tells it; closed ones go after a while.
Absorbed(of) ==
  [q \in Ids |-> LET r == IF q \in of THEN table[q] ELSE seen[q] IN
                 IF r.state # "pending" /\ r.age >= Keep THEN Unknown ELSE r]
Absorb == Absorbed(Known(table))

\* _heartbeatOne: the owner answers with the requests he has; or refuses, since the claim
\* is gone; or one of the two is lost.
GivesUp == attached' = FALSE /\ fails' = 0
Heartbeat ==
  /\ attached /\ ~beaten /\ beaten' = TRUE
  /\ \/ holds /\ seen' = Absorb /\ fails' = 0 /\ UNCHANGED <<holds, attached>>
     \/ ~holds /\ GivesUp /\ UNCHANGED <<holds, seen>>
     \/ fails + 1 < Tries /\ fails' = fails + 1 /\ UNCHANGED <<holds, attached, seen>>
     \/ fails + 1 = Tries /\ GivesUp /\ holds' \in {holds, FALSE} /\ UNCHANGED seen
  /\ UNCHANGED <<table, calls>>

----------------------------------------------------------------------------
(* The holder answers, comes and goes.                                     *)

\* pendingRequests, and the dialog of the interface, which shows the first of them.
Dialog(q) == q \in Pending(seen) /\ \A p \in Pending(seen) : q <= p

\* answerRequest: the owner closes the request and, on consent, takes the claim; when he
\* refuses (closed already) or the answer is lost, the holder changes nothing.
Answer(q, accept) ==
  LET state == IF accept THEN "accepted" ELSE "declined" IN
  /\ Dialog(q)
  /\ \/ /\ q \in Pending(table)
        /\ table' = [table EXCEPT ![q] = Request(state)] /\ holds' = (holds /\ ~accept)
        /\ \/ /\ seen' = [seen EXCEPT ![q] = [state |-> state, age |-> seen[q].age]]
              /\ attached' = (attached /\ ~accept)
           \/ UNCHANGED <<seen, attached>>
     \/ UNCHANGED <<table, holds, seen, attached>>
  /\ UNCHANGED <<calls, beaten, fails>>

\* The device is given back, taken by its owner (of which he tells), or claimed again.
Return ==
  /\ holds /\ attached /\ holds' = FALSE /\ attached' = FALSE /\ fails' = 0
  /\ UNCHANGED <<table, seen, calls, beaten>>

Taken ==
  /\ holds /\ holds' = FALSE /\ attached' \in {attached, FALSE} /\ fails' = 0
  /\ table' = Settled /\ UNCHANGED <<seen, calls, beaten>>

Claim ==
  /\ ~holds /\ ~attached /\ holds' = TRUE /\ attached' = TRUE /\ table' = Settled
  /\ beaten' = TRUE /\ UNCHANGED <<seen, calls, fails>>

\* Ten seconds: heartbeats have gone, direct calls have ended one way or the other
\* (timeoutMs 5000), requests run out and closed ones are dropped (_sweep).
Aged(r) == [r EXCEPT !.age = IF @ < Keep + Ttl THEN @ + 1 ELSE @]
Swept(r) ==
  IF r.state = "pending" /\ r.age >= Ttl THEN Request("expired")
  ELSE IF r.state \notin {"pending", "unknown"} /\ r.age > Keep THEN [state |-> "gone", age |-> 0]
  ELSE r
Older(r) == IF r.state \in {"unknown", "gone"} THEN r ELSE Aged(r)
Tick ==
  /\ attached => beaten
  /\ calls = {}
  /\ table' = [q \in Ids |-> Swept(Older(table[q]))]
  /\ seen' = [q \in Ids |-> IF seen[q].state = "pending" THEN seen[q] ELSE Older(seen[q])]
  /\ beaten' = FALSE /\ UNCHANGED <<holds, attached, calls, fails>>

Next ==
  \/ OtherClaims \/ Heartbeat \/ Return \/ Taken \/ Claim \/ Tick
  \/ \E q \in Ids : \/ Ask(q) \/ Cancel(q) \/ Push(q) \/ Lost(q)
                    \/ \E accept \in BOOLEAN : Answer(q, accept)

Spec == Init /\ [][Next]_vars

\* Time passes, heartbeats go, calls end.
FairSpec ==
  /\ Spec /\ WF_vars(Tick) /\ WF_vars(Heartbeat)
  /\ \A q \in Ids : WF_vars(Push(q) \/ Lost(q))

----------------------------------------------------------------------------
(* Properties.                                                             *)

TypeOK ==
  /\ calls \cup Pending(seen) \subseteq {q \in Ids : table[q].state # "unknown"} /\ fails \in 0 .. Tries - 1
  /\ \A q \in Ids : table[q].age \in 0 .. Keep + Ttl /\ seen[q].age \in 0 .. Keep + Ttl

\* The heartbeat is the guarantee: whatever becomes of the direct call, a holder who stays
\* learns of a request that waits, and that one he was shown has closed,
\* as long as the owner still keeps it for the next heartbeats
\* (docs/ARCHITECTURE.md: the direct way is for speed, the heartbeat for certainty).
Closed(q) == q \in Known(table) \ Pending(table) /\ table[q].age + Tries <= Keep
HolderLearns ==
  \A q \in Ids :
    /\ []<>(~attached \/ q \notin Pending(table) \/ q \in Pending(seen))
    /\ (attached /\ q \in Pending(seen) /\ Closed(q)) ~> ~(attached /\ q \in Pending(seen))
=============================================================================
