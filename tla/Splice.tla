------------------------------- MODULE Splice -------------------------------
(***************************************************************************)
(* The two-way flow of frames between the relay process of a TAP adapter   *)
(* (src/net/tapRelay.js) and the connections spliced to it                 *)
(* (src/net/tapLink.js): how both streams are cut into whole frames, and   *)
(* how a slow side makes the other one wait and go on.                     *)
(*                                                                         *)
(* A frame is two pieces, a head and a body, and a stream comes in chunks  *)
(* of one or two pieces.  A connection takes the place of the one before   *)
(* it, breaks at any moment, and the relay process may die at any moment   *)
(* and is started anew by keepRelay.                                       *)
(***************************************************************************)
EXTENDS Naturals, Sequences

CONSTANTS
  Conns,   \* the connections, each of which may come again
  High     \* chunks a side takes before it asks the other one to wait

NoConn == "none"

ConstantsOK == High \in Nat \ {0} /\ NoConn \notin Conns

VARIABLES
  child,    \* the relay process runs
  emits,    \* the piece the adapter emits next
  tail,     \* _out.tail: the piece of the frame that has begun
  stalled,  \* the reading of the relay's output is paused
  stdin,    \* chunks that wait for the relay process, not counted beyond High
  sink,     \* sink of the relay: the connection frames go to
  socket,   \* session.socket
  conn,     \* the connections
  garbled   \* some side was given something else than whole frames

vars == <<child, emits, tail, stalled, stdin, sink, socket, conn, garbled>>

\* A connection: its state, the piece its peer sends next, the cutter's tail, the chunks
\* that wait to be sent, whether the relay's output waits for it (drain or close), whether
\* it waits for the relay (socket.pause, onceDrain), and whether its relay is the present one.
Idle == [state |-> "closed", sends |-> "head", tail |-> <<>>, queue |-> 0,
         awaited |-> FALSE, waits |-> FALSE, mine |-> FALSE]

Init ==
  /\ child = TRUE /\ emits = "head" /\ tail = <<>> /\ stalled = FALSE /\ stdin = 0
  /\ sink = NoConn /\ socket = NoConn /\ conn = [k \in Conns |-> Idle] /\ garbled = FALSE

----------------------------------------------------------------------------
(* FrameCutter.                                                            *)

Other(piece) == IF piece = "head" THEN "body" ELSE "head"
Pieces(first, n) == IF n = 1 THEN <<first>> ELSE <<first, Other(first)>>
AfterPieces(first, n) == IF n = 1 THEN Other(first) ELSE first

\* push: what is left of a chunk behind the tail, when whole frames are cut off; whether
\* there is one; whether what is cut off is none.
Whole(t, chunk) == Len(t \o chunk) >= 2
Left(t, chunk) == IF Whole(t, chunk) THEN SubSeq(t \o chunk, 3, Len(t \o chunk)) ELSE t \o chunk
Bad(t, chunk) == Whole(t, chunk) /\ SubSeq(t \o chunk, 1, 2) # <<"head", "body">>

----------------------------------------------------------------------------
(* From the adapter to the connection.                                     *)

\* _fromAdapter: whole frames go to the connection; when it is full, or destroyed and not
\* yet closed, the relay's output is not read until it drains or closes.
Reads(n) ==
  LET chunk == Pieces(emits, n) IN
  /\ child /\ ~stalled
  /\ emits' = AfterPieces(emits, n) /\ tail' = Left(tail, chunk)
  /\ IF Whole(tail, chunk) /\ sink # NoConn
       THEN LET open == conn[sink].state = "open"
                slow == ~open \/ conn[sink].queue + 1 >= High
            IN /\ conn' = [conn EXCEPT ![sink].queue = IF open THEN @ + 1 ELSE @, ![sink].awaited = slow]
               /\ stalled' = slow /\ garbled' = (garbled \/ Bad(tail, chunk))
       ELSE UNCHANGED <<conn, stalled, garbled>>
  /\ UNCHANGED <<child, stdin, sink, socket>>

\* resume, the handler of drain and close of connection k.
Resumed(k) == stalled /\ ~(conn[k].awaited /\ sink \in {k, NoConn})

Drains(k) ==
  /\ conn[k].state = "open" /\ conn[k].queue > 0
  /\ conn' = [conn EXCEPT ![k].queue = 0, ![k].awaited = FALSE]
  /\ stalled' = Resumed(k)
  /\ UNCHANGED <<child, emits, tail, stdin, sink, socket, garbled>>

----------------------------------------------------------------------------
(* From the connection to the adapter.                                     *)

\* onData of splice: frames that come while the process is down are dropped.
Given(c, chunk, fresh) ==
  LET given == child /\ Whole(c.tail, chunk)
      slow == given /\ fresh + 1 >= High
  IN [conn |-> [c EXCEPT !.tail = Left(c.tail, chunk), !.waits = slow],
      stdin |-> IF given /\ fresh < High THEN fresh + 1 ELSE fresh,
      bad |-> given /\ Bad(c.tail, chunk)]

Sends(k, n) ==
  LET c == conn[k]
      given == Given(c, Pieces(c.sends, n), stdin)
  IN /\ c.state = "open" /\ ~c.waits
     /\ conn' = [conn EXCEPT ![k] = [given.conn EXCEPT !.sends = AfterPieces(c.sends, n)]]
     /\ stdin' = given.stdin /\ garbled' = (garbled \/ given.bad)
     /\ UNCHANGED <<child, emits, tail, stalled, sink, socket>>

\* The relay process has taken what waited: who waited for it reads on.
Takes ==
  /\ child /\ stdin > 0 /\ stdin' = 0
  /\ conn' = [k \in Conns |-> [conn[k] EXCEPT !.waits = @ /\ ~conn[k].mine]]
  /\ UNCHANGED <<child, emits, tail, stalled, sink, socket, garbled>>

----------------------------------------------------------------------------
(* Connections and the process.                                            *)

Destroyed(k) == IF k \in Conns /\ conn[k].state = "open"
                THEN [conn EXCEPT ![k].state = "closing", ![k].queue = 0] ELSE conn

\* splice with the adapter's new receiver: setSink goes on reading what stalled for the
\* old one.  What came along with the greeting (n pieces) is the beginning of the stream.
SetSink(s) == sink' = s /\ stalled' = (stalled /\ ~child)
Connects(k, n) ==
  LET given == IF n = 0 THEN [conn |-> Idle, stdin |-> stdin, bad |-> FALSE]
               ELSE Given(Idle, Pieces("head", n), stdin)
  IN /\ conn[k].state = "closed"
     /\ conn' = [Destroyed(socket) EXCEPT ![k] =
                  [given.conn EXCEPT !.state = "open", !.mine = TRUE,
                     !.sends = IF n = 1 THEN "body" ELSE "head"]]
     /\ stdin' = given.stdin /\ garbled' = (garbled \/ given.bad) /\ socket' = k
     /\ SetSink(k) /\ UNCHANGED <<child, emits, tail>>

\* A connection breaks, by the peer, the network or the keep-alive.
Breaks(k) ==
  /\ conn[k].state = "open" /\ conn' = Destroyed(k)
  /\ UNCHANGED <<child, emits, tail, stalled, stdin, sink, socket, garbled>>

\* Its event close.
Closed(k) ==
  /\ conn[k].state = "closing"
  /\ conn' = [conn EXCEPT ![k] = Idle]
  /\ socket' = IF socket = k THEN NoConn ELSE socket
  /\ IF sink = k /\ conn[k].mine THEN SetSink(NoConn) ELSE stalled' = Resumed(k) /\ UNCHANGED sink
  /\ UNCHANGED <<child, emits, tail, stdin, garbled>>

Dies ==
  /\ child /\ child' = FALSE
  /\ UNCHANGED <<emits, tail, stalled, stdin, sink, socket, conn, garbled>>

\* keepRelay has a new process: setRelay of the session destroys the connection that was
\* spliced to the old one.
Again ==
  /\ ~child /\ child' = TRUE /\ emits' = "head" /\ tail' = <<>> /\ stalled' = FALSE /\ stdin' = 0
  /\ sink' = NoConn
  /\ conn' = [k \in Conns |-> [Destroyed(socket)[k] EXCEPT !.awaited = FALSE, !.mine = FALSE]]
  /\ UNCHANGED <<socket, garbled>>

Next ==
  \/ Takes \/ Dies \/ Again
  \/ \E n \in 1 .. 2 : Reads(n)
  \/ \E k \in Conns : Drains(k) \/ Breaks(k) \/ Closed(k)
  \/ \E k \in Conns, n \in 1 .. 2 : Sends(k, n)
  \/ \E k \in Conns, n \in 0 .. 2 : Connects(k, n)

Spec == Init /\ [][Next]_vars

\* What waits is sent on while a connection stands and the process runs, a destroyed
\* connection closes, and keepRelay starts the process again.
Goes(k) == Drains(k) \/ Closed(k)
FairSpec == Spec /\ WF_vars(Takes) /\ WF_vars(Again) /\ \A k \in Conns : WF_vars(Goes(k))

----------------------------------------------------------------------------
(* Properties.                                                             *)

TypeOK ==
  /\ child \in BOOLEAN /\ stalled \in BOOLEAN /\ garbled \in BOOLEAN /\ stdin \in 0 .. High
  /\ sink \in Conns \cup {NoConn} /\ socket \in Conns \cup {NoConn}
  /\ \A k \in Conns : conn[k].state \in {"open", "closing", "closed"} /\ conn[k].queue \in 0 .. High

\* Both sides are given whole frames only, although connections break and take each
\* other's place in the middle of a frame.
WholeFrames == ~garbled

\* Neither direction stands still for ever for a side that was slow: what it waited for
\* drains, closes or is replaced.
FlowsOn == []<>(~stalled) /\ \A k \in Conns : []<>(~conn[k].waits)
=============================================================================
