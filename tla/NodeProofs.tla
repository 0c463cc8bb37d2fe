----------------------------- MODULE NodeProofs -----------------------------
(***************************************************************************)
(* Theorems about the parts of a node, for every value of the constants:   *)
(* each part's inductive invariant and what follows from it, and at the    *)
(* end what the node as a whole promises.  The prefix of a name is that of *)
(* the part's variables in Node.                                           *)
(***************************************************************************)
EXTENDS Node, FiniteSetTheorems, SequenceTheorems, TLAPS

------------------------------------------------------------------------------
(* The switch: a frame reaches the station it is for.                      *)

\* What is in the table was heard there, at a port that is in the switch.
SwiTable ==
  /\ DOMAIN swiMacs \subseteq SwiStations
  /\ swiMacs \in [DOMAIN swiMacs -> [port : SwiPorts, age : 0..SwiAgeLimit]]
  /\ \A m \in DOMAIN swiMacs : swiMacs[m].port \in swiAttached /\ swiMacs[m].port = swiHeard[m]
SwiLimit == IsFiniteSet(DOMAIN swiMacs) /\ Cardinality(DOMAIN swiMacs) <= SwiMaxMacs
SwiTyped ==
  /\ swiAttached \subseteq SwiPorts /\ swiFull \subseteq swiAttached
  /\ swiPlace \in [SwiStations -> SwiPorts]
  /\ swiHeard \in [SwiStations -> SwiPorts \cup {Switch!NoPort}]
SwiInv == SwiTyped /\ SwiTable /\ SwiLimit

LEMMA SwiCardinality == ASSUME NEW S PROVE Switch!Cardinality(S) = Cardinality(S)
BY DEF Switch!Cardinality, Cardinality

\* No station is taken out of the table but for the limit, and no more are kept than that.
LEMMA SwiKept ==
  ASSUME NEW s \in SwiStations, SwiInv, NEW kept \in Switch!Kept(s)
  PROVE  /\ kept \subseteq DOMAIN swiMacs \ {s}
         /\ IsFiniteSet(kept \cup {s}) /\ Cardinality(kept \cup {s}) <= SwiMaxMacs
<1> DEFINE others == DOMAIN swiMacs \ {s}
           young == {m \in others : swiMacs[m].age < SwiAgeLimit}
<1>1. SwiMaxMacs \in Nat \ {0}
  BY ConstantsOK DEF Switch!ConstantsOK
<1>2. IsFiniteSet(others) /\ Cardinality(others) \in Nat /\ Cardinality(others) <= SwiMaxMacs
  <2>1. others \subseteq DOMAIN swiMacs /\ IsFiniteSet(DOMAIN swiMacs) /\ Cardinality(DOMAIN swiMacs) <= SwiMaxMacs
    BY DEF SwiInv, SwiLimit
  <2>2. IsFiniteSet(others) /\ Cardinality(others) <= Cardinality(DOMAIN swiMacs)
    BY <2>1, FS_Subset
  <2>3. Cardinality(others) \in Nat /\ Cardinality(DOMAIN swiMacs) \in Nat
    BY <2>1, <2>2, FS_CardinalityType
  <2> QED BY <2>1, <2>2, <2>3, <1>1
<1>3. young \subseteq others /\ IsFiniteSet(young) /\ Cardinality(young) \in Nat
      /\ Cardinality(young) <= Cardinality(others)
  BY <1>2, FS_Subset, FS_CardinalityType
<1>4. /\ kept \subseteq others
      /\ IsFiniteSet(kept) /\ Cardinality(kept) \in Nat /\ Cardinality(kept) < SwiMaxMacs
  <2>1. CASE Cardinality(others) < SwiMaxMacs
    BY <2>1, <1>2, SwiCardinality DEF Switch!Kept
  <2>2. CASE ~(Cardinality(others) < SwiMaxMacs) /\ Cardinality(young) < SwiMaxMacs
    BY <2>2, <1>3, SwiCardinality DEF Switch!Kept
  <2>3. CASE ~(Cardinality(others) < SwiMaxMacs) /\ ~(Cardinality(young) < SwiMaxMacs)
    <3>1. PICK m \in young : kept = young \ {m}
      BY <2>3, SwiCardinality DEF Switch!Kept
    <3>2. IsFiniteSet(kept) /\ Cardinality(kept) = Cardinality(young) - 1
      BY <3>1, <1>3, FS_RemoveElement
    <3>3. kept \subseteq others
      BY <3>1, <1>3
    <3> HIDE DEF others, young
    <3>4. Cardinality(kept) \in Nat /\ Cardinality(kept) < SwiMaxMacs
      BY <3>2, <1>1, <1>2, <1>3, FS_CardinalityType
    <3> QED BY <3>2, <3>3, <3>4
  <2> QED BY <2>1, <2>2, <2>3
<1>5. IsFiniteSet(kept \cup {s}) /\ Cardinality(kept \cup {s}) = Cardinality(kept) + 1
  BY <1>4, FS_AddElement
<1> QED BY <1>1, <1>4, <1>5

LEMMA SwiInit == Switch!Init => SwiInv /\ Switch!FrameReaches
<1> SUFFICES ASSUME Switch!Init PROVE SwiInv /\ Switch!FrameReaches OBVIOUS
<1>1. DOMAIN swiMacs = {}
  BY DEF Switch!Init
<1>2. SwiLimit
  BY <1>1, FS_EmptySet, ConstantsOK DEF SwiLimit, Switch!ConstantsOK
<1>3. SwiTyped /\ SwiTable
  BY <1>1 DEF SwiTyped, SwiTable, Switch!Init
<1>4. Switch!FrameReaches
  BY DEF Switch!FrameReaches, Switch!Init, Switch!Nothing
<1> QED BY <1>2, <1>3, <1>4 DEF SwiInv

\* A port that is taken out takes its stations with it.
LEMMA SwiWithout ==
  ASSUME SwiInv, NEW p \in SwiPorts,
         swiMacs' = Switch!Without(p), Switch!Forgets(p), UNCHANGED swiPlace,
         swiAttached' \in {swiAttached \ {p}, swiAttached}, swiFull' = swiFull \ {p}
  PROVE  SwiInv'
<1>1. DOMAIN swiMacs' = {k \in DOMAIN swiMacs : swiMacs[k].port # p}
  BY DEF Switch!Without
<1>2. \A m \in DOMAIN swiMacs' : swiMacs'[m] = swiMacs[m] /\ swiMacs[m].port # p
  BY DEF Switch!Without
<1>3. SwiLimit'
  <2>1. IsFiniteSet(DOMAIN swiMacs) /\ Cardinality(DOMAIN swiMacs) <= SwiMaxMacs
    BY DEF SwiInv, SwiLimit
  <2>2. IsFiniteSet(DOMAIN swiMacs') /\ Cardinality(DOMAIN swiMacs') <= Cardinality(DOMAIN swiMacs)
    BY <2>1, <1>1, FS_Subset
  <2>3. Cardinality(DOMAIN swiMacs) \in Nat /\ Cardinality(DOMAIN swiMacs') \in Nat
    BY <2>1, <2>2, FS_CardinalityType
  <2> QED BY <2>1, <2>2, <2>3, ConstantsOK DEF SwiLimit, Switch!ConstantsOK
<1>4. SwiTyped'
  BY DEF SwiInv, SwiTyped, Switch!Forgets
<1>5. SwiTable'
  <2>1. swiMacs' \in [DOMAIN swiMacs' -> [port : SwiPorts, age : 0..SwiAgeLimit]]
    BY <1>1, <1>2 DEF SwiInv, SwiTable, Switch!Without
  <2>2. \A m \in DOMAIN swiMacs' : swiMacs'[m].port \in swiAttached' /\ swiMacs'[m].port = swiHeard'[m]
    BY <1>1, <1>2 DEF SwiInv, SwiTable, SwiTyped, Switch!Forgets
  <2> QED BY <1>1, <2>1, <2>2 DEF SwiInv, SwiTable
<1> QED BY <1>3, <1>4, <1>5 DEF SwiInv

\* A frame: the table learns where it came from before it says where it goes.
LEMMA SwiInput ==
  ASSUME SwiInv, NEW s \in SwiStations, NEW dst \in (SwiStations \ {s}) \cup {Switch!All},
         Switch!Input(s, dst)
  PROVE  SwiInv' /\ Switch!FrameReaches'
<1> DEFINE p == swiPlace[s]
<1>1. p \in swiAttached /\ p \in SwiPorts
  BY DEF Switch!Input, SwiInv, SwiTyped
<1>2. PICK kept \in Switch!Kept(s) :
        swiMacs' = [m \in kept \cup {s} |-> IF m = s THEN [port |-> p, age |-> 0] ELSE swiMacs[m]]
  BY DEF Switch!Input, Switch!Learn
<1>3. /\ kept \subseteq DOMAIN swiMacs \ {s}
      /\ IsFiniteSet(kept \cup {s}) /\ Cardinality(kept \cup {s}) <= SwiMaxMacs
  BY SwiKept
<1>4. DOMAIN swiMacs' = kept \cup {s}
  BY <1>2
<1>5. /\ swiHeard' = [swiHeard EXCEPT ![s] = p]
      /\ UNCHANGED <<swiAttached, swiFull, swiPlace>>
  BY DEF Switch!Input
<1>6. SwiTyped' /\ SwiLimit'
  BY <1>1, <1>3, <1>4, <1>5 DEF SwiInv, SwiTyped, SwiLimit
<1>7. \A m \in DOMAIN swiMacs' :
        swiMacs'[m] = IF m = s THEN [port |-> p, age |-> 0] ELSE swiMacs[m]
  BY <1>2, <1>4
<1>8. SwiTable'
  <2>1. \A m \in DOMAIN swiMacs' : swiMacs'[m] \in [port : SwiPorts, age : 0..SwiAgeLimit]
    BY <1>1, <1>3, <1>4, <1>7, ConstantsOK DEF SwiInv, SwiTable, Switch!ConstantsOK
  <2>2. swiMacs' \in [DOMAIN swiMacs' -> [port : SwiPorts, age : 0..SwiAgeLimit]]
    BY <2>1, <1>2, <1>4
  <2>3. \A m \in DOMAIN swiMacs' : swiMacs'[m].port \in swiAttached' /\ swiMacs'[m].port = swiHeard'[m]
    BY <1>1, <1>3, <1>4, <1>5, <1>7 DEF SwiInv, SwiTable, SwiTyped
  <2> QED BY <1>3, <1>4, <2>2, <2>3 DEF SwiInv, SwiTable
<1>9. Switch!FrameReaches'
  <2>1. swiLast' = [port |-> p, dst |-> dst, went |-> Switch!Targets(swiMacs', p, dst) \ swiFull]
    BY DEF Switch!Input
  <2>2. swiLast'.port = p /\ swiLast'.dst = dst
        /\ swiLast'.went = Switch!Targets(swiMacs', p, dst) \ swiFull
    BY <2>1
  <2>3. p \notin swiLast'.went
    BY <2>2 DEF Switch!Targets
  <2>4. ASSUME NEW t \in SwiStations, dst \in {t, Switch!All},
               swiPlace[t] \in swiAttached \ ({p} \cup swiFull),
               swiHeard'[t] \in {Switch!NoPort, swiPlace[t]}
        PROVE  swiPlace[t] \in swiLast'.went
    <3>1. CASE dst # Switch!All /\ Switch!Knows(swiMacs', dst)
      <4>1. dst = t /\ t \in DOMAIN swiMacs'
        BY <2>4, <3>1 DEF Switch!Knows
      <4>2. swiMacs'[t].port = swiHeard'[t] /\ swiMacs'[t].port \in SwiPorts
        BY <4>1, <1>8 DEF SwiTable
      <4>3. swiMacs'[t].port = swiPlace[t]
        BY <4>2, <2>4, ConstantsOK DEF Switch!ConstantsOK
      <4> QED BY <4>1, <4>3, <2>2, <2>4, <3>1 DEF Switch!Targets
    <3>2. CASE ~(dst # Switch!All /\ Switch!Knows(swiMacs', dst))
      BY <3>2, <2>2, <2>4 DEF Switch!Targets
    <3> QED BY <3>1, <3>2
  <2> QED BY <2>2, <2>3, <2>4, <1>5 DEF Switch!FrameReaches
<1> QED BY <1>6, <1>8, <1>9 DEF SwiInv

LEMMA SwiStep == SwiInv /\ Switch!FrameReaches /\ [Switch!Next]_swiVars => SwiInv' /\ Switch!FrameReaches'
<1> SUFFICES ASSUME SwiInv, Switch!FrameReaches, [Switch!Next]_swiVars
             PROVE  SwiInv' /\ Switch!FrameReaches'
  OBVIOUS
<1>1. CASE UNCHANGED swiVars
  BY <1>1 DEF swiVars, SwiInv, SwiTyped, SwiTable, SwiLimit, Switch!FrameReaches
<1>2. swiLast' = Switch!Nothing => Switch!FrameReaches'
  BY DEF Switch!FrameReaches, Switch!Nothing
<1>3. CASE Switch!Tick
  <2>1. /\ swiMacs' = [m \in DOMAIN swiMacs |->
               [swiMacs[m] EXCEPT !.age = IF @ < SwiAgeLimit THEN @ + 1 ELSE @]]
        /\ swiLast' = Switch!Nothing /\ UNCHANGED <<swiAttached, swiFull, swiPlace, swiHeard>>
    BY <1>3 DEF Switch!Tick
  <2>2. DOMAIN swiMacs' = DOMAIN swiMacs
    BY <2>1
  <2>3. ASSUME NEW m \in DOMAIN swiMacs
        PROVE  /\ swiMacs'[m] \in [port : SwiPorts, age : 0..SwiAgeLimit]
               /\ swiMacs'[m].port = swiMacs[m].port
    <3>1. swiMacs[m] \in [port : SwiPorts, age : 0..SwiAgeLimit]
      BY DEF SwiInv, SwiTable
    <3>2. swiMacs'[m] = [swiMacs[m] EXCEPT !.age = IF @ < SwiAgeLimit THEN @ + 1 ELSE @]
      BY <2>1
    <3> QED BY <3>1, <3>2, ConstantsOK DEF Switch!ConstantsOK
  <2>4. swiMacs' \in [DOMAIN swiMacs' -> [port : SwiPorts, age : 0..SwiAgeLimit]]
    BY <2>1, <2>2, <2>3
  <2>5. SwiTable'
    BY <2>1, <2>2, <2>3, <2>4 DEF SwiInv, SwiTable
  <2>6. SwiTyped' /\ SwiLimit'
    BY <2>1, <2>2 DEF SwiInv, SwiTyped, SwiLimit
  <2> QED BY <1>2, <2>1, <2>5, <2>6 DEF SwiInv
<1>4. ASSUME NEW p \in SwiPorts, Switch!Attach(p) PROVE SwiInv' /\ Switch!FrameReaches'
  <2>1. CASE p \in swiAttached
    <3>1. swiAttached' = swiAttached
      BY <1>4, <2>1 DEF Switch!Attach
    <3> QED BY <1>2, <1>4, <2>1, <3>1, SwiWithout DEF Switch!Attach
  <2>2. CASE p \notin swiAttached
    BY <1>2, <1>4, <2>2 DEF Switch!Attach, SwiInv, SwiTyped, SwiTable, SwiLimit
  <2> QED BY <2>1, <2>2
<1>5. ASSUME NEW p \in SwiPorts, Switch!Detach(p) PROVE SwiInv' /\ Switch!FrameReaches'
  BY <1>2, <1>5, SwiWithout DEF Switch!Detach
<1>6. ASSUME NEW p \in SwiPorts, Switch!Queue(p) PROVE SwiInv' /\ Switch!FrameReaches'
  BY <1>2, <1>6 DEF Switch!Queue, SwiInv, SwiTyped, SwiTable, SwiLimit
<1>7. ASSUME NEW s \in SwiStations, NEW p \in SwiPorts, Switch!Moves(s, p)
      PROVE  SwiInv' /\ Switch!FrameReaches'
  BY <1>2, <1>7 DEF Switch!Moves, SwiInv, SwiTyped, SwiTable, SwiLimit
<1> QED BY <1>1, <1>3, <1>4, <1>5, <1>6, <1>7, SwiInput DEF Switch!Next

\* Frames reach the station they are for (vswitch.js, _input): the table never names a port
\* behind which a station was not heard last, nor one that is gone.
THEOREM FramesReachTheirStation == Switch!Spec => [](SwiInv /\ Switch!FrameReaches)
<1>1. [Switch!Next]_(Switch!vars) => [Switch!Next]_swiVars
  BY DEF Switch!vars, swiVars
<1> QED BY SwiInit, SwiStep, <1>1, PTL DEF Switch!Spec

------------------------------------------------------------------------------
(* The splice: both sides are given whole frames.                           *)

SplPiece == {"head", "body"}
SplBegun(piece) == IF piece = "head" THEN <<>> ELSE <<"head">>

\* Streams are cut where frames end: behind a piece that was begun, or at once.
LEMMA SplCut ==
  ASSUME NEW piece \in SplPiece, NEW n \in 1 .. 2, NEW chunk, chunk = Splice!Pieces(piece, n)
  PROVE  /\ ~Splice!Bad(SplBegun(piece), chunk)
         /\ Splice!Left(SplBegun(piece), chunk) = SplBegun(Splice!AfterPieces(piece, n))
         /\ Splice!AfterPieces(piece, n) \in SplPiece
<1> DEFINE all == SplBegun(piece) \o chunk
<1>1. /\ chunk \in Seq(SplPiece) /\ Len(chunk) = n
      /\ chunk[1] = piece /\ (n = 2 => chunk[2] = Splice!Other(piece))
  <2>1. Splice!Other(piece) \in SplPiece
    BY DEF Splice!Other, SplPiece
  <2>2. CASE n = 1
    BY <2>2 DEF Splice!Pieces
  <2>3. CASE n = 2
    BY <2>1, <2>3 DEF Splice!Pieces
  <2> QED BY <2>2, <2>3
<1>2. /\ SplBegun(piece) \in Seq(SplPiece)
      /\ Len(SplBegun(piece)) = IF piece = "head" THEN 0 ELSE 1
      /\ piece = "body" => SplBegun(piece)[1] = "head"
  <2>1. CASE piece = "head"
    BY <2>1, EmptySeq DEF SplBegun
  <2>2. CASE piece = "body"
    BY <2>2 DEF SplBegun, SplPiece
  <2> QED BY <2>1, <2>2 DEF SplPiece
<1>3. /\ all \in Seq(SplPiece)
      /\ Len(all) = Len(SplBegun(piece)) + n
      /\ \A i \in 1 .. Len(SplBegun(piece)) + n :
           all[i] = IF i <= Len(SplBegun(piece)) THEN SplBegun(piece)[i] ELSE chunk[i - Len(SplBegun(piece))]
  BY <1>1, <1>2, ConcatProperties
<1>3a. (n = 1 \/ n = 2) /\ Len(all) = (IF piece = "head" THEN 0 ELSE 1) + n
  BY <1>2, <1>3
<1>4. Splice!Other("head") = "body" /\ Splice!Other("body") = "head"
  BY DEF Splice!Other
<1>5. Splice!AfterPieces(piece, n) = IF n = 1 THEN Splice!Other(piece) ELSE piece
  BY DEF Splice!AfterPieces
<1>6. Len(all) >= 1 /\ all[1] = "head" /\ (Len(all) >= 2 => all[2] = "body")
      /\ (Len(all) >= 3 => all[3] = "head") /\ Len(all) <= 3
  <2>1. CASE piece = "head"
    BY <2>1, <1>1, <1>2, <1>3, <1>4
  <2>2. CASE piece = "body"
    BY <2>2, <1>1, <1>2, <1>3, <1>4
  <2> QED BY <2>1, <2>2 DEF SplPiece
<1> HIDE DEF all
<1>7. ASSUME Len(all) >= 2
      PROVE  SubSeq(all, 1, 2) = <<"head", "body">>
  <2>1. \A i \in 1 .. 2 : all[i] \in SplPiece
    BY <1>6, <1>7 DEF SplPiece
  <2>2. /\ SubSeq(all, 1, 2) \in Seq(SplPiece) /\ Len(SubSeq(all, 1, 2)) = 2
        /\ \A i \in 1 .. 2 : SubSeq(all, 1, 2)[i] = all[i]
    BY <2>1, SubSeqProperties
  <2>3. <<"head", "body">> \in Seq(SplPiece) /\ Len(<<"head", "body">>) = 2
        /\ <<"head", "body">>[1] = "head" /\ <<"head", "body">>[2] = "body"
    BY DEF SplPiece
  <2>4. \A i \in 1 .. 2 : SubSeq(all, 1, 2)[i] = <<"head", "body">>[i]
    BY <2>2, <2>3, <1>6, <1>7
  <2> QED BY <2>2, <2>3, <2>4, SeqEqual
<1>8. ~Splice!Bad(SplBegun(piece), chunk)
  BY <1>7 DEF Splice!Bad, Splice!Whole, all
<1>9. Splice!Left(SplBegun(piece), chunk) = IF Len(all) = 3 THEN <<"head">> ELSE IF Len(all) = 2 THEN <<>> ELSE all
  <2>1. CASE Len(all) = 3
    <3>1. SubSeq(all, 3, 3) \in Seq(SplPiece) /\ Len(SubSeq(all, 3, 3)) = 1 /\ SubSeq(all, 3, 3)[1] = "head"
      <4>1. \A i \in 3 .. 3 : all[i] \in SplPiece
        BY <1>6, <2>1 DEF SplPiece
      <4> QED BY <4>1, <1>6, <2>1, SubSeqProperties
    <3>2. <<"head">> \in Seq(SplPiece) /\ Len(<<"head">>) = 1 /\ <<"head">>[1] = "head"
      BY DEF SplPiece
    <3>3. \A i \in 1 .. 1 : SubSeq(all, 3, 3)[i] = <<"head">>[i]
      BY <3>1, <3>2
    <3>4. SubSeq(all, 3, 3) = <<"head">>
      BY <3>1, <3>2, <3>3, SeqEqual
    <3> QED BY <3>4, <2>1 DEF Splice!Left, Splice!Whole, all
  <2>2. CASE Len(all) = 2
    BY <2>2, SubSeqEmpty DEF Splice!Left, Splice!Whole, all
  <2>3. CASE Len(all) = 1
    BY <2>3 DEF Splice!Left, Splice!Whole, all
  <2> QED BY <2>1, <2>2, <2>3, <1>3, <1>6
<1>10. CASE Len(all) = 1
  <2>1. piece = "head" /\ n = 1
    BY <1>10, <1>3a DEF SplPiece
  <2>2. <<"head">> \in Seq(SplPiece) /\ Len(<<"head">>) = 1 /\ <<"head">>[1] = "head"
    BY DEF SplPiece
  <2>3. \A i \in 1 .. 1 : all[i] = <<"head">>[i]
    BY <2>2, <1>6
  <2>4. all = <<"head">>
    BY <2>2, <2>3, <1>3, <1>10, SeqEqual
  <2> QED BY <2>1, <2>4, <1>4, <1>5, <1>8, <1>9, <1>10 DEF SplBegun, SplPiece
<1>11. CASE Len(all) = 2
  <2>1. Splice!AfterPieces(piece, n) = "head"
    BY <1>11, <1>3a, <1>4, <1>5 DEF SplPiece
  <2> QED BY <2>1, <1>8, <1>9, <1>11 DEF SplBegun, SplPiece
<1>12. CASE Len(all) = 3
  <2>1. Splice!AfterPieces(piece, n) = "body"
    BY <1>12, <1>3a, <1>4, <1>5 DEF SplPiece
  <2> QED BY <2>1, <1>8, <1>9, <1>12 DEF SplBegun, SplPiece
<1> QED BY <1>3, <1>6, <1>10, <1>11, <1>12

\* What a connection is, and where its stream stands: at the end of a frame, or behind a head.
SplLink == [state : {"open", "closing", "closed"}, sends : SplPiece, tail : {<<>>, <<"head">>},
            queue : 0..SplHigh, awaited : BOOLEAN, waits : BOOLEAN, mine : BOOLEAN]
SplTyped ==
  /\ splChild \in BOOLEAN /\ splStalled \in BOOLEAN /\ splStdin \in 0..SplHigh
  /\ splSink \in SplConns \cup {Splice!NoConn} /\ splSocket \in SplConns \cup {Splice!NoConn}
  /\ splConn \in [SplConns -> SplLink]

\* Every tail is what its stream has begun.
SplCutting ==
  /\ splEmits \in SplPiece /\ splTail = SplBegun(splEmits)
  /\ \A k \in SplConns : splConn[k].state = "open" => splConn[k].tail = SplBegun(splConn[k].sends)
  /\ splGarbled = FALSE

\* A connection that cannot take more is not given more.
SplFullWaits ==
  \A k \in SplConns : splSink = k /\ splConn[k].state = "open" /\ splConn[k].queue = SplHigh => splStalled

SplInv == SplTyped /\ SplCutting /\ SplFullWaits

\* How a step may change one connection.
LEMMA SplOne ==
  ASSUME NEW conn, conn \in [SplConns -> SplLink], NEW k \in SplConns, NEW link \in SplLink,
         splConn' = [conn EXCEPT ![k] = link]
  PROVE  /\ splConn' \in [SplConns -> SplLink] /\ splConn'[k] = link
         /\ \A j \in SplConns : j # k => splConn'[j] = conn[j]
OBVIOUS

\* What a side is given of a chunk: whole frames, and the rest stays in its tail.
LEMMA SplGiven ==
  ASSUME NEW link \in SplLink, NEW piece \in SplPiece, link.tail = SplBegun(piece),
         NEW n \in 1 .. 2, NEW given, given = Splice!Given(link, Splice!Pieces(piece, n), splStdin),
         SplTyped
  PROVE  /\ given.conn \in SplLink /\ given.conn.tail = SplBegun(Splice!AfterPieces(piece, n))
         /\ given.conn.state = link.state /\ given.conn.queue = link.queue
         /\ given.stdin \in 0..SplHigh
<1> DEFINE chunk == Splice!Pieces(piece, n)
           brings == splChild /\ Splice!Whole(link.tail, chunk)
           slow == brings /\ splStdin + 1 >= SplHigh
<1>1. Splice!Left(SplBegun(piece), chunk) = SplBegun(Splice!AfterPieces(piece, n))
  BY SplCut
<1>2. given = [conn |-> [link EXCEPT !.tail = Splice!Left(link.tail, chunk), !.waits = slow],
               stdin |-> IF brings /\ splStdin < SplHigh THEN splStdin + 1 ELSE splStdin,
               bad |-> brings /\ Splice!Bad(link.tail, chunk)]
  BY DEF Splice!Given
<1>3. slow \in BOOLEAN
  OBVIOUS
<1>4. SplBegun(Splice!AfterPieces(piece, n)) \in {<<>>, <<"head">>}
  BY DEF SplBegun
<1> HIDE DEF slow, brings, chunk
<1>5. given.conn = [link EXCEPT !.tail = SplBegun(Splice!AfterPieces(piece, n)), !.waits = slow]
  BY <1>1, <1>2
<1>6. given.stdin \in 0..SplHigh
  BY <1>2, ConstantsOK DEF SplTyped, Splice!ConstantsOK
<1> QED BY <1>3, <1>4, <1>5, <1>6 DEF SplLink

LEMMA SplGivenWhole ==
  ASSUME NEW link \in SplLink, NEW piece \in SplPiece, link.tail = SplBegun(piece),
         NEW n \in 1 .. 2, NEW given, given = Splice!Given(link, Splice!Pieces(piece, n), splStdin)
  PROVE  given.bad = FALSE
<1> DEFINE chunk == Splice!Pieces(piece, n)
           brings == splChild /\ Splice!Whole(link.tail, chunk)
           slow == brings /\ splStdin + 1 >= SplHigh
           one == [link EXCEPT !.tail = Splice!Left(link.tail, chunk), !.waits = slow]
           two == IF brings /\ splStdin < SplHigh THEN splStdin + 1 ELSE splStdin
<1>1. ~Splice!Bad(SplBegun(piece), chunk)
  BY SplCut
<1>2. given = [conn |-> one, stdin |-> two, bad |-> brings /\ Splice!Bad(link.tail, chunk)]
  BY DEF Splice!Given
<1>3. (brings /\ Splice!Bad(link.tail, chunk)) = FALSE
  BY <1>1
<1>4. PICK bad \in BOOLEAN : bad = (brings /\ Splice!Bad(link.tail, chunk))
  BY <1>3
<1> HIDE DEF one, two, brings, chunk
<1>5. given = [conn |-> one, stdin |-> two, bad |-> bad]
  BY <1>2, <1>4, Zenon
<1>6. given.bad = bad
  BY <1>5, SMT
<1> QED BY <1>4, <1>6, <1>3, Zenon

\* A connection that is open has been so before, and its stream is where it was.
SplStands(new, old) ==
  new.state = "open" => old.state = "open" /\ new.tail = old.tail /\ new.sends = old.sends
                        /\ (new.queue = old.queue \/ new.queue = 0)

LEMMA SplCut2 ==
  ASSUME SplInv, splConn' \in [SplConns -> SplLink],
         \A k \in SplConns : SplStands(splConn'[k], splConn[k]),
         splEmits' \in SplPiece, splTail' = SplBegun(splEmits'), splGarbled' = splGarbled
  PROVE  SplCutting'
BY DEF SplInv, SplCutting, SplTyped, SplStands, SplLink

LEMMA SplDestroyed ==
  ASSUME SplTyped, NEW k \in SplConns \cup {Splice!NoConn}
  PROVE  /\ Splice!Destroyed(k) \in [SplConns -> SplLink]
         /\ \A j \in SplConns : SplStands(Splice!Destroyed(k)[j], splConn[j])
<1> SUFFICES ASSUME k \in SplConns, splConn[k].state = "open"
             PROVE  /\ Splice!Destroyed(k) \in [SplConns -> SplLink]
                    /\ \A j \in SplConns : SplStands(Splice!Destroyed(k)[j], splConn[j])
  BY DEF Splice!Destroyed, SplTyped, SplStands
<1> DEFINE link == [splConn[k] EXCEPT !.state = "closing", !.queue = 0]
<1>0. splConn[k] \in SplLink /\ 0 \in 0..SplHigh
  BY ConstantsOK DEF SplTyped, Splice!ConstantsOK
<1>1. Splice!Destroyed(k) = [splConn EXCEPT ![k] = link]
  BY DEF Splice!Destroyed, SplTyped
<1>2. link \in SplLink /\ link.state = "closing"
  BY <1>0 DEF SplLink
<1> HIDE DEF link
<1> QED BY <1>1, <1>2 DEF SplTyped, SplStands

LEMMA SplReads ==
  ASSUME SplInv, NEW n \in 1 .. 2, Splice!Reads(n)
  PROVE  SplInv'
<1> DEFINE chunk == Splice!Pieces(splEmits, n)
<1>1. /\ ~Splice!Bad(splTail, chunk) /\ splTail' = SplBegun(splEmits') /\ splEmits' \in SplPiece
  BY SplCut DEF Splice!Reads, SplInv, SplCutting
<1>2. /\ splStalled = FALSE
      /\ UNCHANGED <<splChild, splStdin, splSink, splSocket>>
  BY DEF Splice!Reads, SplInv, SplTyped
<1>3. CASE Splice!Whole(splTail, chunk) /\ splSink # Splice!NoConn
  <2> DEFINE old == splConn[splSink]
             open == old.state = "open"
             slow == ~open \/ old.queue + 1 >= SplHigh
             link == [old EXCEPT !.queue = IF open THEN old.queue + 1 ELSE old.queue, !.awaited = slow]
  <2>1. splSink \in SplConns /\ old \in SplLink
    BY <1>3 DEF SplInv, SplTyped
  <2>2. splConn' = [splConn EXCEPT ![splSink].queue = IF open THEN @ + 1 ELSE @, ![splSink].awaited = slow]
        /\ splStalled' = slow /\ splGarbled' = (splGarbled \/ Splice!Bad(splTail, chunk))
    BY <1>3 DEF Splice!Reads
  <2>3. splConn' = [splConn EXCEPT ![splSink] = link]
    BY <2>1, <2>2 DEF SplInv, SplTyped
  <2>4. splGarbled' = FALSE
    BY <1>1, <2>2, Zenon DEF SplInv, SplCutting
  <2>5. open => old.queue < SplHigh
    <3>1. open => old.queue # SplHigh
      BY <2>1, <1>2 DEF SplInv, SplFullWaits
    <3>2. old.queue \in 0..SplHigh
      BY <2>1 DEF SplLink
    <3> QED BY <3>1, <3>2, ConstantsOK DEF Splice!ConstantsOK
  <2>6. slow \in BOOLEAN
    OBVIOUS
  <2>7. link \in SplLink /\ link.state = old.state /\ link.tail = old.tail /\ link.sends = old.sends
        /\ (open => link.queue = old.queue + 1)
    <3> DEFINE q == IF open THEN old.queue + 1 ELSE old.queue
    <3>1. old.queue \in 0..SplHigh
      BY <2>1 DEF SplLink
    <3>2. q \in 0..SplHigh
      BY <3>1, <2>5, ConstantsOK DEF Splice!ConstantsOK
    <3>3. link = [old EXCEPT !.queue = q, !.awaited = slow]
      OBVIOUS
    <3>4. open => q = old.queue + 1
      OBVIOUS
    <3> HIDE DEF slow, link, old, q
    <3>5. link \in SplLink /\ link.state = old.state /\ link.tail = old.tail /\ link.sends = old.sends
          /\ link.queue = q
      BY <2>1, <2>6, <3>2, <3>3 DEF SplLink
    <3> QED BY <3>4, <3>5
  <2>8. open /\ link.queue = SplHigh => slow
    BY <2>7, ConstantsOK DEF Splice!ConstantsOK
  <2>9. /\ splConn' \in [SplConns -> SplLink] /\ splConn'[splSink] = link
        /\ \A j \in SplConns : j # splSink => splConn'[j] = splConn[j]
    BY <2>1, <2>3, <2>7, SplOne DEF SplInv, SplTyped
  <2>10. SplTyped'
    BY <2>2, <2>6, <2>9, <1>2 DEF SplInv, SplTyped
  <2> HIDE DEF link, slow
  <2>11. SplFullWaits'
    BY <2>1, <2>2, <2>7, <2>8, <2>9, <1>2 DEF SplFullWaits
  <2>12. SplCutting'
    BY <2>1, <2>4, <2>7, <2>9, <1>1 DEF SplInv, SplCutting
  <2> QED BY <2>10, <2>11, <2>12 DEF SplInv
<1>4. CASE ~(Splice!Whole(splTail, chunk) /\ splSink # Splice!NoConn)
  <2>1. UNCHANGED <<splConn, splStalled, splGarbled>>
    BY <1>4 DEF Splice!Reads
  <2> QED BY <2>1, <1>1, <1>2 DEF SplInv, SplTyped, SplCutting, SplFullWaits
<1> QED BY <1>3, <1>4

LEMMA SplDrains ==
  ASSUME SplInv, NEW k \in SplConns, Splice!Drains(k)
  PROVE  SplInv'
<1> DEFINE link == [splConn[k] EXCEPT !.queue = 0, !.awaited = FALSE]
<1>0. splConn[k] \in SplLink /\ 0 \in 0..SplHigh
  BY ConstantsOK DEF SplInv, SplTyped, Splice!ConstantsOK
<1>1. splConn' = [splConn EXCEPT ![k] = link]
  BY DEF Splice!Drains, SplInv, SplTyped
<1>2. link \in SplLink /\ link.queue = 0 /\ SplStands(link, splConn[k])
  BY <1>0 DEF SplLink, SplStands
<1>3. splStalled' = Splice!Resumed(k) /\ UNCHANGED <<splChild, splEmits, splTail, splStdin, splSink, splSocket, splGarbled>>
  BY DEF Splice!Drains
<1> HIDE DEF link
<1>4. /\ splConn' \in [SplConns -> SplLink] /\ splConn'[k] = link
      /\ \A j \in SplConns : j # k => splConn'[j] = splConn[j]
  BY <1>1, <1>2, SplOne DEF SplInv, SplTyped
<1>5. SplTyped'
  BY <1>3, <1>4 DEF SplInv, SplTyped, Splice!Resumed
<1>6. SplCutting'
  BY <1>2, <1>3, <1>4, SplCut2 DEF SplStands, SplInv, SplCutting
<1>7. SplFullWaits'
  BY <1>2, <1>3, <1>4, ConstantsOK DEF SplInv, SplFullWaits, Splice!Resumed, Splice!ConstantsOK
<1> QED BY <1>5, <1>6, <1>7 DEF SplInv

LEMMA SplSends ==
  ASSUME SplInv, NEW k \in SplConns, NEW n \in 1 .. 2, Splice!Sends(k, n)
  PROVE  SplInv'
<1> DEFINE c == splConn[k]
           got == Splice!Given(c, Splice!Pieces(c.sends, n), splStdin)
           new == [got.conn EXCEPT !.sends = Splice!AfterPieces(c.sends, n)]
<1>1. c \in SplLink /\ c.state = "open" /\ c.sends \in SplPiece /\ c.tail = SplBegun(c.sends)
  BY DEF Splice!Sends, SplInv, SplTyped, SplCutting, SplLink
<1>2. /\ got.conn \in SplLink /\ got.conn.tail = SplBegun(Splice!AfterPieces(c.sends, n))
      /\ got.conn.state = c.state /\ got.conn.queue = c.queue
      /\ got.stdin \in 0..SplHigh
  <2>1. got = Splice!Given(c, Splice!Pieces(c.sends, n), splStdin)
    OBVIOUS
  <2> HIDE DEF got, c
  <2> QED BY <1>1, <2>1, SplGiven DEF SplInv
<1>3. Splice!AfterPieces(c.sends, n) \in SplPiece
  BY <1>1, SplCut
<1>4. splConn' = [splConn EXCEPT ![k] = new] /\ splStdin' = got.stdin
      /\ splGarbled' = (splGarbled \/ got.bad)
      /\ UNCHANGED <<splChild, splEmits, splTail, splStalled, splSink, splSocket>>
  BY DEF Splice!Sends
<1> HIDE DEF got
<1>5. new \in SplLink /\ new.tail = SplBegun(new.sends) /\ new.state = "open" /\ new.queue = c.queue
  BY <1>1, <1>2, <1>3 DEF SplLink
<1>6. splGarbled' = FALSE
  <2>1. got = Splice!Given(c, Splice!Pieces(c.sends, n), splStdin)
    BY DEF got
  <2>2. got.bad = FALSE
    BY <1>1, <2>1, SplGivenWhole
  <2> QED BY <2>2, <1>4, Zenon DEF SplInv, SplCutting
<1> HIDE DEF new
<1>7. /\ splConn' \in [SplConns -> SplLink] /\ splConn'[k] = new
      /\ \A j \in SplConns : j # k => splConn'[j] = splConn[j]
  BY <1>4, <1>5, SplOne DEF SplInv, SplTyped
<1>8. SplTyped'
  BY <1>2, <1>4, <1>7 DEF SplInv, SplTyped
<1>9. SplCutting'
  BY <1>4, <1>5, <1>6, <1>7 DEF SplInv, SplCutting
<1>10. SplFullWaits'
  BY <1>1, <1>4, <1>5, <1>7 DEF SplInv, SplFullWaits
<1> QED BY <1>8, <1>9, <1>10 DEF SplInv

LEMMA SplZero == 0 \in 0..SplHigh /\ SplHigh # 0 /\ Splice!NoConn \notin SplConns
BY ConstantsOK DEF Splice!ConstantsOK

LEMMA SplIdle == Splice!Idle \in SplLink /\ Splice!Idle.state = "closed" /\ Splice!Idle.queue = 0
                 /\ Splice!Idle.tail = SplBegun("head") /\ Splice!Idle.sends = "head"
<1>1. 0 \in 0..SplHigh
  BY ConstantsOK DEF Splice!ConstantsOK
<1> QED BY <1>1 DEF Splice!Idle, SplLink, SplPiece, SplBegun

LEMMA SplTakes ==
  ASSUME SplInv, Splice!Takes
  PROVE  SplInv'
<1>1. ASSUME NEW k \in SplConns
      PROVE  splConn'[k] \in SplLink /\ SplStands(splConn'[k], splConn[k]) /\ splConn'[k].queue = splConn[k].queue
  <2> DEFINE w == splConn[k].waits /\ ~splConn[k].mine
  <2>1. splConn[k] \in SplLink /\ w \in BOOLEAN
    BY DEF SplInv, SplTyped
  <2>2. splConn'[k] = [splConn[k] EXCEPT !.waits = w]
    BY <2>1 DEF Splice!Takes, SplLink
  <2> HIDE DEF w
  <2> QED BY <2>1, <2>2 DEF SplLink, SplStands
<1>2. splConn' \in [SplConns -> SplLink]
  BY <1>1 DEF Splice!Takes
<1>3. splStdin' = 0 /\ UNCHANGED <<splChild, splEmits, splTail, splStalled, splSink, splSocket, splGarbled>>
  BY DEF Splice!Takes
<1>4. SplTyped'
  BY <1>2, <1>3, ConstantsOK DEF SplInv, SplTyped, Splice!ConstantsOK
<1>5. SplCutting'
  BY <1>1, <1>2, <1>3, SplCut2 DEF SplInv, SplCutting
<1>6. SplFullWaits'
  BY <1>1, <1>3 DEF SplInv, SplFullWaits, SplStands
<1> QED BY <1>4, <1>5, <1>6 DEF SplInv

LEMMA SplConnects ==
  ASSUME SplInv, NEW k \in SplConns, NEW n \in 0 .. 2, Splice!Connects(k, n)
  PROVE  SplInv'
<1> DEFINE got == IF n = 0 THEN [conn |-> Splice!Idle, stdin |-> splStdin, bad |-> FALSE]
                  ELSE Splice!Given(Splice!Idle, Splice!Pieces("head", n), splStdin)
           rest == IF n = 1 THEN "body" ELSE "head"
           base == Splice!Destroyed(splSocket)
           one == [got.conn EXCEPT !.state = "open"]
           two == [one EXCEPT !.mine = TRUE]
           new == [two EXCEPT !.sends = rest]
<1>1. /\ got.conn \in SplLink /\ got.conn.tail = SplBegun(rest) /\ got.conn.queue = 0
      /\ got.stdin \in 0..SplHigh
  <2>1. CASE n = 0
    BY <2>1, SplIdle DEF SplInv, SplTyped
  <2>2. CASE n # 0
    <3>1. n \in 1..2 /\ "head" \in SplPiece /\ got = Splice!Given(Splice!Idle, Splice!Pieces("head", n), splStdin)
      BY <2>2 DEF SplPiece
    <3>2. Splice!AfterPieces("head", n) = rest
      BY <2>2 DEF Splice!AfterPieces, Splice!Other
    <3> HIDE DEF got, rest
    <3> QED BY <3>1, <3>2, SplIdle, SplGiven DEF SplInv
  <2> QED BY <2>1, <2>2
<1>2. got.bad = FALSE
  <2>1. CASE n = 0
    BY <2>1
  <2>2. CASE n # 0
    <3>1. n \in 1..2 /\ "head" \in SplPiece /\ got = Splice!Given(Splice!Idle, Splice!Pieces("head", n), splStdin)
      BY <2>2 DEF SplPiece
    <3> HIDE DEF got
    <3> QED BY <3>1, SplIdle, SplGivenWhole
  <2> QED BY <2>1, <2>2
<1>3. /\ splConn' = [base EXCEPT ![k] = [got.conn EXCEPT !.state = "open", !.mine = TRUE, !.sends = rest]]
      /\ splStdin' = got.stdin /\ splGarbled' = (splGarbled \/ got.bad)
      /\ splSocket' = k /\ splSink' = k /\ splStalled' = (splStalled /\ ~splChild)
      /\ UNCHANGED <<splChild, splEmits, splTail>>
  BY DEF Splice!Connects, Splice!SetSink
<1>4. rest \in SplPiece
  BY DEF SplPiece
<1>5. /\ base \in [SplConns -> SplLink]
      /\ \A j \in SplConns : SplStands(base[j], splConn[j])
  BY SplDestroyed DEF SplInv, SplTyped
<1> HIDE DEF got, base, rest
<1>6. one \in SplLink /\ one.state = "open" /\ one.tail = SplBegun(rest) /\ one.queue = 0
  BY <1>1 DEF SplLink
<1>7. two \in SplLink /\ two.state = "open" /\ two.tail = SplBegun(rest) /\ two.queue = 0
  <2> HIDE DEF one
  <2> QED BY <1>6 DEF SplLink
<1>8. new \in SplLink /\ new.state = "open" /\ new.tail = SplBegun(rest) /\ new.queue = 0 /\ new.sends = rest
  <2> HIDE DEF two
  <2> QED BY <1>7, <1>4 DEF SplLink
<1>9. splConn' = [base EXCEPT ![k] = new]
  BY <1>3
<1> HIDE DEF new
<1>10. /\ splConn' \in [SplConns -> SplLink] /\ splConn'[k] = new
       /\ \A j \in SplConns : j # k => splConn'[j] = base[j]
  BY <1>5, <1>8, <1>9, SplOne
<1>11. SplTyped'
  <2>1. (splStalled /\ ~splChild) \in BOOLEAN
    OBVIOUS
  <2> QED BY <2>1, <1>1, <1>3, <1>10 DEF SplInv, SplTyped
<1>12. SplCutting'
  <2>1. splGarbled' = FALSE
    BY <1>2, <1>3, Zenon DEF SplInv, SplCutting
  <2>2. \A j \in SplConns : splConn'[j].state = "open" => splConn'[j].tail = SplBegun(splConn'[j].sends)
    BY <1>5, <1>8, <1>10 DEF SplStands, SplInv, SplCutting
  <2> QED BY <2>1, <2>2, <1>3 DEF SplInv, SplCutting
<1>13. SplFullWaits'
  BY <1>3, <1>8, <1>10, ConstantsOK DEF SplFullWaits, Splice!ConstantsOK
<1> QED BY <1>11, <1>12, <1>13 DEF SplInv

LEMMA SplBreaks ==
  ASSUME SplInv, NEW k \in SplConns, Splice!Breaks(k)
  PROVE  SplInv'
<1>1. /\ splConn' = Splice!Destroyed(k)
      /\ UNCHANGED <<splChild, splEmits, splTail, splStalled, splStdin, splSink, splSocket, splGarbled>>
  BY DEF Splice!Breaks
<1>2. /\ splConn' \in [SplConns -> SplLink]
      /\ \A j \in SplConns : SplStands(splConn'[j], splConn[j])
  BY <1>1, SplDestroyed DEF SplInv
<1>3. SplTyped'
  BY <1>1, <1>2 DEF SplInv, SplTyped
<1>4. SplCutting'
  BY <1>1, <1>2, SplCut2 DEF SplInv, SplCutting
<1>5. SplFullWaits'
  BY <1>1, <1>2, ConstantsOK DEF SplInv, SplFullWaits, SplStands, Splice!ConstantsOK
<1> QED BY <1>3, <1>4, <1>5 DEF SplInv

LEMMA SplClosed ==
  ASSUME SplInv, NEW k \in SplConns, Splice!Closed(k)
  PROVE  SplInv'
<1>1. /\ splConn' = [splConn EXCEPT ![k] = Splice!Idle]
      /\ splSocket' = IF splSocket = k THEN Splice!NoConn ELSE splSocket
      /\ IF splSink = k /\ splConn[k].mine
           THEN splSink' = Splice!NoConn /\ splStalled' = (splStalled /\ ~splChild)
           ELSE splStalled' = Splice!Resumed(k) /\ UNCHANGED splSink
      /\ UNCHANGED <<splChild, splEmits, splTail, splStdin, splGarbled>>
  BY DEF Splice!Closed, Splice!SetSink
<1>2. /\ splConn' \in [SplConns -> SplLink] /\ splConn'[k] = Splice!Idle
      /\ \A j \in SplConns : j # k => splConn'[j] = splConn[j]
  BY <1>1, SplIdle, SplOne DEF SplInv, SplTyped
<1>3. SplTyped'
  <2>1. (splStalled /\ ~splChild) \in BOOLEAN /\ Splice!Resumed(k) \in BOOLEAN
    BY DEF Splice!Resumed
  <2>2. splStalled' \in BOOLEAN
    BY <1>1, <2>1
  <2>3. splSink' \in SplConns \cup {Splice!NoConn} /\ splSocket' \in SplConns \cup {Splice!NoConn}
    BY <1>1 DEF SplInv, SplTyped
  <2> QED BY <2>2, <2>3, <1>1, <1>2 DEF SplInv, SplTyped
<1>4. SplCutting'
  BY <1>1, <1>2, SplIdle DEF SplInv, SplCutting
<1>5. SplFullWaits'
  <2> SUFFICES ASSUME NEW j \in SplConns, splSink' = j, splConn'[j].state = "open",
                      splConn'[j].queue = SplHigh
               PROVE  splStalled'
    BY DEF SplFullWaits
  <2>1. j # k /\ j # Splice!NoConn
    BY <1>2, SplIdle, SplZero
  <2>2. splSink = j /\ splStalled' = Splice!Resumed(k)
    BY <1>1, <2>1
  <2>3. splStalled
    BY <1>2, <2>1, <2>2 DEF SplInv, SplFullWaits
  <2>4. Splice!Resumed(k)
    BY <2>1, <2>2, <2>3 DEF Splice!Resumed
  <2> QED BY <2>2, <2>4, Zenon
<1> QED BY <1>3, <1>4, <1>5 DEF SplInv

LEMMA SplAgain ==
  ASSUME SplInv, Splice!Again
  PROVE  SplInv'
<1> DEFINE base == Splice!Destroyed(splSocket)
<1>1. /\ base \in [SplConns -> SplLink]
      /\ \A j \in SplConns : SplStands(base[j], splConn[j])
  BY SplDestroyed DEF SplInv, SplTyped
<1>2. /\ splConn' = [k \in SplConns |-> [base[k] EXCEPT !.awaited = FALSE, !.mine = FALSE]]
      /\ splChild' = TRUE /\ splEmits' = "head" /\ splTail' = <<>> /\ splStalled' = FALSE /\ splStdin' = 0
      /\ splSink' = Splice!NoConn /\ UNCHANGED <<splSocket, splGarbled>>
  BY DEF Splice!Again
<1> HIDE DEF base
<1>3. ASSUME NEW k \in SplConns
      PROVE  splConn'[k] \in SplLink /\ SplStands(splConn'[k], base[k])
  <2> DEFINE one == [base[k] EXCEPT !.awaited = FALSE]
             two == [one EXCEPT !.mine = FALSE]
  <2>1. one \in SplLink /\ SplStands(one, base[k])
    BY <1>1 DEF SplLink, SplStands
  <2>2. splConn'[k] = two
    BY <1>2
  <2> HIDE DEF one
  <2>3. two \in SplLink /\ SplStands(two, base[k])
    BY <2>1 DEF SplLink, SplStands
  <2> QED BY <2>2, <2>3
<1>4. splConn' \in [SplConns -> SplLink]
  BY <1>2, <1>3
<1>5. \A k \in SplConns : SplStands(splConn'[k], splConn[k])
  BY <1>1, <1>3 DEF SplStands
<1>6. SplTyped'
  BY <1>2, <1>4, SplZero DEF SplInv, SplTyped
<1>7. SplCutting'
  BY <1>2, <1>4, <1>5, SplCut2 DEF SplInv, SplCutting, SplPiece, SplBegun
<1>8. SplFullWaits'
  BY <1>2, ConstantsOK DEF SplFullWaits, Splice!ConstantsOK
<1> QED BY <1>6, <1>7, <1>8 DEF SplInv

LEMMA SplInit == Splice!Init => SplInv
<1> SUFFICES ASSUME Splice!Init PROVE SplInv OBVIOUS
<1>1. splConn = [k \in SplConns |-> Splice!Idle]
  BY DEF Splice!Init
<1>2. SplTyped
  BY <1>1, SplIdle, SplZero DEF Splice!Init, SplTyped
<1>3. SplCutting
  BY <1>1, SplIdle DEF Splice!Init, SplCutting, SplPiece, SplBegun
<1>4. SplFullWaits
  BY <1>1, SplIdle DEF SplFullWaits
<1> QED BY <1>2, <1>3, <1>4 DEF SplInv

LEMMA SplStep == SplInv /\ [Splice!Next]_splVars => SplInv'
<1> SUFFICES ASSUME SplInv, [Splice!Next]_splVars PROVE SplInv' OBVIOUS
<1>1. CASE UNCHANGED splVars
  BY <1>1 DEF splVars, SplInv, SplTyped, SplCutting, SplFullWaits
<1>2. CASE Splice!Dies
  BY <1>2 DEF Splice!Dies, SplInv, SplTyped, SplCutting, SplFullWaits
<1>3. CASE Splice!Takes \/ Splice!Again
  BY <1>3, SplTakes, SplAgain
<1>4. CASE \E n \in 1 .. 2 : Splice!Reads(n)
  BY <1>4, SplReads
<1>5. CASE \E k \in SplConns : Splice!Drains(k) \/ Splice!Breaks(k) \/ Splice!Closed(k)
  BY <1>5, SplDrains, SplBreaks, SplClosed
<1>6. CASE \E k \in SplConns, n \in 1 .. 2 : Splice!Sends(k, n)
  BY <1>6, SplSends
<1>7. CASE \E k \in SplConns, n \in 0 .. 2 : Splice!Connects(k, n)
  BY <1>7, SplConnects
<1> QED BY <1>1, <1>2, <1>3, <1>4, <1>5, <1>6, <1>7 DEF Splice!Next

\* Both sides are given whole frames only, however the connections and the relay process
\* break and take each other's place.
THEOREM FramesStayWhole == Splice!Spec => [](SplInv /\ Splice!WholeFrames)
<1>1. [Splice!Next]_(Splice!vars) => [Splice!Next]_splVars
  BY DEF Splice!vars, splVars
<1>2. SplInv => Splice!WholeFrames
  BY DEF SplInv, SplCutting, Splice!WholeFrames
<1> QED BY <1>1, <1>2, SplInit, SplStep, PTL DEF Splice!Spec

------------------------------------------------------------------------------
(* Driver sharing: no folder is left behind.                                *)

DrvPhase == {"new", "exporting", "sent", "unpacking", "over"}
DrvTyped ==
  /\ drvPhase \in [DrvRequests -> DrvPhase] /\ drvSession \in [DrvRequests -> 0..DrvMaxAge \cup {None}]
  /\ drvInFolder \subseteq DrvRequests /\ drvOutFolder \subseteq DrvRequests

\* Whose folder there is.
DrvFolders ==
  /\ \A r \in drvOutFolder : drvPhase[r] = "exporting"
  /\ \A r \in DrvRequests : r \in drvInFolder <=> drvPhase[r] = "unpacking" \/ drvSession[r] # None

\* Only a package that has been looked through becomes a session.
DrvOver == \A r \in DrvRequests : drvSession[r] # None => drvPhase[r] = "over"

DrvInv == DrvTyped /\ DrvFolders /\ DrvOver

\* The owner's part, and what becomes of a request before its package is unpacked.
LEMMA DrvOwner ==
  ASSUME DrvInv, NEW r \in DrvRequests,
         \/ DriverShare!Export(r) \/ DriverShare!Denied(r) \/ DriverShare!ExportOne(r)
         \/ DriverShare!Sent(r) \/ DriverShare!Lost(r)
  PROVE  DrvInv'
<1>1. UNCHANGED <<drvSession, drvInFolder>>
  BY DEF DriverShare!Export, DriverShare!Denied, DriverShare!ExportOne, DriverShare!Sent,
         DriverShare!Lost, DriverShare!holderVars
<1>2. PICK now \in DrvPhase : drvPhase' = [drvPhase EXCEPT ![r] = now] /\ (now # drvPhase[r] => now # "unpacking")
  <2>1. CASE DriverShare!Export(r)
    BY <2>1 DEF DriverShare!Export, DrvPhase
  <2>2. CASE DriverShare!Denied(r) \/ DriverShare!Lost(r)
    BY <2>2 DEF DriverShare!Denied, DriverShare!Lost, DrvPhase
  <2>3. CASE DriverShare!Sent(r)
    BY <2>3 DEF DriverShare!Sent, DrvPhase
  <2>4. CASE DriverShare!ExportOne(r)
    BY <2>4 DEF DriverShare!ExportOne, DrvInv, DrvTyped
  <2> QED BY <2>1, <2>2, <2>3, <2>4
<1>3. drvSession[r] = None /\ drvPhase[r] # "unpacking" /\ (drvPhase[r] = "over" => now = "over")
  BY DEF DrvInv, DrvOver, DriverShare!Export, DriverShare!Denied, DriverShare!ExportOne,
         DriverShare!Sent, DriverShare!Lost
<1>4. drvOutFolder' \subseteq DrvRequests /\ \A q \in drvOutFolder' : drvPhase'[q] = "exporting"
  <2>1. CASE DriverShare!Export(r)
    BY <2>1 DEF DriverShare!Export, DrvInv, DrvTyped, DrvFolders
  <2>2. CASE DriverShare!Denied(r) \/ DriverShare!Lost(r)
    BY <2>2 DEF DriverShare!Denied, DriverShare!Lost, DrvInv, DrvTyped, DrvFolders
  <2>3. CASE DriverShare!Sent(r)
    BY <2>3 DEF DriverShare!Sent, DrvInv, DrvTyped, DrvFolders
  <2>4. CASE DriverShare!ExportOne(r)
    BY <2>4 DEF DriverShare!ExportOne, DrvInv, DrvTyped, DrvFolders
  <2> QED BY <2>1, <2>2, <2>3, <2>4
<1>5. \A q \in DrvRequests : drvPhase'[q] = IF q = r THEN now ELSE drvPhase[q]
  BY <1>2 DEF DrvInv, DrvTyped
<1> QED BY <1>1, <1>2, <1>3, <1>4, <1>5 DEF DrvInv, DrvTyped, DrvFolders, DrvOver

LEMMA DrvReceive ==
  ASSUME DrvInv, NEW r \in DrvRequests, DriverShare!Receive(r)
  PROVE  DrvInv'
<1>1. /\ drvPhase[r] = "sent" /\ drvPhase' = [drvPhase EXCEPT ![r] = "unpacking"]
      /\ drvSession' = DriverShare!Without(DriverShare!Old)
      /\ drvInFolder' = (drvInFolder \ DriverShare!Old) \cup {r} /\ UNCHANGED drvOutFolder
  BY DEF DriverShare!Receive
<1>2. \A q \in DrvRequests : drvSession'[q] = IF q \in DriverShare!Old THEN None ELSE drvSession[q]
  BY <1>1 DEF DriverShare!Without
<1>3. r \notin DriverShare!Old /\ \A q \in DriverShare!Old : drvPhase[q] = "over"
  BY <1>1 DEF DriverShare!Old, DrvInv, DrvOver
<1>4. DrvTyped'
  BY <1>1, <1>2 DEF DrvInv, DrvTyped, DrvPhase, DriverShare!Without
<1>5. \A q \in DrvRequests : drvPhase'[q] = IF q = r THEN "unpacking" ELSE drvPhase[q]
  BY <1>1 DEF DrvInv, DrvTyped
<1>6. DrvFolders'
  BY <1>1, <1>2, <1>3, <1>5 DEF DrvInv, DrvTyped, DrvFolders
<1>7. DrvOver'
  BY <1>1, <1>2, <1>3, <1>5 DEF DrvInv, DrvOver
<1> QED BY <1>4, <1>6, <1>7 DEF DrvInv

LEMMA DrvChecked ==
  ASSUME DrvInv, NEW r \in DrvRequests,
         DriverShare!Unpack(r) \/ DriverShare!Reject(r) \/ DriverShare!Prepared(r)
  PROVE  DrvInv'
<1>0. 0 \in 0..DrvMaxAge /\ None # 0
  BY ConstantsOK DEF DriverShare!ConstantsOK
<1>1. CASE DriverShare!Unpack(r)
  BY <1>1 DEF DriverShare!Unpack, DriverShare!holderVars, DrvInv, DrvTyped, DrvFolders, DrvOver
<1>2. CASE DriverShare!Reject(r)
  BY <1>2 DEF DriverShare!Reject, DriverShare!KeptByReject, DrvInv, DrvTyped, DrvPhase, DrvFolders, DrvOver
<1>3. CASE DriverShare!Prepared(r)
  BY <1>0, <1>3 DEF DriverShare!Prepared, DrvInv, DrvTyped, DrvPhase, DrvFolders, DrvOver
<1> QED BY <1>1, <1>2, <1>3

LEMMA DrvInstalls ==
  ASSUME DrvInv, NEW r \in DrvRequests,
         \/ DriverShare!Install(r) \/ DriverShare!InstallOne(r)
         \/ DriverShare!Installed(r) \/ DriverShare!Cancel(r)
  PROVE  DrvInv'
<1>1. CASE DriverShare!InstallOne(r)
  BY <1>1 DEF DriverShare!InstallOne, DrvInv, DrvTyped, DrvFolders, DrvOver
<1>2. CASE DriverShare!Install(r) \/ DriverShare!Installed(r) \/ DriverShare!Cancel(r)
  <2>1. UNCHANGED <<drvPhase, drvOutFolder>>
    BY <1>2 DEF DriverShare!Install, DriverShare!Installed, DriverShare!Cancel
  <2>2. PICK S \in SUBSET DrvRequests :
          /\ drvSession' = DriverShare!Without(S)
          /\ drvInFolder' = drvInFolder \ {q \in S : drvSession[q] # None}
    <3>1. CASE DriverShare!Install(r)
      BY <3>1 DEF DriverShare!Install, DriverShare!Old
    <3>2. CASE DriverShare!Installed(r)
      BY <3>2 DEF DriverShare!Installed, DriverShare!Gone
    <3>3. CASE DriverShare!Cancel(r)
      BY <3>3 DEF DriverShare!Cancel
    <3> QED BY <1>2, <3>1, <3>2, <3>3
  <2>3. \A q \in DrvRequests : drvSession'[q] = IF q \in S THEN None ELSE drvSession[q]
    BY <2>2 DEF DriverShare!Without
  <2>4. DrvTyped'
    BY <2>1, <2>2, <2>3 DEF DrvInv, DrvTyped, DriverShare!Without
  <2>5. DrvFolders'
    BY <2>1, <2>2, <2>3 DEF DrvInv, DrvFolders, DrvOver
  <2>6. DrvOver'
    BY <2>1, <2>3 DEF DrvInv, DrvOver
  <2> QED BY <2>4, <2>5, <2>6 DEF DrvInv
<1> QED BY <1>1, <1>2

LEMMA DrvTick ==
  ASSUME DrvInv, DriverShare!Tick
  PROVE  DrvInv'
<1>1. \A r \in DrvRequests : drvSession'[r] \in 0..DrvMaxAge \cup {None}
                             /\ (drvSession'[r] = None <=> drvSession[r] = None)
  <2> TAKE r \in DrvRequests
  <2>1. drvSession'[r] = IF drvSession[r] \in 0..(DrvMaxAge - 1) THEN drvSession[r] + 1 ELSE drvSession[r]
    BY DEF DriverShare!Tick
  <2>2. CASE drvSession[r] \in 0..(DrvMaxAge - 1)
    BY <2>1, <2>2, ConstantsOK DEF DriverShare!ConstantsOK
  <2>3. CASE drvSession[r] \notin 0..(DrvMaxAge - 1)
    BY <2>1, <2>3 DEF DrvInv, DrvTyped
  <2> QED BY <2>2, <2>3
<1>2. UNCHANGED <<drvPhase, drvOutFolder, drvInFolder>> /\ DOMAIN drvSession' = DrvRequests
  BY DEF DriverShare!Tick
<1>3. drvSession' \in [DrvRequests -> 0..DrvMaxAge \cup {None}]
  BY <1>1 DEF DriverShare!Tick
<1> QED BY <1>1, <1>2, <1>3 DEF DrvInv, DrvTyped, DrvFolders, DrvOver

LEMMA DrvStep == DrvInv /\ [DriverShare!Next]_drvVars => DrvInv'
<1> SUFFICES ASSUME DrvInv, [DriverShare!Next]_drvVars PROVE DrvInv' OBVIOUS
<1>1. CASE UNCHANGED drvVars
  BY <1>1 DEF drvVars, DrvInv, DrvTyped, DrvFolders, DrvOver
<1>2. CASE DriverShare!GivenUp
  BY <1>2 DEF DriverShare!GivenUp, DriverShare!holderVars, DrvInv, DrvTyped, DrvFolders, DrvOver
<1>3. CASE DriverShare!Tick
  BY <1>3, DrvTick
<1>4. ASSUME NEW r \in DrvRequests,
             \/ DriverShare!Export(r) \/ DriverShare!Denied(r) \/ DriverShare!ExportOne(r)
             \/ DriverShare!Sent(r) \/ DriverShare!Lost(r) \/ DriverShare!Receive(r)
             \/ DriverShare!Unpack(r) \/ DriverShare!Reject(r) \/ DriverShare!Prepared(r)
             \/ DriverShare!Install(r) \/ DriverShare!InstallOne(r) \/ DriverShare!Installed(r)
             \/ DriverShare!Cancel(r)
      PROVE  DrvInv'
  BY <1>4, DrvOwner, DrvReceive, DrvChecked, DrvInstalls
<1> QED BY <1>1, <1>2, <1>3, <1>4 DEF DriverShare!Next

\* Every folder with a foreign driver in it belongs to an export that runs, to a package
\* being looked through or to a session.
THEOREM FoldersAreKnown == DriverShare!Spec => [](DrvInv /\ DriverShare!NoFolderLeft)
<1>1. DriverShare!Init => DrvInv
  <2> SUFFICES ASSUME DriverShare!Init PROVE DrvInv OBVIOUS
  <2> QED BY DEF DriverShare!Init, DrvInv, DrvTyped, DrvPhase, DrvFolders, DrvOver
<1>2. [DriverShare!Next]_(DriverShare!drvVars) => [DriverShare!Next]_drvVars
  BY DEF DriverShare!drvVars, drvVars
<1>3. DrvInv => DriverShare!NoFolderLeft
  BY DEF DrvInv, DrvTyped, DrvFolders, DriverShare!NoFolderLeft
<1> QED BY <1>1, <1>2, <1>3, DrvStep, PTL DEF DriverShare!Spec

------------------------------------------------------------------------------
(* The legs: no sending socket is left open.                                *)

LegTyped ==
  /\ legTransport \in LegTransports /\ legNets \subseteq LegNets
  /\ legUp \subseteq LegNets /\ legWanted \subseteq LegNets
  /\ legLegs \in [LegNets -> Legs!Leg \cup {None}] /\ legSenders \in [LegNets -> Nat]

\* Of the jobs only the first one is at work, and it is at a network while it opens a leg there.
LegQueue ==
  /\ legJobs \in Seq(Legs!Job)
  /\ \A i \in 1 .. Len(legJobs) : legJobs[i].at # None => i = 1 /\ legJobs[i].stage = "open"
LegAt == IF legJobs = <<>> THEN None ELSE legJobs[1].at

\* The open sockets are those of the legs and the one that is being bound.
LegSockets ==
  \A a \in LegNets :
    /\ LegAt = a => legLegs[a] = None
    /\ legSenders[a] = (IF legLegs[a] = None THEN 0 ELSE 1) + (IF LegAt = a THEN 1 ELSE 0)

LegInv == LegTyped /\ LegQueue /\ LegSockets

LEMMA LegNone == None \notin LegNets /\ None \notin Legs!Leg
                 /\ \A t \in LegTransports : t \subseteq {"multicast", "broadcast"}
BY ConstantsOK DEF Legs!ConstantsOK

\* How the queue of the jobs changes.
LEMMA LegDone ==
  ASSUME LegQueue, NEW i, Legs!Turn(i), legJobs[i].at = None, Legs!Done(i)
  PROVE  LegQueue' /\ LegAt' = None /\ LegAt = None
<1>1. i = 1 /\ legJobs # <<>> /\ legJobs \in Seq(Legs!Job) /\ Len(legJobs) \in Nat /\ Len(legJobs) >= 1
  BY EmptySeq, LenProperties DEF Legs!Turn, LegQueue
<1>2. legJobs' = SubSeq(legJobs, 1, 0) \o SubSeq(legJobs, 2, Len(legJobs))
  BY <1>1 DEF Legs!Done
<1>3. SubSeq(legJobs, 1, 0) = <<>>
  BY SubSeqEmpty
<1>4. \A j \in 2 .. Len(legJobs) : legJobs[j] \in Legs!Job
  BY <1>1, ElementOfSeq
<1>5. /\ SubSeq(legJobs, 2, Len(legJobs)) \in Seq(Legs!Job)
      /\ Len(SubSeq(legJobs, 2, Len(legJobs))) = Len(legJobs) - 1
      /\ \A j \in 1 .. Len(legJobs) - 1 : SubSeq(legJobs, 2, Len(legJobs))[j] = legJobs[j + 1]
  <2>1. /\ SubSeq(legJobs, 2, Len(legJobs)) \in Seq(Legs!Job)
        /\ Len(SubSeq(legJobs, 2, Len(legJobs))) = IF 2 <= Len(legJobs) THEN Len(legJobs) - 2 + 1 ELSE 0
        /\ \A j \in 1 .. Len(legJobs) - 2 + 1 :
             SubSeq(legJobs, 2, Len(legJobs))[j] = legJobs[2 + j - 1]
    BY <1>1, <1>4, SubSeqProperties
  <2>2. \A j \in 1 .. Len(legJobs) - 1 : j \in 1 .. Len(legJobs) - 2 + 1 /\ 2 + j - 1 = j + 1
    BY <1>1
  <2> DEFINE rest == SubSeq(legJobs, 2, Len(legJobs))
             n == Len(legJobs)
  <2>3. Len(rest) = Len(legJobs) - 1
    <3>1. Len(rest) = (IF 2 <= n THEN n - 2 + 1 ELSE 0) /\ n \in Nat /\ n >= 1
      BY <2>1, <1>1
    <3> HIDE DEF rest, n
    <3>2. Len(rest) = n - 1
      BY <3>1
    <3> QED BY <3>2 DEF n
  <2>4. ASSUME NEW j \in 1 .. Len(legJobs) - 1 PROVE rest[j] = legJobs[j + 1]
    <3>1. rest[j] = legJobs[2 + j - 1]
      BY <2>1, <2>2
    <3> QED BY <2>2, <3>1, Zenon
  <2> QED BY <2>1, <2>3, <2>4
<1>6. legJobs' = SubSeq(legJobs, 2, Len(legJobs))
  BY <1>2, <1>3, <1>5, ConcatEmptySeq
<1>7. /\ legJobs' \in Seq(Legs!Job) /\ Len(legJobs') = Len(legJobs) - 1
      /\ \A j \in 1 .. Len(legJobs') : legJobs'[j] = legJobs[j + 1]
  BY <1>5, <1>6
<1>8. \A j \in 1 .. Len(legJobs') : legJobs'[j].at = None
  BY <1>1, <1>7 DEF LegQueue
<1>9. legJobs' # <<>> => 1 \in 1 .. Len(legJobs')
  BY <1>7, EmptySeq, LenProperties
<1> QED BY <1>1, <1>7, <1>8, <1>9 DEF LegQueue, LegAt

LEMMA LegMoves ==
  ASSUME LegQueue, NEW i, Legs!Turn(i),
         NEW stage \in {"waits", "receiver", "mend", "drop", "open"}, NEW left \in SUBSET LegNets,
         NEW at \in LegNets \cup {None}, NEW anew \in BOOLEAN, Legs!Moves(i, stage, left, at, anew),
         at # None => stage = "open"
  PROVE  LegQueue' /\ LegAt' = at
<1> DEFINE job == legJobs[1]
           one == [job EXCEPT !.stage = stage]
           two == [one EXCEPT !.left = left]
           three == [two EXCEPT !.at = at]
           four == [three EXCEPT !.anew = anew]
<1>1. i = 1 /\ legJobs # <<>> /\ legJobs \in Seq(Legs!Job) /\ 1 \in 1 .. Len(legJobs)
  BY EmptySeq, LenProperties DEF Legs!Turn, LegQueue
<1>2. job \in Legs!Job
  BY <1>1, ElementOfSeq
<1>3. one \in Legs!Job /\ one.stage = stage
  BY <1>2 DEF Legs!Job
<1>4. two \in Legs!Job /\ two.stage = stage
  <2> HIDE DEF one
  <2> QED BY <1>3 DEF Legs!Job
<1>5. three \in Legs!Job /\ three.stage = stage /\ three.at = at
  <2> HIDE DEF two
  <2> QED BY <1>4 DEF Legs!Job
<1>6. four \in Legs!Job /\ four.stage = stage /\ four.at = at
  <2> HIDE DEF three
  <2> QED BY <1>5 DEF Legs!Job
<1>7. legJobs' = [legJobs EXCEPT ![1] = four]
  BY <1>1 DEF Legs!Moves
<1> HIDE DEF four
<1>8. /\ legJobs' \in Seq(Legs!Job) /\ Len(legJobs') = Len(legJobs)
      /\ \A j \in 1 .. Len(legJobs) : legJobs'[j] = IF j = 1 THEN four ELSE legJobs[j]
  BY <1>1, <1>6, <1>7, ExceptSeq
<1>9. LegQueue'
  BY <1>6, <1>8 DEF LegQueue
<1>10. LegAt' = at
  <2>1. legJobs' # <<>>
    BY <1>1, <1>8, EmptySeq
  <2> QED BY <1>1, <1>6, <1>8, <2>1 DEF LegAt
<1> QED BY <1>9, <1>10

LEMMA LegQueued ==
  ASSUME LegQueue, NEW kind \in {"sync", "repair"}, Legs!Queued(kind)
  PROVE  LegQueue' /\ LegAt' = LegAt
<1> DEFINE new == Legs!NewJob(kind)
<1>1. new \in Legs!Job /\ new.at = None
  BY DEF Legs!NewJob, Legs!Job
<1>2. legJobs' = Append(legJobs, new) /\ legJobs \in Seq(Legs!Job) /\ Len(legJobs) \in Nat
  BY LenProperties DEF Legs!Queued, LegQueue
<1> HIDE DEF new
<1>3. /\ legJobs' \in Seq(Legs!Job) /\ legJobs' # <<>> /\ Len(legJobs') = Len(legJobs) + 1
      /\ \A j \in 1 .. Len(legJobs) : legJobs'[j] = legJobs[j]
      /\ legJobs'[Len(legJobs) + 1] = new
  BY <1>1, <1>2, AppendProperties
<1>4. LegQueue'
  BY <1>1, <1>2, <1>3 DEF LegQueue
<1>5. LegAt' = LegAt
  <2>1. CASE legJobs = <<>>
    BY <2>1, <1>1, <1>3, EmptySeq DEF LegAt
  <2>2. CASE legJobs # <<>>
    <3>1. 1 \in 1 .. Len(legJobs)
      BY <2>2, <1>2, EmptySeq
    <3> QED BY <2>2, <3>1, <1>3 DEF LegAt
  <2> QED BY <2>1, <2>2
<1> QED BY <1>4, <1>5

\* What a step does that leaves the sockets alone and moves the job nowhere.
LEMMA LegStands ==
  ASSUME LegInv, UNCHANGED <<legLegs, legSenders>>, legTransport' \in LegTransports,
         legNets' \subseteq LegNets, legUp' \subseteq LegNets, legWanted' \subseteq LegNets, LegQueue', LegAt' = LegAt
  PROVE  LegInv'
BY DEF LegInv, LegTyped, LegSockets

LEMMA LegIdle == ASSUME LegInv, UNCHANGED <<legLegs, legSenders, legTransport, legNets, legUp, legWanted, legJobs>> PROVE LegInv'
BY DEF LegInv, LegTyped, LegSockets, LegQueue, LegAt

\* The sender of a network is closed with its leg.
LEMMA LegCloses ==
  ASSUME LegInv, NEW a \in LegNets, LegAt = None, LegAt' = None, LegQueue',
         legLegs[a] # None, Legs!CloseLeg(a), UNCHANGED <<legTransport, legNets, legUp, legWanted>>
  PROVE  LegInv'
<1>1. /\ legLegs' = [legLegs EXCEPT ![a] = None]
      /\ legSenders' = [legSenders EXCEPT ![a] = legSenders[a] - 1]
  BY DEF Legs!CloseLeg, LegInv, LegTyped
<1>2. legSenders[a] = 1
  BY LegNone DEF LegInv, LegSockets
<1>3. legSenders' = [legSenders EXCEPT ![a] = 0]
  BY <1>1, <1>2
<1> QED BY <1>1, <1>3, LegNone DEF LegInv, LegTyped, LegSockets

\* Where the job at work stands when it is not opening a leg.
LEMMA LegNowhere ==
  ASSUME LegInv, NEW i, Legs!Turn(i), legJobs[i].stage # "open" \/ legJobs[i].at = None
  PROVE  LegAt = None /\ legJobs[i].at = None /\ legJobs[i].left \in SUBSET LegNets
         /\ legJobs[i].anew \in BOOLEAN
<1>1. i = 1 /\ legJobs # <<>> /\ legJobs \in Seq(Legs!Job) /\ 1 \in 1 .. Len(legJobs)
  BY EmptySeq, LenProperties DEF Legs!Turn, LegInv, LegQueue
<1>2. legJobs[1] \in Legs!Job
  BY <1>1, ElementOfSeq
<1> QED BY <1>1, <1>2 DEF LegInv, LegQueue, LegAt, Legs!Job


\* A job that is at work, other than opening a leg.
LEMMA LegWorks ==
  ASSUME LegInv, NEW i,
         \/ Legs!Begin(i) \/ Legs!ReceiverOpen(i) \/ Legs!Mended(i) \/ Legs!Dropped(i) \/ Legs!End(i)
         \/ \E a \in LegNets : Legs!Mend(i, a) \/ Legs!Drop(i, a)
  PROVE  LegInv'
<1>1. Legs!Turn(i) /\ (legJobs[i].stage # "open" \/ legJobs[i].at = None)
  BY DEF Legs!Begin, Legs!ReceiverOpen, Legs!Mended, Legs!Dropped, Legs!End, Legs!Mend, Legs!Drop, Legs!On
<1>2. LegAt = None /\ legJobs[i].at = None /\ legJobs[i].left \in SUBSET LegNets
      /\ legJobs[i].anew \in BOOLEAN
  BY <1>1, LegNowhere
<1>3. UNCHANGED <<legTransport, legNets, legUp, legWanted>>
  BY DEF Legs!Begin, Legs!ReceiverOpen, Legs!Mended, Legs!Dropped, Legs!End, Legs!Mend, Legs!Drop, Legs!Same
<1>4. LegQueue' /\ LegAt' = None
  <2>1. LegQueue /\ Legs!HasLegs \in SUBSET LegNets /\ Legs!HasLegs \ legNets \in SUBSET LegNets
        /\ {} \in SUBSET LegNets /\ legNets \in SUBSET LegNets
    BY DEF LegInv, LegTyped, Legs!HasLegs
  <2>2. CASE Legs!Done(i)
    BY <1>1, <1>2, <2>1, <2>2, LegDone
  <2>3. CASE Legs!BeginsToSync(i)
    BY <1>1, <2>1, <2>3, LegMoves DEF Legs!BeginsToSync
  <2>4. CASE Legs!Moves(i, "receiver", {}, None, TRUE) \/ Legs!Moves(i, "mend", Legs!HasLegs, None, FALSE)
             \/ Legs!Moves(i, "mend", Legs!HasLegs, None, TRUE) \/ Legs!Moves(i, "open", legNets, None, FALSE)
    BY <1>1, <2>1, <2>4, LegMoves
  <2>5. ASSUME NEW a, Legs!Moves(i, "mend", legJobs[i].left \ {a}, None, legJobs[i].anew)
        PROVE  LegQueue' /\ LegAt' = None
    <3>1. legJobs[i].left \ {a} \in SUBSET LegNets
      BY <1>2
    <3> QED BY <1>1, <1>2, <2>1, <2>5, <3>1, LegMoves
  <2>6. ASSUME NEW a, Legs!Moves(i, "drop", legJobs[i].left \ {a}, None, FALSE)
        PROVE  LegQueue' /\ LegAt' = None
    <3>1. legJobs[i].left \ {a} \in SUBSET LegNets
      BY <1>2
    <3> QED BY <1>1, <1>2, <2>1, <2>6, <3>1, LegMoves
  <2>7. CASE Legs!Begin(i)
    BY <2>7, <2>2, <2>3, <2>4 DEF Legs!Begin
  <2>8. CASE Legs!ReceiverOpen(i)
    BY <2>8, <2>4 DEF Legs!ReceiverOpen
  <2>9. CASE Legs!Mended(i) \/ Legs!Dropped(i) \/ Legs!End(i)
    BY <2>9, <2>2, <2>3, <2>4 DEF Legs!Mended, Legs!Dropped, Legs!End
  <2>10. CASE \E a \in LegNets : Legs!Mend(i, a) \/ Legs!Drop(i, a)
    BY <2>10, <2>5, <2>6 DEF Legs!Mend, Legs!Drop
  <2> QED BY <2>7, <2>8, <2>9, <2>10
<1>5. \/ UNCHANGED <<legLegs, legSenders>>
      \/ \E a \in LegNets : legLegs[a] # None /\ Legs!CloseLeg(a)
  BY DEF Legs!Begin, Legs!ReceiverOpen, Legs!Mended, Legs!Dropped, Legs!End, Legs!Mend, Legs!Drop,
         Legs!SameSockets, Legs!Keeps
<1>6. CASE UNCHANGED <<legLegs, legSenders>>
  BY <1>2, <1>3, <1>4, <1>6, LegStands DEF LegInv, LegTyped
<1>7. CASE \E a \in LegNets : legLegs[a] # None /\ Legs!CloseLeg(a)
  BY <1>2, <1>3, <1>4, <1>7, LegCloses
<1> QED BY <1>5, <1>6, <1>7

\* A leg is opened in two steps, the socket first.
LEMMA LegOpen ==
  ASSUME LegInv, NEW i, NEW a \in LegNets, Legs!Open(i, a)
  PROVE  LegInv'
<1>1. Legs!Turn(i) /\ legJobs[i].at = None
  BY DEF Legs!Open, Legs!On
<1>2. LegAt = None /\ legJobs[i].left \in SUBSET LegNets
  BY <1>1, LegNowhere
<1> DEFINE at == IF legLegs[a] = None THEN a ELSE None
<1>3. at \in LegNets \cup {None} /\ legJobs[i].left \ {a} \in SUBSET LegNets
  BY <1>2
<1>4. /\ Legs!Moves(i, "open", legJobs[i].left \ {a}, at, FALSE)
      /\ legSenders' = IF legLegs[a] = None THEN [legSenders EXCEPT ![a] = @ + 1] ELSE legSenders
      /\ UNCHANGED <<legLegs, legTransport, legNets, legUp, legWanted>>
  BY DEF Legs!Open, Legs!Same
<1>5. LegQueue' /\ LegAt' = at
  <2> HIDE DEF at
  <2> QED BY <1>1, <1>3, <1>4, LegMoves DEF LegInv
<1>6. CASE legLegs[a] = None
  <2>1. legSenders[a] = 0
    BY <1>2, <1>6, LegNone DEF LegInv, LegSockets
  <2>2. legSenders' = [legSenders EXCEPT ![a] = legSenders[a] + 1]
    BY <1>4, <1>6 DEF LegInv, LegTyped
  <2>3. legSenders' = [legSenders EXCEPT ![a] = 1]
    BY <2>1, <2>2
  <2> QED BY <1>2, <1>4, <1>5, <1>6, <2>3, LegNone DEF LegInv, LegTyped, LegSockets
<1>7. CASE legLegs[a] # None
  BY <1>2, <1>4, <1>5, <1>7, LegNone DEF LegInv, LegTyped, LegSockets
<1> QED BY <1>6, <1>7

LEMMA LegOpened ==
  ASSUME LegInv, NEW i, NEW joins \in BOOLEAN, Legs!Opened(i, joins)
  PROVE  LegInv'
<1> DEFINE a == legJobs[i].at
           leg == [channels |-> IF joins THEN legTransport ELSE legTransport \ {"multicast"}, broken |-> FALSE]
<1>1. /\ Legs!Turn(i) /\ a # None
      /\ Legs!Moves(i, "open", legJobs[i].left, None, FALSE)
      /\ \/ legSenders' = [legSenders EXCEPT ![a] = @ - 1] /\ UNCHANGED legLegs
         \/ legLegs' = [legLegs EXCEPT ![a] = leg] /\ UNCHANGED legSenders
      /\ UNCHANGED <<legTransport, legNets, legUp, legWanted>>
  BY DEF Legs!Opened, Legs!On
<1>2. i = 1 /\ legJobs # <<>> /\ legJobs[1] \in Legs!Job
  BY <1>1, EmptySeq, LenProperties, ElementOfSeq DEF Legs!Turn, LegInv, LegQueue
<1>3. a \in LegNets /\ legJobs[i].left \in SUBSET LegNets /\ LegAt = a
  BY <1>1, <1>2 DEF Legs!Job, LegAt
<1>4. LegQueue' /\ LegAt' = None
  <2> HIDE DEF a
  <2> QED BY <1>1, <1>3, LegMoves DEF LegInv
<1>5. leg \in Legs!Leg /\ leg # None
  <2>1. legTransport \subseteq {"multicast", "broadcast"}
    BY LegNone DEF LegInv, LegTyped
  <2> DEFINE ch == IF joins THEN legTransport ELSE legTransport \ {"multicast"}
  <2>2. ch \in SUBSET {"multicast", "broadcast"}
    BY <2>1
  <2> HIDE DEF ch
  <2>3. [channels |-> ch, broken |-> FALSE] \in Legs!Leg
    BY <2>2 DEF Legs!Leg
  <2>4. leg \in Legs!Leg
    BY <2>3 DEF ch
  <2> HIDE DEF leg
  <2> QED BY <2>4, LegNone
<1>6. legLegs[a] = None /\ legSenders[a] = 1
  BY <1>3, LegNone DEF LegInv, LegSockets
<1> HIDE DEF a, leg
<1>7. CASE legSenders' = [legSenders EXCEPT ![a] = @ - 1] /\ UNCHANGED legLegs
  <2>1. legSenders' = [legSenders EXCEPT ![a] = 0]
    BY <1>3, <1>6, <1>7 DEF LegInv, LegTyped
  <2> QED BY <1>1, <1>3, <1>4, <1>6, <1>7, <2>1, LegNone DEF LegInv, LegTyped, LegSockets
<1>8. CASE legLegs' = [legLegs EXCEPT ![a] = leg] /\ UNCHANGED legSenders
  BY <1>1, <1>3, <1>4, <1>5, <1>6, <1>8, LegNone DEF LegInv, LegTyped, LegSockets
<1> QED BY <1>1, <1>7, <1>8

\* The watch and the settings.
LEMMA LegWatch ==
  ASSUME LegInv, Legs!Watch
  PROVE  LegInv'
<1>1. UNCHANGED <<legLegs, legSenders, legTransport, legUp, legWanted>>
  BY DEF Legs!Watch
<1>2. LegQueue' /\ LegAt' = LegAt
  <2>1. CASE Legs!Queued("sync") \/ Legs!Queued("repair")
    BY <2>1, LegQueued DEF LegInv
  <2>2. CASE UNCHANGED legJobs
    BY <2>2 DEF LegInv, LegQueue, LegAt
  <2> QED BY <2>1, <2>2 DEF Legs!Watch, Legs!Adopt
<1>3. legNets' \subseteq LegNets
  <2>1. legNets' = legNets \/ legNets' = legUp \cap legWanted
    BY DEF Legs!Watch, Legs!Adopt
  <2> QED BY <2>1 DEF LegInv, LegTyped
<1> QED BY <1>1, <1>2, <1>3, LegStands DEF LegInv, LegTyped

LEMMA LegSettings ==
  ASSUME LegInv, (\E t \in LegTransports : Legs!Started(t)) \/ (\E in \in SUBSET LegNets : Legs!Exclude(in))
  PROVE  LegInv'
<1>1. UNCHANGED <<legLegs, legSenders, legUp>> /\ Legs!Queued("sync")
  BY DEF Legs!Started, Legs!Exclude, Legs!Adopt
<1>2. LegQueue' /\ LegAt' = LegAt
  BY <1>1, LegQueued DEF LegInv
<1>3. legTransport' \in LegTransports /\ legNets' \subseteq LegNets /\ legWanted' \subseteq LegNets
  BY DEF Legs!Started, Legs!Exclude, Legs!Adopt, LegInv, LegTyped
<1> QED BY <1>1, <1>2, <1>3, LegStands DEF LegInv, LegTyped

\* stop closes what is a leg; what is being bound stays.
LEMMA LegStop ==
  ASSUME LegInv, Legs!Stop
  PROVE  LegInv'
<1>1. /\ legLegs' = [a \in LegNets |-> None]
      /\ legSenders' = [a \in LegNets |-> IF legLegs[a] = None THEN legSenders[a] ELSE legSenders[a] - 1]
      /\ UNCHANGED <<legTransport, legNets, legUp, legWanted, legJobs>>
  BY DEF Legs!Stop
<1>2. LegQueue' /\ LegAt' = LegAt
  BY <1>1 DEF LegInv, LegQueue, LegAt
<1>3. \A a \in LegNets : legSenders'[a] = (IF LegAt = a THEN 1 ELSE 0) /\ legLegs'[a] = None
  BY <1>1 DEF LegInv, LegTyped, LegSockets
<1>4. legSenders' \in [LegNets -> Nat] /\ legLegs' \in [LegNets -> Legs!Leg \cup {None}]
  BY <1>1, <1>3
<1> QED BY <1>1, <1>2, <1>3, <1>4 DEF LegInv, LegTyped, LegSockets

LEMMA LegFaults ==
  ASSUME LegInv, Legs!Rested \/ Legs!Start \/ Legs!ReceiverDies
                 \/ \E a \in LegNets : Legs!Pulled(a) \/ Legs!PluggedIn(a)
  PROVE  LegInv'
<1>1. UNCHANGED <<legLegs, legSenders, legTransport, legNets, legWanted, legJobs>>
  BY DEF Legs!Rested, Legs!Start, Legs!ReceiverDies, Legs!Pulled, Legs!PluggedIn
<1>2. legUp' \subseteq LegNets
  BY DEF Legs!Rested, Legs!Start, Legs!ReceiverDies, Legs!Pulled, Legs!PluggedIn, LegInv, LegTyped
<1>3. LegQueue' /\ LegAt' = LegAt
  BY <1>1 DEF LegInv, LegQueue, LegAt
<1> QED BY <1>1, <1>2, <1>3, LegStands DEF LegInv, LegTyped

LEMMA LegBreaks ==
  ASSUME LegInv, NEW a \in LegNets, Legs!LegBreaks(a)
  PROVE  LegInv'
<1> DEFINE leg == [legLegs[a] EXCEPT !.broken = TRUE]
<1>1. /\ legLegs' = [legLegs EXCEPT ![a] = leg]
      /\ UNCHANGED <<legSenders, legTransport, legNets, legUp, legWanted, legJobs>>
      /\ legLegs[a] # None
  BY DEF Legs!LegBreaks, LegInv, LegTyped
<1>2. legLegs[a] \in Legs!Leg
  BY <1>1 DEF LegInv, LegTyped
<1>3. leg \in Legs!Leg
  BY <1>2 DEF Legs!Leg
<1> HIDE DEF leg
<1>4. leg # None
  BY <1>3, LegNone
<1>5. LegQueue' /\ LegAt' = LegAt
  BY <1>1 DEF LegInv, LegQueue, LegAt
<1> QED BY <1>1, <1>3, <1>4, <1>5 DEF LegInv, LegTyped, LegSockets

LEMMA LegStep == LegInv /\ [Legs!Next]_legVars => LegInv'
<1> SUFFICES ASSUME LegInv, [Legs!Next]_legVars PROVE LegInv' OBVIOUS
<1>1. CASE UNCHANGED legVars
  BY <1>1, LegIdle DEF legVars
<1>2. CASE Legs!JobStep
  <2>1. PICK i : \/ Legs!Begin(i) \/ Legs!ReceiverOpen(i) \/ Legs!Mended(i) \/ Legs!Dropped(i) \/ Legs!End(i)
                 \/ \E a \in LegNets : Legs!Mend(i, a) \/ Legs!Drop(i, a) \/ Legs!Open(i, a)
                 \/ \E joins \in BOOLEAN : Legs!Opened(i, joins)
    BY <1>2 DEF Legs!JobStep
  <2> QED BY <2>1, LegWorks, LegOpen, LegOpened
<1>3. CASE Legs!Watch \/ Legs!Stop
  BY <1>3, LegWatch, LegStop
<1>4. CASE Legs!Rested \/ Legs!Start \/ Legs!ReceiverDies
  BY <1>4, LegFaults
<1>5. CASE (\E t \in LegTransports : Legs!Started(t)) \/ (\E in \in SUBSET LegNets : Legs!Exclude(in))
  BY <1>5, LegSettings
<1>6. CASE \E a \in LegNets : Legs!Pulled(a) \/ Legs!PluggedIn(a) \/ Legs!LegBreaks(a)
  BY <1>6, LegFaults, LegBreaks
<1> QED BY <1>1, <1>2, <1>3, <1>4, <1>5, <1>6 DEF Legs!Next

LEMMA LegInit == Legs!Init => LegInv
<1> SUFFICES ASSUME Legs!Init PROVE LegInv OBVIOUS
<1> DEFINE leg == [channels |-> legTransport, broken |-> FALSE]
<1>1. leg \in Legs!Leg /\ leg # None
  <2>1. legTransport \in SUBSET {"multicast", "broadcast"}
    BY LegNone DEF Legs!Init
  <2>2. leg \in Legs!Leg
    BY <2>1 DEF Legs!Leg
  <2> HIDE DEF leg
  <2> QED BY <2>2, LegNone
<1>2. /\ legLegs = [a \in LegNets |-> IF a \in legUp THEN leg ELSE None]
      /\ legSenders = [a \in LegNets |-> IF a \in legUp THEN 1 ELSE 0]
      /\ legJobs = <<>> /\ legUp \subseteq LegNets /\ legNets = legUp /\ legWanted = LegNets
      /\ legTransport \in LegTransports
  BY DEF Legs!Init
<1> HIDE DEF leg
<1>3. LegQueue /\ LegAt = None
  BY <1>2, EmptySeq DEF LegQueue, LegAt
<1>4. LegTyped
  BY <1>1, <1>2 DEF LegTyped
<1>5. LegSockets
  BY <1>1, <1>2, <1>3, LegNone DEF LegSockets
<1> QED BY <1>3, <1>4, <1>5 DEF LegInv

\* Between the jobs the open senders are the legs.
THEOREM SendersAreLegs == Legs!Spec => [](LegInv /\ Legs!NoStraySender)
<1>1. [Legs!Next]_(Legs!legsVars) => [Legs!Next]_legVars
  BY DEF Legs!legsVars, legVars
<1>2. LegInv => Legs!NoStraySender
  BY LegNone DEF LegInv, LegSockets, LegAt, Legs!NoStraySender
<1> QED BY <1>1, <1>2, LegInit, LegStep, PTL DEF Legs!Spec

------------------------------------------------------------------------------
(* The meter: a holder's counter is his own.                                *)

MetTyped ==
  /\ metHolder \in MetHolders \cup {None} /\ metReturning \in BOOLEAN
  /\ metCounter \in (SUBSET MetHolders) \cup {None}
  /\ metFrom \in [MetConns -> MetHolders \cup {None}]
  /\ metState \in [MetConns -> {"new", "paired", "ended"}] /\ metLate \subseteq MetHolders

\* A connection that is counted is the holder's, or of the time before, or came too late.
MetPairs ==
  \A c \in MetConns : metFrom[c] # None /\ metState[c] = "paired" =>
    metFrom[c] = metHolder \/ metReturning \/ metFrom[c] \in metLate

\* While the device is not on its way back, nothing of earlier holders is in the counter.
MetCounts ==
  /\ metHolder # None => ~metReturning /\ metCounter # None
  /\ ~metReturning /\ metCounter # None => metCounter \subseteq ({metHolder} \ {None}) \cup metLate

MetInv == MetTyped /\ MetPairs /\ MetCounts

LEMMA MetNone == None \notin MetHolders /\ \A S \in SUBSET MetHolders : S # None
BY ConstantsOK DEF Meter!ConstantsOK

\* What Counted makes of the counter.
LEMMA MetCounted ==
  ASSUME MetInv, NEW h \in MetHolders
  PROVE  /\ Meter!Counted(h) \in SUBSET MetHolders /\ Meter!Counted(h) # None
         /\ \A S : (metCounter # None => metCounter \subseteq S) /\ h \in S => Meter!Counted(h) \subseteq S
<1>1. Meter!Counted(h) \in SUBSET MetHolders
  BY DEF Meter!Counted, MetInv, MetTyped
<1> QED BY <1>1, MetNone DEF Meter!Counted

LEMMA MetClaim ==
  ASSUME MetInv, NEW h \in MetHolders, Meter!Claim(h)
  PROVE  MetInv'
<1>1. /\ metHolder = None /\ ~metReturning /\ metHolder' = h
      /\ metCounter' = IF metCounter = None THEN {} ELSE metCounter
      /\ UNCHANGED <<metReturning, metFrom, metState, metLate>>
  BY DEF Meter!Claim
<1>2. metCounter' \in SUBSET MetHolders /\ metCounter' # None
  BY <1>1, MetNone DEF MetInv, MetTyped
<1>3. MetTyped'
  BY <1>1, <1>2 DEF MetInv, MetTyped
<1>4. MetPairs'
  BY <1>1 DEF MetInv, MetPairs
<1>5. MetCounts'
  BY <1>1, <1>2 DEF MetInv, MetCounts
<1> QED BY <1>3, <1>4, <1>5 DEF MetInv

LEMMA MetConnect ==
  ASSUME MetInv, NEW c \in MetConns, Meter!Connect(c)
  PROVE  MetInv'
<1>1. /\ metHolder # None
      /\ metFrom' = [metFrom EXCEPT ![c] = metHolder] /\ metState' = [metState EXCEPT ![c] = "new"]
      /\ UNCHANGED <<metHolder, metReturning, metCounter, metLate>>
  BY DEF Meter!Connect
<1> QED BY <1>1 DEF MetInv, MetTyped, MetPairs, MetCounts

\* A connection names the device, and its bytes are counted.
LEMMA MetImport ==
  ASSUME MetInv, NEW c \in MetConns, Meter!Import(c)
  PROVE  MetInv'
<1>1. /\ metFrom[c] # None /\ metState' = [metState EXCEPT ![c] = "paired"]
      /\ metCounter' = Meter!Counted(metFrom[c])
      /\ metLate' = (IF metHolder = metFrom[c] \/ metReturning THEN metLate ELSE metLate \cup {metFrom[c]})
      /\ UNCHANGED <<metHolder, metReturning, metFrom>>
  BY DEF Meter!Import, Meter!Fresh
<1>2. metFrom[c] \in MetHolders
  BY <1>1 DEF MetInv, MetTyped
<1>3. metCounter' \in SUBSET MetHolders /\ metCounter' # None
  BY <1>1, <1>2, MetCounted
<1>4. MetTyped'
  BY <1>1, <1>2, <1>3 DEF MetInv, MetTyped
<1>5. MetPairs'
  BY <1>1 DEF MetInv, MetTyped, MetPairs
<1>6. MetCounts'
  <2>1. ASSUME ~metReturning
        PROVE  metCounter' \subseteq ({metHolder} \ {None}) \cup metLate'
    <3> DEFINE S == ({metHolder} \ {None}) \cup metLate'
    <3>1. metFrom[c] \in S /\ (metCounter # None => metCounter \subseteq S)
      BY <1>1, <2>1 DEF MetInv, MetCounts
    <3> HIDE DEF S
    <3>2. metCounter' \subseteq S
      BY <1>1, <1>2, <3>1, MetCounted
    <3> QED BY <3>2 DEF S
  <2> QED BY <2>1, <1>1, <1>3 DEF MetInv, MetCounts
<1> QED BY <1>4, <1>5, <1>6 DEF MetInv

LEMMA MetBytes ==
  ASSUME MetInv, NEW c \in MetConns, Meter!Bytes(c)
  PROVE  MetInv'
<1>1. /\ metFrom[c] # None /\ metState[c] = "paired" /\ metCounter' = Meter!Counted(metFrom[c])
      /\ UNCHANGED <<metHolder, metReturning, metFrom, metState, metLate>>
  BY DEF Meter!Bytes, Meter!Pairs
<1>2. metFrom[c] \in MetHolders
  BY <1>1 DEF MetInv, MetTyped
<1>3. metCounter' \in SUBSET MetHolders /\ metCounter' # None
  BY <1>1, <1>2, MetCounted
<1>4. MetTyped' /\ MetPairs'
  BY <1>1, <1>3 DEF MetInv, MetTyped, MetPairs
<1>5. MetCounts'
  <2>1. ASSUME ~metReturning
        PROVE  metCounter' \subseteq ({metHolder} \ {None}) \cup metLate
    <3> DEFINE S == ({metHolder} \ {None}) \cup metLate
    <3>1. metFrom[c] \in S /\ (metCounter # None => metCounter \subseteq S)
      BY <1>1, <2>1 DEF MetInv, MetPairs, MetCounts
    <3> HIDE DEF S
    <3>2. metCounter' \subseteq S
      BY <1>1, <1>2, <3>1, MetCounted
    <3> QED BY <3>2 DEF S
  <2> QED BY <2>1, <1>1, <1>3 DEF MetInv, MetCounts
<1> QED BY <1>4, <1>5 DEF MetInv

\* A connection goes, on its own or with the device.
LEMMA MetEnds ==
  ASSUME MetInv, NEW c \in MetConns, Meter!Ends(c) \/ Meter!Close(c)
  PROVE  MetInv'
<1>1. UNCHANGED <<metHolder, metReturning, metCounter, metLate>>
  BY DEF Meter!Ends, Meter!Close
<1>2. /\ metFrom' \in {metFrom, [metFrom EXCEPT ![c] = None]}
      /\ metState' \in {[metState EXCEPT ![c] = "ended"], [metState EXCEPT ![c] = "new"]}
  BY DEF Meter!Ends, Meter!Close
<1> QED BY <1>1, <1>2 DEF MetInv, MetTyped, MetPairs, MetCounts

LEMMA MetReleases ==
  ASSUME MetInv, Meter!Release \/ Meter!Returned
  PROVE  MetInv'
<1>1. /\ metState' = [c \in MetConns |-> IF c \in Meter!Pairs THEN "ended" ELSE metState[c]]
      /\ UNCHANGED <<metFrom, metLate>>
      /\ \/ metHolder' = None /\ metReturning' = TRUE /\ UNCHANGED metCounter
         \/ metReturning /\ metReturning' = FALSE /\ metCounter' = None /\ UNCHANGED metHolder
  BY DEF Meter!Release, Meter!Returned, Meter!Reset
<1>2. \A c \in MetConns : metState'[c] = "paired" => metFrom'[c] = None
  BY <1>1 DEF Meter!Pairs
<1>3. MetTyped'
  BY <1>1 DEF MetInv, MetTyped
<1>4. MetPairs'
  BY <1>2 DEF MetPairs
<1>5. MetCounts'
  BY <1>1 DEF MetInv, MetCounts
<1> QED BY <1>3, <1>4, <1>5 DEF MetInv

LEMMA MetStep == MetInv /\ [Meter!Next]_metVars => MetInv'
<1> SUFFICES ASSUME MetInv, [Meter!Next]_metVars PROVE MetInv' OBVIOUS
<1>1. CASE UNCHANGED <<metHolder, metReturning, metCounter, metFrom, metState, metLate>>
  BY <1>1 DEF MetInv, MetTyped, MetPairs, MetCounts
<1>2. CASE Meter!Release \/ Meter!Returned
  BY <1>2, MetReleases
<1>3. CASE Meter!Lapse
  BY <1>1, <1>3, MetReleases DEF Meter!Lapse
<1>4. CASE \E h \in MetHolders : Meter!Claim(h)
  BY <1>4, MetClaim
<1>5. CASE \E c \in MetConns : Meter!Connect(c) \/ Meter!Import(c) \/ Meter!Bytes(c) \/ Meter!Ends(c) \/ Meter!Close(c)
  BY <1>5, MetConnect, MetImport, MetBytes, MetEnds
<1> QED BY <1>1, <1>2, <1>3, <1>4, <1>5 DEF Meter!Next, metVars

\* A holder's counter shows what he has moved, and nothing of those before him but of
\* connections that came too late.
THEOREM CountersAreTheHolders == Meter!Spec => [](MetInv /\ Meter!CountsOnlyHolder)
<1>1. Meter!Init => MetInv
  <2> SUFFICES ASSUME Meter!Init PROVE MetInv OBVIOUS
  <2> QED BY DEF Meter!Init, MetInv, MetTyped, MetPairs, MetCounts
<1>2. [Meter!Next]_(Meter!meterVars) => [Meter!Next]_metVars
  BY DEF Meter!meterVars, metVars
<1>3. MetInv => Meter!CountsOnlyHolder
  BY DEF MetInv, MetTyped, MetCounts, Meter!CountsOnlyHolder
<1> QED BY <1>1, <1>2, <1>3, MetStep, PTL DEF Meter!Spec

------------------------------------------------------------------------------
(* The configuration file.                                                  *)

CfgSettings == ConfigFile!Settings
CfgSaving == {"write", "written", "rename", "copy"}

CfgTyped ==
  /\ cfgFile \in CfgSettings \cup {Torn, None} /\ cfgTmp \in CfgSettings \cup {Torn, None}
  /\ cfgData \in CfgSettings /\ cfgOverride \in BOOLEAN /\ cfgLoading \in BOOLEAN /\ cfgMishap \in BOOLEAN
  /\ cfgPhase \in {"off", "on"} \cup CfgSaving
  /\ cfgKnown \in 0..CfgMaxStarts /\ cfgStarts \in 1..CfgMaxStarts /\ cfgSets \in Nat
  /\ cfgLegacy \subseteq CfgKeys

\* What is beside is whole when it takes the file's place; a file that could not be read is kept.
CfgWhole ==
  /\ cfgPhase \in {"rename", "copy"} => cfgTmp \in CfgSettings
  /\ cfgPhase # "off" /\ (cfgBefore = Torn \/ (cfgFile = Torn /\ cfgPhase # "copy")) => Torn \in cfgCopies

\* The switch of the command line is in the memory of this run only.
CfgFlag == cfgData.switch = "flag" => cfgOverride /\ ~cfgLoading

\* The id that is known is in the file, in what takes its place, and in memory.
CfgId ==
  /\ cfgPhase # "off" => cfgData.id # 0
  /\ cfgPhase # "off" /\ ~cfgLoading => cfgKnown # 0
  /\ cfgLoading => cfgPhase \in CfgSaving
  /\ ~cfgMishap =>
       /\ cfgKnown # 0 /\ cfgPhase # "copy" => cfgFile \in CfgSettings /\ cfgFile.id = cfgKnown
       /\ cfgKnown # 0 /\ cfgPhase # "off" => cfgData.id = cfgKnown
       /\ cfgPhase \in {"rename", "copy"} => cfgTmp.id = cfgData.id

\* The key of an old file is in the file, in what takes its place, and in memory.
CfgKey ==
  /\ cfgLegacy # {} => cfgKnown # 0
  /\ ~cfgMishap /\ cfgSets = 0 =>
       /\ cfgFile \in CfgSettings => cfgLegacy \subseteq cfgFile.nets \cup {cfgFile.key}
       /\ cfgPhase # "off" => cfgLegacy \subseteq cfgData.nets
       /\ cfgPhase \in {"rename", "copy"} => cfgLegacy \subseteq cfgTmp.nets

CfgInv == CfgTyped /\ CfgWhole /\ CfgFlag /\ CfgId /\ CfgKey
          /\ ConfigFile!OldOrNew /\ ConfigFile!OneRunOnly

LEMMA CfgConstants ==
  /\ CfgMaxStarts \in Nat \ {0} /\ Torn # None /\ None \notin CfgKeys \cup {"on", "off", "flag"}
  /\ Torn \notin CfgSettings /\ None \notin CfgSettings
BY ConstantsOK DEF ConfigFile!ConstantsOK, CfgSettings

LEMMA CfgEmpty == ConfigFile!Empty \in CfgSettings /\ ConfigFile!Empty.id = 0 /\ ConfigFile!Empty.switch = None
                  /\ ConfigFile!Empty.key = None /\ ConfigFile!Empty.nets = {}
<1>1. 0 \in 0..CfgMaxStarts
  BY CfgConstants
<1> QED BY <1>1 DEF ConfigFile!Empty, CfgSettings, ConfigFile!Settings

\* What load makes of the settings it has read.
LEMMA CfgFilled ==
  ASSUME NEW s \in CfgSettings, cfgStarts \in 1..CfgMaxStarts, cfgStarts < CfgMaxStarts,
         NEW filled, filled = ConfigFile!Filled(s)
  PROVE  /\ filled \in CfgSettings
         /\ filled.id = (IF s.id = 0 THEN cfgStarts + 1 ELSE s.id) /\ filled.id # 0
         /\ filled.switch = s.switch
         /\ filled.nets = (IF s.key = None THEN s.nets ELSE s.nets \cup {s.key})
<1> DEFINE id == IF s.id = 0 THEN cfgStarts + 1 ELSE s.id
           nets == IF s.key = None THEN s.nets ELSE s.nets \cup {s.key}
           one == [s EXCEPT !.id = id]
           two == [one EXCEPT !.nets = nets]
           three == [two EXCEPT !.key = None]
<1>1. id \in 0..CfgMaxStarts /\ id # 0
  BY CfgConstants DEF CfgSettings, ConfigFile!Settings
<1>2. nets \in SUBSET CfgKeys
  BY DEF CfgSettings, ConfigFile!Settings
<1>3. filled = three
  BY DEF ConfigFile!Filled
<1> HIDE DEF id, nets
<1>4. one \in CfgSettings /\ one.id = id /\ one.switch = s.switch
  BY <1>1 DEF CfgSettings, ConfigFile!Settings
<1>5. two \in CfgSettings /\ two.id = id /\ two.switch = s.switch /\ two.nets = nets
  <2> HIDE DEF one
  <2> QED BY <1>2, <1>4 DEF CfgSettings, ConfigFile!Settings
<1>6. three \in CfgSettings /\ three.id = id /\ three.switch = s.switch /\ three.nets = nets
  <2> HIDE DEF two
  <2> QED BY <1>5 DEF CfgSettings, ConfigFile!Settings
<1> QED BY <1>1, <1>3, <1>6 DEF id, nets

\* How one field of the settings changes.
LEMMA CfgSwitch ==
  ASSUME NEW s \in CfgSettings, NEW v \in {"on", "off", "flag", None}, NEW t, t = [s EXCEPT !.switch = v]
  PROVE  t \in CfgSettings /\ t.switch = v /\ t.id = s.id /\ t.nets = s.nets
BY DEF CfgSettings, ConfigFile!Settings

LEMMA CfgStart ==
  ASSUME CfgInv, ConfigFile!Start
  PROVE  CfgInv'
<1> DEFINE read == ConfigFile!Read
           filled == ConfigFile!Filled(read)
<1>1. /\ cfgPhase = "off" /\ cfgStarts < CfgMaxStarts /\ cfgStarts' = cfgStarts + 1 /\ cfgOverride' \in BOOLEAN
      /\ cfgCopies' = IF cfgFile = Torn THEN cfgCopies \cup {Torn} ELSE cfgCopies
      /\ UNCHANGED <<cfgFile, cfgTmp, cfgLegacy, cfgMishap, cfgSets>>
      /\ IF filled # read
           THEN cfgData' = filled /\ cfgPhase' = "write" /\ cfgLoading' = TRUE /\ cfgBefore' = cfgFile /\ UNCHANGED cfgKnown
           ELSE /\ cfgData' = [read EXCEPT !.switch = IF cfgOverride' THEN "flag" ELSE @]
                /\ cfgKnown' = (IF cfgKnown = 0 THEN read.id ELSE cfgKnown)
                /\ cfgPhase' = "on" /\ cfgLoading' = FALSE /\ UNCHANGED cfgBefore
  BY DEF ConfigFile!Start, ConfigFile!Seen, ConfigFile!Ready
<1>2. /\ read \in CfgSettings /\ (cfgFile \in CfgSettings => read = cfgFile)
      /\ (cfgFile \notin CfgSettings => read.id = 0 /\ read.nets = {} /\ read.key = None /\ read.switch = None)
  BY CfgEmpty DEF ConfigFile!Read, CfgSettings
<1>3. read.switch # "flag"
  BY <1>2, CfgConstants DEF CfgInv, ConfigFile!OneRunOnly, CfgSettings
<1>4. /\ filled \in CfgSettings
      /\ filled.id = (IF read.id = 0 THEN cfgStarts + 1 ELSE read.id) /\ filled.id # 0
      /\ filled.switch = read.switch
      /\ filled.nets = (IF read.key = None THEN read.nets ELSE read.nets \cup {read.key})
  BY <1>1, <1>2, CfgFilled DEF CfgInv, CfgTyped
<1> HIDE DEF read, filled
<1>5. /\ cfgData' \in CfgSettings /\ cfgData'.id = filled.id /\ cfgData'.nets = filled.nets
      /\ (cfgData'.switch = "flag" => cfgOverride' /\ ~cfgLoading')
  <2>1. CASE filled # read
    BY <2>1, <1>1, <1>3, <1>4
  <2>2. CASE filled = read
    <3> DEFINE v == IF cfgOverride' THEN "flag" ELSE read.switch
    <3>1. v \in {"on", "off", "flag", None} /\ (v = "flag" => cfgOverride')
      BY <1>2, <1>3 DEF CfgSettings, ConfigFile!Settings
    <3>2. cfgData' = [read EXCEPT !.switch = v] /\ ~cfgLoading'
      BY <2>2, <1>1, <1>2 DEF CfgSettings, ConfigFile!Settings
    <3> HIDE DEF v
    <3>3. cfgData' \in CfgSettings /\ cfgData'.switch = v /\ cfgData'.id = read.id /\ cfgData'.nets = read.nets
      BY <1>2, <3>1, <3>2, CfgSwitch
    <3> QED BY <2>2, <3>1, <3>2, <3>3
  <2> QED BY <2>1, <2>2
<1>6. cfgLegacy \subseteq filled.nets \/ cfgMishap \/ cfgSets # 0
  <2>1. CASE cfgFile \in CfgSettings /\ ~cfgMishap /\ cfgSets = 0
    <3>1. cfgLegacy \subseteq read.nets \cup {read.key}
      BY <2>1, <1>2 DEF CfgInv, CfgKey
    <3>2. cfgLegacy \subseteq CfgKeys /\ None \notin CfgKeys
      BY CfgConstants DEF CfgInv, CfgTyped
    <3> QED BY <3>1, <3>2, <1>4
  <2>2. CASE cfgFile \notin CfgSettings
    BY <2>2, <1>1 DEF CfgInv, CfgKey, CfgId
  <2> QED BY <2>1, <2>2
<1>7. CfgTyped'
  <2>1. read.id \in 0..CfgMaxStarts
    BY <1>2 DEF CfgSettings, ConfigFile!Settings
  <2>2. cfgKnown' \in 0..CfgMaxStarts
    BY <2>1, <1>1 DEF CfgInv, CfgTyped
  <2>3. cfgStarts' \in 1..CfgMaxStarts
    BY <1>1, CfgConstants DEF CfgInv, CfgTyped
  <2>4. cfgPhase' \in {"off", "on"} \cup CfgSaving /\ cfgLoading' \in BOOLEAN
    BY <1>1 DEF CfgSaving
  <2> QED BY <2>2, <2>3, <2>4, <1>1, <1>5 DEF CfgInv, CfgTyped
<1>8. CfgWhole' /\ CfgFlag' /\ ConfigFile!OldOrNew' /\ ConfigFile!OneRunOnly'
  <2>1. CfgFlag' /\ ConfigFile!OneRunOnly'
    BY <1>1, <1>5 DEF CfgInv, CfgFlag, ConfigFile!OneRunOnly
  <2>2. ConfigFile!OldOrNew'
    BY <1>1 DEF CfgInv, ConfigFile!OldOrNew
  <2>3. CfgWhole'
    BY <1>1 DEF CfgInv, CfgWhole, ConfigFile!OldOrNew
  <2> QED BY <2>1, <2>2, <2>3
<1>9. CfgId'
  <2>1. ~cfgMishap /\ cfgKnown # 0 => cfgFile \in CfgSettings /\ cfgFile.id = cfgKnown /\ filled.id = cfgKnown
    BY <1>1, <1>2, <1>4 DEF CfgInv, CfgId
  <2>2. ~cfgMishap /\ cfgKnown' # 0 => cfgFile \in CfgSettings /\ cfgFile.id = cfgKnown' /\ filled.id = cfgKnown'
    BY <2>1, <1>1, <1>2, <1>4
  <2> QED BY <2>2, <1>1, <1>4, <1>5 DEF CfgInv, CfgId, CfgSaving
<1>10. CfgKey'
  BY <1>1, <1>4, <1>5, <1>6 DEF CfgInv, CfgKey
<1> QED BY <1>7, <1>8, <1>9, <1>10 DEF CfgInv

LEMMA CfgSet ==
  ASSUME CfgInv, ConfigFile!Set
  PROVE  CfgInv'
<1>1. /\ cfgPhase = "on" /\ cfgSets' = cfgSets + 1 /\ cfgPhase' = "write" /\ cfgBefore' = cfgFile
      /\ UNCHANGED <<cfgFile, cfgTmp, cfgCopies, cfgOverride, cfgLoading, cfgKnown, cfgLegacy, cfgMishap, cfgStarts>>
  BY DEF ConfigFile!Set, ConfigFile!Disk
<1>2. cfgData' \in CfgSettings /\ cfgData'.id = cfgData.id /\ (cfgData'.switch = "flag" => cfgData.switch = "flag")
  <2>1. ASSUME NEW n \in SUBSET CfgKeys, cfgData' = [cfgData EXCEPT !.nets = n]
        PROVE  cfgData' \in CfgSettings /\ cfgData'.id = cfgData.id /\ cfgData'.switch = cfgData.switch
    BY <2>1 DEF CfgInv, CfgTyped, CfgSettings, ConfigFile!Settings
  <2>2. ASSUME NEW v \in {"on", "off"}, cfgData' = [cfgData EXCEPT !.switch = v]
        PROVE  cfgData' \in CfgSettings /\ cfgData'.id = cfgData.id /\ cfgData'.switch = v
    BY <2>2, CfgSwitch DEF CfgInv, CfgTyped
  <2> QED BY <2>1, <2>2 DEF ConfigFile!Set
<1>3. CfgTyped'
  BY <1>1, <1>2 DEF CfgInv, CfgTyped, CfgSaving
<1>4. CfgWhole' /\ CfgFlag'
  BY <1>1, <1>2 DEF CfgInv, CfgWhole, CfgFlag
<1>5. ConfigFile!OldOrNew' /\ ConfigFile!OneRunOnly'
  BY <1>1 DEF CfgInv, ConfigFile!OldOrNew, ConfigFile!OneRunOnly
<1>6. CfgId'
  BY <1>1, <1>2 DEF CfgInv, CfgId, CfgSaving
<1>7. CfgKey'
  BY <1>1 DEF CfgInv, CfgTyped, CfgKey
<1> QED BY <1>3, <1>4, <1>5, <1>6, <1>7 DEF CfgInv
\* The end of a save leaves the settings as they are but for the switch of the command line.
LEMMA CfgSaved ==
  ASSUME CfgInv, ConfigFile!Saved, cfgPhase \in CfgSaving, UNCHANGED cfgOverride
  PROVE  /\ cfgPhase' = "on" /\ cfgLoading' = FALSE /\ cfgData' \in CfgSettings
         /\ cfgData'.id = cfgData.id /\ cfgData'.nets = cfgData.nets
         /\ (cfgData'.switch = "flag" => cfgOverride')
         /\ cfgKnown' \in 0..CfgMaxStarts /\ cfgKnown' # 0
         /\ cfgKnown' = (IF cfgKnown = 0 THEN cfgData.id ELSE cfgKnown)
<1>1. cfgPhase' = "on" /\ cfgLoading' = FALSE /\ cfgOverride' = cfgOverride /\ cfgPhase # "off"
  BY DEF ConfigFile!Saved, ConfigFile!Ready, CfgSaving
<1>2. cfgData \in CfgSettings /\ cfgData.id \in 0..CfgMaxStarts /\ cfgData.id # 0 /\ cfgKnown \in 0..CfgMaxStarts
  BY <1>1 DEF CfgInv, CfgTyped, CfgId, CfgSettings, ConfigFile!Settings
<1>3. CASE cfgLoading
  <2> DEFINE v == IF cfgOverride THEN "flag" ELSE cfgData.switch
  <2>1. v \in {"on", "off", "flag", None} /\ (v = "flag" => cfgOverride)
    BY <1>2, <1>3 DEF CfgInv, CfgFlag, CfgSettings, ConfigFile!Settings
  <2>2. cfgData' = [cfgData EXCEPT !.switch = v] /\ cfgKnown' = (IF cfgKnown = 0 THEN cfgData.id ELSE cfgKnown)
    BY <1>2, <1>3 DEF ConfigFile!Saved, ConfigFile!Seen, CfgSettings, ConfigFile!Settings
  <2> HIDE DEF v
  <2>3. cfgData' \in CfgSettings /\ cfgData'.switch = v /\ cfgData'.id = cfgData.id /\ cfgData'.nets = cfgData.nets
    BY <1>2, <2>1, <2>2, CfgSwitch
  <2> QED BY <1>1, <1>2, <2>1, <2>2, <2>3
<1>4. CASE ~cfgLoading
  <2>1. cfgData' = cfgData /\ cfgKnown' = cfgKnown /\ cfgKnown # 0 /\ (cfgData.switch = "flag" => cfgOverride)
    BY <1>1, <1>4 DEF ConfigFile!Saved, CfgInv, CfgId, CfgFlag
  <2> QED BY <1>1, <1>2, <2>1
<1> QED BY <1>3, <1>4

LEMMA CfgWrite ==
  ASSUME CfgInv, ConfigFile!Write
  PROVE  CfgInv'
<1>1. /\ cfgPhase = "write" /\ cfgPhase' = "written" /\ cfgTmp' = Torn
      /\ UNCHANGED <<cfgFile, cfgCopies, cfgData, cfgOverride, cfgLoading, cfgBefore, cfgKnown, cfgLegacy, cfgMishap,
                     cfgStarts, cfgSets>>
  BY DEF ConfigFile!Write, ConfigFile!Beside, ConfigFile!Told
<1>2. CfgTyped' /\ CfgWhole' /\ CfgFlag'
  BY <1>1 DEF CfgInv, CfgTyped, CfgWhole, CfgFlag, CfgSaving
<1>3. CfgId' /\ CfgKey'
  BY <1>1 DEF CfgInv, CfgId, CfgKey, CfgSaving
<1>4. ConfigFile!OldOrNew' /\ ConfigFile!OneRunOnly'
  BY <1>1, CfgConstants DEF CfgInv, ConfigFile!OldOrNew, ConfigFile!OneRunOnly, CfgSettings
<1> QED BY <1>2, <1>3, <1>4 DEF CfgInv

LEMMA CfgWriteDone ==
  ASSUME CfgInv, ConfigFile!WriteDone
  PROVE  CfgInv'
<1> DEFINE written == ConfigFile!Written
<1>1. /\ cfgPhase = "written" /\ cfgPhase' = "rename" /\ cfgTmp' = written
      /\ UNCHANGED <<cfgFile, cfgCopies, cfgData, cfgOverride, cfgLoading, cfgBefore, cfgKnown, cfgLegacy, cfgMishap,
                     cfgStarts, cfgSets>>
  BY DEF ConfigFile!WriteDone, ConfigFile!Beside, ConfigFile!Told
<1>2. written \in CfgSettings /\ written.id = cfgData.id /\ written.nets = cfgData.nets /\ written.switch # "flag"
  <2>1. CASE cfgOverride /\ ~cfgLoading
    BY <2>1, CfgSwitch, CfgConstants DEF CfgInv, CfgTyped, ConfigFile!Written
  <2>2. CASE ~(cfgOverride /\ ~cfgLoading)
    BY <2>2 DEF CfgInv, CfgTyped, CfgFlag, ConfigFile!Written
  <2> QED BY <2>1, <2>2
<1> HIDE DEF written
<1>3. CfgTyped' /\ CfgWhole' /\ CfgFlag'
  BY <1>1, <1>2 DEF CfgInv, CfgTyped, CfgWhole, CfgFlag, CfgSaving
<1>4. CfgId' /\ CfgKey'
  BY <1>1, <1>2 DEF CfgInv, CfgId, CfgKey, CfgSaving
<1>5. ConfigFile!OldOrNew' /\ ConfigFile!OneRunOnly'
  BY <1>1, <1>2 DEF CfgInv, ConfigFile!OldOrNew, ConfigFile!OneRunOnly
<1> QED BY <1>3, <1>4, <1>5 DEF CfgInv

LEMMA CfgWriteFails ==
  ASSUME CfgInv, ConfigFile!WriteFails
  PROVE  CfgInv'
<1>1. /\ cfgPhase \in {"write", "written"} /\ cfgPhase \in CfgSaving /\ cfgMishap' = TRUE /\ ConfigFile!Saved
      /\ UNCHANGED <<cfgFile, cfgTmp, cfgCopies, cfgOverride, cfgBefore, cfgLegacy, cfgStarts, cfgSets>>
  BY DEF ConfigFile!WriteFails, ConfigFile!Disk, CfgSaving
<1>2. /\ cfgPhase' = "on" /\ cfgLoading' = FALSE /\ cfgData' \in CfgSettings
      /\ cfgData'.id = cfgData.id /\ (cfgData'.switch = "flag" => cfgOverride')
      /\ cfgKnown' \in 0..CfgMaxStarts /\ cfgKnown' # 0
  BY <1>1, CfgSaved
<1>3. cfgData.id # 0
  BY <1>1 DEF CfgInv, CfgId
<1>4. CfgTyped' /\ CfgWhole' /\ CfgFlag'
  BY <1>1, <1>2 DEF CfgInv, CfgTyped, CfgWhole, CfgFlag
<1>5. CfgId' /\ CfgKey'
  BY <1>1, <1>2, <1>3 DEF CfgId, CfgKey
<1>6. ConfigFile!OldOrNew' /\ ConfigFile!OneRunOnly'
  BY <1>1, <1>2 DEF CfgInv, ConfigFile!OldOrNew, ConfigFile!OneRunOnly
<1> QED BY <1>4, <1>5, <1>6 DEF CfgInv

\* The file beside takes the place of the file, by a renaming or by a copy.
LEMMA CfgInPlace ==
  ASSUME CfgInv, ConfigFile!Rename \/ ConfigFile!Copied
  PROVE  CfgInv'
<1>1. /\ cfgPhase \in {"rename", "copy"} /\ cfgPhase \in CfgSaving /\ cfgFile' = cfgTmp /\ cfgTmp' = None
      /\ ConfigFile!Saved
      /\ UNCHANGED <<cfgCopies, cfgOverride, cfgBefore, cfgLegacy, cfgMishap, cfgStarts, cfgSets>>
  BY DEF ConfigFile!Rename, ConfigFile!Copied, CfgSaving
<1>2. /\ cfgPhase' = "on" /\ cfgLoading' = FALSE /\ cfgData' \in CfgSettings
      /\ cfgData'.id = cfgData.id /\ cfgData'.nets = cfgData.nets
      /\ (cfgData'.switch = "flag" => cfgOverride')
      /\ cfgKnown' \in 0..CfgMaxStarts /\ cfgKnown' # 0
      /\ cfgKnown' = (IF cfgKnown = 0 THEN cfgData.id ELSE cfgKnown)
  BY <1>1, CfgSaved
<1>3. cfgTmp \in CfgSettings /\ cfgData.id # 0 /\ cfgTmp # Torn /\ cfgPhase # "off"
  BY <1>1, CfgConstants DEF CfgInv, CfgWhole, CfgId
<1>4. CfgTyped' /\ CfgWhole' /\ CfgFlag'
  BY <1>1, <1>2, <1>3 DEF CfgInv, CfgTyped, CfgWhole, CfgFlag
<1>5. CfgId'
  BY <1>1, <1>2, <1>3 DEF CfgInv, CfgId
<1>6. CfgKey'
  BY <1>1, <1>2, <1>3 DEF CfgInv, CfgKey
<1>7. ConfigFile!OldOrNew'
  BY <1>1, <1>3 DEF CfgInv, CfgWhole, ConfigFile!OldOrNew, CfgSettings
<1>8. ConfigFile!OneRunOnly'
  BY <1>1, CfgConstants DEF CfgInv, ConfigFile!OneRunOnly, CfgSettings
<1> QED BY <1>4, <1>5, <1>6, <1>7, <1>8 DEF CfgInv

LEMMA CfgRefused ==
  ASSUME CfgInv, ConfigFile!Refused
  PROVE  CfgInv'
<1>1. /\ cfgPhase = "rename" /\ cfgPhase' = "copy" /\ cfgFile' = Torn
      /\ UNCHANGED <<cfgTmp, cfgCopies, cfgData, cfgOverride, cfgLoading, cfgBefore, cfgKnown, cfgLegacy, cfgMishap,
                     cfgStarts, cfgSets>>
  BY DEF ConfigFile!Refused, ConfigFile!Told
<1>2. CfgTyped' /\ CfgWhole' /\ CfgFlag'
  BY <1>1 DEF CfgInv, CfgTyped, CfgWhole, CfgFlag, CfgSaving
<1>3. CfgId' /\ CfgKey'
  BY <1>1, CfgConstants DEF CfgInv, CfgId, CfgKey, CfgSaving
<1>4. ConfigFile!OldOrNew' /\ ConfigFile!OneRunOnly'
  BY <1>1, CfgConstants DEF CfgInv, ConfigFile!OldOrNew, ConfigFile!OneRunOnly, CfgSettings
<1> QED BY <1>2, <1>3, <1>4 DEF CfgInv

LEMMA CfgKilled ==
  ASSUME CfgInv, ConfigFile!Killed
  PROVE  CfgInv'
<1>1. /\ cfgPhase' = "off" /\ cfgLoading' = FALSE /\ cfgData' = ConfigFile!Empty /\ cfgOverride' = FALSE
      /\ cfgMishap' = (cfgMishap \/ cfgPhase = "copy")
      /\ UNCHANGED <<cfgFile, cfgTmp, cfgCopies, cfgBefore, cfgKnown, cfgLegacy, cfgStarts, cfgSets>>
  BY DEF ConfigFile!Killed, ConfigFile!Disk
<1>2. cfgMishap' \in BOOLEAN /\ (~cfgMishap' => ~cfgMishap /\ cfgPhase # "copy")
  BY <1>1 DEF CfgInv, CfgTyped
<1>3. CfgTyped'
  BY <1>1, <1>2, CfgEmpty DEF CfgInv, CfgTyped
<1>4. CfgWhole' /\ CfgFlag'
  BY <1>1, CfgEmpty, CfgConstants DEF CfgWhole, CfgFlag
<1>5. CfgId' /\ CfgKey'
  BY <1>1, <1>2 DEF CfgInv, CfgId, CfgKey
<1>6. ConfigFile!OldOrNew' /\ ConfigFile!OneRunOnly'
  BY <1>1, <1>2 DEF CfgInv, ConfigFile!OldOrNew, ConfigFile!OneRunOnly
<1> QED BY <1>3, <1>4, <1>5, <1>6 DEF CfgInv

LEMMA CfgStep ==
  ASSUME CfgInv, [ConfigFile!Next]_cfgVars
  PROVE  CfgInv'
<1>1. CASE ConfigFile!Next
  BY <1>1, CfgStart, CfgSet, CfgWrite, CfgWriteDone, CfgWriteFails, CfgInPlace, CfgRefused, CfgKilled DEF ConfigFile!Next
<1>2. CASE UNCHANGED cfgVars
  BY <1>2 DEF cfgVars, CfgInv, CfgTyped, CfgWhole, CfgFlag, CfgId, CfgKey, ConfigFile!OldOrNew, ConfigFile!OneRunOnly
<1> QED BY <1>1, <1>2

LEMMA CfgInit ==
  ASSUME ConfigFile!Init
  PROVE  CfgInv
<1>1. /\ cfgTmp = None /\ cfgCopies = {} /\ cfgData = ConfigFile!Empty /\ cfgOverride = FALSE /\ cfgPhase = "off"
      /\ cfgLoading = FALSE /\ cfgBefore = cfgFile /\ cfgMishap = FALSE /\ cfgStarts = 1 /\ cfgSets = 0
      /\ cfgKnown = (IF cfgFile \in CfgSettings THEN 1 ELSE 0)
      /\ cfgLegacy = (IF cfgFile \in CfgSettings THEN {cfgFile.key} \ {None} ELSE {})
  BY DEF ConfigFile!Init, CfgSettings
<1>2. \/ cfgFile \in {None, Torn}
      \/ cfgFile \in CfgSettings /\ cfgFile.id = 1 /\ cfgFile.switch # "flag" /\ cfgFile.key \in CfgKeys \cup {None}
  <2>1. 1 \in 0..CfgMaxStarts /\ 1 \in 1..CfgMaxStarts
    BY CfgConstants
  <2> DEFINE one == [ConfigFile!Empty EXCEPT !.id = 1]
  <2>2. one \in CfgSettings /\ one.id = 1 /\ one.switch = None /\ one.key = None
    BY <2>1, CfgEmpty DEF CfgSettings, ConfigFile!Settings
  <2>3. [one EXCEPT !.switch = "off"] \in CfgSettings /\ [one EXCEPT !.switch = "off"].id = 1
        /\ [one EXCEPT !.switch = "off"].switch = "off" /\ [one EXCEPT !.switch = "off"].key = None
    <3> HIDE DEF one
    <3> QED BY <2>2 DEF CfgSettings, ConfigFile!Settings
  <2>4. ASSUME NEW k \in CfgKeys
        PROVE  /\ [one EXCEPT !.key = k] \in CfgSettings /\ [one EXCEPT !.key = k].id = 1
               /\ [one EXCEPT !.key = k].switch = None /\ [one EXCEPT !.key = k].key = k
    <3> HIDE DEF one
    <3> QED BY <2>2 DEF CfgSettings, ConfigFile!Settings
  <2>5. \/ cfgFile \in {None, Torn} \/ cfgFile = [one EXCEPT !.switch = "off"]
        \/ \E k \in CfgKeys : cfgFile = [one EXCEPT !.key = k]
    BY DEF ConfigFile!Init
  <2> HIDE DEF one
  <2>6. None # "flag"
    BY CfgConstants
  <2>7. CASE cfgFile = [one EXCEPT !.switch = "off"]
    BY <2>3, <2>7
  <2>8. ASSUME NEW k \in CfgKeys, cfgFile = [one EXCEPT !.key = k]
        PROVE  /\ cfgFile \in CfgSettings /\ cfgFile.id = 1 /\ cfgFile.switch # "flag"
               /\ cfgFile.key \in CfgKeys \cup {None}
    BY <2>4, <2>6, <2>8
  <2> QED BY <2>5, <2>7, <2>8
<1>3. CfgTyped /\ CfgWhole /\ CfgFlag
  <2>1. 1 \in 0..CfgMaxStarts /\ 1 \in 1..CfgMaxStarts /\ 0 \in 0..CfgMaxStarts /\ 0 \in Nat
    BY CfgConstants
  <2>2. cfgKnown \in 0..CfgMaxStarts /\ cfgLegacy \subseteq CfgKeys
    BY <2>1, <1>1, <1>2, CfgConstants
  <2>3. CfgTyped
    BY <2>1, <2>2, <1>1, <1>2, CfgEmpty DEF CfgTyped
  <2>4. CfgWhole /\ CfgFlag
    BY <1>1, CfgEmpty, CfgConstants DEF CfgWhole, CfgFlag
  <2> QED BY <2>3, <2>4
<1>4. CfgId /\ CfgKey
  BY <1>1, <1>2, CfgConstants DEF CfgId, CfgKey
<1>5. ConfigFile!OldOrNew /\ ConfigFile!OneRunOnly
  BY <1>1, <1>2, CfgConstants DEF ConfigFile!OldOrNew, ConfigFile!OneRunOnly, CfgSettings
<1> QED BY <1>3, <1>4, <1>5 DEF CfgInv

\* Killed at any moment, with writes that fail and renamings that are refused, the configuration
\* file holds the old settings or the new ones, keeps the node's id and its key, and nothing
\* that was meant for one run (Config.load, save, set).
THEOREM SettingsAreKept ==
  ConfigFile!Spec => [](CfgInv /\ ConfigFile!OldOrNew /\ ConfigFile!OneRunOnly /\ ConfigFile!KeepsItsId /\ ConfigFile!KeepsItsKey)
<1>1. [ConfigFile!Next]_(ConfigFile!vars) => [ConfigFile!Next]_cfgVars
  BY DEF ConfigFile!vars, cfgVars
<1>2. CfgInv => ConfigFile!OldOrNew /\ ConfigFile!OneRunOnly /\ ConfigFile!KeepsItsId /\ ConfigFile!KeepsItsKey
  BY DEF CfgInv, CfgId, CfgKey, CfgSaving, ConfigFile!KeepsItsId, ConfigFile!KeepsItsKey, CfgSettings
<1> QED BY <1>1, <1>2, CfgInit, CfgStep, PTL DEF ConfigFile!Spec

------------------------------------------------------------------------------
(* Circles of trust: in which circle a record speaks.                       *)

CirCircles == CirKeys \cup {"open"}
CirListening == Circles!Listening
CirFresh(s) == Circles!Fresh(s)

\* Only circles that are listened to are in the record, once the settings are applied.
CirInv ==
  /\ cirListed \in BOOLEAN /\ cirSettling \in BOOLEAN /\ (cirListed <=> cirRealm # None)
  /\ cirSeen \in [CirCircles -> (0..CirLimit) \cup {None}]
  /\ ~cirListed => \A c \in CirCircles : cirSeen[c] = None
  /\ ~cirSettling => \A c \in CirCircles : cirSeen[c] # None => c \in CirListening
  /\ ~cirSettling /\ cirListed => cirRealm \in CirListening
  /\ cirRealm = "open" => CirFresh(cirSeen) \subseteq {"open"}

LEMMA CirConstants == CirLimit \in Nat /\ CirLimit > 0 /\ None \notin CirCircles /\ None \notin 0..CirLimit /\ 0 \in 0..CirLimit
BY ConstantsOK DEF Circles!ConstantsOK, CirCircles, Circles!Open

LEMMA CirNames == Circles!Open = "open" /\ Circles!Circles = CirCircles
BY DEF Circles!Open, Circles!Circles, CirCircles

\* Where something fresh is there, the record speaks in a fresh circle, and in the open one
\* only if no other is.
LEMMA CirPicks ==
  ASSUME NEW s, NEW old, NEW r \in Circles!Picks(old, s), CirFresh(s) # {}
  PROVE  r \in CirFresh(s) /\ (r = "open" => CirFresh(s) \subseteq {"open"})
<1>1. CASE old \in CirFresh(s) \ {"open"}
  BY <1>1 DEF Circles!Picks, Circles!Open, CirFresh
<1>2. CASE old \notin CirFresh(s) \ {"open"} /\ CirFresh(s) \ {"open"} # {}
  BY <1>2 DEF Circles!Picks, Circles!Open, CirFresh
<1>3. CASE CirFresh(s) \ {"open"} = {}
  <2>1. "open" \in CirFresh(s) /\ old \notin CirFresh(s) \ {"open"}
    BY <1>3
  <2>2. r = "open"
    BY <1>3, <2>1 DEF Circles!Picks, Circles!Open, CirFresh
  <2> QED BY <1>3, <2>1, <2>2
<1> QED BY <1>1, <1>2, <1>3

LEMMA CirFreshDef == ASSUME NEW s PROVE CirFresh(s) = {c \in CirCircles : s[c] # None /\ s[c] < CirLimit}
BY CirNames DEF CirFresh, Circles!Fresh

\* A record that goes leaves nothing behind.
LEMMA CirBlank ==
  ASSUME CirInv, Circles!Blank, cirSettling' \in BOOLEAN
  PROVE  CirInv'
<1>1. cirListed' = FALSE /\ cirRealm' = None /\ cirSeen' = [c \in CirCircles |-> None]
  BY CirNames DEF Circles!Blank
<1>2. cirSeen' \in [CirCircles -> (0..CirLimit) \cup {None}] /\ \A c \in CirCircles : cirSeen'[c] = None
  BY <1>1
<1>3. cirRealm' # "open"
  BY <1>1, CirConstants DEF CirCircles
<1> QED BY <1>1, <1>2, <1>3 DEF CirInv

\* What is fresh in a record whose circles are listened to.
LEMMA CirListed ==
  ASSUME CirInv, UNCHANGED <<cirNets, cirSee, cirSettling>>, cirListed' = TRUE,
         cirSeen' \in [CirCircles -> (0..CirLimit) \cup {None}],
         ~cirSettling => \A c \in CirCircles : cirSeen'[c] # None => c \in CirListening,
         CirFresh(cirSeen)' # {}, cirRealm' \in Circles!Picks(cirRealm, cirSeen')
  PROVE  CirInv'
<1> DEFINE seen == cirSeen'
<1>1. CirFresh(cirSeen)' = CirFresh(seen)
  BY DEF CirFresh, Circles!Fresh
<1>2. cirRealm' \in CirFresh(seen) /\ (cirRealm' = "open" => CirFresh(seen) \subseteq {"open"})
  BY <1>1, CirPicks
<1>3. cirRealm' \in CirCircles /\ cirSeen'[cirRealm'] # None
  BY <1>2, CirFreshDef
<1>4. CirListening' = CirListening
  BY DEF CirListening, Circles!Listening, Circles!Keyed
<1> HIDE DEF seen
<1> QED BY <1>1, <1>2, <1>3, <1>4, CirConstants DEF CirInv, seen

LEMMA CirHear ==
  ASSUME CirInv, NEW c \in CirCircles, Circles!Hear(c)
  PROVE  CirInv'
<1>1. UNCHANGED <<cirNets, cirSee, cirSettling>>
  BY DEF Circles!Hear, Circles!Mine
<1>2. CASE c \in CirListening
  <2>1. cirListed' = TRUE /\ cirSeen' = [cirSeen EXCEPT ![c] = 0] /\ cirRealm' \in Circles!Picks(cirRealm, cirSeen')
    BY <1>2 DEF Circles!Hear, CirListening
  <2>2. cirSeen' \in [CirCircles -> (0..CirLimit) \cup {None}] /\ cirSeen'[c] = 0
        /\ \A d \in CirCircles : d # c => cirSeen'[d] = cirSeen[d]
    BY <2>1, CirConstants DEF CirInv
  <2>3. c \in CirFresh(cirSeen)'
    BY <2>2, CirConstants, CirNames DEF CirFresh, Circles!Fresh
  <2>4. ~cirSettling => \A d \in CirCircles : cirSeen'[d] # None => d \in CirListening
    BY <1>2, <2>2 DEF CirInv
  <2> QED BY <1>1, <2>1, <2>2, <2>3, <2>4, CirListed
<1>3. CASE c \notin CirListening
  <2>1. UNCHANGED <<cirListed, cirRealm, cirSeen>>
    BY <1>3 DEF Circles!Hear, CirListening, Circles!Record
  <2> QED BY <1>1, <2>1 DEF CirInv, CirListening, Circles!Listening, Circles!Keyed, CirFresh, Circles!Fresh
<1> QED BY <1>2, <1>3

LEMMA CirRound ==
  ASSUME CirInv, Circles!Round
  PROVE  CirInv'
<1>1. UNCHANGED <<cirNets, cirSee, cirSettling, cirListed, cirRealm>>
      /\ cirSeen' = [c \in CirCircles |-> IF cirSeen[c] \in {None, CirLimit} THEN cirSeen[c] ELSE cirSeen[c] + 1]
  BY CirNames DEF Circles!Round, Circles!Mine
<1>2. ASSUME NEW c \in CirCircles
      PROVE  /\ cirSeen'[c] \in (0..CirLimit) \cup {None} /\ (cirSeen'[c] = None <=> cirSeen[c] = None)
             /\ (cirSeen'[c] < CirLimit /\ cirSeen'[c] # None => cirSeen[c] < CirLimit)
  <2>1. cirSeen[c] \in (0..CirLimit) \cup {None} /\ CirLimit \in Nat /\ None \notin 0..CirLimit
    BY CirConstants DEF CirInv
  <2>2. CASE cirSeen[c] \in {None, CirLimit}
    BY <1>1, <2>1, <2>2
  <2>3. CASE cirSeen[c] \notin {None, CirLimit}
    <3>1. cirSeen'[c] = cirSeen[c] + 1 /\ cirSeen[c] \in 0..CirLimit
      BY <1>1, <2>1, <2>3
    <3> QED BY <2>1, <2>3, <3>1
  <2> QED BY <2>2, <2>3
<1>3. cirSeen' \in [CirCircles -> (0..CirLimit) \cup {None}]
  BY <1>1, <1>2
<1>4. CirFresh(cirSeen)' \subseteq CirFresh(cirSeen)
  BY <1>2, CirNames DEF CirFresh, Circles!Fresh
<1> QED BY <1>1, <1>2, <1>3, <1>4 DEF CirInv, CirListening, Circles!Listening, Circles!Keyed

LEMMA CirFarewell ==
  ASSUME CirInv, NEW c \in CirCircles, Circles!Farewell(c)
  PROVE  CirInv'
<1>1. UNCHANGED <<cirNets, cirSee, cirSettling>>
  BY DEF Circles!Farewell, Circles!Mine
<1>2. CASE UNCHANGED <<cirListed, cirRealm, cirSeen>>
  BY <1>1, <1>2 DEF CirInv, CirListening, Circles!Listening, Circles!Keyed, CirFresh, Circles!Fresh
<1>3. CASE Circles!Blank
  BY <1>1, <1>3, CirBlank DEF CirInv
<1> DEFINE left == [cirSeen EXCEPT ![c] = None]
<1>4. CASE cirListed /\ CirFresh(left) # {} /\ cirSeen' = left /\ cirRealm' \in Circles!Picks(cirRealm, left) /\ cirListed' = cirListed
  <2>1. left \in [CirCircles -> (0..CirLimit) \cup {None}] /\ left[c] = None
        /\ \A d \in CirCircles : d # c => left[d] = cirSeen[d]
    BY DEF CirInv
  <2> HIDE DEF left
  <2>2. CirFresh(cirSeen)' # {}
    BY <1>4 DEF CirFresh, Circles!Fresh
  <2>3. ~cirSettling => \A d \in CirCircles : cirSeen'[d] # None => d \in CirListening
    BY <1>4, <2>1 DEF CirInv
  <2>4. cirListed' = TRUE
    BY <1>4 DEF CirInv
  <2> QED BY <1>1, <1>4, <2>1, <2>2, <2>3, <2>4, CirListed
<1>5. PICK n \in 0..2 : Circles!Bye(c, n)
  BY DEF Circles!Farewell
<1> QED BY <1>2, <1>3, <1>4, <1>5 DEF Circles!Bye, Circles!Record, CirFresh

LEMMA CirSettle ==
  ASSUME CirInv, Circles!Settle
  PROVE  CirInv'
<1> DEFINE kept == [c \in CirCircles |-> IF c \in CirListening THEN cirSeen[c] ELSE None]
<1>1. UNCHANGED <<cirNets, cirSee>> /\ cirSettling' = FALSE
  BY DEF Circles!Settle
<1>2. CirListening' = CirListening
  BY <1>1 DEF CirListening, Circles!Listening, Circles!Keyed
<1>3. \/ ~cirListed /\ UNCHANGED <<cirListed, cirRealm, cirSeen>>
      \/ cirListed /\ cirRealm \in CirListening /\ cirSeen' = kept /\ UNCHANGED <<cirListed, cirRealm>>
      \/ /\ cirListed /\ cirSeen' = kept /\ cirListed' = cirListed
         /\ cirRealm' \in Circles!Picks(cirRealm, kept) /\ cirRealm \notin CirListening /\ cirRealm' \in CirListening
      \/ Circles!Blank
  BY CirNames DEF Circles!Settle, Circles!Record, CirListening
<1>4. /\ kept \in [CirCircles -> (0..CirLimit) \cup {None}]
      /\ \A c \in CirCircles : kept[c] # None => c \in CirListening /\ kept[c] = cirSeen[c]
  BY DEF CirInv
<1> HIDE DEF kept
<1>5. CirFresh(kept) \subseteq CirFresh(cirSeen)
  BY <1>4, CirFreshDef
<1>6. CASE ~cirListed /\ UNCHANGED <<cirListed, cirRealm, cirSeen>>
  BY <1>1, <1>6 DEF CirInv, CirFresh, Circles!Fresh
<1>7. CASE cirListed /\ cirRealm \in CirListening /\ cirSeen' = kept /\ UNCHANGED <<cirListed, cirRealm>>
  <2>1. CirFresh(cirSeen)' = CirFresh(kept)
    BY <1>7 DEF CirFresh, Circles!Fresh
  <2> QED BY <1>1, <1>2, <1>4, <1>5, <1>7, <2>1 DEF CirInv
<1>8. CASE /\ cirListed /\ cirSeen' = kept /\ cirListed' = cirListed
           /\ cirRealm' \in Circles!Picks(cirRealm, kept) /\ cirRealm \notin CirListening /\ cirRealm' \in CirListening
  <2>1. CirFresh(cirSeen)' = CirFresh(kept)
    BY <1>8 DEF CirFresh, Circles!Fresh
  <2>2. CirFresh(kept) # {}
    <3> SUFFICES ASSUME CirFresh(kept) = {} PROVE FALSE
      OBVIOUS
    <3>1. Circles!Picks(cirRealm, kept) = {cirRealm}
      BY DEF Circles!Picks, CirFresh
    <3> QED BY <1>8, <3>1
  <2>3. cirRealm' = "open" => CirFresh(kept) \subseteq {"open"}
    BY <1>8, <2>2, CirPicks
  <2>4. cirRealm' # None /\ cirListed' = TRUE
    <3>1. cirRealm' \in CirFresh(kept)
      BY <1>8, <2>2, CirPicks
    <3> QED BY <1>8, <3>1, CirFreshDef, CirConstants DEF CirInv
  <2> QED BY <1>1, <1>2, <1>4, <1>8, <2>1, <2>3, <2>4 DEF CirInv
<1>9. CASE Circles!Blank
  BY <1>1, <1>9, CirBlank
<1> QED BY <1>3, <1>6, <1>7, <1>8, <1>9

LEMMA CirStep ==
  ASSUME CirInv, [Circles!Next]_cirVars
  PROVE  CirInv'
<1>1. CASE UNCHANGED <<cirNets, cirSee, cirSettling, cirListed, cirRealm, cirSeen>>
  BY <1>1 DEF CirInv, CirListening, Circles!Listening, Circles!Keyed, CirFresh, Circles!Fresh
<1>2. CASE Circles!Apply
  <2>1. cirSettling' = TRUE /\ UNCHANGED <<cirListed, cirRealm, cirSeen>>
    BY <1>2 DEF Circles!Apply, Circles!Record
  <2> QED BY <2>1 DEF CirInv, CirFresh, Circles!Fresh
<1>3. CASE Circles!Sweep
  <2>1. Circles!Blank /\ cirSettling' = cirSettling
    BY <1>3 DEF Circles!Sweep, Circles!Mine
  <2> QED BY <2>1, CirBlank DEF CirInv
<1>4. ASSUME NEW c \in CirCircles, Circles!Miss(c) PROVE CirInv'
  BY <1>1, <1>4 DEF Circles!Miss, Circles!Mine, Circles!Record
<1>5. CASE Circles!TheyApply
  BY <1>1, <1>5 DEF Circles!TheyApply, Circles!Mine, Circles!Record
<1>6. CASE UNCHANGED cirVars
  BY <1>1, <1>6 DEF cirVars
<1> QED BY <1>2, <1>3, <1>4, <1>5, <1>6, CirHear, CirRound, CirFarewell, CirSettle, CirNames DEF Circles!Next

LEMMA CirInit ==
  ASSUME Circles!Init
  PROVE  CirInv
<1>1. cirListed = FALSE /\ cirSettling = FALSE /\ cirRealm = None /\ cirSeen = [c \in CirCircles |-> None]
  BY CirNames DEF Circles!Init
<1>2. cirSeen \in [CirCircles -> (0..CirLimit) \cup {None}] /\ \A c \in CirCircles : cirSeen[c] = None
  BY <1>1
<1>3. cirRealm # "open"
  BY <1>1, CirConstants DEF CirCircles
<1> QED BY <1>1, <1>2, <1>3 DEF CirInv

\* Once the settings are applied, the record of a neighbour speaks in a circle the node belongs
\* to, and without a key only where it is heard in no keyed one (RealmTable, _pickRealm,
\* retainRealms).
THEOREM RecordsSpeakTheirCircle == Circles!Spec => [](CirInv /\ Circles!SpeaksItsCircle)
<1>1. [Circles!Next]_(Circles!vars) => [Circles!Next]_cirVars
  BY DEF Circles!vars, cirVars
<1>2. CirInv => Circles!SpeaksItsCircle
  BY DEF CirInv, CirListening, CirFresh, Circles!SpeaksItsCircle, Circles!Open
<1> QED BY <1>1, <1>2, CirInit, CirStep, PTL DEF Circles!Spec

------------------------------------------------------------------------------
(* Installation of what the node lacks.                                     *)

InsWork == insWork \in Seq(Installer!Components)

LEMMA InsInOrder == ASSUME NEW S PROVE Installer!InOrder(S) \in Seq(Installer!Components)
<1> DEFINE If(c) == IF c \in S THEN <<c>> ELSE <<>>
<1>1. ASSUME NEW c \in Installer!Components PROVE If(c) \in Seq(Installer!Components)
  <2>1. <<c>> \in Seq(Installer!Components) /\ <<>> \in Seq(Installer!Components)
    OBVIOUS
  <2> QED BY <2>1
<1>2. InsRuntime \in Installer!Components /\ InsServer \in Installer!Components /\ InsClient \in Installer!Components
  BY DEF Installer!Components
<1>3. Installer!InOrder(S) = If(InsRuntime) \o If(InsServer) \o If(InsClient)
  BY DEF Installer!InOrder
<1>4. If(InsRuntime) \in Seq(Installer!Components) /\ If(InsServer) \in Seq(Installer!Components)
      /\ If(InsClient) \in Seq(Installer!Components)
  BY <1>1, <1>2
<1> HIDE DEF If
<1>5. If(InsRuntime) \o If(InsServer) \in Seq(Installer!Components)
  BY <1>4
<1> QED BY <1>3, <1>4, <1>5

LEMMA InsStep ==
  ASSUME InsWork, [Installer!Next]_insVars
  PROVE  InsWork'
<1>1. CASE UNCHANGED insWork
  BY <1>1 DEF InsWork, Installer!Components
<1>2. CASE Installer!Start
  <2>1. insWork' = Installer!InOrder(Installer!Needed)
    BY <1>2 DEF Installer!Start
  <2> QED BY <2>1, InsInOrder DEF InsWork, Installer!Components
<1> QED BY <1>1, <1>2 DEF Installer!Next, insVars, Installer!Check, Installer!BadFile, Installer!Fails, Installer!Install,
           Installer!Declined, Installer!Probe, Installer!Refresh, Installer!ByHand

\* A round ends well only by a probe that has found every program part of it.
LEMMA InsDone ==
  ASSUME InsWork, [Installer!Next]_insVars, insState = "running", insState' = "done",
         NEW i \in 1..Len(insWork), insWork[i] # InsRuntime
  PROVE  insWork[i] \in insInfo' /\ insWork[i] \in insDisk
<1>1. Installer!Probe
  BY DEF Installer!Next, insVars, Installer!Start, Installer!Check, Installer!BadFile, Installer!Fails, Installer!Install,
         Installer!Declined, Installer!Refresh, Installer!ByHand
<1>2. insInfo' = Installer!Seen /\ Installer!Confirmed(Installer!Seen)
  BY <1>1 DEF Installer!Probe
<1>3. insWork[i] \in {InsRuntime, InsServer, InsClient}
  BY DEF InsWork, Installer!Components
<1>4. (IF insWork[i] = InsServer THEN InsServer ELSE InsClient) \in Installer!Seen
  BY <1>2 DEF Installer!Confirmed
<1> QED BY <1>2, <1>3, <1>4 DEF Installer!Seen

LEMMA InsInit == ASSUME Installer!Init PROVE InsWork
BY DEF Installer!Init, InsWork

\* A round of installations that says it is done has been followed by a probe that found what
\* the round installed, and this is what the node announces (Installer.start, refreshAll).
THEOREM DoneIsWhatIsFound == Installer!Spec => Installer!DoneIsKnown
<1>1. [Installer!Next]_(Installer!instVars) => [Installer!Next]_insVars
  BY DEF Installer!instVars, insVars
<1>2. ASSUME InsWork, [Installer!Next]_insVars
      PROVE  [insState = "running" /\ insState' = "done" =>
               \A i \in 1..Len(insWork) : insWork[i] # InsRuntime => insWork[i] \in insInfo' /\ insWork[i] \in insDisk]_(Installer!instVars)
  BY <1>2, InsDone
<1> QED BY <1>1, <1>2, InsInit, InsStep, PTL DEF Installer!Spec, Installer!DoneIsKnown

------------------------------------------------------------------------------
(* Virtual networks: where an adapter is plugged in.                        *)

NetTyped ==
  /\ netSwitches \in [NetSwitches -> NetGuids \cup {None, Loose}]
  /\ netTaps \in [NetGuids -> Networks!TapRecs \cup {None}]
  /\ netHolder \in [NetGuids -> Networks!Holders \cup {None}]
  /\ netOpened \in [NetGuids -> {"holder", "stray", None}]
  /\ netOp \in Networks!Ops \cup {None}

\* Whoever keeps an adapter open does so where its record has it, or as the uplink of a switch;
\* the switch of a record is there; a relay that has an adapter open has a holder.
NetVnic(g) == netTaps[g] # None /\ netTaps[g].role = "vnic"
NetHeld(g) ==
  netHolder[g] # None =>
    \/ NetVnic(g) /\ netHolder[g].at = (IF netTaps[g].switch = None THEN Loose ELSE netTaps[g].switch)
    \/ netHolder[g].at \in NetSwitches /\ netSwitches[netHolder[g].at] = g
NetKnown(g) == NetVnic(g) /\ netTaps[g].switch # None => netSwitches[netTaps[g].switch] # Loose
NetSound(g) == NetHeld(g) /\ NetKnown(g) /\ (netOpened[g] = "holder" => netHolder[g] # None)

\* What the change under way relies on from one step to the next.
NetChange ==
  netOp # None =>
    /\ netOp.kind \in {"createVnic", "delete", "mac", "port", "uplink", "newSwitch"} => netOp.guid \in NetGuids
    /\ netOp.kind = "createVnic" =>
         /\ netOp.to # None => netSwitches[netOp.to] # Loose
         /\ netOp.at \in {"create", "name", "remove"} => netHolder[netOp.guid] = None
         /\ netOp.at = "name" => NetVnic(netOp.guid)
    /\ netOp.kind = "delete" => netHolder[netOp.guid] = None
    /\ netOp.kind = "mac" /\ netOp.at = "mac" => NetVnic(netOp.guid)
    /\ netOp.kind \in {"uplink", "newSwitch"} =>
         netOp.to \in NetSwitches /\ netSwitches[netOp.to] \in {None, Loose} /\ netHolder[netOp.guid] = None
    /\ netOp.kind \in {"dropSwitch", "dropUplink"} =>
         /\ netOp.to \in NetSwitches
         /\ netOp.at \in {"unbridge", "remove"} =>
              netOp.guid \in NetGuids /\ netSwitches[netOp.to] = netOp.guid /\ netHolder[netOp.guid] = None
         /\ netOp.at = "ports" => \A g \in NetGuids : netSwitches[netOp.to] = g => netHolder[g] = None /\ ~NetVnic(g)
    /\ netOp.at = "ready" => netOp.kind \in {"createVnic", "mac", "port"}
    /\ netOp.at = "unbridge" => netOp.kind \in {"dropSwitch", "dropUplink"}

NetInv == NetTyped /\ (\A g \in NetGuids : NetSound(g)) /\ NetChange

LEMMA NetConstants ==
  /\ None \notin NetGuids \cup NetSwitches /\ Loose \notin NetGuids \cup NetSwitches /\ Loose # None
  /\ None \notin Networks!TapRecs /\ None \notin Networks!Holders /\ None \notin Networks!Ops /\ None # "holder"
  /\ NetMaxFalls \in Nat /\ NetForeign \subseteq NetGuids
BY ConstantsOK DEF Networks!ConstantsOK

----------------------------------------------------------------------------

LEMMA NetNew ==
  ASSUME NEW place \in Networks!Places
  PROVE  Networks!New(place) \in Networks!Holders /\ Networks!New(place).at = place
<1>1. 0 \in 0..NetMaxFalls
  BY NetConstants
<1> QED BY <1>1 DEF Networks!New, Networks!Holders

LEMMA NetPlug ==
  ASSUME NetTyped, NEW g \in NetGuids, NEW place \in Networks!Places, Networks!Plug(g, place)
  PROVE  /\ netHolder' \in [NetGuids -> Networks!Holders \cup {None}] /\ netHolder'[g] # None /\ netHolder'[g].at = place
         /\ \A h \in NetGuids \ {g} : netHolder'[h] = netHolder[h]
BY NetNew, NetConstants DEF NetTyped, Networks!Plug

LEMMA NetUnplug ==
  ASSUME NetTyped, NEW g \in NetGuids, Networks!Unplug(g)
  PROVE  /\ netHolder' \in [NetGuids -> Networks!Holders \cup {None}] /\ netHolder'[g] = None
         /\ \A h \in NetGuids \ {g} : netHolder'[h] = netHolder[h]
         /\ netOpened' \in [NetGuids -> {"holder", "stray", None}] /\ netOpened'[g] # "holder"
         /\ \A h \in NetGuids \ {g} : netOpened'[h] = netOpened[h]
BY NetConstants DEF NetTyped, Networks!Unplug

LEMMA NetReplug ==
  ASSUME NetTyped, NEW g \in NetGuids, NEW place \in Networks!Places, Networks!Replug(g, place)
  PROVE  /\ netHolder' \in [NetGuids -> Networks!Holders \cup {None}] /\ netHolder'[g] # None /\ netHolder'[g].at = place
         /\ \A h \in NetGuids \ {g} : netHolder'[h] = netHolder[h]
         /\ netOpened' \in [NetGuids -> {"holder", "stray", None}] /\ netOpened'[g] # "holder"
         /\ \A h \in NetGuids \ {g} : netOpened'[h] = netOpened[h]
BY NetNew, NetConstants DEF NetTyped, Networks!Replug

LEMMA NetForgets ==
  ASSUME NetTyped, NEW g \in NetGuids, Networks!Forgets(g)
  PROVE  /\ netTaps' \in [NetGuids -> Networks!TapRecs \cup {None}] /\ netTaps'[g] = None
         /\ \A h \in NetGuids \ {g} : netTaps'[h] = netTaps[h]
BY DEF NetTyped, Networks!Forgets

LEMMA NetGoes ==
  ASSUME netOp \in Networks!Ops, NEW pc \in {"create", "name", "ready", "ip", "remove", "mac", "bridge", "unbridge", "ports"},
         Networks!Goes(pc)
  PROVE  netOp' \in Networks!Ops /\ netOp'.kind = netOp.kind /\ netOp'.guid = netOp.guid /\ netOp'.to = netOp.to /\ netOp'.at = pc
BY DEF Networks!Goes, Networks!Ops

\* A step that touches one adapter, and no switch.
LEMMA NetOne ==
  ASSUME NetInv, NEW g \in NetGuids, UNCHANGED netSwitches, NetSound(g)',
         \A h \in NetGuids \ {g} : /\ netHolder'[h] = netHolder[h] /\ netTaps'[h] = netTaps[h]
                                   /\ netOpened'[h] = netOpened[h]
  PROVE  \A h \in NetGuids : NetSound(h)'
<1>1. ASSUME NEW h \in NetGuids \ {g} PROVE NetSound(h)'
  BY <1>1 DEF NetInv, NetSound, NetHeld, NetKnown, NetVnic
<1> QED BY <1>1

\* A step that touches no adapter and no switch.
LEMMA NetNone ==
  ASSUME NetInv, UNCHANGED <<netSwitches, netHolder, netTaps, netOpened>>
  PROVE  \A h \in NetGuids : NetSound(h)'
BY DEF NetInv, NetSound, NetHeld, NetKnown, NetVnic

\* What happens to the relays by itself leaves every holder where it is.
LEMMA NetFrame ==
  ASSUME NetInv, UNCHANGED <<netSwitches, netTaps, netOp>>,
         netHolder' \in [NetGuids -> Networks!Holders \cup {None}], netOpened' \in [NetGuids -> {"holder", "stray", None}],
         \A h \in NetGuids : /\ netHolder'[h] = None <=> netHolder[h] = None
                             /\ netHolder[h] # None => netHolder'[h].at = netHolder[h].at
                             /\ netOpened'[h] = "holder" => netHolder[h] # None
  PROVE  NetInv'
<1>1. NetTyped'
  BY DEF NetInv, NetTyped
<1>2. ASSUME NEW h \in NetGuids PROVE NetSound(h)'
  BY DEF NetInv, NetSound, NetHeld, NetKnown, NetVnic
<1>3. NetChange'
  BY DEF NetInv, NetChange, NetVnic
<1> QED BY <1>1, <1>2, <1>3 DEF NetInv
\* How a holder fares is changed, not where it is.
LEMMA NetFares ==
  ASSUME NEW r \in Networks!Holders, NEW v \in {"opening", "up", "down"}, NEW s, s = [r EXCEPT !.is = v]
  PROVE  s \in Networks!Holders /\ s.at = r.at /\ s # None
<1>1. s \in Networks!Holders /\ s.at = r.at
  BY DEF Networks!Holders
<1> QED BY <1>1, NetConstants

LEMMA NetRelays ==
  ASSUME NetInv, NEW g \in NetGuids,
         \/ Networks!Opens(g) \/ Networks!GivesUp(g) \/ Networks!StrayOpens(g) \/ Networks!StrayGivesUp(g)
         \/ Networks!StrayCloses(g) \/ Networks!Falls(g) \/ Networks!OtherOpens(g) \/ Networks!OtherCloses(g)
         \/ Networks!RemovedByHand(g)
  PROVE  NetInv'
<1>1. NetTyped /\ \A h \in NetGuids : netOpened[h] = "holder" => netHolder[h] # None
  BY DEF NetInv, NetSound
<1>2. CASE UNCHANGED <<netSwitches, netTaps, netOp, netHolder, netOpened>>
  BY <1>1, <1>2, NetFrame DEF NetTyped
<1>3. CASE UNCHANGED <<netSwitches, netTaps, netOp, netHolder>> /\ \E v \in {"stray", None} : netOpened' = [netOpened EXCEPT ![g] = v]
  BY <1>1, <1>3, NetFrame, NetConstants DEF NetTyped
<1>4. CASE Networks!Opens(g)
  <2>1. /\ netHolder[g] # None /\ netOpened' = [netOpened EXCEPT ![g] = "holder"] /\ UNCHANGED <<netSwitches, netTaps, netOp>>
        /\ netHolder' = [netHolder EXCEPT ![g] = [netHolder[g] EXCEPT !.is = "up"]]
    BY <1>4 DEF Networks!Opens
  <2>2. netHolder'[g] \in Networks!Holders /\ netHolder'[g].at = netHolder[g].at /\ netHolder'[g] # None
    BY <1>1, <2>1, NetFares DEF NetTyped
  <2> QED BY <1>1, <2>1, <2>2, NetFrame, NetConstants DEF NetTyped
<1>5. CASE Networks!GivesUp(g)
  <2>1. /\ netHolder[g] # None /\ UNCHANGED <<netSwitches, netTaps, netOp, netOpened>>
        /\ netHolder' = [netHolder EXCEPT ![g] = [netHolder[g] EXCEPT !.is = "down"]]
    BY <1>5 DEF Networks!GivesUp
  <2>2. netHolder'[g] \in Networks!Holders /\ netHolder'[g].at = netHolder[g].at /\ netHolder'[g] # None
    BY <1>1, <2>1, NetFares DEF NetTyped
  <2> QED BY <1>1, <2>1, <2>2, NetFrame, NetConstants DEF NetTyped
<1>6. CASE Networks!Falls(g)
  <2> DEFINE again == Networks!Again(netHolder[g])
             down == [netHolder[g] EXCEPT !.is = "down"]
  <2>1. /\ netOpened[g] = "holder" /\ netOpened' = [netOpened EXCEPT ![g] = None] /\ UNCHANGED <<netSwitches, netTaps, netOp>>
        /\ netHolder' = [netHolder EXCEPT ![g] = IF netHolder[g].falls < NetMaxFalls THEN again ELSE down]
    BY <1>6 DEF Networks!Falls
  <2>2. netHolder[g] \in Networks!Holders /\ netHolder[g] # None
    BY <1>1, <2>1 DEF NetTyped
  <2>3. netHolder[g].falls < NetMaxFalls => again \in Networks!Holders /\ again.at = netHolder[g].at
    BY <2>2, NetConstants DEF Networks!Again, Networks!Holders
  <2>4. down \in Networks!Holders /\ down.at = netHolder[g].at
    BY <2>2, NetFares
  <2> HIDE DEF again, down
  <2>5. /\ netHolder'[g] \in Networks!Holders /\ netHolder'[g].at = netHolder[g].at
        /\ netHolder' \in [NetGuids -> Networks!Holders \cup {None}] /\ \A h \in NetGuids \ {g} : netHolder'[h] = netHolder[h]
    BY <1>1, <2>1, <2>3, <2>4 DEF NetTyped
  <2>6. netHolder'[g] # None
    BY <2>5, NetConstants
  <2> QED BY <1>1, <2>1, <2>2, <2>5, <2>6, NetFrame, NetConstants DEF NetTyped
<1> QED BY <1>2, <1>3, <1>4, <1>5, <1>6 DEF Networks!StrayOpens, Networks!StrayGivesUp, Networks!StrayCloses, Networks!OtherOpens,
           Networks!OtherCloses, Networks!RemovedByHand

----------------------------------------------------------------------------
(* Changes begin. *)

LEMMA NetBegins ==
  ASSUME NEW kind \in {"createVnic", "delete", "mac", "port", "uplink", "newSwitch", "dropSwitch", "dropUplink"},
         NEW g \in NetGuids \cup {None}, NEW s \in NetSwitches \cup {None},
         NEW pc \in {"create", "name", "ready", "ip", "remove", "mac", "bridge", "unbridge", "ports"},
         Networks!Begins(kind, g, s, pc)
  PROVE  /\ netOp = None /\ netOp' \in Networks!Ops /\ netOp'.kind = kind /\ netOp'.guid = g /\ netOp'.to = s /\ netOp'.at = pc
BY DEF Networks!Begins, Networks!Ops

LEMMA NetCreateVnic ==
  ASSUME NetInv, NEW g \in NetGuids, NEW s \in NetSwitches \cup {None}, Networks!CreateVnic(g, s)
  PROVE  NetInv'
<1>1. /\ netHolder[g] = None /\ (s # None => netSwitches[s] # Loose)
      /\ UNCHANGED <<netSwitches, netHolder, netTaps, netOpened>> /\ Networks!Begins("createVnic", g, s, "create")
  BY DEF Networks!CreateVnic, Networks!Fresh, Networks!Exists, Networks!unplugged
<1>2. netOp' \in Networks!Ops /\ netOp'.kind = "createVnic" /\ netOp'.guid = g /\ netOp'.to = s /\ netOp'.at = "create"
  BY <1>1, NetBegins
<1>3. NetTyped' /\ \A h \in NetGuids : NetSound(h)'
  BY <1>1, <1>2, NetNone DEF NetInv, NetTyped
<1>4. NetChange'
  BY <1>1, <1>2 DEF NetChange
<1> QED BY <1>3, <1>4 DEF NetInv

LEMMA NetBuildUplink ==
  ASSUME NetInv, NEW g \in NetGuids, NEW s \in NetSwitches, NEW kind \in {"uplink", "newSwitch"}, Networks!BuildUplink(kind, g, s)
  PROVE  NetInv'
<1>1. /\ netHolder[g] = None /\ netSwitches[s] \in {None, Loose}
      /\ UNCHANGED <<netSwitches, netHolder, netTaps, netOpened>> /\ Networks!Begins(kind, g, s, "create")
  BY DEF Networks!BuildUplink, Networks!Fresh, Networks!unplugged
<1>2. netOp' \in Networks!Ops /\ netOp'.kind = kind /\ netOp'.guid = g /\ netOp'.to = s /\ netOp'.at = "create"
  BY <1>1, NetBegins
<1>3. NetTyped' /\ \A h \in NetGuids : NetSound(h)'
  BY <1>1, <1>2, NetNone DEF NetInv, NetTyped
<1>4. NetChange'
  BY <1>1, <1>2 DEF NetChange
<1> QED BY <1>3, <1>4 DEF NetInv

LEMMA NetDeleteSwitch ==
  ASSUME NetInv, NEW s \in NetSwitches, Networks!DeleteSwitch(s)
  PROVE  NetInv'
<1>1. /\ netSwitches[s] = None
      /\ UNCHANGED <<netSwitches, netHolder, netTaps, netOpened>> /\ Networks!Begins("dropSwitch", None, s, "ports")
  BY DEF Networks!DeleteSwitch, Networks!unplugged
<1>2. netOp' \in Networks!Ops /\ netOp'.kind = "dropSwitch" /\ netOp'.guid = None /\ netOp'.to = s /\ netOp'.at = "ports"
  BY <1>1, NetBegins
<1>3. NetTyped' /\ \A h \in NetGuids : NetSound(h)'
  BY <1>1, <1>2, NetNone DEF NetInv, NetTyped
<1>4. NetChange'
  BY <1>1, <1>2, NetConstants DEF NetChange
<1> QED BY <1>3, <1>4 DEF NetInv

LEMMA NetDropUplink ==
  ASSUME NetInv, NEW s \in NetSwitches, NEW kind \in {"dropSwitch", "dropUplink"}, Networks!DropUplink(kind, s)
  PROVE  NetInv'
<1>1. PICK g \in NetGuids : g = netSwitches[s]
  BY DEF NetInv, NetTyped, Networks!DropUplink, Networks!Exists
<1>2. /\ UNCHANGED <<netSwitches, netTaps>>
      /\ Networks!Begins(kind, g, s, "unbridge") /\ Networks!Unplug(g)
  BY <1>1 DEF Networks!DropUplink
<1>3. netOp' \in Networks!Ops /\ netOp'.kind = kind /\ netOp'.guid = g /\ netOp'.to = s /\ netOp'.at = "unbridge"
  BY <1>1, <1>2, NetBegins
<1>4. /\ netHolder' \in [NetGuids -> Networks!Holders \cup {None}] /\ netHolder'[g] = None
      /\ \A h \in NetGuids \ {g} : netHolder'[h] = netHolder[h]
      /\ netOpened' \in [NetGuids -> {"holder", "stray", None}] /\ netOpened'[g] # "holder"
      /\ \A h \in NetGuids \ {g} : netOpened'[h] = netOpened[h]
  BY <1>1, <1>2, NetUnplug DEF NetInv
<1>5. NetSound(g)'
  BY <1>1, <1>2, <1>4 DEF NetInv, NetSound, NetHeld, NetKnown, NetVnic
<1>6. NetTyped' /\ \A h \in NetGuids : NetSound(h)'
  BY <1>1, <1>2, <1>3, <1>4, <1>5, NetOne DEF NetInv, NetTyped
<1>7. NetChange'
  BY <1>1, <1>2, <1>3, <1>4 DEF NetChange
<1> QED BY <1>6, <1>7 DEF NetInv

\* A change ends, and nobody is left without a record.
LEMMA NetDelete ==
  ASSUME NetInv, NEW g \in NetGuids, Networks!Delete(g)
  PROVE  NetInv'
<1>1. /\ Networks!Unplug(g) /\ UNCHANGED netSwitches
      /\ \/ Networks!Begins("delete", g, None, "remove") /\ UNCHANGED netTaps
         \/ netOp = None /\ Networks!Forgets(g) /\ UNCHANGED netOp
  BY DEF Networks!Delete
<1>2. /\ netHolder' \in [NetGuids -> Networks!Holders \cup {None}] /\ netHolder'[g] = None
      /\ \A h \in NetGuids \ {g} : netHolder'[h] = netHolder[h]
      /\ netOpened' \in [NetGuids -> {"holder", "stray", None}] /\ netOpened'[g] # "holder"
      /\ \A h \in NetGuids \ {g} : netOpened'[h] = netOpened[h]
  BY <1>1, NetUnplug DEF NetInv
<1>3. /\ netTaps' \in [NetGuids -> Networks!TapRecs \cup {None}] /\ (netTaps'[g] = None \/ netTaps'[g] = netTaps[g])
      /\ \A h \in NetGuids \ {g} : netTaps'[h] = netTaps[h]
  BY <1>1, NetForgets DEF NetInv, NetTyped
<1>4. NetSound(g)'
  BY <1>1, <1>2, <1>3 DEF NetInv, NetSound, NetHeld, NetKnown, NetVnic
<1>5. \A h \in NetGuids : NetSound(h)'
  BY <1>1, <1>2, <1>3, <1>4, NetOne
<1>6. CASE Networks!Begins("delete", g, None, "remove")
  <2>1. netOp' \in Networks!Ops /\ netOp'.kind = "delete" /\ netOp'.guid = g /\ netOp'.to = None /\ netOp'.at = "remove"
    BY <1>6, NetBegins
  <2>2. NetTyped' /\ NetChange'
    BY <1>1, <1>2, <1>3, <2>1 DEF NetInv, NetTyped, NetChange
  <2> QED BY <1>5, <2>2 DEF NetInv
<1>7. CASE netOp = None /\ UNCHANGED netOp
  BY <1>1, <1>2, <1>3, <1>5, <1>7 DEF NetInv, NetTyped, NetChange
<1> QED BY <1>1, <1>6, <1>7

LEMMA NetChangeMac ==
  ASSUME NetInv, NEW g \in NetGuids, Networks!ChangeMac(g)
  PROVE  NetInv'
<1>1. /\ Networks!Unplug(g) /\ UNCHANGED <<netSwitches, netTaps>> /\ NetVnic(g) /\ Networks!Begins("mac", g, None, "mac")
  BY DEF Networks!ChangeMac, Networks!Vnic, NetVnic
<1>2. /\ netHolder' \in [NetGuids -> Networks!Holders \cup {None}] /\ netHolder'[g] = None
      /\ \A h \in NetGuids \ {g} : netHolder'[h] = netHolder[h]
      /\ netOpened' \in [NetGuids -> {"holder", "stray", None}] /\ netOpened'[g] # "holder"
      /\ \A h \in NetGuids \ {g} : netOpened'[h] = netOpened[h]
  BY <1>1, NetUnplug DEF NetInv
<1>3. netOp' \in Networks!Ops /\ netOp'.kind = "mac" /\ netOp'.guid = g /\ netOp'.to = None /\ netOp'.at = "mac"
  BY <1>1, NetBegins
<1>4. NetSound(g)'
  BY <1>1, <1>2 DEF NetInv, NetSound, NetHeld, NetKnown, NetVnic
<1>5. NetTyped' /\ \A h \in NetGuids : NetSound(h)'
  BY <1>1, <1>2, <1>3, <1>4, NetOne DEF NetInv, NetTyped
<1>6. NetChange'
  BY <1>1, <1>3 DEF NetChange, NetVnic
<1> QED BY <1>5, <1>6 DEF NetInv
\* The record of an adapter that is plugged into a switch, or out of one.
LEMMA NetMoved ==
  ASSUME NetTyped, NEW g \in NetGuids, netTaps[g] # None, NEW s \in NetSwitches \cup {None},
         netTaps' = [netTaps EXCEPT ![g].switch = s]
  PROVE  /\ netTaps' \in [NetGuids -> Networks!TapRecs \cup {None}] /\ netTaps'[g] # None
         /\ netTaps'[g].switch = s /\ netTaps'[g].role = netTaps[g].role
         /\ \A h \in NetGuids \ {g} : netTaps'[h] = netTaps[h]
<1> DEFINE new == [netTaps[g] EXCEPT !.switch = s]
<1>1. netTaps[g] \in Networks!TapRecs /\ netTaps' = [netTaps EXCEPT ![g] = new]
  BY DEF NetTyped
<1>2. new \in Networks!TapRecs /\ new.switch = s /\ new.role = netTaps[g].role
  BY <1>1 DEF Networks!TapRecs
<1> HIDE DEF new
<1> QED BY <1>1, <1>2, NetConstants DEF NetTyped

LEMMA NetAdopt ==
  ASSUME NetInv, NEW g \in NetGuids, NEW s \in NetSwitches, Networks!Adopt(g, s)
  PROVE  NetInv'
<1> DEFINE new == [role |-> "vnic", switch |-> s, adopted |-> TRUE]
<1>1. /\ netSwitches[s] # Loose /\ Networks!Begins("port", g, s, "ready") /\ Networks!Plug(g, s)
      /\ netTaps' = [netTaps EXCEPT ![g] = new] /\ UNCHANGED <<netSwitches, netOpened>>
  BY DEF Networks!Adopt, Networks!Exists
<1>2. new \in Networks!TapRecs /\ new.role = "vnic" /\ new.switch = s
  BY DEF Networks!TapRecs
<1> HIDE DEF new
<1>3. /\ netTaps' \in [NetGuids -> Networks!TapRecs \cup {None}] /\ netTaps'[g] = new /\ new # None
      /\ \A h \in NetGuids \ {g} : netTaps'[h] = netTaps[h]
  BY <1>1, <1>2, NetConstants DEF NetInv, NetTyped
<1>4. s \in Networks!Places /\ s # None
  BY NetConstants DEF Networks!Places
<1>5. /\ netHolder' \in [NetGuids -> Networks!Holders \cup {None}] /\ netHolder'[g] # None /\ netHolder'[g].at = s
      /\ \A h \in NetGuids \ {g} : netHolder'[h] = netHolder[h]
  BY <1>1, <1>4, NetPlug DEF NetInv
<1>6. netOp' \in Networks!Ops /\ netOp'.kind = "port" /\ netOp'.guid = g /\ netOp'.to = s /\ netOp'.at = "ready"
  BY <1>1, NetBegins
<1>7. NetSound(g)'
  BY <1>1, <1>2, <1>3, <1>4, <1>5 DEF NetSound, NetHeld, NetKnown, NetVnic
<1>8. NetTyped' /\ \A h \in NetGuids : NetSound(h)'
  BY <1>1, <1>3, <1>5, <1>6, <1>7, NetOne DEF NetInv, NetTyped
<1>9. NetChange'
  BY <1>6 DEF NetChange
<1> QED BY <1>8, <1>9 DEF NetInv

\* Another program's adapter is given back: no holder, no record.
LEMMA NetGivesBack ==
  ASSUME NetInv, NEW g \in NetGuids, Networks!GivesBack(g), UNCHANGED netSwitches
  PROVE  /\ \A h \in NetGuids : NetSound(h)'
         /\ netHolder' \in [NetGuids -> Networks!Holders \cup {None}] /\ netHolder'[g] = None
         /\ netOpened' \in [NetGuids -> {"holder", "stray", None}]
         /\ netTaps' \in [NetGuids -> Networks!TapRecs \cup {None}] /\ netTaps'[g] = None
         /\ \A h \in NetGuids \ {g} : netHolder'[h] = netHolder[h] /\ netTaps'[h] = netTaps[h]
<1>1. /\ netHolder' \in [NetGuids -> Networks!Holders \cup {None}] /\ netHolder'[g] = None
      /\ \A h \in NetGuids \ {g} : netHolder'[h] = netHolder[h]
      /\ netOpened' \in [NetGuids -> {"holder", "stray", None}] /\ netOpened'[g] # "holder"
      /\ \A h \in NetGuids \ {g} : netOpened'[h] = netOpened[h]
  BY NetUnplug DEF NetInv, Networks!GivesBack
<1>2. /\ netTaps' \in [NetGuids -> Networks!TapRecs \cup {None}] /\ netTaps'[g] = None
      /\ \A h \in NetGuids \ {g} : netTaps'[h] = netTaps[h]
  BY NetForgets DEF NetInv, Networks!GivesBack
<1>3. NetSound(g)'
  BY <1>1, <1>2 DEF NetSound, NetHeld, NetKnown, NetVnic
<1> QED BY <1>1, <1>2, <1>3, NetOne

LEMMA NetRelease ==
  ASSUME NetInv, NEW g \in NetGuids, Networks!Release(g)
  PROVE  NetInv'
<1>1. netOp = None /\ netOp' = None /\ Networks!GivesBack(g) /\ UNCHANGED netSwitches
  BY DEF Networks!Release
<1> QED BY <1>1, NetGivesBack DEF NetInv, NetTyped, NetChange

LEMMA NetMove ==
  ASSUME NetInv, NEW g \in NetGuids, NEW s \in NetSwitches \cup {None}, Networks!Move(g, s)
  PROVE  NetInv'
<1> DEFINE place == IF s = None THEN Loose ELSE s
<1>1. /\ (s # None => netSwitches[s] # Loose) /\ netTaps[g] # None /\ netTaps[g].role = "vnic"
      /\ Networks!Begins("port", g, s, "ready") /\ netTaps' = [netTaps EXCEPT ![g].switch = s]
      /\ Networks!Replug(g, place) /\ UNCHANGED netSwitches
  BY DEF Networks!Move, Networks!Exists, Networks!Vnic
<1>2. place \in Networks!Places
  BY DEF Networks!Places
<1>3. /\ netTaps' \in [NetGuids -> Networks!TapRecs \cup {None}] /\ netTaps'[g] # None
      /\ netTaps'[g].switch = s /\ netTaps'[g].role = netTaps[g].role
      /\ \A h \in NetGuids \ {g} : netTaps'[h] = netTaps[h]
  BY <1>1, NetMoved DEF NetInv
<1> HIDE DEF place
<1>4. /\ netHolder' \in [NetGuids -> Networks!Holders \cup {None}] /\ netHolder'[g] # None /\ netHolder'[g].at = place
      /\ \A h \in NetGuids \ {g} : netHolder'[h] = netHolder[h]
      /\ netOpened' \in [NetGuids -> {"holder", "stray", None}] /\ netOpened'[g] # "holder"
      /\ \A h \in NetGuids \ {g} : netOpened'[h] = netOpened[h]
  BY <1>1, <1>2, NetReplug DEF NetInv
<1>5. netOp' \in Networks!Ops /\ netOp'.kind = "port" /\ netOp'.guid = g /\ netOp'.to = s /\ netOp'.at = "ready"
  BY <1>1, NetBegins
<1>6. NetSound(g)'
  BY <1>1, <1>3, <1>4 DEF NetSound, NetHeld, NetKnown, NetVnic, place
<1>7. NetTyped' /\ \A h \in NetGuids : NetSound(h)'
  BY <1>1, <1>3, <1>4, <1>5, <1>6, NetOne DEF NetInv, NetTyped
<1>8. NetChange'
  BY <1>5 DEF NetChange
<1> QED BY <1>7, <1>8 DEF NetInv

\* A switch without a card comes to be: no record was in it.
LEMMA NetCreateSwitch ==
  ASSUME NetInv, NEW s \in NetSwitches, Networks!CreateSwitch(s)
  PROVE  NetInv'
<1>1. /\ netSwitches[s] = Loose /\ netOp = None /\ netOp' = None /\ netSwitches' = [netSwitches EXCEPT ![s] = None]
      /\ UNCHANGED <<netHolder, netTaps, netOpened>>
  BY DEF Networks!CreateSwitch, Networks!Exists, Networks!unplugged
<1>2. ASSUME NEW h \in NetGuids PROVE NetSound(h)'
  BY <1>1, NetConstants DEF NetInv, NetTyped, NetSound, NetHeld, NetKnown, NetVnic
<1>3. NetTyped' /\ NetChange'
  BY <1>1 DEF NetInv, NetTyped, NetChange
<1> QED BY <1>2, <1>3 DEF NetInv

----------------------------------------------------------------------------
(* Changes go on. *)

LEMMA NetOpType == ASSUME NetInv, netOp # None PROVE netOp \in Networks!Ops
BY DEF NetInv, NetTyped

\* What a change has made is written down.
LEMMA NetCreated ==
  ASSUME NetInv, netOp # None, netOp.guid \in NetGuids, netHolder[netOp.guid] = None, NEW role \in {"vnic", "uplink"},
         role = "vnic" /\ netOp.to # None => netSwitches[netOp.to] # Loose,
         Networks!Created(role), UNCHANGED <<netSwitches, netHolder, netOpened>>
  PROVE  /\ netTaps' \in [NetGuids -> Networks!TapRecs \cup {None}] /\ netTaps'[netOp.guid] # None
         /\ netTaps'[netOp.guid].role = role /\ \A h \in NetGuids : NetSound(h)'
<1> DEFINE new == [role |-> role, switch |-> netOp.to, adopted |-> FALSE]
<1>1. PICK g \in NetGuids : g = netOp.guid
  OBVIOUS
<1>2. PICK to \in NetSwitches \cup {None} : to = netOp.to
  BY NetOpType DEF Networks!Ops
<1>3. netTaps' = [netTaps EXCEPT ![g] = new]
  BY <1>1 DEF Networks!Created
<1>4. new \in Networks!TapRecs /\ new.role = role /\ new.switch = to
  BY <1>2 DEF Networks!TapRecs
<1> HIDE DEF new
<1>5. /\ netTaps' \in [NetGuids -> Networks!TapRecs \cup {None}] /\ netTaps'[g] = new /\ new # None
      /\ \A h \in NetGuids \ {g} : netTaps'[h] = netTaps[h]
  BY <1>3, <1>4, NetConstants DEF NetInv, NetTyped
<1>6. NetSound(g)'
  BY <1>1, <1>2, <1>4, <1>5 DEF NetInv, NetSound, NetHeld, NetKnown, NetVnic
<1> QED BY <1>1, <1>4, <1>5, <1>6, NetOne

LEMMA NetVnicCreated ==
  ASSUME NetInv, Networks!VnicCreated
  PROVE  NetInv'
<1>1. /\ netOp # None /\ netOp.kind = "createVnic" /\ netOp.at = "create"
      /\ UNCHANGED <<netSwitches, netHolder, netOpened>>
  BY DEF Networks!VnicCreated, Networks!At, Networks!unplugged
<1>2. netOp.guid \in NetGuids /\ netHolder[netOp.guid] = None /\ (netOp.to # None => netSwitches[netOp.to] # Loose)
  BY <1>1 DEF NetInv, NetChange
<1>3. CASE Networks!Created("vnic") /\ Networks!Goes("name")
  <2>1. /\ netTaps' \in [NetGuids -> Networks!TapRecs \cup {None}] /\ netTaps'[netOp.guid] # None
        /\ netTaps'[netOp.guid].role = "vnic" /\ \A h \in NetGuids : NetSound(h)'
    BY <1>1, <1>2, <1>3, NetCreated
  <2>2. netOp' \in Networks!Ops /\ netOp'.kind = netOp.kind /\ netOp'.guid = netOp.guid /\ netOp'.to = netOp.to /\ netOp'.at = "name"
    BY <1>1, <1>3, NetGoes, NetOpType
  <2>3. NetTyped' /\ NetChange'
    BY <1>1, <1>2, <2>1, <2>2 DEF NetInv, NetTyped, NetChange, NetVnic
  <2> QED BY <2>1, <2>3 DEF NetInv
<1>4. CASE netOp' = None /\ UNCHANGED netTaps
  BY <1>1, <1>4, NetNone DEF NetInv, NetTyped, NetChange
<1> QED BY <1>3, <1>4 DEF Networks!VnicCreated, Networks!Ends

LEMMA NetUplinkCreated ==
  ASSUME NetInv, Networks!UplinkCreated
  PROVE  NetInv'
<1>1. /\ netOp # None /\ netOp.kind \in {"uplink", "newSwitch"} /\ netOp.at = "create"
      /\ UNCHANGED <<netSwitches, netHolder, netOpened>>
  BY DEF Networks!UplinkCreated, Networks!At, Networks!unplugged
<1>2. /\ netOp.guid \in NetGuids /\ netHolder[netOp.guid] = None /\ netOp.to \in NetSwitches
      /\ netSwitches[netOp.to] \in {None, Loose}
  BY <1>1 DEF NetInv, NetChange
<1>3. CASE Networks!Created("uplink") /\ Networks!Goes("bridge")
  <2>1. netTaps' \in [NetGuids -> Networks!TapRecs \cup {None}] /\ \A h \in NetGuids : NetSound(h)'
    BY <1>1, <1>2, <1>3, NetCreated
  <2>2. netOp' \in Networks!Ops /\ netOp'.kind = netOp.kind /\ netOp'.guid = netOp.guid /\ netOp'.to = netOp.to /\ netOp'.at = "bridge"
    BY <1>1, <1>3, NetGoes, NetOpType
  <2>3. NetTyped' /\ NetChange'
    BY <1>1, <1>2, <2>1, <2>2 DEF NetInv, NetTyped, NetChange
  <2> QED BY <2>1, <2>3 DEF NetInv
<1>4. CASE netOp' = None /\ UNCHANGED netTaps
  BY <1>1, <1>4, NetNone DEF NetInv, NetTyped, NetChange
<1> QED BY <1>3, <1>4 DEF Networks!UplinkCreated, Networks!Ends
\* A record is forgotten that nobody keeps open.
LEMMA NetForgotten ==
  ASSUME NetInv, NEW g \in NetGuids, netHolder[g] = None, Networks!Forgets(g), UNCHANGED <<netSwitches, netHolder, netOpened>>
  PROVE  /\ netTaps' \in [NetGuids -> Networks!TapRecs \cup {None}] /\ netTaps'[g] = None
         /\ \A h \in NetGuids \ {g} : netTaps'[h] = netTaps[h]
         /\ \A h \in NetGuids : NetSound(h)'
<1>1. /\ netTaps' \in [NetGuids -> Networks!TapRecs \cup {None}] /\ netTaps'[g] = None
      /\ \A h \in NetGuids \ {g} : netTaps'[h] = netTaps[h]
  BY NetForgets DEF NetInv
<1>2. NetSound(g)'
  BY <1>1 DEF NetInv, NetSound, NetHeld, NetKnown, NetVnic
<1> QED BY <1>1, <1>2, NetOne

\* An adapter with a record is plugged in where the record has it.
LEMMA NetPlugged ==
  ASSUME NetInv, NEW g \in NetGuids, NetVnic(g), Networks!Plug(g, Networks!PlaceOf(netTaps[g])),
         UNCHANGED <<netSwitches, netTaps, netOpened>>
  PROVE  /\ netHolder' \in [NetGuids -> Networks!Holders \cup {None}]
         /\ \A h \in NetGuids \ {g} : netHolder'[h] = netHolder[h]
         /\ \A h \in NetGuids : NetSound(h)'
<1> DEFINE place == IF netTaps[g].switch = None THEN Loose ELSE netTaps[g].switch
<1>1. netTaps[g] \in Networks!TapRecs /\ NetKnown(g)
  BY DEF NetInv, NetTyped, NetVnic, NetSound
<1>2. Networks!PlaceOf(netTaps[g]) = place /\ place \in Networks!Places
  BY <1>1 DEF Networks!PlaceOf, Networks!Exists, NetKnown, Networks!TapRecs, Networks!Places
<1> HIDE DEF place
<1>3. /\ netHolder' \in [NetGuids -> Networks!Holders \cup {None}] /\ netHolder'[g] # None /\ netHolder'[g].at = place
      /\ \A h \in NetGuids \ {g} : netHolder'[h] = netHolder[h]
  BY <1>2, NetPlug DEF NetInv
<1>4. NetSound(g)'
  BY <1>1, <1>3 DEF NetSound, NetHeld, NetKnown, NetVnic, place
<1> QED BY <1>3, <1>4, NetOne

LEMMA NetVnicNamed ==
  ASSUME NetInv, Networks!VnicNamed
  PROVE  NetInv'
<1>1. /\ netOp # None /\ netOp.kind = "createVnic" /\ netOp.at = "name"
      /\ UNCHANGED <<netSwitches, netTaps, netOpened>>
  BY DEF Networks!VnicNamed, Networks!At
<1>2. PICK g \in NetGuids : g = netOp.guid
  BY <1>1 DEF NetInv, NetChange
<1>3. netHolder[g] = None /\ NetVnic(g) /\ (netOp.to # None => netSwitches[netOp.to] # Loose)
  BY <1>1, <1>2 DEF NetInv, NetChange
<1>4. CASE Networks!Plug(netOp.guid, Networks!PlaceOf(netTaps[netOp.guid])) /\ Networks!Goes("ready")
  <2>1. netHolder' \in [NetGuids -> Networks!Holders \cup {None}] /\ \A h \in NetGuids : NetSound(h)'
    BY <1>1, <1>2, <1>3, <1>4, NetPlugged
  <2>2. netOp' \in Networks!Ops /\ netOp'.kind = netOp.kind /\ netOp'.guid = netOp.guid /\ netOp'.to = netOp.to /\ netOp'.at = "ready"
    BY <1>1, <1>4, NetGoes, NetOpType
  <2>3. NetTyped' /\ NetChange'
    BY <1>1, <1>2, <1>3, <2>1, <2>2 DEF NetInv, NetTyped, NetChange
  <2> QED BY <2>1, <2>3 DEF NetInv
<1>5. CASE Networks!Goes("remove") /\ UNCHANGED netHolder
  <2>1. netOp' \in Networks!Ops /\ netOp'.kind = netOp.kind /\ netOp'.guid = netOp.guid /\ netOp'.to = netOp.to /\ netOp'.at = "remove"
    BY <1>1, <1>5, NetGoes, NetOpType
  <2>2. NetTyped' /\ NetChange' /\ \A h \in NetGuids : NetSound(h)'
    BY <1>1, <1>2, <1>3, <1>5, <2>1, NetNone DEF NetInv, NetTyped, NetChange
  <2> QED BY <2>2 DEF NetInv
<1> QED BY <1>4, <1>5 DEF Networks!VnicNamed

LEMMA NetVnicAddressed ==
  ASSUME NetInv, Networks!VnicAddressed
  PROVE  NetInv'
<1>1. netOp # None /\ netOp.kind = "createVnic" /\ netOp.at = "ip" /\ UNCHANGED <<netSwitches, netTaps>>
  BY DEF Networks!VnicAddressed, Networks!At
<1>2. PICK g \in NetGuids : g = netOp.guid
  BY <1>1 DEF NetInv, NetChange
<1>3. netOp.to # None => netSwitches[netOp.to] # Loose
  BY <1>1 DEF NetInv, NetChange
<1>4. CASE netOp' = None /\ UNCHANGED <<netOpened, netHolder>>
  BY <1>1, <1>4, NetNone DEF NetInv, NetTyped, NetChange
<1>5. CASE Networks!Goes("remove") /\ Networks!Unplug(netOp.guid)
  <2>1. netOp' \in Networks!Ops /\ netOp'.kind = netOp.kind /\ netOp'.guid = netOp.guid /\ netOp'.to = netOp.to /\ netOp'.at = "remove"
    BY <1>1, <1>5, NetGoes, NetOpType
  <2>2. /\ netHolder' \in [NetGuids -> Networks!Holders \cup {None}] /\ netHolder'[g] = None
        /\ \A h \in NetGuids \ {g} : netHolder'[h] = netHolder[h]
        /\ netOpened' \in [NetGuids -> {"holder", "stray", None}] /\ netOpened'[g] # "holder"
        /\ \A h \in NetGuids \ {g} : netOpened'[h] = netOpened[h]
    BY <1>2, <1>5, NetUnplug DEF NetInv
  <2>3. NetSound(g)'
    BY <1>1, <2>2 DEF NetInv, NetSound, NetHeld, NetKnown, NetVnic
  <2>4. NetTyped' /\ NetChange' /\ \A h \in NetGuids : NetSound(h)'
    BY <1>1, <1>2, <1>3, <2>1, <2>2, <2>3, NetOne DEF NetInv, NetTyped, NetChange
  <2> QED BY <2>4 DEF NetInv
<1> QED BY <1>4, <1>5 DEF Networks!VnicAddressed, Networks!Ends, Networks!unplugged

LEMMA NetCreationUndone ==
  ASSUME NetInv, Networks!CreationUndone
  PROVE  NetInv'
<1>1. /\ netOp # None /\ netOp.kind \in {"createVnic", "uplink", "newSwitch"} /\ netOp.at = "remove"
      /\ Networks!Forgets(netOp.guid) /\ netOp' = None /\ UNCHANGED <<netSwitches, netHolder, netOpened>>
  BY DEF Networks!CreationUndone, Networks!At, Networks!Ends, Networks!unplugged
<1>2. netOp.guid \in NetGuids /\ netHolder[netOp.guid] = None
  BY <1>1 DEF NetInv, NetChange
<1>3. netTaps' \in [NetGuids -> Networks!TapRecs \cup {None}] /\ \A h \in NetGuids : NetSound(h)'
  BY <1>1, <1>2, NetForgotten
<1> QED BY <1>1, <1>3 DEF NetInv, NetTyped, NetChange

LEMMA NetDeleted ==
  ASSUME NetInv, Networks!Deleted
  PROVE  NetInv'
<1>1. /\ netOp # None /\ netOp.kind = "delete" /\ netOp' = None /\ UNCHANGED <<netSwitches, netHolder, netOpened>>
  BY DEF Networks!Deleted, Networks!At, Networks!Ends, Networks!unplugged
<1>2. netOp.guid \in NetGuids /\ netHolder[netOp.guid] = None
  BY <1>1 DEF NetInv, NetChange
<1>3. CASE Networks!Forgets(netOp.guid)
  <2>1. netTaps' \in [NetGuids -> Networks!TapRecs \cup {None}] /\ \A h \in NetGuids : NetSound(h)'
    BY <1>1, <1>2, <1>3, NetForgotten
  <2> QED BY <1>1, <2>1 DEF NetInv, NetTyped, NetChange
<1>4. CASE UNCHANGED netTaps
  BY <1>1, <1>4, NetNone DEF NetInv, NetTyped, NetChange
<1> QED BY <1>3, <1>4 DEF Networks!Deleted

LEMMA NetMacChanged ==
  ASSUME NetInv, Networks!MacChanged
  PROVE  NetInv'
<1>1. /\ netOp # None /\ netOp.kind = "mac" /\ netOp.at = "mac" /\ Networks!Goes("ready")
      /\ UNCHANGED <<netSwitches, netTaps, netOpened>>
  BY DEF Networks!MacChanged, Networks!At
<1>2. PICK g \in NetGuids : g = netOp.guid
  BY <1>1 DEF NetInv, NetChange
<1>3. NetVnic(g)
  BY <1>1, <1>2 DEF NetInv, NetChange
<1>4. Networks!Plug(g, Networks!PlaceOf(netTaps[g]))
  BY <1>2, <1>3 DEF Networks!MacChanged, NetVnic
<1>5. netHolder' \in [NetGuids -> Networks!Holders \cup {None}] /\ \A h \in NetGuids : NetSound(h)'
  BY <1>1, <1>3, <1>4, NetPlugged
<1>6. netOp' \in Networks!Ops /\ netOp'.kind = netOp.kind /\ netOp'.guid = netOp.guid /\ netOp'.to = netOp.to /\ netOp'.at = "ready"
  BY <1>1, NetGoes, NetOpType
<1>7. NetTyped' /\ NetChange'
  BY <1>1, <1>2, <1>5, <1>6 DEF NetInv, NetTyped, NetChange
<1> QED BY <1>5, <1>7 DEF NetInv

LEMMA NetReady ==
  ASSUME NetInv, Networks!Ready
  PROVE  NetInv'
<1>1. netOp # None /\ netOp.at = "ready" /\ UNCHANGED netSwitches
  BY DEF Networks!Ready
<1>2. netOp.kind \in {"createVnic", "mac", "port"} /\ netOp.guid \in NetGuids
      /\ (netOp.kind = "createVnic" /\ netOp.to # None => netSwitches[netOp.to] # Loose)
  BY <1>1 DEF NetInv, NetChange
<1>3. CASE Networks!GivesBack(netOp.guid) /\ netOp' = None
  BY <1>1, <1>2, <1>3, NetGivesBack DEF NetInv, NetTyped, NetChange
<1>4. CASE netOp' = None /\ UNCHANGED <<netOpened, netHolder, netTaps>>
  BY <1>1, <1>4, NetNone DEF NetInv, NetTyped, NetChange
<1>5. CASE netOp.kind = "createVnic" /\ Networks!Goes("ip") /\ UNCHANGED <<netOpened, netHolder, netTaps>>
  <2>1. netOp' \in Networks!Ops /\ netOp'.kind = netOp.kind /\ netOp'.guid = netOp.guid /\ netOp'.to = netOp.to /\ netOp'.at = "ip"
    BY <1>1, <1>5, NetGoes, NetOpType
  <2>2. NetTyped' /\ NetChange' /\ \A h \in NetGuids : NetSound(h)'
    BY <1>1, <1>2, <1>5, <2>1, NetNone DEF NetInv, NetTyped, NetChange
  <2> QED BY <2>2 DEF NetInv
<1> QED BY <1>3, <1>4, <1>5 DEF Networks!Ready, Networks!Ends, Networks!unplugged

LEMMA NetUplinkBridged ==
  ASSUME NetInv, Networks!UplinkBridged
  PROVE  NetInv'
<1>1. /\ netOp # None /\ netOp.kind \in {"uplink", "newSwitch"} /\ netOp.at = "bridge" /\ UNCHANGED <<netTaps, netOpened>>
  BY DEF Networks!UplinkBridged, Networks!At
<1>2. PICK g \in NetGuids : g = netOp.guid
  BY <1>1 DEF NetInv, NetChange
<1>3. PICK s \in NetSwitches : s = netOp.to
  BY <1>1 DEF NetInv, NetChange
<1>4. netSwitches[s] \in {None, Loose} /\ netHolder[g] = None
  BY <1>1, <1>2, <1>3 DEF NetInv, NetChange
<1>5. CASE netSwitches' = [netSwitches EXCEPT ![s] = g] /\ Networks!Plug(g, s) /\ netOp' = None
  <2>1. s \in Networks!Places
    BY DEF Networks!Places
  <2>2. /\ netHolder' \in [NetGuids -> Networks!Holders \cup {None}] /\ netHolder'[g] # None /\ netHolder'[g].at = s
        /\ \A h \in NetGuids \ {g} : netHolder'[h] = netHolder[h]
    BY <1>5, <2>1, NetPlug DEF NetInv
  <2>3. /\ netSwitches' \in [NetSwitches -> NetGuids \cup {None, Loose}] /\ netSwitches'[s] = g
        /\ \A t \in NetSwitches \ {s} : netSwitches'[t] = netSwitches[t]
    BY <1>5 DEF NetInv, NetTyped
  <2>4. ASSUME NEW h \in NetGuids PROVE NetKnown(h)'
    <3>1. netTaps[h] = None \/ netTaps[h].switch \in NetSwitches \cup {None}
      BY DEF NetInv, NetTyped, Networks!TapRecs
    <3>2. NetKnown(h)
      BY DEF NetInv, NetSound
    <3> QED BY <1>1, <2>3, <3>1, <3>2, NetConstants DEF NetKnown, NetVnic
  <2>5. ASSUME NEW h \in NetGuids \ {g} PROVE NetHeld(h)'
    <3>1. netHolder'[h] = netHolder[h] /\ netTaps'[h] = netTaps[h]
      BY <1>1, <2>2
    <3>2. netHolder[h].at \in NetSwitches /\ netSwitches[netHolder[h].at] = h => netSwitches'[netHolder[h].at] = h
      BY <1>4, <2>3, NetConstants
    <3> QED BY <3>1, <3>2 DEF NetInv, NetSound, NetHeld, NetVnic
  <2>6. NetHeld(g)'
    BY <2>2, <2>3 DEF NetHeld
  <2>7. ASSUME NEW h \in NetGuids PROVE NetSound(h)'
    BY <1>1, <2>2, <2>4, <2>5, <2>6 DEF NetInv, NetSound
  <2>8. NetTyped' /\ NetChange'
    BY <1>1, <1>5, <2>2, <2>3 DEF NetInv, NetTyped, NetChange
  <2> QED BY <2>7, <2>8 DEF NetInv
<1>6. CASE Networks!Goes("remove") /\ UNCHANGED <<netSwitches, netHolder>>
  <2>1. netOp' \in Networks!Ops /\ netOp'.kind = netOp.kind /\ netOp'.guid = netOp.guid /\ netOp'.to = netOp.to /\ netOp'.at = "remove"
    BY <1>1, <1>6, NetGoes, NetOpType
  <2>2. NetTyped' /\ NetChange' /\ \A h \in NetGuids : NetSound(h)'
    BY <1>1, <1>2, <1>3, <1>4, <1>6, <2>1, NetNone DEF NetInv, NetTyped, NetChange
  <2> QED BY <2>2 DEF NetInv
<1> QED BY <1>2, <1>3, <1>5, <1>6 DEF Networks!UplinkBridged, Networks!Ends
LEMMA NetUnbridged ==
  ASSUME NetInv, Networks!Unbridged
  PROVE  NetInv'
<1>1. netOp # None /\ netOp.at = "unbridge" /\ UNCHANGED <<netSwitches, netHolder, netTaps, netOpened>>
  BY DEF Networks!Unbridged, Networks!unplugged
<1>2. /\ netOp.kind \in {"dropSwitch", "dropUplink"} /\ netOp.to \in NetSwitches /\ netOp.guid \in NetGuids
      /\ netSwitches[netOp.to] = netOp.guid /\ netHolder[netOp.guid] = None
  BY <1>1 DEF NetInv, NetChange
<1>3. \A h \in NetGuids : NetSound(h)'
  BY <1>1, NetNone
<1>4. CASE netOp' = None
  BY <1>1, <1>3, <1>4 DEF NetInv, NetTyped, NetChange
<1>5. CASE Networks!Goes("remove")
  <2>1. netOp' \in Networks!Ops /\ netOp'.kind = netOp.kind /\ netOp'.guid = netOp.guid /\ netOp'.to = netOp.to /\ netOp'.at = "remove"
    BY <1>1, <1>5, NetGoes, NetOpType
  <2> QED BY <1>1, <1>2, <1>3, <2>1 DEF NetInv, NetTyped, NetChange
<1> QED BY <1>4, <1>5 DEF Networks!Unbridged, Networks!Ends

LEMMA NetUplinkRemoved ==
  ASSUME NetInv, Networks!UplinkRemoved
  PROVE  NetInv'
<1>1. /\ netOp # None /\ netOp.kind \in {"dropSwitch", "dropUplink"} /\ netOp.at = "remove"
      /\ Networks!Forgets(netOp.guid) /\ UNCHANGED <<netHolder, netOpened>>
  BY DEF Networks!UplinkRemoved, Networks!At, Networks!unplugged
<1>2. PICK g \in NetGuids : g = netOp.guid
  BY <1>1 DEF NetInv, NetChange
<1>3. PICK s \in NetSwitches : s = netOp.to
  BY <1>1 DEF NetInv, NetChange
<1>4. netSwitches[s] = g /\ netHolder[g] = None
  BY <1>1, <1>2, <1>3 DEF NetInv, NetChange
<1>5. CASE Networks!Goes("ports") /\ UNCHANGED netSwitches
  <2>1. netOp' \in Networks!Ops /\ netOp'.kind = netOp.kind /\ netOp'.guid = netOp.guid /\ netOp'.to = netOp.to /\ netOp'.at = "ports"
    BY <1>1, <1>5, NetGoes, NetOpType
  <2>2. /\ netTaps' \in [NetGuids -> Networks!TapRecs \cup {None}] /\ netTaps'[g] = None
        /\ \A h \in NetGuids : NetSound(h)'
    BY <1>1, <1>2, <1>4, <1>5, NetForgotten
  <2>3. NetTyped' /\ NetChange'
    BY <1>1, <1>3, <1>4, <1>5, <2>1, <2>2 DEF NetInv, NetTyped, NetChange, NetVnic
  <2> QED BY <2>2, <2>3 DEF NetInv
<1>6. CASE netOp' = None /\ netSwitches' = [netSwitches EXCEPT ![s] = None]
  <2>1. /\ netSwitches' \in [NetSwitches -> NetGuids \cup {None, Loose}] /\ netSwitches'[s] = None
        /\ \A t \in NetSwitches \ {s} : netSwitches'[t] = netSwitches[t]
    BY <1>6 DEF NetInv, NetTyped
  <2>2. /\ netTaps' \in [NetGuids -> Networks!TapRecs \cup {None}] /\ netTaps'[g] = None
        /\ \A h \in NetGuids \ {g} : netTaps'[h] = netTaps[h]
    BY <1>1, <1>2, NetForgets DEF NetInv
  <2>3. ASSUME NEW h \in NetGuids PROVE NetSound(h)'
    <3>1. CASE h = g
      BY <1>1, <1>4, <2>2, <3>1 DEF NetInv, NetSound, NetHeld, NetKnown, NetVnic
    <3>2. CASE h # g
      <4>1. netTaps'[h] = netTaps[h] /\ netHolder'[h] = netHolder[h] /\ netOpened'[h] = netOpened[h]
        BY <1>1, <2>2, <3>2
      <4>2. netTaps[h] = None \/ netTaps[h].switch \in NetSwitches \cup {None}
        BY DEF NetInv, NetTyped, Networks!TapRecs
      <4>3. NetKnown(h)'
        BY <2>1, <4>1, <4>2, NetConstants DEF NetInv, NetSound, NetKnown, NetVnic
      <4>4. NetHeld(h)'
        BY <1>4, <2>1, <3>2, <4>1 DEF NetInv, NetSound, NetHeld, NetVnic
      <4> QED BY <4>1, <4>3, <4>4 DEF NetInv, NetSound
    <3> QED BY <3>1, <3>2
  <2>4. NetTyped' /\ NetChange'
    BY <1>1, <1>6, <2>1, <2>2 DEF NetInv, NetTyped, NetChange
  <2> QED BY <2>3, <2>4 DEF NetInv
<1> QED BY <1>3, <1>5, <1>6 DEF Networks!UplinkRemoved, Networks!Ends

LEMMA NetPortDropped ==
  ASSUME NetInv, NEW g \in NetGuids, Networks!PortDropped(g)
  PROVE  NetInv'
<1>1. /\ netOp # None /\ netOp' = netOp /\ netOp.kind = "dropSwitch" /\ netOp.at = "ports" /\ UNCHANGED netSwitches
      /\ netTaps[g] # None /\ netTaps[g].role = "vnic"
  BY DEF Networks!PortDropped, Networks!At, Networks!Ports, Networks!Vnic
<1>2. /\ netOp.to \in NetSwitches
      /\ \A h \in NetGuids : netSwitches[netOp.to] = h => h # g /\ netHolder[h] = None /\ ~NetVnic(h)
  BY <1>1 DEF NetInv, NetChange, NetVnic
<1>3. SUFFICES /\ \A h \in NetGuids : NetSound(h)'
               /\ netHolder' \in [NetGuids -> Networks!Holders \cup {None}]
               /\ netOpened' \in [NetGuids -> {"holder", "stray", None}]
               /\ netTaps' \in [NetGuids -> Networks!TapRecs \cup {None}]
               /\ \A h \in NetGuids \ {g} : netHolder'[h] = netHolder[h] /\ netTaps'[h] = netTaps[h]
  <2>1. NetChange'
    BY <1>1, <1>2, <1>3 DEF NetChange, NetVnic
  <2> QED BY <1>1, <1>3, <2>1 DEF NetInv, NetTyped
<1>4. CASE Networks!GivesBack(g)
  BY <1>1, <1>4, NetGivesBack
<1>5. CASE Networks!Replug(g, Loose) /\ netTaps' = [netTaps EXCEPT ![g].switch = None]
  <2>1. /\ netTaps' \in [NetGuids -> Networks!TapRecs \cup {None}] /\ netTaps'[g] # None
        /\ netTaps'[g].switch = None /\ netTaps'[g].role = netTaps[g].role
        /\ \A h \in NetGuids \ {g} : netTaps'[h] = netTaps[h]
    BY <1>1, <1>5, NetMoved DEF NetInv
  <2>2. Loose \in Networks!Places
    BY DEF Networks!Places
  <2>3. /\ netHolder' \in [NetGuids -> Networks!Holders \cup {None}] /\ netHolder'[g] # None /\ netHolder'[g].at = Loose
        /\ \A h \in NetGuids \ {g} : netHolder'[h] = netHolder[h]
        /\ netOpened' \in [NetGuids -> {"holder", "stray", None}] /\ netOpened'[g] # "holder"
        /\ \A h \in NetGuids \ {g} : netOpened'[h] = netOpened[h]
    BY <1>5, <2>2, NetReplug DEF NetInv
  <2>4. NetSound(g)'
    BY <1>1, <2>1, <2>3 DEF NetSound, NetHeld, NetKnown, NetVnic
  <2> QED BY <1>1, <2>1, <2>3, <2>4, NetOne
<1> QED BY <1>4, <1>5 DEF Networks!PortDropped

LEMMA NetSwitchDeleted ==
  ASSUME NetInv, Networks!SwitchDeleted
  PROVE  NetInv'
<1>1. /\ netOp # None /\ netOp.kind = "dropSwitch" /\ netOp.at = "ports" /\ netOp' = None
      /\ UNCHANGED <<netHolder, netTaps, netOpened>> /\ Networks!Ports(netOp.to) = {}
      /\ netSwitches' = [netSwitches EXCEPT ![netOp.to] = Loose]
  BY DEF Networks!SwitchDeleted, Networks!At, Networks!Ends, Networks!unplugged
<1>2. PICK s \in NetSwitches : s = netOp.to
  BY <1>1 DEF NetInv, NetChange
<1>3. \A h \in NetGuids : netSwitches[s] = h => netHolder[h] = None
  BY <1>1, <1>2 DEF NetInv, NetChange
<1>4. /\ netSwitches' \in [NetSwitches -> NetGuids \cup {None, Loose}]
      /\ \A t \in NetSwitches \ {s} : netSwitches'[t] = netSwitches[t]
  BY <1>1, <1>2 DEF NetInv, NetTyped
<1>5. ASSUME NEW h \in NetGuids PROVE NetSound(h)'
  <2>1. netTaps[h] = None \/ netTaps[h].switch \in NetSwitches \cup {None}
    BY DEF NetInv, NetTyped, Networks!TapRecs
  <2>2. NetVnic(h) => netTaps[h].switch # s
    BY <1>1, <1>2 DEF Networks!Ports, Networks!Vnic, NetVnic
  <2>3. NetKnown(h)'
    BY <1>1, <1>4, <2>1, <2>2 DEF NetInv, NetSound, NetKnown, NetVnic
  <2>4. NetHeld(h)'
    BY <1>1, <1>3, <1>4 DEF NetInv, NetSound, NetHeld, NetVnic
  <2> QED BY <1>1, <2>3, <2>4 DEF NetInv, NetSound
<1>6. NetTyped' /\ NetChange'
  BY <1>1, <1>4 DEF NetInv, NetTyped, NetChange
<1> QED BY <1>5, <1>6 DEF NetInv

----------------------------------------------------------------------------
(* A start sets up what is written down. *)

LEMMA NetKept ==
  ASSUME NetInv, NEW g \in NetGuids
  PROVE  /\ Networks!Kept[g] \in Networks!TapRecs \cup {None}
         /\ Networks!Kept[g] # None /\ Networks!Kept[g].role = "vnic" =>
              /\ Networks!Kept[g].switch # None => netSwitches[Networks!Kept[g].switch] # Loose
              /\ Networks!Kept[g].switch \in NetSwitches \cup {None}
<1> DEFINE out == [netTaps[g] EXCEPT !.switch = None]
<1>1. Networks!Kept[g] =
        IF ~NetVnic(g) \/ (netTaps[g].switch # None /\ netSwitches[netTaps[g].switch] # Loose) THEN netTaps[g]
        ELSE IF netTaps[g].adopted THEN None ELSE out
  BY DEF Networks!Kept, Networks!Vnic, Networks!Exists, NetVnic
<1>2. netTaps[g] \in Networks!TapRecs \cup {None}
  BY DEF NetInv, NetTyped
<1>3. NetVnic(g) => out \in Networks!TapRecs /\ out.switch = None
  BY <1>2 DEF NetVnic, Networks!TapRecs
<1> HIDE DEF out
<1>4. netTaps[g] # None => netTaps[g].switch \in NetSwitches \cup {None}
  BY <1>2 DEF Networks!TapRecs
<1> QED BY <1>1, <1>2, <1>3, <1>4 DEF NetVnic

LEMMA NetRestart ==
  ASSUME NetInv, Networks!Restart
  PROVE  NetInv'
<1>1. /\ UNCHANGED netSwitches /\ netOpened' = [g \in NetGuids |-> None] /\ netOp' = None /\ netTaps' = Networks!Kept
      /\ netHolder' = [g \in NetGuids |->
           IF Networks!UplinkOf(g) # {} THEN Networks!New(CHOOSE s \in Networks!UplinkOf(g) : TRUE)
           ELSE IF Networks!Kept[g] # None /\ Networks!Kept[g].role = "vnic" THEN Networks!New(Networks!PlaceOf(Networks!Kept[g])) ELSE None]
  BY DEF Networks!Restart
<1>2. netTaps' \in [NetGuids -> Networks!TapRecs \cup {None}]
  BY <1>1, NetKept DEF Networks!Kept
<1>3. netOpened' \in [NetGuids -> {"holder", "stray", None}] /\ \A g \in NetGuids : netOpened'[g] # "holder"
  BY <1>1, NetConstants
<1>4. ASSUME NEW g \in NetGuids PROVE netHolder'[g] \in Networks!Holders \cup {None} /\ NetHeld(g)' /\ NetKnown(g)'
  <2> DEFINE kept == Networks!Kept[g]
             s == CHOOSE s \in Networks!UplinkOf(g) : TRUE
             place == IF kept.switch = None THEN Loose ELSE kept.switch
  <2>1. /\ kept \in Networks!TapRecs \cup {None}
        /\ kept # None /\ kept.role = "vnic" =>
             (kept.switch # None => netSwitches[kept.switch] # Loose) /\ kept.switch \in NetSwitches \cup {None}
    BY NetKept
  <2>2. netTaps'[g] = kept
    BY <1>1
  <2>3. NetKnown(g)'
    <3> HIDE DEF kept
    <3> QED BY <1>1, <2>1, <2>2 DEF NetKnown, NetVnic
  <2>4. CASE Networks!UplinkOf(g) # {}
    <3>1. s \in NetSwitches /\ netSwitches[s] = g /\ netHolder'[g] = Networks!New(s)
      BY <1>1, <2>4 DEF Networks!UplinkOf
    <3> HIDE DEF s
    <3>2. Networks!New(s) \in Networks!Holders /\ Networks!New(s).at = s
      BY <3>1, NetNew DEF Networks!Places
    <3>3. NetHeld(g)'
      BY <1>1, <3>1, <3>2 DEF NetHeld
    <3> QED BY <2>3, <3>1, <3>2, <3>3
  <2>5. CASE Networks!UplinkOf(g) = {} /\ kept # None /\ kept.role = "vnic"
    <3>1. netHolder'[g] = Networks!New(Networks!PlaceOf(kept))
      BY <1>1, <2>5
    <3>2. Networks!PlaceOf(kept) = place /\ place \in Networks!Places
      <4> HIDE DEF kept
      <4> QED BY <2>1, <2>5 DEF Networks!PlaceOf, Networks!Exists, Networks!Places
    <3> HIDE DEF kept
    <3>3. Networks!New(place) \in Networks!Holders /\ Networks!New(place).at = place
      BY <3>2, NetNew
    <3>4. NetHeld(g)'
      BY <2>2, <2>5, <3>1, <3>2, <3>3 DEF NetHeld, NetVnic
    <3> QED BY <2>3, <3>1, <3>2, <3>3, <3>4
  <2>6. CASE Networks!UplinkOf(g) = {} /\ ~(kept # None /\ kept.role = "vnic")
    <3>1. netHolder'[g] = None
      BY <1>1, <2>6
    <3> QED BY <2>3, <3>1 DEF NetHeld
  <2> QED BY <2>4, <2>5, <2>6
<1>5. netHolder' \in [NetGuids -> Networks!Holders \cup {None}]
  BY <1>1, <1>4
<1>6. NetTyped' /\ NetChange' /\ \A g \in NetGuids : NetSound(g)'
  BY <1>1, <1>2, <1>3, <1>4, <1>5 DEF NetInv, NetTyped, NetChange, NetSound
<1> QED BY <1>6 DEF NetInv

----------------------------------------------------------------------------

LEMMA NetStep ==
  ASSUME NetInv, [Networks!Next]_netVars
  PROVE  NetInv'
<1>1. CASE UNCHANGED netVars
  <2>1. \A h \in NetGuids : NetSound(h)'
    BY <1>1, NetNone DEF netVars
  <2> QED BY <1>1, <2>1 DEF netVars, NetInv, NetTyped, NetChange, NetVnic
<1>2. CASE Networks!Change
  BY <1>2, NetVnicCreated, NetVnicNamed, NetVnicAddressed, NetCreationUndone, NetDeleted, NetMacChanged, NetReady,
     NetUplinkCreated, NetUplinkBridged, NetUnbridged, NetUplinkRemoved, NetPortDropped, NetSwitchDeleted DEF Networks!Change
<1>3. CASE Networks!Restart
  BY <1>3, NetRestart
<1>4. ASSUME NEW g \in NetGuids,
             \/ Networks!Opens(g) \/ Networks!GivesUp(g) \/ Networks!StrayOpens(g) \/ Networks!StrayGivesUp(g)
             \/ Networks!StrayCloses(g) \/ Networks!Falls(g) \/ Networks!OtherOpens(g) \/ Networks!OtherCloses(g)
             \/ Networks!RemovedByHand(g) \/ Networks!Delete(g) \/ Networks!ChangeMac(g) \/ Networks!Release(g)
      PROVE  NetInv'
  BY <1>4, NetRelays, NetDelete, NetChangeMac, NetRelease
<1>5. ASSUME NEW g \in NetGuids, NEW s \in NetSwitches \cup {None}, Networks!CreateVnic(g, s) \/ Networks!Move(g, s)
      PROVE  NetInv'
  BY <1>5, NetCreateVnic, NetMove
<1>6. ASSUME NEW g \in NetGuids, NEW s \in NetSwitches,
             Networks!Adopt(g, s) \/ \E kind \in {"uplink", "newSwitch"} : Networks!BuildUplink(kind, g, s)
      PROVE  NetInv'
  BY <1>6, NetAdopt, NetBuildUplink
<1>7. ASSUME NEW s \in NetSwitches,
             \/ Networks!CreateSwitch(s) \/ Networks!DeleteSwitch(s)
             \/ \E kind \in {"dropSwitch", "dropUplink"} : Networks!DropUplink(kind, s)
      PROVE  NetInv'
  BY <1>7, NetCreateSwitch, NetDeleteSwitch, NetDropUplink
<1> QED BY <1>1, <1>2, <1>3, <1>4, <1>5, <1>6, <1>7 DEF Networks!Next

LEMMA NetInit ==
  ASSUME Networks!Init
  PROVE  NetInv
<1>1. /\ netOpened = [g \in NetGuids |-> None] /\ netSwitches = [s \in NetSwitches |-> Loose]
      /\ netTaps = [g \in NetGuids |-> None] /\ netHolder = [g \in NetGuids |-> None] /\ netOp = None
  BY DEF Networks!Init
<1> QED BY <1>1, NetConstants DEF NetInv, NetTyped, NetSound, NetHeld, NetKnown, NetVnic, NetChange

\* When no change of the network is under way, whoever keeps an adapter open does so where
\* config.json has it, whatever failed on the way and wherever the program was killed
\* (netManager.js, relayKeeper.js).
THEOREM PortsAreWhereWritten == Networks!Spec => [](NetInv /\ Networks!NoStrayPort)
<1>1. [Networks!Next]_(Networks!netVars) => [Networks!Next]_netVars
  BY DEF Networks!netVars, netVars
<1>2. NetInv => Networks!NoStrayPort
  <2> SUFFICES ASSUME NetInv, netOp = None, NEW g \in NetGuids, netHolder[g] # None
               PROVE  \/ Networks!Vnic(g) /\ netHolder[g].at = Networks!PlaceOf(netTaps[g])
                      \/ netHolder[g].at \in Networks!UplinkOf(g)
    BY DEF Networks!NoStrayPort
  <2>1. NetHeld(g) /\ NetKnown(g)
    BY DEF NetInv, NetSound
  <2>2. CASE NetVnic(g) /\ netHolder[g].at = (IF netTaps[g].switch = None THEN Loose ELSE netTaps[g].switch)
    BY <2>1, <2>2 DEF NetKnown, NetVnic, Networks!Vnic, Networks!PlaceOf, Networks!Exists
  <2>3. CASE netHolder[g].at \in NetSwitches /\ netSwitches[netHolder[g].at] = g
    BY <2>3, NetConstants DEF Networks!UplinkOf, Networks!Exists
  <2> QED BY <2>1, <2>2, <2>3 DEF NetHeld
<1> QED BY <1>1, <1>2, NetInit, NetStep, PTL DEF Networks!Spec

------------------------------------------------------------------------------
(* Tunnels of a gateway: no port is left, and none goes early.              *)

LEMMA TunConstants ==
  /\ TunMaxTunnels \in Nat \ {0} /\ TunGrace \in Nat \ {0} /\ TunIdle \in Nat /\ TunGrace < TunIdle /\ None \notin Nat
BY ConstantsOK DEF Tunnels!ConstantsOK

\* What the two properties need to be preserved: a tunnel is in the map or on the way there,
\* never both, one with a connection is in it, and one that was handed out has been used
\* since, or at the same time.
TunTyped ==
  /\ tunTunnels \in [TunKeys -> Nat \cup {None}]
  /\ tunOpening \subseteq TunKeys
  /\ tunListening \in [TunKeys -> Nat]
  /\ tunTold \in [TunKeys -> 0..TunGrace \cup {None}]
TunApart == Tunnels!Open \cap tunOpening = {}
TunUsedAreOpen == tunUsed \subseteq Tunnels!Open
TunUsedSinceTold == \A k \in TunKeys : tunTold[k] # None => k \in Tunnels!Open /\ tunTunnels[k] <= tunTold[k]
TunInv == TunTyped /\ TunApart /\ TunUsedAreOpen /\ Tunnels!NoStrayPort /\ TunUsedSinceTold

\* A sweep with a limit of at least Grace leaves what was handed out of late, and closes as
\* many ports as it takes out of the map.
LEMMA TunSweepKeeps ==
  ASSUME TunInv, NEW limit \in Nat, limit >= TunGrace
  PROVE  /\ Tunnels!Swept(limit) \in [TunKeys -> Nat \cup {None}]
         /\ Tunnels!Closed(limit) \in [TunKeys -> Nat]
         /\ \A k \in TunKeys : Tunnels!Swept(limit)[k] # None => k \in Tunnels!Open
         /\ \A k \in TunKeys : Tunnels!Closed(limit)[k] =
              IF Tunnels!Swept(limit)[k] # None \/ k \in tunOpening THEN 1 ELSE 0
         /\ \A k \in TunKeys : tunTold[k] # None =>
              Tunnels!Swept(limit)[k] # None /\ Tunnels!Swept(limit)[k] <= tunTold[k]
         /\ \A k \in tunUsed : k \in TunKeys /\ Tunnels!Swept(limit)[k] # None
<1>1. \A k \in TunKeys : k \in Tunnels!Stale(limit) => k \in Tunnels!Open /\ tunTunnels[k] \in Nat /\ tunTunnels[k] > limit
  BY TunConstants DEF Tunnels!Stale, Tunnels!Open, TunInv, TunTyped
<1>2. \A k \in TunKeys : tunTold[k] # None => k \notin Tunnels!Stale(limit)
  <2> TAKE k \in TunKeys
  <2> HAVE tunTold[k] # None
  <2>1. tunTold[k] \in 0..TunGrace /\ tunTunnels[k] <= tunTold[k] /\ k \in Tunnels!Open
    BY DEF TunInv, TunTyped, TunUsedSinceTold
  <2> QED BY <1>1, <2>1, TunConstants
<1>3. \A k \in TunKeys : tunListening[k] = IF k \in Tunnels!Open \cup tunOpening THEN 1 ELSE 0
  BY DEF TunInv, Tunnels!NoStrayPort
<1>4. \A k \in TunKeys : Tunnels!Swept(limit)[k] = IF k \in Tunnels!Stale(limit) THEN None
                        ELSE IF k \in Tunnels!Open \cap tunUsed THEN 0 ELSE tunTunnels[k]
  BY DEF Tunnels!Swept
<1>5. \A k \in TunKeys : Tunnels!Closed(limit)[k] = IF k \in Tunnels!Stale(limit) THEN tunListening[k] - 1 ELSE tunListening[k]
  BY DEF Tunnels!Closed
<1>6. Tunnels!Swept(limit) \in [TunKeys -> Nat \cup {None}]
  BY DEF Tunnels!Swept, TunInv, TunTyped
<1>7. Tunnels!Closed(limit) \in [TunKeys -> Nat]
  BY <1>1, <1>3 DEF Tunnels!Closed, TunInv, TunTyped
<1>8. \A k \in TunKeys : Tunnels!Swept(limit)[k] # None => k \in Tunnels!Open
  BY <1>4, TunConstants DEF Tunnels!Open
<1>9. \A k \in TunKeys : Tunnels!Closed(limit)[k] = IF Tunnels!Swept(limit)[k] # None \/ k \in tunOpening THEN 1 ELSE 0
  BY <1>1, <1>3, <1>4, <1>5, TunConstants DEF Tunnels!Open, TunInv, TunApart, TunTyped
<1>10. \A k \in TunKeys : tunTold[k] # None => Tunnels!Swept(limit)[k] # None /\ Tunnels!Swept(limit)[k] <= tunTold[k]
  <2> TAKE k \in TunKeys
  <2> HAVE tunTold[k] # None
  <2>1. tunTold[k] \in 0..TunGrace /\ tunTunnels[k] <= tunTold[k] /\ k \in Tunnels!Open /\ tunTunnels[k] \in Nat
    BY DEF TunInv, TunTyped, TunUsedSinceTold, Tunnels!Open
  <2> QED BY <1>2, <1>4, <2>1, TunConstants
<1>11. \A k \in tunUsed : k \in TunKeys /\ Tunnels!Swept(limit)[k] # None
  BY <1>4, TunConstants DEF TunInv, TunUsedAreOpen, Tunnels!Open, Tunnels!Stale
<1> QED BY <1>6, <1>7, <1>8, <1>9, <1>10, <1>11

LEMMA TunInit == ASSUME Tunnels!Init PROVE TunInv
BY TunConstants DEF Tunnels!Init, TunInv, TunTyped, TunApart, TunUsedAreOpen, Tunnels!NoStrayPort, TunUsedSinceTold, Tunnels!Open

LEMMA TunStep == ASSUME TunInv, [Tunnels!Next]_tunVars PROVE TunInv'
<1> USE TunConstants
<1>1. ASSUME NEW k \in TunKeys, Tunnels!HandsOut(k) PROVE TunInv'
  BY <1>1 DEF Tunnels!HandsOut, TunInv, TunTyped, TunApart, TunUsedAreOpen, Tunnels!NoStrayPort, TunUsedSinceTold, Tunnels!Open
<1>2. ASSUME NEW k \in TunKeys, Tunnels!Opens(k) PROVE TunInv'
  <2>1. CASE Tunnels!Cardinality(Tunnels!Open) >= TunMaxTunnels
    <3>1. tunTunnels' = Tunnels!Swept(TunGrace) /\ tunListening' = [Tunnels!Closed(TunGrace) EXCEPT ![k] = @ + 1]
      BY <1>2, <2>1 DEF Tunnels!Opens
    <3>2. tunOpening' = tunOpening \cup {k} /\ tunTold' = tunTold /\ tunUsed' = tunUsed /\ k \notin Tunnels!Open /\ k \notin tunOpening
      BY <1>2 DEF Tunnels!Opens, Tunnels!MustOpen
    <3> HIDE TunConstants
    <3>3. /\ Tunnels!Swept(TunGrace) \in [TunKeys -> Nat \cup {None}]
          /\ Tunnels!Closed(TunGrace) \in [TunKeys -> Nat]
          /\ \A j \in TunKeys : Tunnels!Swept(TunGrace)[j] # None => j \in Tunnels!Open
          /\ \A j \in TunKeys : Tunnels!Closed(TunGrace)[j] =
               IF Tunnels!Swept(TunGrace)[j] # None \/ j \in tunOpening THEN 1 ELSE 0
          /\ \A j \in TunKeys : tunTold[j] # None => Tunnels!Swept(TunGrace)[j] # None /\ Tunnels!Swept(TunGrace)[j] <= tunTold[j]
          /\ \A j \in tunUsed : j \in TunKeys /\ Tunnels!Swept(TunGrace)[j] # None
      <4>1. TunGrace \in Nat /\ TunGrace >= TunGrace  BY TunConstants
      <4> QED BY <4>1, TunSweepKeeps
    <3> QED BY <3>1, <3>2, <3>3 DEF TunInv, TunTyped, TunApart, TunUsedAreOpen, Tunnels!NoStrayPort, TunUsedSinceTold, Tunnels!Open
  <2>2. CASE ~(Tunnels!Cardinality(Tunnels!Open) >= TunMaxTunnels)
    BY <1>2, <2>2 DEF Tunnels!Opens, Tunnels!MustOpen, TunInv, TunTyped, TunApart, TunUsedAreOpen, Tunnels!NoStrayPort, TunUsedSinceTold, Tunnels!Open
  <2> QED BY <2>1, <2>2
<1>3. ASSUME NEW k \in TunKeys, Tunnels!Refused(k) PROVE TunInv'
  BY <1>3 DEF Tunnels!Refused, Tunnels!Swept, TunInv, TunTyped, TunApart, TunUsedAreOpen, Tunnels!NoStrayPort, TunUsedSinceTold, Tunnels!Open
<1>4. ASSUME NEW k \in TunKeys, Tunnels!Listens(k) PROVE TunInv'
  BY <1>4 DEF Tunnels!Listens, TunInv, TunTyped, TunApart, TunUsedAreOpen, Tunnels!NoStrayPort, TunUsedSinceTold, Tunnels!Open
<1>5. ASSUME NEW k \in TunKeys, Tunnels!Fails(k) PROVE TunInv'
  BY <1>5 DEF Tunnels!Fails, TunInv, TunTyped, TunApart, TunUsedAreOpen, Tunnels!NoStrayPort, TunUsedSinceTold, Tunnels!Open
<1>6. ASSUME NEW k \in TunKeys, Tunnels!Connects(k) PROVE TunInv'
  BY <1>6 DEF Tunnels!Connects, TunInv, TunTyped, TunApart, TunUsedAreOpen, Tunnels!NoStrayPort, TunUsedSinceTold, Tunnels!Open
<1>7. ASSUME NEW k \in TunKeys, Tunnels!Disconnects(k) PROVE TunInv'
  BY <1>7 DEF Tunnels!Disconnects, TunInv, TunTyped, TunApart, TunUsedAreOpen, Tunnels!NoStrayPort, TunUsedSinceTold, Tunnels!Open
<1>8. CASE Tunnels!Sweep
  <2>1. tunTunnels' = Tunnels!Swept(TunIdle) /\ tunListening' = Tunnels!Closed(TunIdle) /\ tunOpening' = tunOpening
        /\ tunTold' = tunTold /\ tunUsed' = tunUsed
    BY <1>8 DEF Tunnels!Sweep
  <2>2. TunIdle \in Nat /\ TunIdle >= TunGrace  OBVIOUS
  <2> HIDE TunConstants
  <2>3. /\ Tunnels!Swept(TunIdle) \in [TunKeys -> Nat \cup {None}]
        /\ Tunnels!Closed(TunIdle) \in [TunKeys -> Nat]
        /\ \A j \in TunKeys : Tunnels!Swept(TunIdle)[j] # None => j \in Tunnels!Open
        /\ \A j \in TunKeys : Tunnels!Closed(TunIdle)[j] =
             IF Tunnels!Swept(TunIdle)[j] # None \/ j \in tunOpening THEN 1 ELSE 0
        /\ \A j \in TunKeys : tunTold[j] # None => Tunnels!Swept(TunIdle)[j] # None /\ Tunnels!Swept(TunIdle)[j] <= tunTold[j]
        /\ \A j \in tunUsed : j \in TunKeys /\ Tunnels!Swept(TunIdle)[j] # None
    BY <2>2, TunSweepKeeps
  <2> QED BY <2>1, <2>3 DEF TunInv, TunTyped, TunApart, TunUsedAreOpen, Tunnels!NoStrayPort, TunUsedSinceTold, Tunnels!Open
<1>9. CASE Tunnels!Tick
  <2>1. \A k \in TunKeys : (tunTunnels'[k] # None) = (k \in Tunnels!Open) /\ tunTunnels'[k] \in Nat \cup {None}
    BY <1>9 DEF Tunnels!Tick, Tunnels!Open, TunInv, TunTyped
  <2>2. tunTunnels' \in [TunKeys -> Nat \cup {None}] /\ tunTold' \in [TunKeys -> 0..TunGrace \cup {None}]
    BY <1>9 DEF Tunnels!Tick, Tunnels!Open, TunInv, TunTyped
  <2>3. \A k \in TunKeys : tunTold'[k] # None => k \in Tunnels!Open /\ tunTunnels'[k] <= tunTold'[k]
    <3> TAKE k \in TunKeys
    <3> HAVE tunTold'[k] # None
    <3>1. tunTold[k] \in 0..(TunGrace - 1) /\ tunTold'[k] = tunTold[k] + 1
      BY <1>9 DEF Tunnels!Tick, TunInv, TunTyped
    <3>2. k \in Tunnels!Open /\ tunTunnels[k] <= tunTold[k] /\ tunTunnels[k] \in Nat
      BY <3>1 DEF TunInv, TunUsedSinceTold, TunTyped, Tunnels!Open
    <3>3. tunTunnels'[k] = IF tunTunnels[k] > TunIdle THEN tunTunnels[k] ELSE tunTunnels[k] + 1
      BY <1>9, <3>2 DEF Tunnels!Tick
    <3> QED BY <3>1, <3>2, <3>3
  <2>4. Tunnels!Open' = Tunnels!Open /\ tunOpening' = tunOpening /\ tunListening' = tunListening /\ tunUsed' = tunUsed
    BY <1>9, <2>1 DEF Tunnels!Tick, Tunnels!Open
  <2> QED BY <2>1, <2>2, <2>3, <2>4 DEF TunInv, TunTyped, TunApart, TunUsedAreOpen, Tunnels!NoStrayPort, TunUsedSinceTold
<1>10. CASE UNCHANGED tunVars
  BY <1>10 DEF tunVars, TunInv, TunTyped, TunApart, TunUsedAreOpen, Tunnels!NoStrayPort, TunUsedSinceTold, Tunnels!Open
<1> QED BY <1>1, <1>2, <1>3, <1>4, <1>5, <1>6, <1>7, <1>8, <1>9, <1>10 DEF Tunnels!Next

\* However many tunnels are asked for at once, swept or refused, no port is open that the
\* gateway does not know; and who was given a port finds it open until the time of Grace is over,
\* also when the map is full and others press (open, _sweep of tunnels.js).
THEOREM PortsAreKnownAndStay == Tunnels!Spec => [](TunInv /\ Tunnels!NoStrayPort /\ Tunnels!PortStaysOpen)
<1>1. [Tunnels!Next]_(Tunnels!tunnelsVars) => [Tunnels!Next]_tunVars
  BY DEF Tunnels!tunnelsVars, tunVars
<1>2. TunInv => Tunnels!NoStrayPort /\ Tunnels!PortStaysOpen
  BY DEF TunInv, TunUsedSinceTold, Tunnels!NoStrayPort, Tunnels!PortStaysOpen
<1> QED BY <1>1, <1>2, TunInit, TunStep, PTL DEF Tunnels!Spec

------------------------------------------------------------------------------
(* The announcements: neighbours are told in time.                          *)

\* The longest a period of i ticks may last.
AnnLate(i) == i + (i * AnnSpread) \div 100

\* What the state of a neighbour owes to the tempo: it waits at least until the next announcement
\* and, if it has not missed one, for another.
AnnAhead == IF annTimer = None THEN 0 ELSE annTimer
AnnExtra(c) == IF annMisses[c] = 0 THEN AnnLate(annInterval) ELSE 0
AnnPatient(c) == /\ annListed[c] >= AnnAhead + AnnExtra(c)
                 /\ annListed[c] >= (AnnGap - annSince) + AnnExtra(c)
AnnWaiting ==
  annPhase # "off" /\ ~annFellSilent =>
    \A c \in annCircles \ annBehind : annListed[c] # None => AnnPatient(c)

\* When the node says something for the first time, and when next.
AnnTempo ==
  /\ annPhase = "off" <=> annSince = None
  /\ annPhase = "off" => annTimer = None /\ \A c \in AnnCircles : annListed[c] = None
  /\ annTimer # None => annTimer <= AnnLate(annInterval)
  /\ annPhase \in {"leaving", "reopening", "closed"} => annTimer = None \/ (annTimer >= 1 /\ annTimer <= AnnLate(AnnBase))
  /\ annPhase = "on" /\ ~annFellSilent => annTimer # None
AnnNews == annPhase = "on" /\ annTold # annContent => annTimer # None /\ annTimer + annSince <= AnnGap
AnnForget == \A c \in AnnCircles \ annCircles : annListed[c] = None

AnnInv == Announce!TypeOK /\ AnnTempo /\ AnnNews /\ AnnForget /\ AnnWaiting

AnnLongest == Announce!LongestWait
AnnWaits == (-1)..AnnLongest \cup {None}

LEMMA AnnConstants ==
  /\ AnnGap \in Nat \ {0} /\ AnnBase \in Nat \ {0} /\ AnnIdle \in Nat \ {0} /\ AnnPatience \in Nat \ {0} /\ AnnSlack \in Nat \ {0}
  /\ AnnGap <= AnnBase /\ AnnBase <= AnnIdle /\ AnnSpread \in 0..50 /\ AnnMaxMisses \in 0..1 /\ AnnMaxSwitches \in Nat
  /\ None \notin AnnContents /\ None \notin Int
BY ConstantsOK DEF Announce!ConstantsOK

LEMMA AnnProduct ==
  ASSUME NEW i \in Nat, NEW j \in Nat, i <= j, NEW s \in 0..50
  PROVE  i * s \in Nat /\ i * s <= 50 * i /\ i * s <= j * s
<1>1. \A a, b \in Nat : a * b \in Nat
  OBVIOUS
<1>2. 50 - s \in Nat /\ j - i \in Nat
  OBVIOUS
<1>3. i * (50 - s) \in Nat /\ (j - i) * s \in Nat /\ i * s \in Nat
  BY <1>1, <1>2
<1>4. i * (50 - s) = 50 * i - i * s /\ (j - i) * s = j * s - i * s
  OBVIOUS
<1> QED BY <1>3, <1>4

LEMMA AnnDivided ==
  ASSUME NEW m \in Nat, NEW n \in Nat, m <= n, NEW i \in Nat, m <= 50 * i
  PROVE  m \div 100 \in Nat /\ m \div 100 <= n \div 100 /\ 2 * (m \div 100) <= i
OBVIOUS

LEMMA AnnLateBounds ==
  ASSUME NEW i \in AnnBase..AnnIdle
  PROVE  /\ AnnLate(i) \in Nat /\ i <= AnnLate(i) /\ 2 * AnnLate(i) <= 3 * i /\ AnnLate(i) >= AnnGap
         /\ AnnLate(i) <= 2 * AnnIdle /\ AnnLate(AnnBase) <= AnnLate(i)
<1>1. i \in Nat /\ AnnBase \in Nat /\ AnnBase <= i /\ AnnSpread \in 0..50
  BY AnnConstants
<1>2. i * AnnSpread \in Nat /\ i * AnnSpread <= 50 * i /\ AnnBase * AnnSpread \in Nat
      /\ AnnBase * AnnSpread <= 50 * AnnBase /\ AnnBase * AnnSpread <= i * AnnSpread
  BY <1>1, AnnProduct
<1> DEFINE p == i * AnnSpread
           q == AnnBase * AnnSpread
<1> HIDE DEF p, q
<1>3. p \div 100 \in Nat /\ 2 * (p \div 100) <= i /\ q \div 100 \in Nat /\ q \div 100 <= p \div 100
  BY <1>1, <1>2, AnnDivided DEF p, q
<1>4. AnnLate(i) = i + p \div 100 /\ AnnLate(AnnBase) = AnnBase + q \div 100
  BY DEF AnnLate, p, q
<1> QED BY <1>1, <1>3, <1>4, AnnConstants

LEMMA AnnLateGrows ==
  ASSUME NEW i \in AnnBase..AnnIdle, NEW j \in AnnBase..AnnIdle, i <= j
  PROVE  AnnLate(i) <= AnnLate(j)
<1>1. i \in Nat /\ j \in Nat /\ AnnSpread \in 0..50
  BY AnnConstants
<1>2. i * AnnSpread \in Nat /\ i * AnnSpread <= 50 * i /\ j * AnnSpread \in Nat /\ i * AnnSpread <= j * AnnSpread
  BY <1>1, AnnProduct
<1> DEFINE p == i * AnnSpread
           q == j * AnnSpread
<1> HIDE DEF p, q
<1>3. p \div 100 <= q \div 100 /\ p \div 100 \in Nat /\ q \div 100 \in Nat
  BY <1>1, <1>2, AnnDivided DEF p, q
<1>4. AnnLate(i) = i + p \div 100 /\ AnnLate(j) = j + q \div 100
  BY DEF AnnLate, p, q
<1> QED BY <1>1, <1>3, <1>4

LEMMA AnnJittered ==
  ASSUME NEW i \in AnnBase..AnnIdle, NEW t \in Announce!Jittered(i)
  PROVE  t \in 0..(2 * AnnIdle) /\ t >= 1 /\ t <= AnnLate(i)
<1>1. i \in Nat /\ i >= 1 /\ AnnSpread \in 0..50
  BY AnnConstants
<1>2. i * AnnSpread \in Nat /\ i * AnnSpread <= 50 * i
  BY <1>1, AnnProduct
<1> DEFINE p == i * AnnSpread
<1> HIDE DEF p
<1>3. p \div 100 \in Nat /\ 2 * (p \div 100) <= i
  BY <1>1, <1>2, AnnDivided DEF p
<1>4. (t = i - p \div 100 \/ t = i + p \div 100) /\ AnnLate(i) = i + p \div 100
  BY DEF AnnLate, Announce!Jittered, p
<1>5. AnnLate(i) <= 2 * AnnIdle
  BY AnnLateBounds
<1> QED BY <1>1, <1>3, <1>4, <1>5, AnnConstants

LEMMA AnnWaitsFor ==
  ASSUME NEW i \in AnnBase..AnnIdle
  PROVE  Announce!Waits(i) \in 0..AnnLongest /\ Announce!Waits(i) >= 3 * i + AnnSlack /\ AnnLongest \in Nat
<1>1. i \in Nat /\ AnnIdle \in Nat /\ i <= AnnIdle /\ AnnSlack \in Nat /\ AnnPatience \in Nat
  BY AnnConstants
<1> QED BY <1>1 DEF Announce!Waits, AnnLongest, Announce!LongestWait, Announce!Most

\* What is known of the neighbours after one announcement.
LEMMA AnnSent ==
  ASSUME NEW next \in AnnBase..AnnIdle, NEW in \in SUBSET AnnCircles, NEW lists \in [AnnCircles -> AnnWaits],
         annMisses \in [AnnCircles -> 0..AnnMaxMisses], annBehind \subseteq AnnCircles,
         annInterval \in AnnBase..AnnIdle, Announce!Sent(next, in, lists)
  PROVE  /\ annListed' \in [AnnCircles -> AnnWaits] /\ annMisses' \in [AnnCircles -> 0..AnnMaxMisses]
         /\ annBehind' \subseteq AnnCircles
         /\ \A c \in AnnCircles \ in : annListed'[c] = lists[c]
         /\ \A c \in in :
              \/ annListed'[c] = Announce!Waits(next) /\ annMisses'[c] = 0
              \/ /\ annListed'[c] = lists[c] /\ annMisses[c] = 0 /\ annMisses'[c] = 1
                 /\ c \notin annBehind' => next <= annInterval /\ c \notin annBehind
<1>1. PICK lost \in SUBSET {c \in in : annMisses[c] < AnnMaxMisses} :
        /\ annListed' = [c \in AnnCircles |-> IF c \in in \ lost THEN Announce!Waits(next) ELSE lists[c]]
        /\ annMisses' = [c \in AnnCircles |-> IF c \in lost THEN annMisses[c] + 1
                                              ELSE IF c \in in THEN 0 ELSE annMisses[c]]
        /\ annBehind' = (annBehind \ in) \cup (IF next > annInterval THEN lost ELSE annBehind \cap lost)
  BY DEF Announce!Sent
<1>2. Announce!Waits(next) \in AnnWaits /\ AnnMaxMisses \in 0..1
  BY AnnWaitsFor, AnnConstants DEF AnnWaits
<1>3. \A c \in lost : c \in in /\ annMisses[c] = 0 /\ annMisses[c] + 1 = 1 /\ 1 \in 0..AnnMaxMisses
  BY <1>1, <1>2
<1>4. annListed' \in [AnnCircles -> AnnWaits]
  BY <1>1, <1>2
<1>5. annMisses' \in [AnnCircles -> 0..AnnMaxMisses]
  <2>1. 0 \in 0..AnnMaxMisses
    BY <1>2
  <2> QED BY <1>1, <1>3, <2>1
<1>6. annBehind' \subseteq AnnCircles /\ \A c \in in : c \notin annBehind' /\ c \in lost => ~(next > annInterval) /\ c \notin annBehind
  BY <1>1
<1>12. ~(next > annInterval) => next <= annInterval
  BY AnnConstants
<1>7. \A c \in AnnCircles \ in : annListed'[c] = lists[c]
  BY <1>1
<1>8. \A c \in in \ lost : annListed'[c] = Announce!Waits(next) /\ annMisses'[c] = 0
  BY <1>1
<1>9. \A c \in lost : annListed'[c] = lists[c] /\ annMisses'[c] = 1
  BY <1>1, <1>3
<1> QED BY <1>3, <1>4, <1>5, <1>6, <1>7, <1>8, <1>9, <1>12

LEMMA AnnTypes ==
  ASSUME AnnInv
  PROVE  /\ annSince \in Nat \cup {None} /\ annInterval \in AnnBase..AnnIdle /\ annTimer \in Nat \cup {None}
         /\ annListed \in [AnnCircles -> AnnWaits] /\ annMisses \in [AnnCircles -> 0..AnnMaxMisses]
         /\ annBehind \subseteq AnnCircles /\ annCircles \subseteq AnnCircles /\ annFellSilent \in BOOLEAN
<1>1. 0..(2 * AnnIdle) \subseteq Nat
  BY AnnConstants
<1> QED BY <1>1 DEF AnnInv, Announce!TypeOK, Announce!Countdown, AnnWaits, AnnLongest, Announce!Expired

\* The tempo after an announcement.
LEMMA AnnLeavesTempo ==
  ASSUME AnnInv, NEW reason, NEW news \in BOOLEAN, NEW in \in SUBSET AnnCircles, NEW lists,
         annPhase = "off" => news, Announce!Leaves(reason, news, in, lists)
  PROVE  /\ annTold' = annContent' /\ annSince' = 0 /\ annInterval' \in AnnBase..AnnIdle
         /\ annTimer' \in Announce!Countdown \cup {None}
         /\ annTimer' # None => annTimer' <= AnnLate(annInterval')
         /\ \/ annInterval' = annInterval /\ annTimer' = annTimer /\ annPhase # "off" /\ ~news /\ reason = "query"
            \/ annTimer' \in Nat /\ annTimer' >= 1 /\ (news => annInterval' = AnnBase) /\ (news \/ reason # "query")
         /\ Announce!Sent(annInterval', in, lists)
<1>1. annInterval \in AnnBase..AnnIdle /\ (annSince = None <=> annPhase = "off")
  BY AnnTypes DEF AnnInv, AnnTempo
<1>2. annTimer \in Announce!Countdown \cup {None} /\ (annTimer # None => annTimer <= AnnLate(annInterval))
  BY DEF AnnInv, AnnTempo, Announce!TypeOK
<1>3. Announce!Slower \in AnnBase..AnnIdle /\ AnnBase \in AnnBase..AnnIdle
  BY <1>1, AnnConstants DEF Announce!Slower, Announce!Least
<1>4. annTold' = annContent' /\ annSince' = 0
  BY DEF Announce!Leaves
<1>5. CASE reason = "query" /\ ~news
  <2>1. annSince # None
    BY <1>1, <1>5
  <2>2. annInterval' = annInterval /\ annTimer' = annTimer /\ Announce!Sent(annInterval', in, lists)
    BY <1>5, <2>1 DEF Announce!Leaves
  <2> QED BY <2>1, <2>2, <1>1, <1>2, <1>4, <1>5
<1>6. CASE ~(reason = "query" /\ ~news)
  <2>1. annInterval' \in {AnnBase, Announce!Slower} /\ (news => annInterval' = AnnBase)
        /\ annTimer' \in Announce!Jittered(annInterval') /\ Announce!Sent(annInterval', in, lists)
    BY <1>6 DEF Announce!Leaves
  <2>2. annInterval' \in AnnBase..AnnIdle
    BY <2>1, <1>3
  <2>3. annTimer' \in 0..(2 * AnnIdle) /\ annTimer' >= 1 /\ annTimer' <= AnnLate(annInterval')
    BY <2>1, <2>2, AnnJittered
  <2>4. annTimer' \in Nat
    BY <2>3, AnnConstants
  <2> QED BY <2>1, <2>2, <2>3, <2>4, <1>4, <1>6 DEF Announce!Countdown
<1> QED BY <1>5, <1>6

\* The neighbours after an announcement: those that heard it, and those that missed it at a
\* tempo that has not slowed down, wait for the next two or for the next one.
LEMMA AnnLeavesWaiting ==
  ASSUME AnnInv, NEW reason, NEW news \in BOOLEAN, NEW in \in SUBSET AnnCircles,
         NEW lists \in [AnnCircles -> AnnWaits],
         \A c \in AnnCircles \ in : lists[c] = None,
         \A c \in in : lists[c] = None \/ (c \in annCircles /\ lists[c] = annListed[c]),
         annPhase = "off" => news, Announce!Leaves(reason, news, in, lists)
  PROVE  /\ annListed' \in [AnnCircles -> AnnWaits] /\ annMisses' \in [AnnCircles -> 0..AnnMaxMisses]
         /\ annBehind' \subseteq AnnCircles
         /\ \A c \in AnnCircles \ in : annListed'[c] = None
         /\ ~annFellSilent => \A c \in in \ annBehind' : annListed'[c] # None => AnnPatient(c)'
<1>1. /\ annInterval \in AnnBase..AnnIdle /\ annListed \in [AnnCircles -> AnnWaits]
      /\ annMisses \in [AnnCircles -> 0..AnnMaxMisses] /\ annBehind \subseteq AnnCircles
  BY AnnTypes
<1>2. /\ annSince' = 0 /\ annInterval' \in AnnBase..AnnIdle
      /\ annTimer' \in Announce!Countdown \cup {None}
      /\ annTimer' # None => annTimer' <= AnnLate(annInterval')
      /\ \/ annInterval' = annInterval /\ annTimer' = annTimer /\ annPhase # "off"
         \/ annTimer' \in Nat /\ annTimer' >= 1
      /\ Announce!Sent(annInterval', in, lists)
  BY AnnLeavesTempo
<1> DEFINE next == annInterval'
<1>3. next \in AnnBase..AnnIdle /\ Announce!Sent(next, in, lists)
  BY <1>2
<1> HIDE DEF next
<1>4. /\ annListed' \in [AnnCircles -> AnnWaits] /\ annMisses' \in [AnnCircles -> 0..AnnMaxMisses]
      /\ annBehind' \subseteq AnnCircles
      /\ \A c \in AnnCircles \ in : annListed'[c] = lists[c]
      /\ \A c \in in :
           \/ annListed'[c] = Announce!Waits(next) /\ annMisses'[c] = 0
           \/ /\ annListed'[c] = lists[c] /\ annMisses[c] = 0 /\ annMisses'[c] = 1
              /\ c \notin annBehind' => next <= annInterval /\ c \notin annBehind
  BY <1>1, <1>3, AnnSent
<1>5. /\ AnnLate(next) \in Nat /\ 2 * AnnLate(next) <= 3 * next /\ AnnLate(next) >= AnnGap /\ next \in Nat
      /\ Announce!Waits(next) \in Nat /\ Announce!Waits(next) >= 3 * next + AnnSlack /\ AnnSlack \in Nat /\ AnnGap \in Nat
  <2>1. Announce!Waits(next) \in 0..AnnLongest /\ AnnLongest \in Nat
    BY <1>3, AnnWaitsFor
  <2>2. Announce!Waits(next) \in Nat
    BY <2>1
  <2> QED BY <1>3, <2>2, AnnLateBounds, AnnWaitsFor, AnnConstants
<1> DEFINE ahead == AnnAhead'
<1>6. ahead \in Nat /\ ahead <= AnnLate(next)
  <2>1. annTimer' \in Nat \cup {None}
    BY <1>2, AnnConstants DEF Announce!Countdown
  <2> QED BY <2>1, <1>2, <1>5 DEF AnnAhead, next
<1> HIDE DEF ahead
<1>7. ASSUME NEW c \in in, annListed'[c] = Announce!Waits(next), annMisses'[c] = 0
      PROVE  AnnPatient(c)'
  <2>1. AnnExtra(c)' = AnnLate(next)
    BY <1>7 DEF AnnExtra, AnnLate, next
  <2>2. Announce!Waits(next) >= ahead + AnnLate(next) /\ Announce!Waits(next) >= (AnnGap - 0) + AnnLate(next)
    BY <1>5, <1>6
  <2> QED BY <2>1, <2>2, <1>2, <1>7 DEF AnnPatient, ahead
<1>8. ASSUME NEW c \in in, ~annFellSilent, annListed'[c] = lists[c], lists[c] # None,
             annMisses[c] = 0, annMisses'[c] = 1, next <= annInterval, c \notin annBehind
      PROVE  AnnPatient(c)'
  <2>1. c \in annCircles \ annBehind /\ annListed'[c] = annListed[c] /\ annListed[c] # None
    BY <1>8
  <2>2. annPhase # "off"
    BY <2>1, AnnTypes DEF AnnInv, AnnTempo
  <2>3. AnnPatient(c)
    BY <2>1, <2>2, <1>8 DEF AnnInv, AnnWaiting
  <2>4. AnnLate(next) <= AnnLate(annInterval) /\ AnnLate(annInterval) \in Nat
    BY <1>1, <1>3, <1>8, AnnLateGrows, AnnLateBounds
  <2>5. annListed[c] >= AnnAhead + AnnLate(annInterval) /\ annListed[c] \in Int /\ AnnAhead \in Nat
    <3>1. annListed[c] \in Int
      BY <2>1, <1>1, AnnConstants, AnnTypes DEF AnnWaits
    <3>2. AnnAhead \in Nat
      BY AnnTypes DEF AnnAhead
    <3> QED BY <3>1, <3>2, <2>3, <1>8 DEF AnnPatient, AnnExtra
  <2>6. AnnExtra(c)' = 0
    BY <1>8 DEF AnnExtra
  <2>7. annListed[c] >= ahead + 0 /\ annListed[c] >= (AnnGap - 0) + 0
    BY <2>4, <2>5, <1>5, <1>6
  <2> QED BY <2>1, <2>6, <2>7, <1>2 DEF AnnPatient, ahead
<1>9. \A c \in AnnCircles \ in : annListed'[c] = None
  BY <1>4
<1>10. ~annFellSilent => \A c \in in \ annBehind' : annListed'[c] # None => AnnPatient(c)'
  BY <1>4, <1>7, <1>8
<1> QED BY <1>4, <1>9, <1>10

\* The neighbours when nothing leaves: a timer set to the end of the gap comes before they give up.
LEMMA AnnPutsOffWaiting ==
  ASSUME AnnInv, annPhase # "off", NEW in \in SUBSET AnnCircles, NEW lists,
         \A c \in in : lists[c] = None \/ (c \in annCircles /\ lists[c] = annListed[c]),
         annListed' = lists, annSince' = annSince, annInterval' = annInterval, annMisses' = annMisses,
         annBehind' = annBehind, annTimer' = annTimer \/ (annSince < AnnGap /\ annTimer' = AnnGap - annSince)
  PROVE  ~annFellSilent => \A c \in in \ annBehind' : annListed'[c] # None => AnnPatient(c)'
<1> SUFFICES ASSUME ~annFellSilent, NEW c \in in \ annBehind, lists[c] # None
             PROVE  AnnPatient(c)'
  OBVIOUS
<1>1. c \in annCircles \ annBehind /\ lists[c] = annListed[c]
  OBVIOUS
<1>2. AnnPatient(c)
  BY <1>1 DEF AnnInv, AnnWaiting
<1>3. AnnExtra(c)' = AnnExtra(c)
  BY DEF AnnExtra, AnnLate
<1>4. annSince \in Nat /\ AnnGap \in Nat
  BY AnnTypes, AnnConstants DEF AnnInv, AnnTempo
<1>5. CASE annTimer' = annTimer
  <2>1. AnnAhead' = AnnAhead
    BY <1>5 DEF AnnAhead
  <2> QED BY <2>1, <1>1, <1>2, <1>3 DEF AnnPatient
<1>6. CASE annTimer' = AnnGap - annSince
  <2>1. AnnAhead' = AnnGap - annSince
    <3>1. AnnGap - annSince \in Int
      BY <1>4
    <3> QED BY <3>1, <1>6, AnnConstants DEF AnnAhead
  <2> QED BY <2>1, <1>1, <1>2, <1>3 DEF AnnPatient
<1> QED BY <1>5, <1>6

\* An announcement that leaves.
LEMMA AnnLeft ==
  ASSUME AnnInv, annPhase' \in {"on", "leaving", "reopening"},
         annFellSilent' = annFellSilent, annSwitches' \in 0..AnnMaxSwitches, annContent' \in AnnContents,
         NEW reason, NEW news \in BOOLEAN, annPhase = "off" => news, annPhase = annPhase' \/ news,
         annPhase' # "on" => news \/ reason = "query", annReply' \in 0..AnnGap \cup {None},
         NEW in \in SUBSET AnnCircles, annCircles' = in, NEW lists \in [AnnCircles -> AnnWaits],
         \A c \in AnnCircles \ in : lists[c] = None,
         \A c \in in : lists[c] = None \/ (c \in annCircles /\ lists[c] = annListed[c]),
         Announce!Leaves(reason, news, in, lists)
  PROVE  AnnInv'
<1>a. /\ annInterval \in AnnBase..AnnIdle /\ annTimer \in Announce!Countdown \cup {None}
      /\ annReply \in 0..AnnGap \cup {None} /\ annTold \in AnnContents \cup {None}
      /\ annMisses \in [AnnCircles -> 0..AnnMaxMisses] /\ annBehind \subseteq AnnCircles
  BY AnnTypes DEF AnnInv, AnnTempo, Announce!TypeOK
<1>b. /\ annPhase' \in {"on", "leaving", "reopening"} /\ AnnGap \in Nat \ {0} /\ None \notin AnnContents
      /\ None \notin Int /\ annFellSilent \in BOOLEAN
  BY AnnConstants, AnnTypes
<1>1. /\ annTold' = annContent' /\ annSince' = 0 /\ annInterval' \in AnnBase..AnnIdle
      /\ annTimer' \in Announce!Countdown \cup {None}
      /\ annTimer' # None => annTimer' <= AnnLate(annInterval')
      /\ \/ annInterval' = annInterval /\ annTimer' = annTimer /\ annPhase # "off" /\ ~news /\ reason = "query"
         \/ annTimer' \in Nat /\ annTimer' >= 1 /\ (news => annInterval' = AnnBase) /\ (news \/ reason # "query")
  BY AnnLeavesTempo
<1>2. /\ annListed' \in [AnnCircles -> AnnWaits] /\ annMisses' \in [AnnCircles -> 0..AnnMaxMisses]
      /\ annBehind' \subseteq AnnCircles
      /\ \A c \in AnnCircles \ in : annListed'[c] = None
      /\ ~annFellSilent => \A c \in in \ annBehind' : annListed'[c] # None => AnnPatient(c)'
  <2>1. AnnInv /\ (annPhase = "off" => news) /\ Announce!Leaves(reason, news, in, lists)
    OBVIOUS
  <2>2. news \in BOOLEAN /\ in \in SUBSET AnnCircles /\ lists \in [AnnCircles -> AnnWaits]
    OBVIOUS
  <2>3. /\ \A c \in AnnCircles \ in : lists[c] = None
        /\ \A c \in in : lists[c] = None \/ (c \in annCircles /\ lists[c] = annListed[c])
    OBVIOUS
  <2> QED BY <2>1, <2>2, <2>3, AnnLeavesWaiting, ZenonT(60)
<1>3. \/ annTimer' = annTimer /\ annPhase' = annPhase
      \/ annTimer' # None /\ annTimer' >= 1 /\ (annPhase' # "on" => annTimer' <= AnnLate(AnnBase))
  BY <1>1, <1>b
<1>4. Announce!TypeOK'
  <2>1. 0 \in Announce!Countdown
    BY AnnConstants DEF Announce!Countdown
  <2> QED BY <2>1, <1>1, <1>2, <1>a, <1>b DEF Announce!TypeOK, AnnWaits, AnnLongest, Announce!Expired
<1>5. AnnTempo'
  <2>1. annSince' # None
    BY <1>1, <1>b
  <2>2. annPhase' \in {"leaving", "reopening", "closed"} => annTimer' = None \/ (annTimer' >= 1 /\ annTimer' <= AnnLate(AnnBase))
    BY <1>3 DEF AnnInv, AnnTempo
  <2>3. annPhase' = "on" /\ ~annFellSilent' => annTimer' # None
    BY <1>3 DEF AnnInv, AnnTempo
  <2>4. annTimer' # None => annTimer' <= AnnLate(annInterval)'
    BY <1>1 DEF AnnLate
  <2>5. AnnLate(AnnBase)' = AnnLate(AnnBase)
    BY DEF AnnLate
  <2> QED BY <2>1, <2>2, <2>3, <2>4, <2>5, <1>b DEF AnnTempo
<1>6. AnnNews' /\ AnnForget' /\ AnnWaiting'
  BY <1>1, <1>2, <1>b DEF AnnNews, AnnForget, AnnWaiting
<1> QED BY <1>4, <1>5, <1>6 DEF AnnInv

\* An announcement that is put off, or not needed.
LEMMA AnnNotLeft ==
  ASSUME AnnInv, annPhase \in {"on", "leaving", "reopening"}, annPhase' = annPhase,
         annFellSilent' = annFellSilent, annSwitches' \in 0..AnnMaxSwitches, annContent' \in AnnContents,
         NEW last \in {annTold, None},
         NEW in \in SUBSET AnnCircles, annCircles' = in, NEW lists \in [AnnCircles -> AnnWaits],
         \A c \in AnnCircles \ in : lists[c] = None,
         \A c \in in : lists[c] = None \/ (c \in annCircles /\ lists[c] = annListed[c]),
         annListed' = lists, annSince' = annSince, annInterval' = annInterval, annMisses' = annMisses,
         annBehind' = annBehind, annTold' = last, annReply' \in 0..AnnGap \cup {None},
         \/ annTimer' = annTimer /\ ((last = annTold /\ annContent' = annContent) \/ annContent' = last)
         \/ annSince < AnnGap /\ annTimer' = AnnGap - annSince
  PROVE  AnnInv'
<1>a. /\ annSince \in Nat /\ annSince \in Announce!Countdown /\ annInterval \in AnnBase..AnnIdle /\ annTimer \in Announce!Countdown \cup {None}
      /\ annReply \in 0..AnnGap \cup {None} /\ annTold \in AnnContents \cup {None}
      /\ annMisses \in [AnnCircles -> 0..AnnMaxMisses] /\ annBehind \subseteq AnnCircles
  BY AnnTypes DEF AnnInv, AnnTempo, Announce!TypeOK
<1>b. /\ annPhase' \in {"on", "leaving", "reopening"} /\ AnnGap \in Nat \ {0} /\ None \notin AnnContents
      /\ None \notin Int /\ annFellSilent \in BOOLEAN
  BY AnnConstants, AnnTypes
<1>1. ~annFellSilent => \A c \in in \ annBehind' : annListed'[c] # None => AnnPatient(c)'
  BY <1>b, AnnPutsOffWaiting
<1>2. /\ annTimer' = annTimer
      \/ /\ annTimer' \in Announce!Countdown /\ annTimer' # None /\ annTimer' >= 1 /\ annTimer' <= AnnGap
         /\ annTimer' + annSince <= AnnGap
  <2>1. AnnGap <= 2 * AnnIdle /\ AnnIdle \in Nat
    BY AnnConstants
  <2> QED BY <2>1, <1>a, <1>b DEF Announce!Countdown
<1>3. Announce!TypeOK'
  <2>1. annTimer' \in Announce!Countdown \cup {None}
    BY <1>2, <1>a
  <2> QED BY <2>1, <1>a, <1>b DEF Announce!TypeOK, AnnWaits, AnnLongest, Announce!Expired
<1>4. AnnGap <= AnnLate(annInterval) /\ AnnGap <= AnnLate(AnnBase) /\ AnnLate(annInterval) \in Nat /\ AnnLate(AnnBase) \in Nat
  <2>1. AnnBase \in AnnBase..AnnIdle
    BY AnnConstants
  <2> QED BY <2>1, <1>a, AnnLateBounds
<1>5. AnnTempo'
  <2>1. annSince' # None
    BY <1>a, <1>b
  <2>2. annPhase' \in {"leaving", "reopening", "closed"} => annTimer' = None \/ (annTimer' >= 1 /\ annTimer' <= AnnLate(AnnBase))
    <3>1. CASE annTimer' = annTimer
      BY <3>1 DEF AnnInv, AnnTempo
    <3>2. CASE annTimer' \in Announce!Countdown /\ annTimer' >= 1 /\ annTimer' <= AnnGap
      BY <3>2, <1>4, <1>b, AnnConstants DEF Announce!Countdown
    <3> QED BY <3>1, <3>2, <1>2
  <2>3. annPhase' = "on" /\ ~annFellSilent' => annTimer' # None
    BY <1>2 DEF AnnInv, AnnTempo
  <2>4. annTimer' # None => annTimer' <= AnnLate(annInterval)
    <3>1. CASE annTimer' = annTimer
      BY <3>1 DEF AnnInv, AnnTempo
    <3>2. CASE annTimer' \in Announce!Countdown /\ annTimer' >= 1 /\ annTimer' <= AnnGap
      BY <3>2, <1>4, <1>b, AnnConstants DEF Announce!Countdown
    <3> QED BY <3>1, <3>2, <1>2
  <2>5. AnnLate(AnnBase)' = AnnLate(AnnBase) /\ AnnLate(annInterval)' = AnnLate(annInterval)
    BY DEF AnnLate
  <2> QED BY <2>1, <2>2, <2>3, <2>4, <2>5, <1>b DEF AnnTempo
<1>6. AnnNews'
  <2>1. ASSUME annPhase' = "on", annTold' # annContent'
        PROVE  annTimer' # None /\ annTimer' + annSince' <= AnnGap
    <3>1. CASE annTimer' = annTimer
      <4>1. CASE last = annTold /\ annContent' = annContent
        BY <4>1, <3>1, <2>1 DEF AnnInv, AnnNews
      <4>2. CASE annContent' = last
        BY <4>2, <2>1
      <4>3. CASE annSince < AnnGap /\ annTimer' = AnnGap - annSince
        BY <4>3, <1>a, <1>b
      <4> QED BY <4>1, <4>2, <4>3
    <3>2. CASE annTimer' # None /\ annTimer' + annSince <= AnnGap
      BY <3>2
    <3> QED BY <3>1, <3>2, <1>2
  <2> QED BY <2>1 DEF AnnNews
<1>7. AnnForget' /\ AnnWaiting'
  BY <1>1, <1>b DEF AnnForget, AnnWaiting
<1> QED BY <1>3, <1>5, <1>6, <1>7 DEF AnnInv

\* A change or a question, whether it is announced, put off or nothing new.
LEMMA AnnAnnounces ==
  ASSUME AnnInv, annPhase \in {"on", "leaving", "reopening"}, annPhase' = annPhase,
         annFellSilent' = annFellSilent, annSwitches' \in 0..AnnMaxSwitches, annContent' \in AnnContents,
         NEW reason \in {"query", "change"}, NEW last \in {annTold, None}, annPhase # "on" => last = annTold,
         reason = "query" => last = annTold /\ annContent' = annContent,
         NEW in \in SUBSET AnnCircles, annCircles' = in, NEW lists \in [AnnCircles -> AnnWaits],
         \A c \in AnnCircles \ in : lists[c] = None,
         \A c \in in : lists[c] = None \/ (c \in annCircles /\ lists[c] = annListed[c]),
         Announce!Announces(reason, last, in, lists)
  PROVE  AnnInv'
<1> DEFINE news == annContent' # last
<1>1. /\ annSince \in Nat /\ annSince \in Announce!Countdown /\ annInterval \in AnnBase..AnnIdle
      /\ annTimer \in Announce!Countdown \cup {None}
      /\ annReply \in 0..AnnGap \cup {None} /\ annTold \in AnnContents \cup {None}
      /\ annMisses \in [AnnCircles -> 0..AnnMaxMisses] /\ annBehind \subseteq AnnCircles
  BY AnnTypes DEF AnnInv, AnnTempo, Announce!TypeOK
<1>2. annPhase # "off" /\ annPhase' \in {"on", "leaving", "reopening"} /\ AnnGap \in Nat \ {0} /\ None \notin AnnContents
      /\ None \notin Int /\ annFellSilent \in BOOLEAN
  BY AnnConstants, AnnTypes
<1>3. CASE Announce!Leaves(reason, news, in, lists) /\ annReply' = annReply /\ (news \/ reason = "query")
  <2>1. news \in BOOLEAN
    OBVIOUS
  <2>2. annReply' \in 0..AnnGap \cup {None}
    BY <1>1, <1>3
  <2> HIDE DEF news
  <2> QED BY <2>1, <2>2, <1>2, <1>3, AnnLeft
<1>4. CASE /\ annListed' = lists /\ annSince' = annSince /\ annInterval' = annInterval /\ annMisses' = annMisses
           /\ annBehind' = annBehind /\ annTold' = last /\ annReply' \in 0..AnnGap \cup {None}
           /\ \/ annTimer' = annTimer /\ ((last = annTold /\ annContent' = annContent) \/ annContent' = last)
              \/ annSince < AnnGap /\ annTimer' = AnnGap - annSince
  BY <1>2, <1>4, AnnNotLeft
<1>5. CASE annSince = None \/ (annSince >= AnnGap /\ (news \/ reason # "change"))
  BY <1>3, <1>5, <1>1, <1>2 DEF Announce!Announces
<1>6. CASE ~(annSince = None \/ (annSince >= AnnGap /\ (news \/ reason # "change")))
  <2>1. CASE news \/ reason # "change"
    <3>1. annSince < AnnGap /\ annTold' = last /\ Announce!PutOff(reason, lists)
      BY <2>1, <1>1, <1>2, <1>6 DEF Announce!Announces
    <3>2. AnnGap - annSince \in 0..AnnGap
      BY <3>1, <1>1, <1>2
    <3>3. CASE reason = "query"
      BY <3>1, <3>2, <3>3, <1>1, <1>4 DEF Announce!PutOff
    <3>4. CASE reason # "query"
      BY <3>1, <3>2, <3>4, <1>1, <1>4 DEF Announce!PutOff
    <3> QED BY <3>3, <3>4
  <2>2. CASE ~(news \/ reason # "change")
    BY <2>2, <1>1, <1>4, <1>6 DEF Announce!Announces
  <2> QED BY <2>1, <2>2
<1> QED BY <1>5, <1>6

LEMMA AnnInit == ASSUME Announce!Init PROVE AnnInv
<1>1. /\ annPhase = "off" /\ annSince = None /\ annTimer = None /\ annInterval = AnnBase /\ annBehind = {}
      /\ annListed = [c \in AnnCircles |-> None] /\ annMisses = [c \in AnnCircles |-> 0]
  BY DEF Announce!Init
<1>2. 0 \in 0..AnnMaxMisses /\ 0 \in 0..AnnMaxSwitches /\ AnnBase \in AnnBase..AnnIdle
  BY AnnConstants
<1>3. Announce!TypeOK
  BY <1>1, <1>2 DEF Announce!Init, Announce!TypeOK
<1>4. AnnTempo /\ AnnNews /\ AnnForget /\ AnnWaiting
  BY <1>1 DEF AnnTempo, AnnNews, AnnForget, AnnWaiting
<1> QED BY <1>3, <1>4 DEF AnnInv

\* Who has left a circle is not listed there any more.
LEMMA AnnFarewell ==
  ASSUME AnnInv, NEW out \in SUBSET AnnCircles
  PROVE  /\ Announce!Farewell(out) \in [AnnCircles -> AnnWaits]
         /\ \A c \in AnnCircles : c \in out \/ c \notin annCircles => Announce!Farewell(out)[c] = None
         /\ \A c \in AnnCircles : Announce!Farewell(out)[c] = None \/ (c \in annCircles /\ Announce!Farewell(out)[c] = annListed[c])
BY AnnTypes DEF Announce!Farewell, AnnInv, AnnForget, AnnWaits

LEMMA AnnListedNow ==
  ASSUME AnnInv
  PROVE  /\ annCircles \in SUBSET AnnCircles /\ annListed \in [AnnCircles -> AnnWaits]
         /\ \A c \in AnnCircles \ annCircles : annListed[c] = None
         /\ \A c \in annCircles : annListed[c] = None \/ (c \in annCircles /\ annListed[c] = annListed[c])
BY AnnTypes DEF AnnInv, AnnForget

LEMMA AnnMore ==
  ASSUME AnnInv
  PROVE  /\ annReply \in 0..AnnGap \cup {None} /\ annContent \in AnnContents /\ annSwitches \in 0..AnnMaxSwitches
         /\ annTold \in AnnContents \cup {None} /\ (annPhase # "off" => annSince \in Nat /\ annSince \in Announce!Countdown)
         /\ annTimer \in Announce!Countdown \cup {None}
BY AnnTypes DEF AnnInv, AnnTempo, Announce!TypeOK

LEMMA AnnStart == ASSUME AnnInv, Announce!Start PROVE AnnInv'
<1>1. /\ annPhase = "off" /\ annPhase' = "on" /\ annContent' = annContent /\ annCircles' = annCircles
      /\ annSwitches' = annSwitches /\ annFellSilent' = annFellSilent /\ annReply' = annReply
      /\ Announce!Leaves("change", TRUE, annCircles, annListed)
  BY DEF Announce!Start
<1>2. TRUE \in BOOLEAN /\ (annPhase = "off" => TRUE) /\ (annPhase = annPhase' \/ TRUE)
      /\ (annPhase' # "on" => TRUE \/ "change" = "query")
  OBVIOUS
<1>3. annReply' \in 0..AnnGap \cup {None} /\ annSwitches' \in 0..AnnMaxSwitches /\ annContent' \in AnnContents
      /\ annPhase' \in {"on", "leaving", "reopening"}
  BY <1>1, AnnMore
<1> QED BY <1>1, <1>2, <1>3, AnnListedNow, AnnLeft, ZenonT(60)

LEMMA AnnChanges == ASSUME AnnInv, NEW v \in AnnContents, Announce!Changes(v) PROVE AnnInv'
<1>1. /\ annPhase \in {"on", "leaving", "reopening"} /\ annPhase' = annPhase /\ annFellSilent' = annFellSilent
      /\ annSwitches' \in 0..AnnMaxSwitches /\ annContent' \in AnnContents /\ annCircles' = annCircles
      /\ Announce!Announces("change", annTold, annCircles, annListed)
  BY AnnMore DEF Announce!Changes
<1>2. "change" \in {"query", "change"} /\ annTold \in {annTold, None} /\ "change" # "query"
  OBVIOUS
<1> QED BY <1>1, <1>2, AnnListedNow, AnnAnnounces, ZenonT(60)

LEMMA AnnAsked == ASSUME AnnInv, Announce!Asked PROVE AnnInv'
<1>1. /\ annPhase \in {"on", "leaving", "reopening"} /\ annPhase' = annPhase /\ annFellSilent' = annFellSilent
      /\ annSwitches' \in 0..AnnMaxSwitches /\ annContent' \in AnnContents /\ annCircles' = annCircles
      /\ annContent' = annContent /\ Announce!Announces("query", annTold, annCircles, annListed)
  BY AnnMore DEF Announce!Asked, Announce!Listens
<1>2. "query" \in {"query", "change"} /\ annTold \in {annTold, None}
  OBVIOUS
<1> QED BY <1>1, <1>2, AnnListedNow, AnnAnnounces, ZenonT(60)

LEMMA AnnRefresh == ASSUME AnnInv, Announce!Refresh PROVE AnnInv'
<1>1. /\ annPhase \in {"on", "leaving", "reopening"} /\ annPhase' = annPhase /\ annFellSilent' = annFellSilent
      /\ annSwitches' \in 0..AnnMaxSwitches /\ annContent' \in AnnContents /\ annCircles' = annCircles
      /\ annPhase = "on" /\ Announce!Announces("change", None, annCircles, annListed)
  BY AnnMore DEF Announce!Refresh
<1>2. "change" \in {"query", "change"} /\ None \in {annTold, None} /\ "change" # "query"
  OBVIOUS
<1> QED BY <1>1, <1>2, AnnListedNow, AnnAnnounces, ZenonT(60)

LEMMA AnnSwitchCircles == ASSUME AnnInv, NEW in \in SUBSET AnnCircles, Announce!SwitchCircles(in) PROVE AnnInv'
<1> DEFINE lists == Announce!Farewell(annCircles \ in)
<1>1. /\ annPhase \in {"on", "leaving", "reopening"} /\ annPhase' = annPhase /\ annFellSilent' = annFellSilent
      /\ annContent' \in AnnContents /\ annCircles' = in /\ annSwitches' = annSwitches + 1 /\ annSwitches < AnnMaxSwitches
      /\ annPhase = "on" /\ Announce!Announces("change", None, in, lists)
  BY AnnMore DEF Announce!SwitchCircles
<1>2. annSwitches' \in 0..AnnMaxSwitches
  BY <1>1, AnnMore, AnnConstants
<1>3. "change" \in {"query", "change"} /\ None \in {annTold, None} /\ "change" # "query"
  OBVIOUS
<1>4. /\ lists \in [AnnCircles -> AnnWaits] /\ \A c \in AnnCircles \ in : lists[c] = None
      /\ \A c \in in : lists[c] = None \/ (c \in annCircles /\ lists[c] = annListed[c])
  <2>1. annCircles \ in \in SUBSET AnnCircles
    BY AnnTypes
  <2> QED BY <2>1, AnnFarewell
<1> HIDE DEF lists
<1> QED BY <1>1, <1>2, <1>3, <1>4, AnnAnnounces, ZenonT(60)

LEMMA AnnTickDue == ASSUME AnnInv, Announce!TickDue PROVE AnnInv'
<1>1. /\ annPhase \in {"on", "leaving", "reopening"} /\ annPhase' = annPhase /\ annFellSilent' = annFellSilent
      /\ annSwitches' \in 0..AnnMaxSwitches /\ annContent' \in AnnContents /\ annCircles' = annCircles
      /\ annContent' = annContent /\ annTimer = 0 /\ annTimer # None
  BY AnnMore, AnnConstants DEF Announce!TickDue, Announce!Listens
<1>2. annPhase = "on"
  BY <1>1 DEF AnnInv, AnnTempo
<1>3. CASE annSince < AnnGap
  <2>1. /\ annTold' = annTold /\ annListed' = annListed /\ annSince' = annSince /\ annInterval' = annInterval
        /\ annMisses' = annMisses /\ annBehind' = annBehind /\ annReply' = annReply /\ annTimer' = AnnGap - annSince
    BY <1>3 DEF Announce!TickDue, Announce!PutOff
  <2>2. annTold \in {annTold, None} /\ annReply' \in 0..AnnGap \cup {None}
    BY <2>1, AnnMore
  <2> QED BY <1>1, <1>3, <2>1, <2>2, AnnListedNow, AnnNotLeft
<1>4. CASE ~(annSince < AnnGap)
  <2> DEFINE news == annContent # annTold
  <2>1. Announce!Leaves("tick", news, annCircles, annListed) /\ annReply' = annReply /\ news \in BOOLEAN
    BY <1>4 DEF Announce!TickDue
  <2>2. annReply' \in 0..AnnGap \cup {None}
    BY <2>1, AnnMore
  <2>3. (annPhase = "off" => news) /\ (annPhase = annPhase' \/ news) /\ (annPhase' # "on" => news \/ "tick" = "query")
    BY <1>1, <1>2
  <2> HIDE DEF news
  <2> QED BY <1>1, <2>1, <2>2, <2>3, AnnListedNow, AnnLeft, ZenonT(60)
<1> QED BY <1>3, <1>4

LEMMA AnnReplyDue == ASSUME AnnInv, Announce!ReplyDue PROVE AnnInv'
<1>1. /\ annPhase \in {"on", "leaving", "reopening"} /\ annPhase' = annPhase /\ annFellSilent' = annFellSilent
      /\ annSwitches' \in 0..AnnMaxSwitches /\ annContent' \in AnnContents /\ annCircles' = annCircles
      /\ annContent' = annContent /\ annSince \in Nat
  BY AnnMore DEF Announce!ReplyDue, Announce!Listens
<1>3. CASE annSince < AnnGap
  <2>1. /\ annTold' = annTold /\ annListed' = annListed /\ annSince' = annSince /\ annInterval' = annInterval
        /\ annMisses' = annMisses /\ annBehind' = annBehind /\ annTimer' = annTimer /\ annReply' = AnnGap - annSince
    BY <1>3 DEF Announce!ReplyDue
  <2>2. annTold \in {annTold, None} /\ annReply' \in 0..AnnGap \cup {None}
    BY <2>1, <1>1, <1>3, AnnConstants
  <2> QED BY <1>1, <1>3, <2>1, <2>2, AnnListedNow, AnnNotLeft
<1>4. CASE ~(annSince < AnnGap)
  <2> DEFINE news == annContent # annTold
  <2>1. Announce!Leaves("query", news, annCircles, annListed) /\ annReply' = None /\ news \in BOOLEAN
    BY <1>4 DEF Announce!ReplyDue
  <2>2. annReply' \in 0..AnnGap \cup {None}
    BY <2>1
  <2>3. (annPhase = "off" => news) /\ (annPhase = annPhase' \/ news) /\ (annPhase' # "on" => news \/ "query" = "query")
    BY <1>1
  <2> HIDE DEF news
  <2> QED BY <1>1, <2>1, <2>2, <2>3, AnnListedNow, AnnLeft, ZenonT(60)
<1> QED BY <1>3, <1>4

LEMMA AnnLeave ==
  ASSUME AnnInv, NEW to \in {"leaving", "reopening"}, Announce!Leave(to), annSwitches' \in 0..AnnMaxSwitches
  PROVE  AnnInv'
<1>1. /\ annPhase = "on" /\ annPhase' = to /\ annTimer' = None /\ annReply' = None
      /\ annContent' = annContent /\ annTold' = annTold /\ annSince' = annSince /\ annInterval' = annInterval
      /\ annCircles' = annCircles /\ annMisses' = annMisses /\ annBehind' = annBehind
      /\ annFellSilent' = annFellSilent /\ annListed' = Announce!Farewell(annCircles)
  BY DEF Announce!Leave
<1>2. annListed' \in [AnnCircles -> AnnWaits] /\ \A c \in AnnCircles : annListed'[c] = None
  <2>1. annCircles \in SUBSET AnnCircles
    BY AnnTypes
  <2> QED BY <2>1, <1>1, AnnFarewell
<1>3. annCircles \subseteq AnnCircles /\ annSince # None
  BY <1>1, AnnTypes DEF AnnInv, AnnTempo
<1>4. Announce!TypeOK'
  BY <1>1, <1>2 DEF AnnInv, Announce!TypeOK, AnnWaits, AnnLongest, Announce!Expired
<1>5. AnnTempo' /\ AnnNews' /\ AnnForget' /\ AnnWaiting'
  BY <1>1, <1>2, <1>3 DEF AnnTempo, AnnNews, AnnForget, AnnWaiting
<1> QED BY <1>4, <1>5 DEF AnnInv

LEMMA AnnStopped == ASSUME AnnInv, Announce!Stopped PROVE AnnInv'
<1>1. /\ annPhase = "leaving" /\ annPhase' = "gone" /\ annTimer' = annTimer /\ annReply' = annReply
      /\ annContent' = annContent /\ annTold' = annTold /\ annSince' = annSince /\ annInterval' = annInterval
      /\ annCircles' = annCircles /\ annMisses' = annMisses /\ annBehind' = annBehind
      /\ annFellSilent' = annFellSilent /\ annListed' = annListed /\ annSwitches' = annSwitches
  BY DEF Announce!Stopped
<1>2. Announce!TypeOK'
  BY <1>1 DEF AnnInv, Announce!TypeOK
<1>3. AnnTempo' /\ AnnNews' /\ AnnForget'
  BY <1>1 DEF AnnInv, AnnTempo, AnnNews, AnnForget, AnnLate
<1>4. AnnWaiting'
  BY <1>1 DEF AnnInv, AnnWaiting, AnnPatient, AnnAhead, AnnExtra, AnnLate
<1> QED BY <1>2, <1>3, <1>4 DEF AnnInv

LEMMA AnnClosed == ASSUME AnnInv, Announce!Closed PROVE AnnInv'
<1>1. /\ annPhase = "reopening" /\ annPhase' = "closed" /\ annTimer' = annTimer /\ annReply' = annReply
      /\ annContent' \in AnnContents /\ annTold' = annTold /\ annSince' = annSince /\ annInterval' = annInterval
      /\ annCircles' = annCircles /\ annMisses' = annMisses /\ annBehind' = annBehind
      /\ annFellSilent' = annFellSilent /\ annListed' = annListed /\ annSwitches' = annSwitches
  BY DEF Announce!Closed
<1>2. Announce!TypeOK'
  BY <1>1 DEF AnnInv, Announce!TypeOK
<1>3. AnnTempo' /\ AnnNews' /\ AnnForget'
  BY <1>1 DEF AnnInv, AnnTempo, AnnNews, AnnForget, AnnLate
<1>4. AnnWaiting'
  BY <1>1 DEF AnnInv, AnnWaiting, AnnPatient, AnnAhead, AnnExtra, AnnLate
<1> QED BY <1>2, <1>3, <1>4 DEF AnnInv

LEMMA AnnStartAgain == ASSUME AnnInv, Announce!StartAgain PROVE AnnInv'
<1>1. /\ annPhase = "closed" /\ annPhase' = "on" /\ annContent' = annContent /\ annCircles' = annCircles
      /\ annSwitches' = annSwitches
  BY DEF Announce!StartAgain
<1>2. CASE annContent # annTold /\ annSince >= AnnGap
  <2>1. Announce!Leaves("change", TRUE, annCircles, annListed) /\ annReply' = annReply /\ annFellSilent' = annFellSilent
    BY <1>2 DEF Announce!StartAgain
  <2>2. TRUE \in BOOLEAN /\ (annPhase = "off" => TRUE) /\ (annPhase = annPhase' \/ TRUE)
        /\ (annPhase' # "on" => TRUE \/ "change" = "query")
    OBVIOUS
  <2>3. annReply' \in 0..AnnGap \cup {None} /\ annSwitches' \in 0..AnnMaxSwitches /\ annContent' \in AnnContents
        /\ annPhase' \in {"on", "leaving", "reopening"}
    BY <1>1, <2>1, AnnMore
  <2> QED BY <1>1, <2>1, <2>2, <2>3, AnnListedNow, AnnLeft, ZenonT(60)
<1>3. CASE ~(annContent # annTold /\ annSince >= AnnGap)
  <2>1. /\ annInterval' = AnnBase /\ annTimer' = (IF annContent # annTold THEN AnnGap - annSince ELSE annTimer)
        /\ annFellSilent' = (annFellSilent \/ annTimer' = None) /\ annTold' = annTold /\ annSince' = annSince
        /\ annReply' = annReply /\ annListed' = annListed /\ annMisses' = annMisses /\ annBehind' = annBehind
    BY <1>3 DEF Announce!StartAgain
  <2>2. annSince \in Nat /\ annSince \in Announce!Countdown /\ annInterval \in AnnBase..AnnIdle /\ AnnBase \in AnnBase..AnnIdle
        /\ AnnGap \in Nat \ {0} /\ AnnGap <= 2 * AnnIdle /\ None \notin Int
    BY <1>1, AnnMore, AnnTypes, AnnConstants
  <2>3. AnnGap <= AnnLate(AnnBase) /\ AnnLate(AnnBase) <= AnnLate(annInterval) /\ AnnLate(AnnBase) \in Nat
        /\ AnnLate(annInterval) \in Nat
    BY <2>2, AnnLateBounds
  <2>4. \/ annContent = annTold /\ annTimer' = annTimer
        \/ /\ annSince < AnnGap /\ annTimer' = AnnGap - annSince /\ annTimer' \in Announce!Countdown
           /\ annTimer' # None /\ annTimer' <= AnnGap /\ annTimer' + annSince <= AnnGap
    <3>1. CASE annContent = annTold
      BY <3>1, <2>1
    <3>2. CASE annContent # annTold
      <4>1. annSince < AnnGap
        BY <3>2, <1>3, <2>2
      <4>2. annTimer' = AnnGap - annSince
        BY <3>2, <2>1
      <4> QED BY <4>1, <4>2, <2>2, AnnConstants DEF Announce!Countdown
    <3> QED BY <3>1, <3>2
  <2>5. Announce!TypeOK'
    <3>1. annTimer' \in Announce!Countdown \cup {None} /\ annFellSilent' \in BOOLEAN
      BY <2>4, <2>1, AnnMore, AnnTypes
    <3> QED BY <3>1, <1>1, <2>1, <2>2 DEF AnnInv, Announce!TypeOK
  <2>6. AnnTempo'
    <3>1. annTimer' # None => annTimer' <= AnnLate(AnnBase)
      <4>1. CASE annTimer' = annTimer
        BY <4>1, <1>1 DEF AnnInv, AnnTempo
      <4>2. CASE annTimer' \in Announce!Countdown /\ annTimer' <= AnnGap
        BY <4>2, <2>2, <2>3, AnnConstants DEF Announce!Countdown
      <4> QED BY <4>1, <4>2, <2>4
    <3>2. annTimer' # None => annTimer' <= AnnLate(annInterval)'
      BY <3>1, <2>1 DEF AnnLate
    <3>3. annSince' # None
      BY <2>1, <2>2
    <3> QED BY <3>2, <3>3, <1>1, <2>1 DEF AnnTempo
  <2>7. AnnNews' /\ AnnForget'
    BY <1>1, <2>1, <2>4 DEF AnnInv, AnnNews, AnnForget
  <2>8. AnnWaiting'
    <3> SUFFICES ASSUME ~annFellSilent, NEW c \in annCircles \ annBehind, annListed[c] # None
                 PROVE  AnnPatient(c)'
      BY <1>1, <2>1 DEF AnnWaiting
    <3>1. AnnPatient(c)
      BY <1>1 DEF AnnInv, AnnWaiting
    <3>2. c \in AnnCircles /\ annListed[c] \in Int
      BY AnnTypes, AnnConstants DEF AnnWaits
    <3>3. AnnExtra(c) \in Nat /\ AnnExtra(c)' \in Nat /\ AnnExtra(c)' <= AnnExtra(c)
      <4>1. AnnExtra(c)' = IF annMisses[c] = 0 THEN AnnLate(AnnBase) ELSE 0
        BY <2>1 DEF AnnExtra, AnnLate
      <4> QED BY <4>1, <2>3 DEF AnnExtra
    <3>4. AnnAhead \in Int /\ (AnnAhead' = AnnAhead \/ AnnAhead' = AnnGap - annSince)
      BY <2>4, AnnTypes DEF AnnAhead
    <3>5. annListed[c] >= AnnAhead + AnnExtra(c) /\ annListed[c] >= (AnnGap - annSince) + AnnExtra(c)
      BY <3>1 DEF AnnPatient
    <3> DEFINE extra == AnnExtra(c)'
               ahead == AnnAhead'
    <3> HIDE DEF extra, ahead
    <3>6. annListed[c] >= ahead + extra /\ annListed[c] >= (AnnGap - annSince) + extra
      BY <3>2, <3>3, <3>4, <3>5, <2>2 DEF extra, ahead
    <3> QED BY <3>6, <2>1 DEF AnnPatient, extra, ahead
  <2> QED BY <2>5, <2>6, <2>7, <2>8 DEF AnnInv
<1> QED BY <1>2, <1>3

LEMMA AnnTick == ASSUME AnnInv, Announce!Tick PROVE AnnInv'
<1>1. /\ annPhase = "on" /\ annPhase' = "on" /\ annContent' = annContent /\ annTold' = annTold
      /\ annInterval' = annInterval /\ annCircles' = annCircles /\ annMisses' = annMisses /\ annBehind' = annBehind
      /\ annFellSilent' = annFellSilent /\ annSwitches' = annSwitches /\ annTimer # 0 /\ annReply # 0
      /\ annTimer' = Announce!Later(annTimer) /\ annReply' = Announce!Later(annReply)
      /\ annListed' = [c \in AnnCircles |-> Announce!Waited(annListed[c])]
      /\ annSince' = IF annSince = None THEN None ELSE Announce!Least(annSince + 1, 2 * AnnIdle)
  BY DEF Announce!Tick
<1>2. annSince \in Nat /\ annSince <= 2 * AnnIdle /\ AnnIdle \in Nat /\ AnnGap \in Nat \ {0} /\ AnnGap <= 2 * AnnIdle /\ None \notin Int
      /\ annSince # None
  BY <1>1, AnnMore, AnnConstants DEF Announce!Countdown
<1>3. /\ annSince' \in Nat /\ annSince' <= 2 * AnnIdle /\ annSince' <= annSince + 1
      /\ annSince' = annSince + 1 \/ annSince' = 2 * AnnIdle
  BY <1>1, <1>2 DEF Announce!Least
<1>4. \/ annTimer = None /\ annTimer' = None
      \/ /\ annTimer # None /\ annTimer' # None /\ annTimer \in Nat /\ annTimer' \in Nat /\ annTimer' = annTimer - 1
         /\ annTimer <= 2 * AnnIdle
  BY <1>1, <1>2, AnnMore DEF Announce!Later, Announce!Countdown
<1>5. annReply' \in 0..AnnGap \cup {None}
  BY <1>1, <1>2, AnnMore DEF Announce!Later
<1>6. /\ annListed' \in [AnnCircles -> AnnWaits]
      /\ \A c \in AnnCircles : annListed[c] = None <=> annListed'[c] = None
      /\ \A c \in AnnCircles : annListed[c] # None /\ annListed[c] # -1 => annListed'[c] = annListed[c] - 1
  <2>1. AnnLongest \in Nat
    <3>1. AnnBase \in AnnBase..AnnIdle
      BY AnnConstants
    <3> QED BY <3>1, AnnWaitsFor
  <2>2. ASSUME NEW c \in AnnCircles
        PROVE  /\ annListed'[c] \in AnnWaits /\ (annListed[c] = None <=> annListed'[c] = None)
               /\ annListed[c] # None /\ annListed[c] # -1 => annListed'[c] = annListed[c] - 1
    <3>1. annListed[c] \in AnnWaits /\ annListed'[c] = Announce!Waited(annListed[c])
      BY <1>1, AnnTypes
    <3>2. CASE annListed[c] = None \/ annListed[c] = -1
      BY <3>1, <3>2 DEF Announce!Waited, Announce!Expired
    <3>3. CASE annListed[c] # None /\ annListed[c] # -1
      <4>1. annListed'[c] = annListed[c] - 1
        BY <3>1, <3>3 DEF Announce!Waited, Announce!Expired
      <4>2. annListed[c] \in Nat /\ annListed[c] <= AnnLongest
        BY <3>1, <3>3, <2>1 DEF AnnWaits
      <4> QED BY <4>1, <4>2, <3>3, <2>1, <1>2 DEF AnnWaits
    <3> QED BY <3>2, <3>3
  <2>3. annListed' \in [AnnCircles -> AnnWaits]
    <3>1. \A c \in AnnCircles : Announce!Waited(annListed[c]) \in AnnWaits
      BY <2>2, <1>1
    <3> QED BY <3>1, <1>1
  <2> QED BY <2>2, <2>3
<1>7. Announce!TypeOK'
  BY <1>1, <1>2, <1>3, <1>4, <1>5, <1>6 DEF AnnInv, Announce!TypeOK, Announce!Countdown, AnnWaits, AnnLongest, Announce!Expired
<1>8. AnnTempo'
  <2>1. annTimer' # None => annTimer' <= AnnLate(annInterval)
    <3>1. annTimer # None => annTimer <= AnnLate(annInterval)
      BY DEF AnnInv, AnnTempo
    <3>2. AnnLate(annInterval) \in Nat
      BY AnnTypes, AnnLateBounds
    <3> QED BY <3>1, <3>2, <1>4
  <2>2. annPhase = "on" /\ ~annFellSilent => annTimer' # None
    BY <1>4 DEF AnnInv, AnnTempo
  <2>3. annSince' # None
    BY <1>2, <1>3
  <2>4. AnnLate(annInterval)' = AnnLate(annInterval)
    BY <1>1 DEF AnnLate
  <2> QED BY <2>1, <2>2, <2>3, <2>4, <1>1 DEF AnnTempo
<1>9. AnnNews' /\ AnnForget'
  <2>1. annTold' # annContent' => annTimer' # None /\ annTimer' + annSince' <= AnnGap
    <3>1. annTold # annContent => annTimer # None /\ annTimer + annSince <= AnnGap
      BY <1>1 DEF AnnInv, AnnNews
    <3> QED BY <3>1, <1>1, <1>2, <1>3, <1>4
  <2> QED BY <2>1, <1>1, <1>6 DEF AnnInv, AnnNews, AnnForget
<1>10. AnnWaiting'
  <2> SUFFICES ASSUME ~annFellSilent, NEW c \in annCircles \ annBehind, annListed[c] # None
               PROVE  AnnPatient(c)'
    <3>1. annCircles \subseteq AnnCircles
      BY AnnTypes
    <3> QED BY <3>1, <1>1, <1>6 DEF AnnWaiting
  <2>1. AnnPatient(c)
    BY <1>1 DEF AnnInv, AnnWaiting
  <2>2. c \in AnnCircles /\ annListed[c] \in Int
    BY AnnTypes, AnnConstants DEF AnnWaits
  <2>3. annTimer \in Nat /\ annTimer >= 1 /\ annTimer' = annTimer - 1 /\ annTimer' # None /\ annTimer # None
    BY <1>1, <1>4 DEF AnnInv, AnnTempo
  <2>4. AnnExtra(c) \in Nat /\ AnnExtra(c)' = AnnExtra(c)
    <3>1. AnnLate(annInterval) \in Nat
      BY AnnTypes, AnnLateBounds
    <3> QED BY <3>1, <1>1 DEF AnnExtra, AnnLate
  <2>5. AnnAhead = annTimer /\ AnnAhead' = annTimer - 1
    BY <2>3 DEF AnnAhead
  <2> DEFINE extra == AnnExtra(c)
  <2>6. annListed[c] >= annTimer + extra /\ annListed[c] >= (AnnGap - annSince) + extra /\ extra \in Nat
    BY <2>1, <2>4, <2>5 DEF AnnPatient
  <2> HIDE DEF extra
  <2>7. annListed'[c] = annListed[c] - 1
    BY <2>2, <2>3, <2>6, <1>6
  <2>8. annListed'[c] >= (annTimer - 1) + extra /\ annListed'[c] >= (AnnGap - annSince') + extra
    BY <2>2, <2>3, <2>6, <2>7, <1>2, <1>3
  <2> QED BY <2>4, <2>5, <2>8 DEF AnnPatient, extra
<1> QED BY <1>7, <1>8, <1>9, <1>10 DEF AnnInv

LEMMA AnnStep == ASSUME AnnInv, [Announce!Next]_annVars PROVE AnnInv'
<1>1. CASE Announce!Stop
  <2>1. Announce!Leave("leaving") /\ annSwitches' \in 0..AnnMaxSwitches
    BY <1>1, AnnMore DEF Announce!Stop
  <2> QED BY <2>1, AnnLeave
<1>2. CASE Announce!SwitchTransport
  <2>1. Announce!Leave("reopening") /\ annSwitches' = annSwitches + 1 /\ annSwitches < AnnMaxSwitches
    BY <1>2 DEF Announce!SwitchTransport
  <2>2. annSwitches' \in 0..AnnMaxSwitches
    BY <2>1, AnnMore, AnnConstants
  <2> QED BY <2>1, <2>2, AnnLeave
<1>3. CASE UNCHANGED annVars
  <2>1. /\ annPhase' = annPhase /\ annTimer' = annTimer /\ annReply' = annReply
        /\ annContent' = annContent /\ annTold' = annTold /\ annSince' = annSince /\ annInterval' = annInterval
        /\ annCircles' = annCircles /\ annMisses' = annMisses /\ annBehind' = annBehind
        /\ annFellSilent' = annFellSilent /\ annListed' = annListed /\ annSwitches' = annSwitches
    BY <1>3 DEF annVars
  <2>2. Announce!TypeOK'
    BY <2>1 DEF AnnInv, Announce!TypeOK
  <2>3. AnnTempo' /\ AnnNews' /\ AnnForget'
    BY <2>1 DEF AnnInv, AnnTempo, AnnNews, AnnForget, AnnLate
  <2>4. AnnWaiting'
    BY <2>1 DEF AnnInv, AnnWaiting, AnnPatient, AnnAhead, AnnExtra, AnnLate
  <2> QED BY <2>2, <2>3, <2>4 DEF AnnInv
<1>4. CASE \E v \in AnnContents : Announce!Changes(v)
  BY <1>4, AnnChanges
<1>5. CASE \E in \in SUBSET AnnCircles : Announce!SwitchCircles(in)
  BY <1>5, AnnSwitchCircles
<1> QED BY <1>1, <1>2, <1>3, <1>4, <1>5, AnnStart, AnnAsked, AnnTickDue, AnnReplyDue, AnnRefresh, AnnStopped,
           AnnTick, AnnClosed, AnnStartAgain DEF Announce!Next

\* Whatever is asked, announced, put off or lost (at most every second announcement in a circle),
\* and however often circles and channel change: a neighbour never takes a running node for gone,
\* but for one that missed the announcement of a slower tempo; news is announced within the gap;
\* the circles the node has left forget it (announce, refresh, applySettings of discovery.js).
THEOREM NeighboursAreTold ==
  Announce!Spec => [](AnnInv /\ Announce!StaysListed /\ Announce!NewsIsTold /\ Announce!LeftCirclesForget)
<1>1. [Announce!Next]_(Announce!announceVars) => [Announce!Next]_annVars
  BY DEF Announce!announceVars, annVars
<1>2. AnnInv => Announce!StaysListed /\ Announce!NewsIsTold /\ Announce!LeftCirclesForget
  <2> SUFFICES ASSUME AnnInv
               PROVE  Announce!StaysListed /\ Announce!NewsIsTold /\ Announce!LeftCirclesForget
    OBVIOUS
  <2>1. Announce!StaysListed
    <3> SUFFICES ASSUME annPhase = "on", ~annFellSilent, NEW c \in annCircles \ annBehind, annListed[c] = -1
                 PROVE  FALSE
      BY DEF Announce!StaysListed, Announce!Expired
    <3>1. AnnPatient(c)
      BY AnnConstants DEF AnnInv, AnnWaiting
    <3>2. AnnAhead \in Nat /\ AnnExtra(c) \in Nat
      <4>1. AnnLate(annInterval) \in Nat
        BY AnnTypes, AnnLateBounds
      <4> QED BY <4>1, AnnTypes DEF AnnAhead, AnnExtra
    <3> QED BY <3>1, <3>2 DEF AnnPatient
  <2>2. Announce!NewsIsTold
    BY AnnMore, AnnTypes, AnnConstants DEF AnnInv, AnnNews, Announce!NewsIsTold
  <2>3. Announce!LeftCirclesForget
    BY DEF AnnInv, AnnForget, Announce!LeftCirclesForget
  <2> QED BY <2>1, <2>2, <2>3
<1> QED BY <1>1, <1>2, AnnInit, AnnStep, PTL DEF Announce!Spec

------------------------------------------------------------------------------
(* The slow lists: what is known stays.                                     *)

\* A job under way reads wanted sources; what it has of them is theirs.
ScnLists == [SlowScan!Sources -> (SlowScan!Seen \X SlowScan!Hidden) \cup {None}]
ScnJob ==
  /\ scnJob.at = "probing" => scnJob.want \subseteq SlowScan!Sources
  /\ scnJob.at = "loading" => scnJob.want \subseteq SlowScan!Sources /\ scnJob.got \in ScnLists
ScnInv == SlowScan!TypeOK /\ ScnJob /\ scnList \in ScnLists

LEMMA ScnInit == SlowScan!Init => ScnInv
BY ConstantsOK DEF SlowScan!Init, ScnInv, ScnJob, ScnLists, SlowScan!TypeOK, SlowScan!Empty, SlowScan!NoJob,
   SlowScan!Seen, SlowScan!Hidden, SlowScan!ConstantsOK

\* The cache is as it was, and so are the hardware and the sources wanted.
LEMMA ScnSame ==
  ASSUME ScnInv, UNCHANGED <<scnWorld, scnOn, SlowScan!Cache>>, ScnJob'
  PROVE  ScnInv'
BY DEF ScnInv, SlowScan!Cache, SlowScan!TypeOK, ScnLists

\* The step of a poll, but for its end.
LEMMA ScnPoll ==
  ASSUME ScnInv, SlowScan!Begins \/ SlowScan!Loads \/ \E s \in SlowScan!Sources : SlowScan!ReadOne(s)
  PROVE  ScnInv'
<1>1. ASSUME SlowScan!Begins PROVE ScnJob'
  BY <1>1 DEF SlowScan!Begins, ScnInv, ScnJob, SlowScan!TypeOK
<1>2. ASSUME SlowScan!Loads PROVE ScnJob'
  <2>1. PICK s : SlowScan!LoadsWith(s)
    BY <1>2 DEF SlowScan!Loads
  <2> QED BY <1>2, <2>1 DEF SlowScan!Loads, SlowScan!LoadsWith, SlowScan!Loading, SlowScan!Empty, ScnInv, ScnJob, ScnLists
<1>3. ASSUME NEW s \in SlowScan!Sources, SlowScan!ReadOne(s) PROVE ScnJob'
  <2>1. scnJob.want \subseteq SlowScan!Sources /\ scnJob.got \in ScnLists /\ scnWorld[s] \in SlowScan!Seen \X SlowScan!Hidden
    BY <1>3 DEF SlowScan!ReadOne, ScnInv, ScnJob, SlowScan!TypeOK
  <2>2. [scnJob.got EXCEPT ![s] = scnWorld[s]] \in ScnLists
    BY <2>1 DEF ScnLists
  <2>3. PICK got \in ScnLists : scnJob' = SlowScan!Loading(scnJob.sig, scnJob.left \ {s}, got)
    BY <1>3, <2>1, <2>2 DEF SlowScan!ReadOne
  <2> QED BY <2>1, <2>3 DEF ScnJob, SlowScan!Loading
<1> QED BY <1>1, <1>2, <1>3, ScnSame DEF SlowScan!Begins, SlowScan!Loads, SlowScan!ReadOne

\* The end of a read: what could not be read is kept.
LEMMA ScnReload ==
  ASSUME ScnInv, SlowScan!Reload
  PROVE  /\ ScnInv'
         /\ \A s \in scnWant \cap scnWant' : scnList[s] # None => scnList'[s] # None
<1>1. /\ scnJob.at = "loading" /\ scnWant' = scnJob.want /\ scnJob' = SlowScan!NoJob
      /\ scnFresh' \in {0, ScnFresh} /\ scnDue' \in {0, ScnFull} /\ UNCHANGED <<scnWorld, scnOn>>
      /\ scnList' = [s \in SlowScan!Sources |->
                       IF s \in scnJob.want /\ scnJob.got[s] = None THEN scnList[s] ELSE scnJob.got[s]]
  BY DEF SlowScan!Reload, SlowScan!Loaded
<1>2. scnJob.want \subseteq SlowScan!Sources /\ scnJob.got \in ScnLists /\ scnList \in ScnLists
  BY <1>1 DEF ScnInv, ScnJob
<1>3. scnList' \in ScnLists
  BY <1>1, <1>2 DEF ScnLists
<1>4. ScnJob'
  BY <1>1 DEF ScnJob, SlowScan!NoJob
<1>5. SlowScan!TypeOK'
  BY <1>1, <1>3, ConstantsOK DEF ScnInv, ScnLists, SlowScan!TypeOK, SlowScan!ConstantsOK
<1> QED BY <1>1, <1>2, <1>3, <1>4, <1>5 DEF ScnInv

\* The lists are untouched by all else.
LEMMA ScnOther ==
  ASSUME ScnInv,
         SlowScan!Skips \/ SlowScan!Invalidate \/ SlowScan!Changes \/ SlowScan!Switch \/ SlowScan!Tick
  PROVE  ScnInv' /\ UNCHANGED <<scnWant, scnList>>
<1>1. UNCHANGED <<scnWant, scnList>>
  BY DEF SlowScan!Skips, SlowScan!Invalidate, SlowScan!Changes, SlowScan!Switch, SlowScan!Tick, SlowScan!Cache
<1>2. ScnJob'
  BY DEF ScnInv, ScnJob, SlowScan!Skips, SlowScan!Invalidate, SlowScan!Changes, SlowScan!Switch, SlowScan!Tick, SlowScan!NoJob
<1>3. scnWorld' \in [SlowScan!Sources -> SlowScan!Seen \X SlowScan!Hidden]
  <2>1. CASE SlowScan!Changes
    <3>1. PICK s \in SlowScan!Sources : \E v \in SlowScan!Kinds(s) : scnWorld' = [scnWorld EXCEPT ![s] = v]
      BY <2>1 DEF SlowScan!Changes
    <3>2. SlowScan!Kinds(s) \subseteq SlowScan!Seen \X SlowScan!Hidden
      BY DEF SlowScan!Kinds, SlowScan!Seen, SlowScan!Hidden
    <3> QED BY <3>1, <3>2 DEF ScnInv, SlowScan!TypeOK
  <2> QED BY <2>1 DEF SlowScan!Skips, SlowScan!Invalidate, SlowScan!Switch, SlowScan!Tick, ScnInv, SlowScan!TypeOK
<1>4. scnOn' \subseteq SlowScan!Sources
  BY DEF SlowScan!Skips, SlowScan!Invalidate, SlowScan!Changes, SlowScan!Switch, SlowScan!Tick, ScnInv, SlowScan!TypeOK
<1>5. scnFresh' \in 0..ScnFresh /\ scnDue' \in 0..ScnFull
  BY ConstantsOK DEF SlowScan!ConstantsOK, SlowScan!Skips, SlowScan!Invalidate, SlowScan!Changes, SlowScan!Switch,
     SlowScan!Tick, SlowScan!Cache, ScnInv, SlowScan!TypeOK
<1> QED BY <1>1, <1>2, <1>3, <1>4, <1>5 DEF ScnInv, SlowScan!TypeOK, ScnLists

LEMMA ScnStep ==
  ASSUME ScnInv, [SlowScan!Next]_scnVars
  PROVE  /\ ScnInv'
         /\ \A s \in scnWant \cap scnWant' : scnList[s] # None => scnList'[s] # None
<1>1. CASE UNCHANGED scnVars
  <2>1. UNCHANGED <<scnWorld, scnOn, scnJob, SlowScan!Cache, scnWant, scnList>>
    BY <1>1 DEF scnVars, SlowScan!Cache
  <2> QED BY <2>1, ScnSame DEF ScnInv, ScnJob
<1>2. CASE SlowScan!Begins \/ SlowScan!Loads \/ \E s \in SlowScan!Sources : SlowScan!ReadOne(s)
  <2>1. UNCHANGED <<scnWant, scnList>>
    BY <1>2 DEF SlowScan!Begins, SlowScan!Loads, SlowScan!ReadOne, SlowScan!Cache
  <2> QED BY <1>2, <2>1, ScnPoll
<1> QED BY <1>1, <1>2, ScnReload, ScnOther DEF SlowScan!Next, SlowScan!Polls

\* A failed read of the hardware is not an absence of devices: of a source wanted before and after
\* what was known stays (_reload of hub.js).
THEOREM KnownDevicesStay == SlowScan!Spec => []ScnInv /\ SlowScan!KeepsKnown
<1>1. [SlowScan!Next]_(SlowScan!vars) => [SlowScan!Next]_scnVars
  BY DEF SlowScan!vars, scnVars
<1>2. ScnInv /\ [SlowScan!Next]_(SlowScan!vars) => ScnInv'
  BY <1>1, ScnStep
<1>3. ScnInv /\ [SlowScan!Next]_(SlowScan!vars)
      => [\A s \in scnWant \cap scnWant' : scnList[s] # None => scnList'[s] # None]_(SlowScan!vars)
  BY <1>1, ScnStep
<1> QED BY <1>2, <1>3, ScnInit, PTL DEF SlowScan!Spec, SlowScan!KeepsKnown

------------------------------------------------------------------------------
(* Requests: what the holder is shown was asked.                            *)

ReqStates == {"unknown", "pending", "granted", "accepted", "declined", "cancelled", "expired", "gone"}
ReqRecord == [state : ReqStates, age : 0..(ReqKeep + ReqTtl)]
ReqRecords == [ReqIds -> ReqRecord]
ReqAsked == {q \in ReqIds : reqTable[q].state # "unknown"}

\* The owner has asked whatever is under way to the holder and whatever waits at him.
ReqTyped == reqTable \in ReqRecords /\ reqSeen \in ReqRecords /\ reqFails \in 0..(ReqTries - 1)
ReqInv == ReqTyped /\ reqCalls \cup Requests!Pending(reqSeen) \subseteq ReqAsked

LEMMA ReqConstants == ReqTtl \in Nat \ {0} /\ ReqKeep \in Nat /\ ReqTries \in Nat \ {0} /\ ReqTries < ReqKeep
BY ConstantsOK DEF Requests!ConstantsOK

LEMMA ReqNew ==
  ASSUME NEW s \in ReqStates
  PROVE  [state |-> s, age |-> 0] \in ReqRecord /\ Requests!Request(s) = [state |-> s, age |-> 0]
<1>1. 0 \in 0..(ReqKeep + ReqTtl)
  BY ReqConstants
<1> QED BY <1>1 DEF ReqRecord, Requests!Request

LEMMA ReqInit == Requests!Init => ReqInv
<1>1. Requests!Unknown \in ReqRecord
  BY ReqNew DEF Requests!Unknown, ReqStates
<1> QED BY <1>1, ReqConstants DEF Requests!Init, ReqInv, ReqTyped, ReqRecords, ReqAsked, Requests!Pending, Requests!Unknown

\* What is asked stays asked, and the holder is shown nothing else.
LEMMA ReqOwner ==
  ASSUME ReqInv, reqTable' \in ReqRecords, ReqAsked \subseteq ReqAsked', UNCHANGED <<reqSeen, reqFails>>,
         reqCalls' \subseteq reqCalls \cup ReqAsked'
  PROVE  ReqInv'
BY DEF ReqInv, ReqTyped, Requests!Pending

LEMMA ReqHolder ==
  ASSUME ReqInv, UNCHANGED reqTable, reqSeen' \in ReqRecords, reqFails' \in 0..(ReqTries - 1), reqCalls' \subseteq reqCalls,
         Requests!Pending(reqSeen') \subseteq ReqAsked
  PROVE  ReqInv'
BY DEF ReqInv, ReqTyped, ReqAsked, Requests!Pending

\* A claim settles what waits.
LEMMA ReqSettled ==
  ASSUME ReqInv, reqTable' = Requests!Settled
  PROVE  reqTable' \in ReqRecords /\ ReqAsked \subseteq ReqAsked'
<1>1. Requests!Request("granted") \in ReqRecord /\ Requests!Request("granted").state # "unknown"
  BY ReqNew DEF ReqStates
<1> QED BY <1>1 DEF ReqInv, ReqTyped, ReqRecords, ReqAsked, Requests!Settled

LEMMA ReqAsk ==
  ASSUME ReqInv, NEW q \in ReqIds, Requests!Ask(q) \/ Requests!Cancel(q)
  PROVE  ReqInv'
<1>1. PICK s \in {"pending", "cancelled"} : reqTable' = [reqTable EXCEPT ![q] = Requests!Request(s)]
  BY DEF Requests!Ask, Requests!Cancel
<1>2. Requests!Request(s) \in ReqRecord /\ Requests!Request(s).state # "unknown"
  BY ReqNew DEF ReqStates
<1>3. reqTable' \in ReqRecords /\ ReqAsked \subseteq ReqAsked' /\ q \in ReqAsked'
  BY <1>1, <1>2 DEF ReqInv, ReqTyped, ReqRecords, ReqAsked
<1>4. reqCalls' \subseteq reqCalls \cup {q} /\ UNCHANGED <<reqSeen, reqFails>>
  BY DEF Requests!Ask, Requests!Cancel
<1> QED BY <1>3, <1>4, ReqOwner

LEMMA ReqPush ==
  ASSUME ReqInv, NEW q \in ReqIds, Requests!Push(q) \/ Requests!Lost(q)
  PROVE  ReqInv'
<1>1. CASE Requests!Push(q)
  <2>1. q \in ReqAsked /\ reqSeen' = [reqSeen EXCEPT ![q] = Requests!Request("pending")]
    BY <1>1 DEF Requests!Push, ReqInv
  <2>2. reqSeen' \in ReqRecords /\ Requests!Pending(reqSeen') \subseteq ReqAsked
    <3>1. Requests!Request("pending") \in ReqRecord
      BY ReqNew DEF ReqStates
    <3> QED BY <2>1, <3>1 DEF ReqInv, ReqTyped, ReqRecords, Requests!Pending
  <2> QED BY <1>1, <2>2, ReqHolder DEF Requests!Push, ReqInv, ReqTyped
<1>2. CASE Requests!Lost(q)
  BY <1>2, ReqHolder DEF Requests!Lost, ReqInv, ReqTyped
<1> QED BY <1>1, <1>2

LEMMA ReqHeartbeat == ASSUME ReqInv, Requests!Heartbeat PROVE ReqInv'
<1>1. UNCHANGED <<reqTable, reqCalls>> /\ reqFails' \in 0..(ReqTries - 1)
  <2>1. reqFails' = 0 \/ (reqFails + 1 < ReqTries /\ reqFails' = reqFails + 1)
    BY DEF Requests!Heartbeat, Requests!GivesUp
  <2>2. UNCHANGED <<reqTable, reqCalls>>
    BY DEF Requests!Heartbeat
  <2> QED BY <2>1, <2>2, ReqConstants DEF ReqInv, ReqTyped
<1>2. reqSeen' \in {reqSeen, Requests!Absorb}
  BY DEF Requests!Heartbeat
<1>3. Requests!Absorb \in ReqRecords
  <2>1. Requests!Unknown \in ReqRecord
    BY ReqNew DEF Requests!Unknown, ReqStates
  <2> QED BY <2>1 DEF ReqInv, ReqTyped, ReqRecords, Requests!Absorb, Requests!Absorbed
<1>4. Requests!Pending(Requests!Absorb) \subseteq ReqAsked
  BY DEF ReqInv, ReqAsked, Requests!Pending, Requests!Known, Requests!Absorb, Requests!Absorbed, Requests!Unknown
<1> QED BY <1>1, <1>2, <1>3, <1>4, ReqHolder DEF ReqInv, ReqTyped

LEMMA ReqAnswer ==
  ASSUME ReqInv, NEW q \in ReqIds, NEW accept \in BOOLEAN, Requests!Answer(q, accept)
  PROVE  ReqInv'
<1> DEFINE state == IF accept THEN "accepted" ELSE "declined"
<1>1. UNCHANGED <<reqCalls, reqFails>>
  BY DEF Requests!Answer
<1>2. reqTable' \in {reqTable, [reqTable EXCEPT ![q] = Requests!Request(state)]}
  BY DEF Requests!Answer
<1>3. reqSeen' \in {reqSeen, [reqSeen EXCEPT ![q] = [state |-> state, age |-> reqSeen[q].age]]}
  BY DEF Requests!Answer
<1>4. Requests!Request(state) \in ReqRecord /\ Requests!Request(state).state # "unknown"
  BY ReqNew DEF ReqStates
<1>5. reqTable' \in ReqRecords /\ ReqAsked \subseteq ReqAsked'
  BY <1>2, <1>4 DEF ReqInv, ReqTyped, ReqRecords, ReqAsked
<1>6. reqSeen' \in ReqRecords /\ Requests!Pending(reqSeen') \subseteq Requests!Pending(reqSeen)
  <2>1. [state |-> state, age |-> reqSeen[q].age] \in ReqRecord /\ state # "pending"
    BY DEF ReqInv, ReqTyped, ReqRecords, ReqRecord, ReqStates
  <2> QED BY <1>3, <2>1 DEF ReqInv, ReqTyped, ReqRecords, Requests!Pending
<1> QED BY <1>1, <1>5, <1>6 DEF ReqInv, ReqTyped

LEMMA ReqTick == ASSUME ReqInv, Requests!Tick PROVE ReqInv'
<1>1. ASSUME NEW r \in ReqRecord PROVE Requests!Aged(r) \in ReqRecord /\ Requests!Aged(r).state = r.state
  <2>1. PICK s \in ReqStates, n \in 0..(ReqKeep + ReqTtl) : r = [state |-> s, age |-> n]
    BY DEF ReqRecord
  <2>2. Requests!Aged(r) = [state |-> s, age |-> IF n < ReqKeep + ReqTtl THEN n + 1 ELSE n]
    BY <2>1 DEF Requests!Aged
  <2> QED BY <2>1, <2>2, ReqConstants DEF ReqRecord
<1>2. ASSUME NEW r \in ReqRecord PROVE Requests!Older(r) \in ReqRecord /\ Requests!Older(r).state = r.state
  BY <1>1 DEF Requests!Older
<1>3. ASSUME NEW r \in ReqRecord
      PROVE  Requests!Swept(r) \in ReqRecord /\ (r.state # "unknown" => Requests!Swept(r).state # "unknown")
  <2>1. Requests!Swept(r) \in {r, Requests!Request("expired"), [state |-> "gone", age |-> 0]}
    BY DEF Requests!Swept
  <2> QED BY <2>1, ReqNew DEF ReqStates
<1>4. reqTable' \in ReqRecords /\ ReqAsked \subseteq ReqAsked'
  BY <1>2, <1>3 DEF Requests!Tick, ReqInv, ReqTyped, ReqRecords, ReqAsked
<1>5. reqSeen' \in ReqRecords /\ Requests!Pending(reqSeen') \subseteq Requests!Pending(reqSeen)
  BY <1>2 DEF Requests!Tick, ReqInv, ReqTyped, ReqRecords, Requests!Pending
<1> QED BY <1>4, <1>5 DEF Requests!Tick, ReqInv, ReqTyped

LEMMA ReqStep == ASSUME ReqInv, [Requests!Next]_reqVars PROVE ReqInv'
<1>1. CASE Requests!OtherClaims \/ Requests!Taken \/ Requests!Claim
  <2>1. reqTable' = Requests!Settled /\ UNCHANGED <<reqSeen, reqCalls>> /\ reqFails' \in {reqFails, 0}
    BY <1>1 DEF Requests!OtherClaims, Requests!Taken, Requests!Claim
  <2>2. reqTable' \in ReqRecords /\ ReqAsked \subseteq ReqAsked'
    BY <2>1, ReqSettled
  <2> QED BY <2>1, <2>2, ReqConstants DEF ReqInv, ReqTyped
<1>2. CASE Requests!Return
  BY <1>2, ReqHolder, ReqConstants DEF Requests!Return, ReqInv, ReqTyped
<1>3. CASE UNCHANGED reqVars
  BY <1>3, ReqHolder DEF reqVars, ReqInv, ReqTyped
<1> QED BY <1>1, <1>2, <1>3, ReqHeartbeat, ReqTick, ReqAsk, ReqPush, ReqAnswer DEF Requests!Next

\* A holder is shown no request the owner was not asked, as a call or as an answer to his
\* heartbeat, and both sides' records stay within their times.
THEOREM ShownIsAsked == Requests!Spec => []Requests!TypeOK
<1>1. [Requests!Next]_(Requests!vars) => [Requests!Next]_reqVars
  BY DEF Requests!vars, reqVars
<1>2. ReqInv => Requests!TypeOK
  BY DEF ReqInv, ReqTyped, ReqRecords, ReqRecord, ReqAsked, Requests!TypeOK
<1> QED BY <1>1, <1>2, ReqInit, ReqStep, PTL DEF Requests!Spec

------------------------------------------------------------------------------
(* The node: what its parts promise together.                               *)

\* Every behaviour of the node is one of each of its parts.
LEMMA AnnounceRuns == Spec => Announce!Spec
<1>1. Init => Announce!Init
  BY DEF Init
<1>2. [Next]_allVars => [Announce!Next]_(Announce!announceVars)
  <2>1. Next => Announce!Next \/ UNCHANGED annVars
    BY DEF Next, InAnnounce, InLegs, InTunnels, InMeter, InInstaller, InDriverShare, InNetworks,
      InSwitch, InSplice, InSlowScan, InRequests, InConfigFile, InCircles
  <2>2. UNCHANGED allVars => UNCHANGED annVars
    BY DEF allVars
  <2>3. Announce!announceVars = annVars /\ Announce!announceVars' = annVars'
    BY DEF Announce!announceVars, annVars
  <2> QED BY <2>1, <2>2, <2>3
<1> QED BY <1>1, <1>2, PTL DEF Spec, Announce!Spec

LEMMA LegsRuns == Spec => Legs!Spec
<1>1. Init => Legs!Init
  BY DEF Init
<1>2. [Next]_allVars => [Legs!Next]_(Legs!legsVars)
  <2>1. Next => Legs!Next \/ UNCHANGED legVars
    BY DEF Next, InAnnounce, InLegs, InTunnels, InMeter, InInstaller, InDriverShare, InNetworks,
      InSwitch, InSplice, InSlowScan, InRequests, InConfigFile, InCircles
  <2>2. UNCHANGED allVars => UNCHANGED legVars
    BY DEF allVars
  <2>3. Legs!legsVars = legVars /\ Legs!legsVars' = legVars'
    BY DEF Legs!legsVars, legVars
  <2> QED BY <2>1, <2>2, <2>3
<1> QED BY <1>1, <1>2, PTL DEF Spec, Legs!Spec

LEMMA TunnelsRuns == Spec => Tunnels!Spec
<1>1. Init => Tunnels!Init
  BY DEF Init
<1>2. [Next]_allVars => [Tunnels!Next]_(Tunnels!tunnelsVars)
  <2>1. Next => Tunnels!Next \/ UNCHANGED tunVars
    BY DEF Next, InAnnounce, InLegs, InTunnels, InMeter, InInstaller, InDriverShare, InNetworks,
      InSwitch, InSplice, InSlowScan, InRequests, InConfigFile, InCircles
  <2>2. UNCHANGED allVars => UNCHANGED tunVars
    BY DEF allVars
  <2>3. Tunnels!tunnelsVars = tunVars /\ Tunnels!tunnelsVars' = tunVars'
    BY DEF Tunnels!tunnelsVars, tunVars
  <2> QED BY <2>1, <2>2, <2>3
<1> QED BY <1>1, <1>2, PTL DEF Spec, Tunnels!Spec

LEMMA MeterRuns == Spec => Meter!Spec
<1>1. Init => Meter!Init
  BY DEF Init
<1>2. [Next]_allVars => [Meter!Next]_(Meter!meterVars)
  <2>1. Next => Meter!Next \/ UNCHANGED metVars
    BY DEF Next, InAnnounce, InLegs, InTunnels, InMeter, InInstaller, InDriverShare, InNetworks,
      InSwitch, InSplice, InSlowScan, InRequests, InConfigFile, InCircles
  <2>2. UNCHANGED allVars => UNCHANGED metVars
    BY DEF allVars
  <2>3. Meter!meterVars = metVars /\ Meter!meterVars' = metVars'
    BY DEF Meter!meterVars, metVars
  <2> QED BY <2>1, <2>2, <2>3
<1> QED BY <1>1, <1>2, PTL DEF Spec, Meter!Spec

LEMMA InstallerRuns == Spec => Installer!Spec
<1>1. Init => Installer!Init
  BY DEF Init
<1>2. [Next]_allVars => [Installer!Next]_(Installer!instVars)
  <2>1. Next => Installer!Next \/ UNCHANGED insVars
    BY DEF Next, InAnnounce, InLegs, InTunnels, InMeter, InInstaller, InDriverShare, InNetworks,
      InSwitch, InSplice, InSlowScan, InRequests, InConfigFile, InCircles
  <2>2. UNCHANGED allVars => UNCHANGED insVars
    BY DEF allVars
  <2>3. Installer!instVars = insVars /\ Installer!instVars' = insVars'
    BY DEF Installer!instVars, insVars
  <2> QED BY <2>1, <2>2, <2>3
<1> QED BY <1>1, <1>2, PTL DEF Spec, Installer!Spec

LEMMA DriverShareRuns == Spec => DriverShare!Spec
<1>1. Init => DriverShare!Init
  BY DEF Init
<1>2. [Next]_allVars => [DriverShare!Next]_(DriverShare!drvVars)
  <2>1. Next => DriverShare!Next \/ UNCHANGED drvVars
    BY DEF Next, InAnnounce, InLegs, InTunnels, InMeter, InInstaller, InDriverShare, InNetworks,
      InSwitch, InSplice, InSlowScan, InRequests, InConfigFile, InCircles
  <2>2. UNCHANGED allVars => UNCHANGED drvVars
    BY DEF allVars
  <2>3. DriverShare!drvVars = drvVars /\ DriverShare!drvVars' = drvVars'
    BY DEF DriverShare!drvVars, drvVars
  <2> QED BY <2>1, <2>2, <2>3
<1> QED BY <1>1, <1>2, PTL DEF Spec, DriverShare!Spec

LEMMA NetworksRuns == Spec => Networks!Spec
<1>1. Init => Networks!Init
  BY DEF Init
<1>2. [Next]_allVars => [Networks!Next]_(Networks!netVars)
  <2>1. Next => Networks!Next \/ UNCHANGED netVars
    BY DEF Next, InAnnounce, InLegs, InTunnels, InMeter, InInstaller, InDriverShare, InNetworks,
      InSwitch, InSplice, InSlowScan, InRequests, InConfigFile, InCircles
  <2>2. UNCHANGED allVars => UNCHANGED netVars
    BY DEF allVars
  <2>3. Networks!netVars = netVars /\ Networks!netVars' = netVars'
    BY DEF Networks!netVars, netVars
  <2> QED BY <2>1, <2>2, <2>3
<1> QED BY <1>1, <1>2, PTL DEF Spec, Networks!Spec

LEMMA SwitchRuns == Spec => Switch!Spec
<1>1. Init => Switch!Init
  BY DEF Init
<1>2. [Next]_allVars => [Switch!Next]_(Switch!vars)
  <2>1. Next => Switch!Next \/ UNCHANGED swiVars
    BY DEF Next, InAnnounce, InLegs, InTunnels, InMeter, InInstaller, InDriverShare, InNetworks,
      InSwitch, InSplice, InSlowScan, InRequests, InConfigFile, InCircles
  <2>2. UNCHANGED allVars => UNCHANGED swiVars
    BY DEF allVars
  <2>3. Switch!vars = swiVars /\ Switch!vars' = swiVars'
    BY DEF Switch!vars, swiVars
  <2> QED BY <2>1, <2>2, <2>3
<1> QED BY <1>1, <1>2, PTL DEF Spec, Switch!Spec

LEMMA SpliceRuns == Spec => Splice!Spec
<1>1. Init => Splice!Init
  BY DEF Init
<1>2. [Next]_allVars => [Splice!Next]_(Splice!vars)
  <2>1. Next => Splice!Next \/ UNCHANGED splVars
    BY DEF Next, InAnnounce, InLegs, InTunnels, InMeter, InInstaller, InDriverShare, InNetworks,
      InSwitch, InSplice, InSlowScan, InRequests, InConfigFile, InCircles
  <2>2. UNCHANGED allVars => UNCHANGED splVars
    BY DEF allVars
  <2>3. Splice!vars = splVars /\ Splice!vars' = splVars'
    BY DEF Splice!vars, splVars
  <2> QED BY <2>1, <2>2, <2>3
<1> QED BY <1>1, <1>2, PTL DEF Spec, Splice!Spec

LEMMA SlowScanRuns == Spec => SlowScan!Spec
<1>1. Init => SlowScan!Init
  BY DEF Init
<1>2. [Next]_allVars => [SlowScan!Next]_(SlowScan!vars)
  <2>1. Next => SlowScan!Next \/ UNCHANGED scnVars
    BY DEF Next, InAnnounce, InLegs, InTunnels, InMeter, InInstaller, InDriverShare, InNetworks,
      InSwitch, InSplice, InSlowScan, InRequests, InConfigFile, InCircles
  <2>2. UNCHANGED allVars => UNCHANGED scnVars
    BY DEF allVars
  <2>3. SlowScan!vars = scnVars /\ SlowScan!vars' = scnVars'
    BY DEF SlowScan!vars, scnVars
  <2> QED BY <2>1, <2>2, <2>3
<1> QED BY <1>1, <1>2, PTL DEF Spec, SlowScan!Spec

LEMMA RequestsRuns == Spec => Requests!Spec
<1>1. Init => Requests!Init
  BY DEF Init
<1>2. [Next]_allVars => [Requests!Next]_(Requests!vars)
  <2>1. Next => Requests!Next \/ UNCHANGED reqVars
    BY DEF Next, InAnnounce, InLegs, InTunnels, InMeter, InInstaller, InDriverShare, InNetworks,
      InSwitch, InSplice, InSlowScan, InRequests, InConfigFile, InCircles
  <2>2. UNCHANGED allVars => UNCHANGED reqVars
    BY DEF allVars
  <2>3. Requests!vars = reqVars /\ Requests!vars' = reqVars'
    BY DEF Requests!vars, reqVars
  <2> QED BY <2>1, <2>2, <2>3
<1> QED BY <1>1, <1>2, PTL DEF Spec, Requests!Spec

LEMMA ConfigFileRuns == Spec => ConfigFile!Spec
<1>1. Init => ConfigFile!Init
  BY DEF Init
<1>2. [Next]_allVars => [ConfigFile!Next]_(ConfigFile!vars)
  <2>1. Next => ConfigFile!Next \/ UNCHANGED cfgVars
    BY DEF Next, InAnnounce, InLegs, InTunnels, InMeter, InInstaller, InDriverShare, InNetworks,
      InSwitch, InSplice, InSlowScan, InRequests, InConfigFile, InCircles
  <2>2. UNCHANGED allVars => UNCHANGED cfgVars
    BY DEF allVars
  <2>3. ConfigFile!vars = cfgVars /\ ConfigFile!vars' = cfgVars'
    BY DEF ConfigFile!vars, cfgVars
  <2> QED BY <2>1, <2>2, <2>3
<1> QED BY <1>1, <1>2, PTL DEF Spec, ConfigFile!Spec

LEMMA CirclesRuns == Spec => Circles!Spec
<1>1. Init => Circles!Init
  BY DEF Init
<1>2. [Next]_allVars => [Circles!Next]_(Circles!vars)
  <2>1. Next => Circles!Next \/ UNCHANGED cirVars
    BY DEF Next, InAnnounce, InLegs, InTunnels, InMeter, InInstaller, InDriverShare, InNetworks,
      InSwitch, InSplice, InSlowScan, InRequests, InConfigFile, InCircles
  <2>2. UNCHANGED allVars => UNCHANGED cirVars
    BY DEF allVars
  <2>3. Circles!vars = cirVars /\ Circles!vars' = cirVars'
    BY DEF Circles!vars, cirVars
  <2> QED BY <2>1, <2>2, <2>3
<1> QED BY <1>1, <1>2, PTL DEF Spec, Circles!Spec

\* A frame reaches the station it is for, whole: the switch knows no port where the station is
\* not (_learn, _input of vswitch.js), and no connection's frame is cut by another one's or by a
\* relay that died (FrameCutter of tapRelay.js, splice of tapLink.js).
THEOREM NodeFramesArrive == Spec => []FramesArrive
<1>1. Switch!FrameReaches /\ Splice!WholeFrames => FramesArrive
  BY DEF FramesArrive
<1> QED BY <1>1, SwitchRuns, SpliceRuns, FramesReachTheirStation, FramesStayWhole, PTL

\* Nothing is left open or behind of which the node does not know: of the sending sockets, the
\* ports of tunnels, the folders of drivers and the ports of switches.
THEOREM NodeLeavesNothing == Spec => []NothingLeftBehind
<1>1. Legs!NoStraySender /\ Tunnels!NoStrayPort /\ DriverShare!NoFolderLeft /\ Networks!NoStrayPort => NothingLeftBehind
  BY DEF NothingLeftBehind
<1> QED BY <1>1, LegsRuns, TunnelsRuns, DriverShareRuns, NetworksRuns, SendersAreLegs, PortsAreKnownAndStay,
           FoldersAreKnown, PortsAreWhereWritten, PTL

\* What the node gives others to rely on holds: the tempo of its announcements, the minute of a
\* gateway's port, whose traffic a holder is shown, the circle a neighbour is spoken to in, and
\* the settings across restarts and torn writes.
THEOREM NodeKeepsItsWord == Spec => []WordIsKept
<1>1. /\ Announce!StaysListed /\ Announce!NewsIsTold /\ Announce!LeftCirclesForget
      /\ Tunnels!PortStaysOpen /\ Meter!CountsOnlyHolder /\ Circles!SpeaksItsCircle
      /\ ConfigFile!OldOrNew /\ ConfigFile!OneRunOnly /\ ConfigFile!KeepsItsId /\ ConfigFile!KeepsItsKey
      => WordIsKept
  BY DEF WordIsKept
<1> QED BY <1>1, AnnounceRuns, TunnelsRuns, MeterRuns, CirclesRuns, ConfigFileRuns, NeighboursAreTold,
           PortsAreKnownAndStay, CountersAreTheHolders, RecordsSpeakTheirCircle, SettingsAreKept, PTL

\* An installation calls itself done only of what the probe has found (installer.js).
THEOREM NodeKnowsWhatIsDone == Spec => DoneIsKnown
BY InstallerRuns, DoneIsWhatIsFound DEF DoneIsKnown

\* A failed read of the hardware takes nothing off the list of devices (hub.js), and a holder is
\* shown no request but those the owner was asked (shareManager.js, attachManager.js).
THEOREM NodeShowsWhatIs == Spec => SlowScan!KeepsKnown /\ []Requests!TypeOK
BY SlowScanRuns, RequestsRuns, KnownDevicesStay, ShownIsAsked, PTL
==============================================================================
