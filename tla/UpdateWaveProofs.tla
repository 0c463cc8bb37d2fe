-------------------------- MODULE UpdateWaveProofs --------------------------
(***************************************************************************)
(* Theorems about UpdateWave, for any number of nodes, versions and slots, *)
(* and whatever users do and whatever is lost: no node serves more         *)
(* transfers at a time than it has slots; a version that cannot pass its   *)
(* trial stays where users have put it; a report of a neighbour is heeded. *)
(***************************************************************************)
EXTENDS UpdateWave, FiniteSetTheorems, TLAPS

SlotRecords(V) == [to : Nodes, ver : V, active : BOOLEAN]
Jobs(V, L) == [at : {"idle", "asking", "granted", "receiving"}, ver : V,
               from : Nodes \cup {None}, left : L]

\* The form of jobs and reservations; which versions there are does not matter here.
Shape(V, L) == job \in [Nodes -> Jobs(V, L)] /\ slots \in [Nodes -> SUBSET SlotRecords(V)]
HaveShape == \E V, L : Shape(V, L)

\* A seeder never gives more reservations than it has slots ...
WithinSlots(of) == \A m \in Nodes : IsFiniteSet(of[m]) /\ Cardinality(of[m]) <= Slots

\* ... and each transfer has one: a reservation is not taken back under its transfer.
Receiving(n, m) == job[n].at = "receiving" /\ job[n].from = m
EachHasItsSlot == \A n, m \in Nodes : Receiving(n, m) => \E s \in slots[m] : s.to = n

Inv == HaveShape /\ WithinSlots(slots) /\ EachHasItsSlot

-----------------------------------------------------------------------------
(* How a step may change jobs and reservations. *)

\* The download of n does not go on, and n may lose reservations.
LetsGo(n) ==
  /\ HaveShape'
  /\ \A k \in Nodes \ {n} : job'[k] = job[k]
  /\ job'[n].at # "receiving"
  /\ \A m \in Nodes : /\ slots'[m] \subseteq slots[m]
                      /\ \A s \in slots[m] : s.to # n => s \in slots'[m]

LEMMA FewerSlots ==
  ASSUME NEW S, IsFiniteSet(S), Cardinality(S) <= Slots, NEW T \in SUBSET S
  PROVE  IsFiniteSet(T) /\ Cardinality(T) <= Slots
<1>1. IsFiniteSet(T) /\ Cardinality(T) <= Cardinality(S)
  BY FS_Subset
<1>2. Cardinality(T) \in Nat /\ Cardinality(S) \in Nat /\ Slots \in Nat
  BY <1>1, FS_CardinalityType, ConstantsOK
<1> QED BY <1>1, <1>2

LEMMA LetsGoKeeps ==
  ASSUME Inv, NEW n \in Nodes, LetsGo(n)
  PROVE  Inv'
<1>1. WithinSlots(slots)'
  <2> SUFFICES ASSUME NEW m \in Nodes
               PROVE  IsFiniteSet(slots'[m]) /\ Cardinality(slots'[m]) <= Slots
    BY DEF WithinSlots
  <2> QED BY FewerSlots DEF Inv, WithinSlots, LetsGo
<1>2. EachHasItsSlot'
  <2> SUFFICES ASSUME NEW k \in Nodes, NEW m \in Nodes, Receiving(k, m)'
               PROVE  \E s \in slots'[m] : s.to = k
    BY DEF EachHasItsSlot
  <2>1. k # n /\ job'[k] = job[k]
    BY DEF Receiving, LetsGo
  <2>2. PICK s \in slots[m] : s.to = k
    BY <2>1 DEF Inv, EachHasItsSlot, Receiving
  <2> QED BY <2>1, <2>2 DEF LetsGo
<1> QED BY <1>1, <1>2 DEF Inv, LetsGo

LEMMA Stutters == ASSUME Inv, UNCHANGED <<job, slots>> PROVE Inv'
BY DEF Inv, HaveShape, Shape, WithinSlots, EachHasItsSlot, Receiving

\* A process ends: its own transfers are cut, and those from it.
LEMMA CutOffCuts ==
  ASSUME NEW V, NEW L, Shape(V, L), NEW n \in Nodes
  PROVE  /\ CutOff(n) \in [Nodes -> Jobs(V \cup {0}, L \cup {{}})]
         /\ \A k, m \in Nodes : CutOff(n)[k].at = "receiving" /\ CutOff(n)[k].from = m
                              => k # n /\ m # n /\ Receiving(k, m)
<1>1. \A k \in Nodes : job[k] \in Jobs(V, L)
  BY DEF Shape
<1>2. \A k \in Nodes : CutOff(n)[k] =
         IF k = n THEN Resting
         ELSE IF job[k].from = n THEN [job[k] EXCEPT !.at = "asking", !.from = None]
         ELSE job[k]
  BY DEF CutOff
<1>3. ASSUME NEW k \in Nodes
      PROVE  /\ CutOff(n)[k] \in Jobs(V \cup {0}, L \cup {{}})
             /\ CutOff(n)[k].at = "receiving" => k # n /\ job[k].from # n /\ CutOff(n)[k] = job[k]
  <2>1. CASE k = n
    <3>1. CutOff(n)[k] = [at |-> "idle", ver |-> 0, from |-> None, left |-> {}]
      BY <1>2, <2>1 DEF Resting
    <3> QED BY <3>1 DEF Jobs
  <2>2. CASE k # n /\ job[k].from = n
    <3>1. CutOff(n)[k] = [job[k] EXCEPT !.at = "asking", !.from = None]
      BY <1>2, <2>2
    <3> QED BY <1>1, <3>1 DEF Jobs
  <2>3. CASE k # n /\ job[k].from # n
    <3>1. CutOff(n)[k] = job[k]
      BY <1>2, <2>3
    <3> QED BY <1>1, <2>3, <3>1 DEF Jobs
  <2> QED BY <2>1, <2>2, <2>3
<1>4. CutOff(n) \in [Nodes -> Jobs(V \cup {0}, L \cup {{}})]
  <2>1. CutOff(n) = [k \in Nodes |-> CutOff(n)[k]]
    BY DEF CutOff
  <2> QED BY <1>3, <2>1
<1> QED BY <1>3, <1>4 DEF Receiving

\* ... with what it had reserved with others, if it had.
Dropped(n) ==
  \/ slots' = [slots EXCEPT ![n] = {}]
  \/ \E m : slots' = [slots EXCEPT ![n] = {}, ![m] = @ \ SlotsOf(m, n)]

LEMMA RestartKeeps ==
  ASSUME Inv, NEW n \in Nodes, NEW v, Anew(n, v), Dropped(n)
  PROVE  Inv'
<1> PICK V, L : Shape(V, L)
  BY DEF Inv, HaveShape
<1>1. job' = CutOff(n)
  BY DEF Anew
<1>2. slots' \in [Nodes -> SUBSET SlotRecords(V \cup {0})]
  BY DEF Dropped, Shape, SlotRecords
<1>3. HaveShape'
  BY <1>1, <1>2, CutOffCuts DEF HaveShape, Shape
<1>4. ASSUME NEW m \in Nodes
      PROVE  /\ slots'[m] \in SUBSET slots[m]
             /\ m # n => \A s \in slots[m] : s.to # n => s \in slots'[m]
  BY DEF Dropped, Shape, SlotsOf
<1>5. WithinSlots(slots)'
  <2> SUFFICES ASSUME NEW m \in Nodes
               PROVE  IsFiniteSet(slots'[m]) /\ Cardinality(slots'[m]) <= Slots
    BY DEF WithinSlots
  <2>1. IsFiniteSet(slots[m]) /\ Cardinality(slots[m]) <= Slots
    BY DEF Inv, WithinSlots
  <2>2. slots'[m] \in SUBSET slots[m]
    BY <1>4
  <2> QED BY <2>1, <2>2, FewerSlots
<1>6. EachHasItsSlot'
  <2> SUFFICES ASSUME NEW k \in Nodes, NEW m \in Nodes, Receiving(k, m)'
               PROVE  \E s \in slots'[m] : s.to = k
    BY DEF EachHasItsSlot
  <2>1. k # n /\ m # n /\ Receiving(k, m)
    <3>1. CutOff(n)[k].at = "receiving" /\ CutOff(n)[k].from = m
      BY <1>1 DEF Receiving
    <3> QED BY <3>1, CutOffCuts
  <2>2. PICK s \in slots[m] : s.to = k
    BY <2>1 DEF Inv, EachHasItsSlot
  <2> QED BY <1>4, <2>1, <2>2
<1> QED BY <1>3, <1>5, <1>6 DEF Inv

-----------------------------------------------------------------------------
(* The download and the seeder, action by action. *)

\* The job of n is another one, which is not a transfer.
LEMMA NewJobLetsGo ==
  ASSUME Inv, NEW n \in Nodes, NEW V, NEW L, job'[n] \in Jobs(V, L), job'[n].at # "receiving",
         job' = [k \in Nodes |-> IF k = n THEN job'[n] ELSE job[k]],
         slots' = slots \/ \E m : Without(m, SlotsOf(m, n))
  PROVE  Inv'
<1> PICK W, M : Shape(W, M)
  BY DEF Inv, HaveShape
<1>1. \A k \in Nodes : job[k] \in Jobs(W, M)
  BY DEF Shape
<1>2. \A k \in Nodes : job'[k] \in Jobs(V \cup W, L \cup M)
  <2> SUFFICES ASSUME NEW k \in Nodes PROVE job'[k] \in Jobs(V \cup W, L \cup M)
    OBVIOUS
  <2>1. job'[k] = job[k] \/ k = n
    OBVIOUS
  <2> QED BY <1>1, <2>1 DEF Jobs
<1>3. slots' \in [Nodes -> SUBSET SlotRecords(V \cup W)]
  <2>1. \A k \in Nodes : slots[k] \in SUBSET SlotRecords(V \cup W)
    BY DEF Shape, SlotRecords
  <2> QED BY <2>1 DEF Shape, Without
<1>4. HaveShape'
  BY <1>2, <1>3 DEF HaveShape, Shape
<1>5. \A k \in Nodes \ {n} : job'[k] = job[k]
  OBVIOUS
<1>6. \A m \in Nodes : /\ slots'[m] \subseteq slots[m]
                       /\ \A s \in slots[m] : s.to # n => s \in slots'[m]
  BY DEF Shape, Without, SlotsOf
<1>7. LetsGo(n)
  BY <1>4, <1>5, <1>6 DEF LetsGo
<1> QED BY <1>7, LetsGoKeeps

LEMMA NextSourceLetsGo ==
  ASSUME Inv, NEW n \in Nodes, NEW m, NextSource(n, m),
         slots' = slots \/ \E k : Without(k, SlotsOf(k, n))
  PROVE  Inv'
<1> PICK V, L : Shape(V, L)
  BY DEF Inv, HaveShape
<1>1. job[n] \in Jobs(V, L)
  BY DEF Shape
<1>2. /\ job'[n] = [job[n] EXCEPT !.at = "asking", !.from = None, !.left = job[n].left \ {m}]
      /\ job' = [k \in Nodes |-> IF k = n THEN job'[n] ELSE job[k]]
  BY DEF NextSource, Shape
<1>3. job'[n] \in Jobs(V, {job[n].left \ {m}}) /\ job'[n].at = "asking"
  BY <1>1, <1>2 DEF Jobs
<1> QED BY <1>2, <1>3, NewJobLetsGo

\* The download is over, or a new one begins.
LEMMA FreshJobLetsGo ==
  ASSUME Inv, NEW n \in Nodes, NEW j, job' = [job EXCEPT ![n] = j],
         NEW V, NEW L, j \in Jobs(V, L), j.at # "receiving",
         slots' = slots \/ \E k : Without(k, SlotsOf(k, n))
  PROVE  Inv'
<1> PICK W, M : Shape(W, M)
  BY DEF Inv, HaveShape
<1>1. job'[n] = j /\ job' = [k \in Nodes |-> IF k = n THEN job'[n] ELSE job[k]]
  BY DEF Shape
<1> QED BY <1>1, NewJobLetsGo

LEMMA RestingLetsGo ==
  ASSUME Inv, NEW n \in Nodes, job' = [job EXCEPT ![n] = Resting],
         slots' = slots \/ \E k : Without(k, SlotsOf(k, n))
  PROVE  Inv'
<1>1. Resting \in Jobs({0}, {{}}) /\ Resting.at # "receiving"
  BY DEF Resting, Jobs
<1> QED BY <1>1, FreshJobLetsGo

\* A reservation is made.
LEMMA AskKeeps ==
  ASSUME Inv, NEW n \in Nodes, NEW m \in Nodes, Ask(n, m)
  PROVE  Inv'
<1> PICK V, L : Shape(V, L)
  BY DEF Inv, HaveShape
<1> DEFINE new == [to |-> n, ver |-> Best(m), active |-> FALSE]
<1>1. CASE /\ SlotFree(m, n)
           /\ slots' = [slots EXCEPT ![m] = @ \cup {new}]
           /\ job' = [job EXCEPT ![n].at = "granted", ![n].from = m, ![n].ver = Best(m)]
  <2>1. slots' \in [Nodes -> SUBSET SlotRecords(V \cup {Best(m)})]
    <3>1. \A k \in Nodes : slots[k] \in SUBSET SlotRecords(V \cup {Best(m)})
      BY DEF Shape, SlotRecords
    <3>2. new \in SlotRecords(V \cup {Best(m)})
      BY DEF SlotRecords
    <3> HIDE DEF new
    <3> QED BY <1>1, <3>1, <3>2 DEF Shape
  <2>2. /\ \A k \in Nodes \ {n} : job'[k] = job[k]
        /\ job'[n] = [job[n] EXCEPT !.at = "granted", !.from = m, !.ver = Best(m)]
        /\ job' = [k \in Nodes |-> job'[k]]
    BY <1>1 DEF Shape
  <2>3. \A k \in Nodes : job[k] \in Jobs(V, L)
    BY DEF Shape
  <2>4. job'[n] \in Jobs(V \cup {Best(m)}, L) /\ job'[n].at = "granted"
    BY <2>2, <2>3 DEF Jobs
  <2>5. \A k \in Nodes : job'[k] \in Jobs(V \cup {Best(m)}, L)
    <3> SUFFICES ASSUME NEW k \in Nodes PROVE job'[k] \in Jobs(V \cup {Best(m)}, L)
      OBVIOUS
    <3>1. CASE k = n
      BY <2>4, <3>1
    <3>2. CASE k # n
      <4>1. job'[k] \in Jobs(V, L)
        BY <2>2, <2>3, <3>2
      <4> QED BY <4>1 DEF Jobs
    <3> QED BY <3>1, <3>2
  <2>6. HaveShape'
    BY <2>1, <2>2, <2>5 DEF HaveShape, Shape
  <2>7. \A k \in Nodes : slots'[k] = IF k = m THEN slots[m] \cup {new} ELSE slots[k]
    BY <1>1 DEF Shape
  <2>8. WithinSlots(slots)'
    <3>1. IsFiniteSet(slots[m]) /\ Cardinality(slots[m]) <= Slots
      BY DEF Inv, WithinSlots
    <3>2. Cardinality(slots[m]) \in Nat /\ Slots \in Nat
      BY <3>1, FS_CardinalityType, ConstantsOK
    <3>3. new \in slots[m] \/ Cardinality(slots[m]) < Slots
      <4>1. ASSUME NEW s \in SlotsOf(m, n), s.ver = Best(m), ~s.active
            PROVE  s = new
        <5>1. s \in SlotRecords(V) /\ s.to = n
          BY <4>1 DEF SlotsOf, Shape
        <5> QED BY <4>1, <5>1 DEF SlotRecords
      <4> QED BY <1>1, <4>1 DEF SlotFree, SlotsOf
    <3>4. IsFiniteSet(slots[m] \cup {new}) /\ Cardinality(slots[m] \cup {new}) <= Slots
      <4> HIDE DEF new
      <4>1. /\ IsFiniteSet(slots[m] \cup {new})
            /\ \/ Cardinality(slots[m] \cup {new}) = Cardinality(slots[m]) /\ new \in slots[m]
               \/ Cardinality(slots[m] \cup {new}) = Cardinality(slots[m]) + 1 /\ new \notin slots[m]
        BY <3>1, FS_AddElement
      <4> QED BY <3>1, <3>2, <3>3, <4>1
    <3> HIDE DEF new
    <3> QED BY <2>7, <3>4 DEF Inv, WithinSlots
  <2>9. EachHasItsSlot'
    <3> SUFFICES ASSUME NEW k \in Nodes, NEW h \in Nodes, Receiving(k, h)'
                 PROVE  \E s \in slots'[h] : s.to = k
      BY DEF EachHasItsSlot
    <3>1. job'[k] = job[k]
      BY <2>2, <2>4 DEF Receiving
    <3>2. PICK s \in slots[h] : s.to = k
      BY <3>1 DEF Inv, EachHasItsSlot, Receiving
    <3> HIDE DEF new
    <3> QED BY <2>7, <3>2
  <2> QED BY <2>6, <2>8, <2>9 DEF Inv
<1>2. CASE NextSource(n, m) /\ UNCHANGED slots
  BY <1>2, NextSourceLetsGo
<1> QED BY <1>1, <1>2 DEF Ask

\* It becomes a transfer.
LEMMA BeginKeeps ==
  ASSUME Inv, NEW n \in Nodes, Begin(n)
  PROVE  Inv'
<1> PICK V, L : Shape(V, L)
  BY DEF Inv, HaveShape
<1> DEFINE m == job[n].from
           mine == {s \in SlotsOf(m, n) : s.ver = job[n].ver /\ Best(m) = s.ver}
           served == (slots[m] \ mine) \cup {[s EXCEPT !.active = TRUE] : s \in mine}
<1>1. CASE /\ mine # {}
           /\ slots' = [slots EXCEPT ![m] = (@ \ mine) \cup {[s EXCEPT !.active = TRUE] : s \in mine}]
           /\ job' = [job EXCEPT ![n].at = "receiving"]
  <2>1. \A k \in Nodes : slots[k] \in SUBSET SlotRecords(V)
    BY DEF Shape
  <2>2. ASSUME m \in Nodes, NEW s \in mine
        PROVE  /\ s \in slots[m] /\ s.to = n
               /\ [s EXCEPT !.active = TRUE] \in SlotRecords(V)
               /\ [s EXCEPT !.active = TRUE].to = n
    <3>1. s \in slots[m] /\ s.to = n
      BY <2>2 DEF SlotsOf
    <3>2. s \in SlotRecords(V)
      BY <2>1, <2>2, <3>1
    <3> HIDE DEF mine
    <3> QED BY <3>1, <3>2 DEF SlotRecords
  <2>3. m \in Nodes => served \in SUBSET SlotRecords(V)
    <3> HIDE DEF mine
    <3> QED BY <2>1, <2>2
  <2>4. \A k \in Nodes : slots'[k] = IF k = m THEN served ELSE slots[k]
    <3> HIDE DEF mine
    <3> QED BY <1>1 DEF Shape
  <2>5. slots' \in [Nodes -> SUBSET SlotRecords(V)]
    <3>1. slots' = [k \in Nodes |-> slots'[k]]
      <4> HIDE DEF mine
      <4> QED BY <1>1 DEF Shape
    <3> HIDE DEF served
    <3> QED BY <2>1, <2>3, <2>4, <3>1
  <2>6. /\ \A k \in Nodes \ {n} : job'[k] = job[k]
        /\ job'[n] = [job[n] EXCEPT !.at = "receiving"]
        /\ job' = [k \in Nodes |-> job'[k]]
    BY <1>1 DEF Shape
  <2>7. \A k \in Nodes : job[k] \in Jobs(V, L)
    BY DEF Shape
  <2>8. job'[n] \in Jobs(V, L) /\ job'[n].from = m
    BY <2>6, <2>7 DEF Jobs
  <2>9. HaveShape'
    BY <2>5, <2>6, <2>7, <2>8 DEF HaveShape, Shape
  <2>10. WithinSlots(slots)'
    <3>1. ASSUME m \in Nodes
          PROVE  IsFiniteSet(served) /\ Cardinality(served) <= Slots
      <4> DEFINE f == [s \in slots[m] |-> IF s \in mine THEN [s EXCEPT !.active = TRUE] ELSE s]
      <4>1. IsFiniteSet(slots[m]) /\ Cardinality(slots[m]) <= Slots
        BY <3>1 DEF Inv, WithinSlots
      <4>2. \A s \in mine : s \in slots[m]
        BY <2>2, <3>1
      <4>3. f \in Surjection(slots[m], served)
        <5> HIDE DEF mine
        <5>1. f \in [slots[m] -> served]
          OBVIOUS
        <5>2. \A t \in served : \E s \in slots[m] : f[s] = t
          BY <4>2
        <5> QED BY <5>1, <5>2 DEF Surjection
      <4>4. IsFiniteSet(served) /\ Cardinality(served) <= Cardinality(slots[m])
        <5> HIDE DEF f, served
        <5> QED BY <4>1, <4>3, FS_Surjection
      <4>5. Cardinality(served) \in Nat /\ Cardinality(slots[m]) \in Nat /\ Slots \in Nat
        <5> HIDE DEF served
        <5> QED BY <4>1, <4>4, FS_CardinalityType, ConstantsOK
      <4> HIDE DEF served
      <4> QED BY <4>1, <4>4, <4>5
    <3> HIDE DEF served
    <3> QED BY <2>4, <3>1 DEF Inv, WithinSlots
  <2>11. EachHasItsSlot'
    <3> SUFFICES ASSUME NEW k \in Nodes, NEW h \in Nodes, Receiving(k, h)'
                 PROVE  \E s \in slots'[h] : s.to = k
      BY DEF EachHasItsSlot
    <3>1. CASE k = n
      <4>1. h = m /\ m \in Nodes
        BY <2>8, <3>1 DEF Receiving
      <4>2. PICK s \in mine : TRUE
        BY <1>1
      <4>3. [s EXCEPT !.active = TRUE] \in served /\ [s EXCEPT !.active = TRUE].to = n
        BY <2>2, <4>1
      <4> HIDE DEF served
      <4> QED BY <2>4, <3>1, <4>1, <4>3
    <3>2. CASE k # n
      <4>1. PICK s \in slots[h] : s.to = k
        BY <2>6, <3>2 DEF Inv, EachHasItsSlot, Receiving
      <4>2. h = m => s \in served
        <5> HIDE DEF mine
        <5> QED BY <2>2, <3>2, <4>1
      <4> HIDE DEF served
      <4> QED BY <2>4, <4>1, <4>2
    <3> QED BY <3>1, <3>2
  <2> QED BY <2>9, <2>10, <2>11 DEF Inv
<1>2. CASE NextSource(n, m) /\ UNCHANGED slots
  BY <1>2, NextSourceLetsGo
<1> QED BY <1>1, <1>2 DEF Begin

\* It is over.
LEMMA SlotEndsKeeps ==
  ASSUME Inv, NEW n \in Nodes, NEW m \in Nodes, SlotEnds(m, n)
  PROVE  Inv'
<1> PICK V, L : Shape(V, L)
  BY DEF Inv, HaveShape
<1>1. job' = job /\ job[n].from # m /\ slots' = [slots EXCEPT ![m] = @ \ SlotsOf(m, n)]
  BY DEF SlotEnds, Without
<1>2. HaveShape'
  <2>1. slots' \in [Nodes -> SUBSET SlotRecords(V)]
    BY <1>1 DEF Shape
  <2> QED BY <1>1, <2>1 DEF HaveShape, Shape
<1>3. ASSUME NEW k \in Nodes
      PROVE  slots'[k] \in SUBSET slots[k] /\ \A s \in slots[k] : s \in slots'[k] \/ (k = m /\ s.to = n)
  BY <1>1 DEF Shape, SlotsOf
<1>4. WithinSlots(slots)'
  <2> SUFFICES ASSUME NEW k \in Nodes
               PROVE  IsFiniteSet(slots'[k]) /\ Cardinality(slots'[k]) <= Slots
    BY DEF WithinSlots
  <2>1. IsFiniteSet(slots[k]) /\ Cardinality(slots[k]) <= Slots
    BY DEF Inv, WithinSlots
  <2> QED BY <1>3, <2>1, FewerSlots
<1>5. EachHasItsSlot'
  <2> SUFFICES ASSUME NEW k \in Nodes, NEW h \in Nodes, Receiving(k, h)'
               PROVE  \E s \in slots'[h] : s.to = k
    BY DEF EachHasItsSlot
  <2>1. Receiving(k, h)
    BY <1>1 DEF Receiving
  <2>2. PICK s \in slots[h] : s.to = k
    BY <2>1 DEF Inv, EachHasItsSlot
  <2>3. ~(h = m /\ k = n)
    BY <1>1, <2>1 DEF Receiving
  <2> QED BY <1>3, <2>2, <2>3
<1> QED BY <1>2, <1>4, <1>5 DEF Inv

LEMMA DownloadKeeps ==
  ASSUME Inv, NEW n \in Nodes, Download(n)
  PROVE  Inv'
<1>1. CASE \E m \in Nodes : Ask(n, m) \/ SlotEnds(m, n)
  BY <1>1, AskKeeps, SlotEndsKeeps
<1>2. CASE Begin(n)
  BY <1>2, BeginKeeps
<1>3. CASE Receive(n)
  <2>1. CASE Goes(n, job[n].ver, reported[n])
    <3>1. Anew(n, job[n].ver) /\ Dropped(n)
      BY <1>3, <2>1 DEF Receive, Dropped
    <3> QED BY <3>1, RestartKeeps
  <2>2. CASE ~Goes(n, job[n].ver, reported[n])
    <3>1. job' = [job EXCEPT ![n] = Resting] /\ Without(job[n].from, SlotsOf(job[n].from, n))
      BY <1>3, <2>2 DEF Receive
    <3> QED BY <3>1, RestingLetsGo
  <2> QED BY <2>1, <2>2
<1>4. CASE Break(n)
  BY <1>4, NextSourceLetsGo DEF Break
<1>5. CASE GiveUp(n)
  BY <1>5, RestingLetsGo DEF GiveUp
<1> QED BY <1>1, <1>2, <1>3, <1>4, <1>5 DEF Download

-----------------------------------------------------------------------------
(* The other actions. *)

LEMMA StartsAsKeeps ==
  ASSUME Inv, NEW n \in Nodes, NEW v, StartsAs(n, v)
  PROVE  Inv'
<1>1. Anew(n, v) /\ Dropped(n)
  BY DEF StartsAs, Dropped
<1> QED BY <1>1, RestartKeeps

LEMMA LaunchKeeps ==
  ASSUME Inv, NEW n \in Nodes, Launch(n)
  PROVE  Inv'
<1>1. CASE \E v \in Versions : TestByHand(n, v)
  BY <1>1, StartsAsKeeps DEF TestByHand
<1>2. CASE Confirm(n)
  BY <1>2, Stutters DEF Confirm, process, memory
<1>3. CASE TrialFails(n)
  BY <1>3, StartsAsKeeps DEF TrialFails
<1>4. CASE CrashLoop(n)
  BY <1>4, StartsAsKeeps DEF CrashLoop, RollBack
<1>5. CASE Reboot(n)
  BY <1>5, StartsAsKeeps DEF Reboot
<1> QED BY <1>1, <1>2, <1>3, <1>4, <1>5 DEF Launch

LEMMA UpdateKeeps ==
  ASSUME Inv, NEW n \in Nodes, Update(n)
  PROVE  Inv'
<1>1. ASSUME NEW v, NEW reports, Waits(n, v, reports)
      PROVE  Inv'
  BY <1>1, Stutters DEF Waits
<1>2. ASSUME NEW silent, Check(n, silent)
      PROVE  Inv'
  <2> DEFINE reports == Polled(n, silent)
             new == Candidate(n, reports)
  <2>1. CASE RestartInto(n, KeptStaged(n, reports))
    BY <2>1, StartsAsKeeps DEF RestartInto
  <2>2. CASE \E v : Waits(n, v, reports)
    BY <1>1, <2>2
  <2>3. CASE /\ job' = [job EXCEPT ![n] = [at |-> "asking", ver |-> new, from |-> None, left |-> Online(n)]]
             /\ slots' = slots
    <3> DEFINE j == [at |-> "asking", ver |-> new, from |-> None, left |-> Online(n)]
    <3> HIDE DEF new
    <3>1. j \in Jobs({new}, {Online(n)}) /\ j.at # "receiving"
      BY DEF Jobs
    <3> HIDE DEF j
    <3> QED BY <2>3, <3>1, FreshJobLetsGo DEF j
  <2> QED BY <1>2, <2>1, <2>2, <2>3 DEF Check
<1>3. CASE \E silent : PollAside(n, silent)
  BY <1>1, <1>3 DEF PollAside
<1>4. CASE CheckForgets(n)
  BY <1>1, <1>4 DEF CheckForgets
<1> QED BY <1>2, <1>3, <1>4 DEF Update

LEMMA UserKeeps ==
  ASSUME Inv, NEW n \in Nodes, User(n)
  PROVE  Inv'
<1>1. CASE RestartNow(n)
  BY <1>1, StartsAsKeeps DEF RestartNow
<1>2. CASE RollbackNow(n)
  BY <1>2, StartsAsKeeps DEF RollbackNow, RollBack
<1>3. CASE Approve(n) \/ UpdateNow(n) \/ HurryLapses(n)
  BY <1>3, Stutters DEF Approve, UpdateNow, HurryLapses
<1>4. CASE Retry(n) \/ BecomeBusy(n) \/ BecomeFree(n)
  BY <1>4, Stutters DEF Retry, BecomeBusy, BecomeFree, memory
<1> QED BY <1>1, <1>2, <1>3, <1>4 DEF User

LEMMA StepKeeps ==
  ASSUME Inv, [Next]_vars
  PROVE  Inv'
<1>1. CASE UNCHANGED vars
  BY <1>1, Stutters DEF vars, memory
<1>2. CASE Tick \/ \E m, n \in Nodes : TickWithLoss(m, n)
  BY <1>2, Stutters DEF Tick, TickWithLoss, TimePasses
<1>3. CASE \E n \in Nodes : Launch(n) \/ Update(n) \/ Download(n) \/ User(n)
  BY <1>3, LaunchKeeps, UpdateKeeps, DownloadKeeps, UserKeeps
<1> QED BY <1>1, <1>2, <1>3 DEF Next

LEMMA StartsWell ==
  ASSUME Init
  PROVE  Inv
<1>1. job = [n \in Nodes |-> Resting] /\ slots = [n \in Nodes |-> {}]
  BY DEF Init
<1>2. Resting \in Jobs({0}, {{}}) /\ Resting.at = "idle"
  BY DEF Resting, Jobs
<1>3. Shape({0}, {{}})
  BY <1>1, <1>2 DEF Shape
<1>4. WithinSlots(slots)
  BY <1>1, FS_EmptySet, ConstantsOK DEF WithinSlots
<1>5. EachHasItsSlot
  BY <1>1, <1>2 DEF EachHasItsSlot, Receiving
<1> QED BY <1>3, <1>4, <1>5 DEF Inv, HaveShape

-----------------------------------------------------------------------------
\* Different transfers have different reservations, so there are no more of them.
LEMMA NoMoreThanSlots ==
  ASSUME Inv
  PROVE  TransfersWithinSlots
<1> SUFFICES ASSUME NEW m \in Nodes
             PROVE  Cardinality({n \in Nodes : Receiving(n, m)}) <= Slots
  BY DEF TransfersWithinSlots, Receiving
<1> DEFINE receivers == {n \in Nodes : Receiving(n, m)}
           its == [n \in receivers |-> CHOOSE s \in slots[m] : s.to = n]
<1>1. \A n \in receivers : its[n] \in slots[m] /\ its[n].to = n
  BY DEF Inv, EachHasItsSlot
<1>2. IsFiniteSet(slots[m]) /\ Cardinality(slots[m]) <= Slots
  BY DEF Inv, WithinSlots
<1>3. its \in Injection(receivers, slots[m])
  <2>1. its \in [receivers -> slots[m]]
    BY <1>1
  <2>2. \A a, b \in receivers : its[a] = its[b] => a = b
    <3> HIDE DEF its
    <3> QED BY <1>1
  <2> HIDE DEF its, receivers
  <2> QED BY <2>1, <2>2 DEF Injection, IsInjective
<1>4. IsFiniteSet(receivers) /\ Cardinality(receivers) <= Cardinality(slots[m])
  <2> HIDE DEF its, receivers
  <2> QED BY <1>2, <1>3, FS_Injection
<1>5. Cardinality(receivers) \in Nat /\ Cardinality(slots[m]) \in Nat /\ Slots \in Nat
  <2> HIDE DEF receivers
  <2> QED BY <1>2, <1>4, FS_CardinalityType, ConstantsOK
<1> HIDE DEF receivers
<1>6. Cardinality(receivers) <= Slots
  BY <1>2, <1>4, <1>5
<1> QED BY <1>6 DEF receivers

\* A node never serves more downloads at a time than it has slots (seeder.reserve, begin, done),
\* whatever lapses, breaks off or restarts meanwhile.
THEOREM NoSourceIsOverrun == Spec => []TransfersWithinSlots
<1>1. Init => Inv
  BY StartsWell
<1>2. Inv /\ [Next]_vars => Inv'
  BY StepKeeps
<1>3. Inv => TransfersWithinSlots
  BY NoMoreThanSlots
<1> QED BY <1>1, <1>2, <1>3, PTL DEF Spec
-----------------------------------------------------------------------------
(***************************************************************************)
(* The types of the nodes' state, and what ties its parts together: a      *)
(* version on trial, on its way or staged is newer than the confirmed one, *)
(* and while a version is on trial nothing is on its way.                  *)
(***************************************************************************)

Views == [ver : 0..MaxVersion, age : 0..MaxAge, silent : 0..Timeout]
UpdateJobs == [at : {"idle", "asking", "granted", "receiving"},
               ver : 0..MaxVersion, from : Nodes \cup {None}, left : SUBSET Nodes]
Reservations == [to : Nodes, ver : Versions, active : BOOLEAN]

\* What the launcher keeps, and the history.
Confirmed ==
  /\ faulty \subseteq Versions
  /\ current \in [Nodes -> Versions] /\ previous \in [Nodes -> Versions \cup {None}]
  /\ highest \in [Nodes -> Versions]
  /\ tested \in [Nodes -> SUBSET Versions]

\* What a node does and sees.
Seen ==
  /\ run \in [Nodes -> Versions] /\ age \in [Nodes -> 0..MaxAge]
  /\ view \in [Nodes -> [Nodes -> Views]]

\* The rest, which one action or another changes alone.
Rest ==
  /\ bad \in [Nodes -> SUBSET Versions] /\ stored \in [Nodes -> SUBSET Versions]
  /\ busy \in [Nodes -> BOOLEAN]
  /\ reported \in [Nodes -> SUBSET (Nodes \X Versions)]
  /\ staged \in [Nodes -> Versions \cup {None}]
  /\ approved \in [Nodes -> Versions \cup {None}] /\ hurry \in [Nodes -> Versions \cup {None}]
  /\ job \in [Nodes -> UpdateJobs]
  /\ slots \in [Nodes -> SUBSET Reservations]
  /\ tests \in 0..MaxTests /\ acts \in 0..MaxActs /\ mishaps \in 0..MaxMishaps

LEMMA TypesAreThree == TypeOK <=> Confirmed /\ Seen /\ Rest
BY DEF TypeOK, Confirmed, Seen, Rest, Views, UpdateJobs, Reservations

OnItsWay(k) == k.at \in {"granted", "receiving"}

Orderly(n) ==
  /\ Trial(n) => run[n] > current[n]
  /\ staged[n] # None => staged[n] > run[n] /\ ~Trial(n)
  /\ job[n].at # "idle" => ~Trial(n)
  /\ OnItsWay(job[n]) => job[n].from \in Nodes /\ job[n].ver > run[n]
  /\ ~OnItsWay(job[n]) => job[n].from = None

\* A version that cannot pass its trial is never confirmed; it runs where a user has put it,
\* no longer than a trial lasts, and nobody sees it run for much longer than that.
Quarantine ==
  /\ 1 \notin faulty
  /\ \A n \in Nodes : /\ current[n] \notin faulty /\ previous[n] \notin faulty
                      /\ run[n] \in faulty => run[n] \in tested[n] /\ age[n] <= TrialTime
  /\ \A n, m \in Nodes :
       view[n][m].ver \in faulty => view[n][m].age <= TrialTime + view[n][m].silent

NodeInv == Confirmed /\ Seen /\ Rest /\ (\A n \in Nodes : Orderly(n)) /\ Quarantine

-----------------------------------------------------------------------------
(* The greatest of some versions. *)

LEMMA SmallestOfNats ==
  ASSUME NEW T \in SUBSET Nat, T # {}
  PROVE  \E x \in T : \A y \in T : x <= y
<1> DEFINE R == OpToRel(<, Nat)
<1>1. IsWellFoundedOn(R, Nat)
  BY NatLessThanWellFounded, Zenon
<1>2. \A x, y \in Nat : x < y => <<x, y>> \in R
  BY DEF OpToRel
<1> HIDE DEF R
<1>3. PICK x \in T : \A y \in T : ~ (<<y, x>> \in R)
  BY <1>1, WFMin
<1>4. \A y \in T : ~ (y < x) /\ x \in Nat /\ y \in Nat
  BY <1>2, <1>3
<1>5. \A y \in T : x <= y
  BY <1>4
<1> QED BY <1>5

LEMMA GreatestVersion ==
  ASSUME NEW S \in SUBSET (0..MaxVersion), S # {}
  PROVE  Max(S) \in S /\ \A y \in S : Max(S) >= y
<1>1. MaxVersion \in Nat
  BY ConstantsOK
<1> DEFINE T == {k \in Nat : \E v \in S : k = MaxVersion - v}
<1>2. \A y \in S : y \in Nat /\ MaxVersion - y \in T
  BY <1>1
<1>3. T \in SUBSET Nat /\ T # {}
  <2>1. PICK y \in S : TRUE
    OBVIOUS
  <2>2. MaxVersion - y \in T
    BY <1>2
  <2> QED BY <2>2
<1>4. PICK k \in T : \A j \in T : k <= j
  <2> HIDE DEF T
  <2> QED BY <1>3, SmallestOfNats
<1>5. PICK v \in S : k = MaxVersion - v
  BY <1>4
<1>6. \A y \in S : v >= y
  <2> SUFFICES ASSUME NEW y \in S PROVE v >= y
    OBVIOUS
  <2>1. k <= MaxVersion - y
    BY <1>2, <1>4
  <2> QED BY <1>1, <1>2, <1>5, <2>1
<1> HIDE DEF T
<1> QED BY <1>6 DEF Max

LEMMA BestVersion ==
  ASSUME Rest, NEW n \in Nodes
  PROVE  Best(n) \in 0..MaxVersion /\ (Best(n) # 0 => Best(n) \in stored[n])
<1> DEFINE S == {0} \cup {v \in stored[n] : Accusers(reported[n], v) = 0}
<1>1. S \in SUBSET (0..MaxVersion) /\ S # {}
  BY ConstantsOK DEF Rest, Versions
<1>2. Best(n) = Max(S)
  BY DEF Best
<1>3. S \subseteq {0} \cup stored[n]
  OBVIOUS
<1> HIDE DEF S
<1> QED BY <1>1, <1>2, <1>3, GreatestVersion

LEMMA CandidateVersion ==
  ASSUME Seen, NEW n \in Nodes, NEW r
  PROVE  /\ Candidate(n, r) \in 0..MaxVersion
         /\ Candidate(n, r) # 0 => Candidate(n, r) \in Versions /\ Candidate(n, r) > run[n]
<1> DEFINE S == {0} \cup {v \in {view[n][m].ver : m \in Online(n)} :
                  v > run[n] /\ v > highest[n] /\ v \notin bad[n] /\ Accusers(r, v) < 2}
<1>1. \A m \in Online(n) : view[n][m].ver \in 0..MaxVersion
  BY DEF Online, Seen, Views
<1>2. S \in SUBSET (0..MaxVersion) /\ S # {} /\ \A v \in S : v = 0 \/ v > run[n]
  BY <1>1, ConstantsOK
<1>3. Candidate(n, r) = Max(S)
  BY DEF Candidate
<1> HIDE DEF S
<1>4. Max(S) \in S
  BY <1>2, GreatestVersion
<1>5. Max(S) \in 0..MaxVersion /\ (Max(S) = 0 \/ Max(S) > run[n])
  BY <1>2, <1>4
<1> QED BY <1>3, <1>5, ConstantsOK DEF Versions

-----------------------------------------------------------------------------
(* Kinds of steps. *)

\* A process ends and starts again with v.
LEMMA AnewKeepsNodes ==
  ASSUME NodeInv, NEW n \in Nodes, NEW v \in Versions, Anew(n, v),
         Confirmed', bad' \in [Nodes -> SUBSET Versions], stored' \in [Nodes -> SUBSET Versions],
         slots' \in [Nodes -> SUBSET Reservations],
         tests' \in 0..MaxTests, acts' \in 0..MaxActs, mishaps' \in 0..MaxMishaps,
         \A m \in Nodes \ {n} : current'[m] = current[m],
         v = current'[n] \/ v > current'[n],
         \A m \in Nodes : /\ current'[m] \notin faulty /\ previous'[m] \notin faulty
                          /\ tested[m] \subseteq tested'[m],
         v \in faulty => v \in tested'[n]
  PROVE  NodeInv'
<1>1. MaxAge \in Nat
  <2>1. Cardinality(Nodes) \in Nat
    BY ConstantsOK, FS_CardinalityType
  <2>2. Cardinality(Nodes) # 0
    BY ConstantsOK, FS_EmptySet
  <2>3. Cardinality(Nodes) - 1 \in Nat
    BY <2>1, <2>2
  <2>4. \A a, b, c \in Nat : c + a * b \in Nat
    OBVIOUS
  <2> QED BY <2>3, <2>4, ConstantsOK DEF MaxAge
<1>2. AgeAtStart(v) \in 0..MaxAge /\ (v # 1 => AgeAtStart(v) = 0)
  BY <1>1 DEF AgeAtStart
<1>3. Unknown \in Views /\ Unknown.ver = 0
  BY <1>1, ConstantsOK DEF Unknown, Views
<1>4. /\ \A m \in Nodes : run'[m] = IF m = n THEN v ELSE run[m]
      /\ \A m \in Nodes : age'[m] = IF m = n THEN AgeAtStart(v) ELSE age[m]
      /\ \A m, k \in Nodes : view'[m][k] = IF m = n THEN Unknown ELSE view[m][k]
      /\ \A m \in Nodes : staged'[m] = IF m = n THEN None ELSE staged[m]
      /\ job' = CutOff(n) /\ faulty' = faulty
  BY DEF Anew, NodeInv, Seen, Rest
<1>5. Seen'
  BY <1>2, <1>3 DEF Anew, NodeInv, Seen
<1>6. \A m \in Nodes : job[m] \in UpdateJobs
  BY DEF NodeInv, Rest
<1>7. ASSUME NEW m \in Nodes
      PROVE  /\ CutOff(n)[m] \in UpdateJobs
             /\ m = n => CutOff(n)[m].at = "idle" /\ CutOff(n)[m].from = None
             /\ m # n => \/ CutOff(n)[m] = job[m]
                         \/ job[m].from = n /\ CutOff(n)[m].at = "asking" /\ CutOff(n)[m].from = None
  <2>1. CASE m = n
    <3>1. CutOff(n)[m] = [at |-> "idle", ver |-> 0, from |-> None, left |-> {}]
      BY <2>1 DEF CutOff, Resting
    <3> QED BY <2>1, <3>1, ConstantsOK DEF UpdateJobs
  <2>2. CASE m # n /\ job[m].from = n
    <3>1. CutOff(n)[m] = [job[m] EXCEPT !.at = "asking", !.from = None]
      BY <2>2 DEF CutOff
    <3> QED BY <1>6, <2>2, <3>1 DEF UpdateJobs
  <2>3. CASE m # n /\ job[m].from # n
    <3>1. CutOff(n)[m] = job[m]
      BY <2>3 DEF CutOff
    <3> QED BY <1>6, <2>3, <3>1
  <2> QED BY <2>1, <2>2, <2>3
<1>8. job' \in [Nodes -> UpdateJobs]
  <2>1. CutOff(n) = [m \in Nodes |-> CutOff(n)[m]]
    BY DEF CutOff
  <2> QED BY <1>4, <1>7, <2>1
<1>9. Rest'
  BY <1>8 DEF Anew, NodeInv, Rest
<1>10. ASSUME NEW m \in Nodes
       PROVE  Orderly(m)'
  <2>1. CASE m = n
    BY <1>4, <1>7, <2>1, ConstantsOK DEF Orderly, Trial, OnItsWay
  <2>2. CASE m # n
    <3>1. Orderly(m) /\ n # None
      BY ConstantsOK DEF NodeInv
    <3>2. run'[m] = run[m] /\ current'[m] = current[m] /\ staged'[m] = staged[m]
      BY <1>4, <2>2
    <3>3. CASE job'[m] = job[m]
      BY <3>1, <3>2, <3>3 DEF Orderly, Trial, OnItsWay
    <3>4. CASE job[m].from = n /\ job'[m].at = "asking" /\ job'[m].from = None
      <4>1. OnItsWay(job[m])
        BY <3>1, <3>4 DEF Orderly
      <4>2. job[m].at # "idle"
        BY <4>1 DEF OnItsWay
      <4> QED BY <3>1, <3>2, <3>4, <4>2 DEF Orderly, Trial, OnItsWay
    <3> QED BY <1>4, <1>7, <2>2, <3>3, <3>4
  <2> QED BY <2>1, <2>2
<1>11. Quarantine'
  <2>1. 1 \notin faulty /\ 0 \notin faulty
    BY DEF NodeInv, Quarantine, Confirmed, Versions
  <2>2. \A m \in Nodes : run'[m] \in faulty => run'[m] \in tested'[m] /\ age'[m] <= TrialTime
    BY <1>2, <1>4, <2>1, ConstantsOK DEF NodeInv, Quarantine
  <2>3. \A m, k \in Nodes :
          view'[m][k].ver \in faulty => view'[m][k].age <= TrialTime + view'[m][k].silent
    BY <1>3, <1>4, <2>1 DEF NodeInv, Quarantine
  <2> QED BY <1>4, <2>1, <2>2, <2>3 DEF Quarantine
<1> QED BY <1>5, <1>9, <1>10, <1>11 DEF NodeInv

\* Every process goes on; a node's job and what it has staged may change.
GoesOn(n) ==
  /\ staged'[n] \in {staged[n], None} \/ (staged'[n] > run[n] /\ ~Trial(n))
  /\ \/ job'[n] = job[n]
     \/ job'[n].at = "idle" /\ job'[n].from = None
     \/ job'[n].at = "asking" /\ job'[n].from = None /\ ~Trial(n)
     \/ OnItsWay(job'[n]) /\ job'[n].from \in Nodes /\ job'[n].ver > run[n] /\ ~Trial(n)

LEMMA GoingOnKeepsNodes ==
  ASSUME NodeInv, Rest', UNCHANGED <<faulty, run, age, view, current, previous, highest, tested>>,
         \A n \in Nodes : GoesOn(n)
  PROVE  NodeInv'
<1>1. Confirmed' /\ Seen'
  BY DEF NodeInv, Confirmed, Seen
<1>2. Quarantine'
  BY DEF NodeInv, Quarantine
<1>3. ASSUME NEW n \in Nodes
      PROVE  Orderly(n)'
  <2>1. Orderly(n) /\ GoesOn(n)
    BY DEF NodeInv
  <2> QED BY <2>1 DEF Orderly, GoesOn, Trial, OnItsWay
<1> QED BY <1>1, <1>2, <1>3 DEF NodeInv

LEMMA SameJobsGoOn ==
  ASSUME UNCHANGED <<staged, job>>, NEW n \in Nodes
  PROVE  GoesOn(n)
BY DEF GoesOn

-----------------------------------------------------------------------------
(* A process ends and starts again, action by action. *)

LEMMA BudgetsStay ==
  ASSUME Rest, Mishap \/ Act \/ UNCHANGED budget
  PROVE  tests' \in 0..MaxTests /\ acts' \in 0..MaxActs /\ mishaps' \in 0..MaxMishaps
BY ConstantsOK DEF Rest, Mishap, Act, budget

\* None is no version, so what is not known is not faulty.
LEMMA NoneIsNoVersion ==
  ASSUME Confirmed
  PROVE  None \notin Versions /\ None \notin faulty /\ None \notin Nodes
BY ConstantsOK DEF Confirmed

LEMMA TestByHandKeepsNodes ==
  ASSUME NodeInv, NEW n \in Nodes, NEW v \in Versions, TestByHand(n, v)
  PROVE  NodeInv'
<1>1. Confirmed /\ Rest /\ Quarantine
  BY DEF NodeInv
<1>2. Anew(n, v) /\ slots' = [slots EXCEPT ![n] = {}] /\ v > current[n]
  BY DEF TestByHand, StartsAs
<1>3. tests' \in 0..MaxTests /\ acts' \in 0..MaxActs /\ mishaps' \in 0..MaxMishaps
  BY <1>1, ConstantsOK DEF TestByHand, Rest
<1>4. Confirmed' /\ v \in tested'[n] /\ \A m \in Nodes : tested[m] \subseteq tested'[m]
  BY <1>1 DEF TestByHand, StartsAs, Anew, Confirmed
<1>5. /\ bad' \in [Nodes -> SUBSET Versions] /\ stored' \in [Nodes -> SUBSET Versions]
      /\ slots' \in [Nodes -> SUBSET Reservations]
  BY <1>1, <1>2 DEF TestByHand, Rest
<1>6. UNCHANGED <<current, previous>>
  BY DEF TestByHand
<1> QED BY <1>1, <1>2, <1>3, <1>4, <1>5, <1>6, AnewKeepsNodes DEF Quarantine

LEMMA TrialFailsKeepsNodes ==
  ASSUME NodeInv, NEW n \in Nodes, TrialFails(n)
  PROVE  NodeInv'
<1>1. Confirmed /\ Rest /\ Quarantine /\ run[n] \in Versions /\ current[n] \in Versions
  BY DEF NodeInv, Confirmed, Seen
<1>2. /\ Anew(n, current[n]) /\ slots' = [slots EXCEPT ![n] = {}]
      /\ UNCHANGED <<current, previous, highest, stored, tested>>
  BY DEF TrialFails, StartsAs
<1>3. tests' \in 0..MaxTests /\ acts' \in 0..MaxActs /\ mishaps' \in 0..MaxMishaps
  BY <1>1, BudgetsStay DEF TrialFails
<1>4. Confirmed'
  BY <1>1, <1>2 DEF Anew, Confirmed
<1>5. /\ bad' \in [Nodes -> SUBSET Versions] /\ stored' \in [Nodes -> SUBSET Versions]
      /\ slots' \in [Nodes -> SUBSET Reservations]
  BY <1>1, <1>2 DEF TrialFails, Rest
<1> QED BY <1>1, <1>2, <1>3, <1>4, <1>5, AnewKeepsNodes DEF Quarantine

LEMMA RollBackKeepsNodes ==
  ASSUME NodeInv, NEW n \in Nodes, RollBack(n), Mishap \/ Act
  PROVE  NodeInv'
<1>1. Confirmed /\ Rest /\ Quarantine /\ current[n] \in Versions /\ previous[n] \in Versions
  BY DEF NodeInv, Confirmed, RollBack
<1>2. /\ Anew(n, previous[n]) /\ slots' = [slots EXCEPT ![n] = {}]
      /\ current' = [current EXCEPT ![n] = previous[n]] /\ previous' = [previous EXCEPT ![n] = None]
      /\ UNCHANGED <<highest, stored, tested>>
  BY DEF RollBack, StartsAs
<1>3. tests' \in 0..MaxTests /\ acts' \in 0..MaxActs /\ mishaps' \in 0..MaxMishaps
  BY <1>1, BudgetsStay
<1>4. Confirmed'
  BY <1>1, <1>2 DEF Anew, Confirmed
<1>5. /\ bad' \in [Nodes -> SUBSET Versions] /\ stored' \in [Nodes -> SUBSET Versions]
      /\ slots' \in [Nodes -> SUBSET Reservations]
  BY <1>1, <1>2 DEF RollBack, Rest
<1>6. \A m \in Nodes : /\ current'[m] = IF m = n THEN previous[n] ELSE current[m]
                       /\ previous'[m] = IF m = n THEN None ELSE previous[m]
  BY <1>1, <1>2 DEF Confirmed
<1>7. \A m \in Nodes : /\ current'[m] \notin faulty /\ previous'[m] \notin faulty
                       /\ tested[m] \subseteq tested'[m]
  BY <1>1, <1>2, <1>6, NoneIsNoVersion DEF Quarantine
<1>8. previous[n] \notin faulty
  BY <1>1 DEF Quarantine
<1> QED BY <1>1, <1>2, <1>3, <1>4, <1>5, <1>6, <1>7, <1>8, AnewKeepsNodes

LEMMA RebootKeepsNodes ==
  ASSUME NodeInv, NEW n \in Nodes, Reboot(n)
  PROVE  NodeInv'
<1>1. Confirmed /\ Rest /\ Quarantine /\ run[n] \in Versions /\ run[n] = current[n]
  BY DEF NodeInv, Seen, Reboot, Trial
<1>2. /\ Anew(n, run[n]) /\ slots' = [slots EXCEPT ![n] = {}]
      /\ UNCHANGED <<current, previous, highest, bad, stored, tested>>
  BY DEF Reboot, StartsAs, state
<1>3. tests' \in 0..MaxTests /\ acts' \in 0..MaxActs /\ mishaps' \in 0..MaxMishaps
  BY <1>1, BudgetsStay DEF Reboot
<1>4. Confirmed'
  BY <1>1, <1>2 DEF Anew, Confirmed
<1>5. /\ bad' \in [Nodes -> SUBSET Versions] /\ stored' \in [Nodes -> SUBSET Versions]
      /\ slots' \in [Nodes -> SUBSET Reservations]
  BY <1>1, <1>2 DEF Rest
<1> QED BY <1>1, <1>2, <1>3, <1>4, <1>5, AnewKeepsNodes DEF Quarantine

\* The node restarts into a newer version, which either its user has chosen or cannot be faulty.
LEMMA RestartKeepsNodes ==
  ASSUME NodeInv, NEW n \in Nodes, NEW v \in Versions, Anew(n, v), v > run[n], ~Trial(n),
         UNCHANGED <<current, previous, highest, bad>>,
         stored' \in [Nodes -> SUBSET Versions], slots' \in [Nodes -> SUBSET Reservations],
         Mishap \/ Act \/ UNCHANGED budget,
         \/ tested' = [tested EXCEPT ![n] = @ \cup {v}]
         \/ tested' = tested /\ v \notin faulty
  PROVE  NodeInv'
<1>1. Confirmed /\ Rest /\ Quarantine /\ run[n] = current[n]
  BY DEF NodeInv, Trial
<1>2. tests' \in 0..MaxTests /\ acts' \in 0..MaxActs /\ mishaps' \in 0..MaxMishaps
  BY <1>1, BudgetsStay
<1>3. /\ Confirmed' /\ \A m \in Nodes : tested[m] \subseteq tested'[m]
      /\ v \in faulty => v \in tested'[n]
  BY <1>1 DEF Anew, Confirmed
<1>4. bad' \in [Nodes -> SUBSET Versions]
  BY <1>1 DEF Rest
<1> QED BY <1>1, <1>2, <1>3, <1>4, AnewKeepsNodes DEF Quarantine

\* What somebody has been seen to run for the canary time has passed its trial.
LEMMA TurnsAreSafe ==
  ASSUME NodeInv, NEW n \in Nodes, NEW v, ItsTurn(n, v)
  PROVE  v \notin faulty
<1>1. PICK m \in Sources(n, v) : view[n][m].age >= CanaryTime + StepTime * Rank(n, v)
  BY DEF ItsTurn
<1>2. m \in Nodes /\ view[n][m].ver = v /\ view[n][m] \in Views
  BY DEF Sources, Online, NodeInv, Seen
<1>3. Rank(n, v) \in Nat
  <2> DEFINE S == {k \in Online(n) : view[n][k].ver < v /\ Order[k] < Order[n]}
  <2>1. S \in SUBSET Nodes
    BY DEF Online
  <2>2. Rank(n, v) = Cardinality(S)
    BY DEF Rank
  <2> HIDE DEF S
  <2> QED BY <2>1, <2>2, ConstantsOK, FS_Subset, FS_CardinalityType
<1>4. view[n][m].age \in Nat /\ view[n][m].silent \in 0..Timeout
  <2>1. view[n][m].age \in 0..MaxAge
    BY <1>2 DEF Views
  <2> QED BY <1>2, <2>1 DEF Views
<1>5. view[n][m].age >= CanaryTime
  <2>1. \A a, b, c, d \in Nat : d >= c + a * b => d >= c
    OBVIOUS
  <2> QED BY <1>1, <1>3, <1>4, <2>1, ConstantsOK
<1>6. v \in faulty => view[n][m].age <= TrialTime + view[n][m].silent
  BY <1>2 DEF NodeInv, Quarantine
<1> QED BY <1>4, <1>5, <1>6, ConstantsOK

LEMMA GoingIsSound ==
  ASSUME NodeInv, NEW n \in Nodes, NEW v, NEW r, Goes(n, v, r), NoteHurry(n, v)
  PROVE  \/ tested' = [tested EXCEPT ![n] = @ \cup {v}]
         \/ tested' = tested /\ v \notin faulty
BY TurnsAreSafe DEF Goes, NoteHurry

LEMMA StagedIsKept ==
  ASSUME NEW n, NEW r
  PROVE  KeptStaged(n, r) \in {staged[n], None}
BY DEF KeptStaged

LEMMA RestartNowKeepsNodes ==
  ASSUME NodeInv, NEW n \in Nodes, RestartNow(n)
  PROVE  NodeInv'
<1>1. staged[n] \in Versions /\ staged[n] > run[n] /\ ~Trial(n)
  BY DEF NodeInv, Rest, Orderly, RestartNow
<1>2. /\ Anew(n, staged[n]) /\ slots' = [slots EXCEPT ![n] = {}] /\ Act
      /\ tested' = [tested EXCEPT ![n] = @ \cup {staged[n]}]
      /\ UNCHANGED <<current, previous, highest, bad, stored>>
  BY DEF RestartNow, StartsAs, state
<1>3. stored' \in [Nodes -> SUBSET Versions] /\ slots' \in [Nodes -> SUBSET Reservations]
  BY <1>2 DEF NodeInv, Rest
<1> QED BY <1>1, <1>2, <1>3, RestartKeepsNodes

LEMMA RestartIntoKeepsNodes ==
  ASSUME NodeInv, NEW n \in Nodes, NEW r, NEW v, v = KeptStaged(n, r), ~Trial(n),
         StillChosen(n, v, r), Goes(n, v, r), RestartInto(n, v), Mishap \/ UNCHANGED budget
  PROVE  NodeInv'
<1>1. v \in Versions /\ v > run[n]
  BY StagedIsKept DEF NodeInv, Rest, StillChosen
<1>2. /\ Anew(n, v) /\ slots' = [slots EXCEPT ![n] = {}] /\ NoteHurry(n, v)
      /\ UNCHANGED <<current, previous, highest, bad, stored>>
  BY DEF RestartInto, StartsAs, state
<1>3. stored' \in [Nodes -> SUBSET Versions] /\ slots' \in [Nodes -> SUBSET Reservations]
  BY <1>2 DEF NodeInv, Rest
<1> QED BY <1>1, <1>2, <1>3, GoingIsSound, RestartKeepsNodes

-----------------------------------------------------------------------------
(* The steps in which every process goes on. *)

LEMMA ConfirmKeepsNodes ==
  ASSUME NodeInv, NEW n \in Nodes, Confirm(n)
  PROVE  NodeInv'
<1>1. /\ Confirmed /\ Seen /\ Rest /\ Quarantine /\ Orderly(n)
      /\ run[n] \in Versions /\ current[n] \in Versions /\ highest[n] \in Versions
  BY DEF NodeInv, Confirmed, Seen
<1>2. /\ UNCHANGED <<faulty, bad, tested, run, age, busy, view, reported, staged, approved, hurry, job, slots, tests, acts, mishaps>>
      /\ stored' = [stored EXCEPT ![n] = @ \cap {run[n], current[n]}]
      /\ current' = [current EXCEPT ![n] = run[n]] /\ previous' = [previous EXCEPT ![n] = current[n]]
      /\ Trial(n) /\ run[n] \notin faulty
  BY DEF Confirm, process, memory, choice, budget
<1>3. Max({highest[n], run[n]}) \in Versions
  <2>1. {highest[n], run[n]} \in SUBSET (0..MaxVersion) /\ {highest[n], run[n]} # {}
    BY <1>1, ConstantsOK DEF Versions
  <2> QED BY <1>1, <2>1, GreatestVersion
<1>4. Confirmed'
  <2>1. highest' = [highest EXCEPT ![n] = Max({highest[n], run[n]})]
    BY DEF Confirm
  <2> QED BY <1>1, <1>2, <1>3, <2>1 DEF Confirmed
<1>5. Seen' /\ Rest'
  BY <1>1, <1>2 DEF Seen, Rest
<1>6. \A m \in Nodes : /\ current'[m] = IF m = n THEN run[n] ELSE current[m]
                       /\ previous'[m] = IF m = n THEN current[n] ELSE previous[m]
  BY <1>1, <1>2 DEF Confirmed
<1>7. Quarantine'
  BY <1>1, <1>2, <1>6 DEF Quarantine
<1>8. ASSUME NEW m \in Nodes PROVE Orderly(m)'
  <2>1. CASE m = n
    BY <1>1, <1>2, <1>6, <2>1 DEF Orderly, Trial, OnItsWay
  <2>2. CASE m # n
    <3>1. Orderly(m)
      BY DEF NodeInv
    <3> QED BY <1>2, <1>6, <2>2, <3>1 DEF Orderly, Trial, OnItsWay
  <2> QED BY <2>1, <2>2
<1> QED BY <1>4, <1>5, <1>7, <1>8 DEF NodeInv

\* The greatest age is a number, and ages stay below it.
LEMMA MaxAgeIsNat == MaxAge \in Nat \/ Nodes = {}
<1>1. Cardinality(Nodes) \in Nat /\ (Cardinality(Nodes) = 0 => Nodes = {})
  BY ConstantsOK, FS_CardinalityType, FS_EmptySet
<1>2. \A a, b, c \in Nat : c + a * b \in Nat
  OBVIOUS
<1>3. Cardinality(Nodes) # 0 => Cardinality(Nodes) - 1 \in Nat
  BY <1>1
<1> QED BY <1>1, <1>2, <1>3, ConstantsOK DEF MaxAge

LEMMA OlderAge ==
  ASSUME NEW a \in 0..MaxAge, Nodes # {}
  PROVE  Older(a) \in 0..MaxAge /\ Older(a) <= a + 1
BY MaxAgeIsNat DEF Older

\* What a unit of time makes of what n knows of m.
LEMMA TimeKeepsQuarantine ==
  ASSUME NodeInv, NEW lost, TimePasses(lost)
  PROVE  Seen' /\ Quarantine'
<1>1. /\ Confirmed /\ Seen /\ Quarantine
      /\ UNCHANGED <<faulty, run, current, previous, tested>>
  BY DEF NodeInv, TimePasses, state
<1>2. ASSUME NEW m \in Nodes
      PROVE  /\ age[m] \in 0..MaxAge /\ Older(age[m]) \in 0..MaxAge /\ age'[m] = Older(age[m])
             /\ run[m] \in faulty => Older(age[m]) <= TrialTime
  <2>1. age[m] \in 0..MaxAge /\ age'[m] = Older(age[m])
    BY <1>1 DEF TimePasses, Seen
  <2>2. run[m] \in faulty => age[m] < TrialTime
    BY <1>1 DEF TimePasses, Trial, Quarantine
  <2> QED BY <2>1, <2>2, OlderAge, ConstantsOK
<1>3. ASSUME NEW n \in Nodes, NEW m \in Nodes
      PROVE  /\ view'[n][m] \in Views
             /\ view'[n][m].ver \in faulty => view'[n][m].age <= TrialTime + view'[n][m].silent
  <2>1. 0 \notin faulty /\ Nodes # {}
    BY <1>1 DEF Confirmed, Versions
  <2>2. Unknown \in Views /\ Unknown.ver = 0
    BY <2>1, MaxAgeIsNat, ConstantsOK DEF Unknown, Views
  <2>3. view'[n][m] \in {Unknown, Missed(view[n][m]), Heard(m)}
    BY DEF TimePasses
  <2>4. CASE view'[n][m] = Unknown
    BY <2>1, <2>2, <2>4
  <2>5. CASE view'[n][m] = Heard(m)
    <3>1. view'[n][m] = [ver |-> run[m], age |-> Older(age[m]), silent |-> 0]
      BY <2>5 DEF Heard
    <3>2. run[m] \in 0..MaxVersion
      BY <1>1, ConstantsOK DEF Seen, Versions
    <3>3. view'[n][m] \in Views
      BY <1>2, <3>1, <3>2, ConstantsOK DEF Views
    <3> QED BY <1>2, <3>1, <3>3, ConstantsOK
  <2>6. CASE view'[n][m] = Missed(view[n][m]) /\ view'[n][m] # Unknown
    <3> DEFINE old == view[n][m]
    <3>1. old \in Views /\ (old.ver \in faulty => old.age <= TrialTime + old.silent)
      BY <1>1 DEF Seen, Quarantine
    <3> HIDE DEF old
    <3>2. /\ old.silent # Timeout
          /\ view'[n][m] = [old EXCEPT !.age = Older(old.age), !.silent = old.silent + 1]
      BY <2>6 DEF Missed, old
    <3>3. old.age \in 0..MaxAge /\ old.silent \in 0..Timeout /\ old.ver \in 0..MaxVersion
      BY <3>1 DEF Views
    <3>4. Older(old.age) \in 0..MaxAge /\ Older(old.age) <= old.age + 1
      BY <2>1, <3>3, OlderAge
    <3>5. old.silent + 1 \in 0..Timeout
      BY <3>2, <3>3, ConstantsOK
    <3>6. view'[n][m] = [ver |-> old.ver, age |-> Older(old.age), silent |-> old.silent + 1]
      BY <3>1, <3>2 DEF Views
    <3>7. view'[n][m] \in Views
      BY <3>3, <3>4, <3>5, <3>6 DEF Views
    <3> QED BY <3>1, <3>3, <3>4, <3>6, <3>7, MaxAgeIsNat, ConstantsOK
  <2> QED BY <2>3, <2>4, <2>5, <2>6
<1>4. Seen'
  <2>1. age' \in [Nodes -> 0..MaxAge]
    <3>1. age' = [n \in Nodes |-> Older(age[n])]
      BY DEF TimePasses
    <3> QED BY <1>2, <3>1
  <2>2. view' \in [Nodes -> [Nodes -> Views]]
    <3>1. view' = [n \in Nodes |-> [m \in Nodes |-> view'[n][m]]]
      BY DEF TimePasses
    <3> QED BY <1>3, <3>1
  <2> QED BY <1>1, <2>1, <2>2 DEF Seen
<1>5. Quarantine'
  BY <1>1, <1>2, <1>3 DEF Quarantine
<1> QED BY <1>4, <1>5

LEMMA TimeKeepsNodes ==
  ASSUME NodeInv, NEW lost, TimePasses(lost), Mishap \/ UNCHANGED budget
  PROVE  NodeInv'
<1>1. UNCHANGED <<faulty, current, previous, highest, bad, stored, run, busy, reported, staged, approved, hurry, job, slots, tested>>
  BY DEF TimePasses, state, choice
<1>2. Confirmed' /\ Rest'
  <2>1. Confirmed /\ Rest
    BY DEF NodeInv
  <2>2. tests' \in 0..MaxTests /\ acts' \in 0..MaxActs /\ mishaps' \in 0..MaxMishaps
    BY <2>1, BudgetsStay
  <2> QED BY <1>1, <2>1, <2>2 DEF Confirmed, Rest
<1>3. \A n \in Nodes : Orderly(n)'
  BY <1>1 DEF NodeInv, Orderly, Trial, OnItsWay
<1> QED BY <1>2, <1>3, TimeKeepsQuarantine DEF NodeInv

\* Steps that leave alone what ties the nodes together.
LEMMA IdleStepsKeepNodes ==
  ASSUME NodeInv, Rest', NEW n \in Nodes,
         UNCHANGED <<faulty, run, age, view, current, previous, highest, tested>>,
         \A m \in Nodes \ {n} : staged'[m] = staged[m] /\ job'[m] = job[m],
         GoesOn(n)
  PROVE  NodeInv'
<1>1. \A m \in Nodes : GoesOn(m)
  BY DEF GoesOn
<1> QED BY <1>1, GoingOnKeepsNodes

\* The job of n changes, to another one of the same form; reservations with it.
LEMMA JobStepsKeepNodes ==
  ASSUME NodeInv, NEW n \in Nodes, NEW k \in UpdateJobs, job' = [job EXCEPT ![n] = k],
         \/ k.at = "idle" /\ k.from = None
         \/ k.at = "asking" /\ k.from = None /\ ~Trial(n)
         \/ OnItsWay(k) /\ k.from \in Nodes /\ k.ver > run[n] /\ ~Trial(n),
         slots' \in [Nodes -> SUBSET Reservations],
         Mishap \/ UNCHANGED budget,
         UNCHANGED <<faulty, state, process, view, reported, choice, tested>>
  PROVE  NodeInv'
<1>1. /\ UNCHANGED <<faulty, current, previous, highest, bad, stored, run, age, busy, view>>
      /\ UNCHANGED <<reported, staged, approved, hurry, tested>>
  BY DEF state, process, choice
<1>2. Rest'
  <2>1. Rest
    BY DEF NodeInv
  <2>2. tests' \in 0..MaxTests /\ acts' \in 0..MaxActs /\ mishaps' \in 0..MaxMishaps
    BY <2>1, BudgetsStay
  <2>3. job' \in [Nodes -> UpdateJobs]
    BY <2>1 DEF Rest
  <2> QED BY <1>1, <2>1, <2>2, <2>3 DEF Rest
<1>3. job'[n] = k /\ \A m \in Nodes \ {n} : job'[m] = job[m]
  BY DEF NodeInv, Rest
<1>4. GoesOn(n)
  BY <1>1, <1>3 DEF GoesOn
<1> QED BY <1>1, <1>2, <1>3, <1>4, IdleStepsKeepNodes

LEMMA SlotsTaken ==
  ASSUME Rest, NEW m, NEW S, Without(m, S)
  PROVE  slots' \in [Nodes -> SUBSET Reservations]
BY DEF Rest, Without

LEMMA NextSourceKeepsNodes ==
  ASSUME NodeInv, NEW n \in Nodes, NEW m, NextSource(n, m), job[n].at # "idle",
         slots' = slots \/ \E k, S : Without(k, S),
         Mishap \/ UNCHANGED budget,
         UNCHANGED <<faulty, state, process, view, reported, choice, tested>>
  PROVE  NodeInv'
<1> DEFINE k == [job[n] EXCEPT !.at = "asking", !.from = None, !.left = job[n].left \ {m}]
<1>1. Rest /\ job[n] \in UpdateJobs /\ ~Trial(n)
  BY DEF NodeInv, Rest, Orderly
<1>2. k \in UpdateJobs /\ k.at = "asking" /\ k.from = None
  BY <1>1 DEF UpdateJobs
<1>3. job' = [job EXCEPT ![n] = k]
  BY <1>1 DEF NextSource, Rest
<1>4. slots' \in [Nodes -> SUBSET Reservations]
  BY <1>1, SlotsTaken DEF Rest
<1> HIDE DEF k
<1> QED BY <1>1, <1>2, <1>3, <1>4, JobStepsKeepNodes

LEMMA AskKeepsNodes ==
  ASSUME NodeInv, NEW n \in Nodes, NEW m \in Nodes, Ask(n, m)
  PROVE  NodeInv'
<1>1. CASE /\ Acceptable(n, m)
           /\ slots' = [slots EXCEPT ![m] = @ \cup {[to |-> n, ver |-> Best(m), active |-> FALSE]}]
           /\ job' = [job EXCEPT ![n].at = "granted", ![n].from = m, ![n].ver = Best(m)]
           /\ UNCHANGED budget
  <2> DEFINE k == [job[n] EXCEPT !.at = "granted", !.from = m, !.ver = Best(m)]
  <2>1. Rest /\ job[n] \in UpdateJobs /\ ~Trial(n)
    BY DEF NodeInv, Rest, Orderly, Ask
  <2>2. Best(m) \in 0..MaxVersion /\ Best(m) # 0 /\ Best(m) > run[n]
    BY <1>1, <2>1, BestVersion DEF Acceptable
  <2>3. k \in UpdateJobs /\ OnItsWay(k) /\ k.from = m /\ k.ver = Best(m)
    BY <2>1, <2>2 DEF UpdateJobs, OnItsWay
  <2>4. job' = [job EXCEPT ![n] = k]
    BY <1>1, <2>1 DEF Rest
  <2>5. slots' \in [Nodes -> SUBSET Reservations]
    <3>1. [to |-> n, ver |-> Best(m), active |-> FALSE] \in Reservations
      BY <2>2, ConstantsOK DEF Reservations, Versions
    <3> QED BY <1>1, <2>1, <3>1 DEF Rest
  <2>6. UNCHANGED <<faulty, state, process, view, reported, choice, tested>>
    BY DEF Ask
  <2> HIDE DEF k
  <2> QED BY <1>1, <2>1, <2>2, <2>3, <2>4, <2>5, <2>6, JobStepsKeepNodes
<1>2. CASE NextSource(n, m) /\ UNCHANGED slots /\ (Mishap \/ UNCHANGED budget)
  BY <1>2, NextSourceKeepsNodes DEF Ask
<1> QED BY <1>1, <1>2 DEF Ask

LEMMA BeginKeepsNodes ==
  ASSUME NodeInv, NEW n \in Nodes, Begin(n)
  PROVE  NodeInv'
<1> DEFINE m == job[n].from
           mine == {s \in SlotsOf(m, n) : s.ver = job[n].ver /\ Best(m) = s.ver}
<1>1. Rest /\ job[n] \in UpdateJobs /\ job[n].at = "granted" /\ Orderly(n)
  BY DEF NodeInv, Rest, Begin
<1>2. CASE /\ mine # {}
           /\ slots' = [slots EXCEPT ![m] = (@ \ mine) \cup {[s EXCEPT !.active = TRUE] : s \in mine}]
           /\ job' = [job EXCEPT ![n].at = "receiving"]
  <2> DEFINE k == [job[n] EXCEPT !.at = "receiving"]
  <2>1. k \in UpdateJobs /\ OnItsWay(k) /\ k.from = m /\ k.ver = job[n].ver
    BY <1>1 DEF UpdateJobs, OnItsWay
  <2>2. m \in Nodes /\ job[n].ver > run[n] /\ ~Trial(n)
    BY <1>1 DEF Orderly, OnItsWay
  <2>3. job' = [job EXCEPT ![n] = k]
    BY <1>1, <1>2 DEF Rest
  <2>4. slots' \in [Nodes -> SUBSET Reservations]
    <3>1. slots[m] \in SUBSET Reservations /\ mine \subseteq slots[m]
      BY <1>1, <2>2 DEF Rest, SlotsOf
    <3>2. \A s \in mine : [s EXCEPT !.active = TRUE] \in Reservations
      <4> HIDE DEF mine
      <4> QED BY <3>1 DEF Reservations
    <3> HIDE DEF mine
    <3> DEFINE served == (slots[m] \ mine) \cup {[s EXCEPT !.active = TRUE] : s \in mine}
    <3>3. served \in SUBSET Reservations
      BY <3>1, <3>2
    <3>4. slots' = [slots EXCEPT ![m] = served]
      BY <1>2
    <3> HIDE DEF served
    <3> QED BY <1>1, <3>3, <3>4 DEF Rest
  <2>5. UNCHANGED <<faulty, state, process, view, reported, choice, tested, budget>>
    BY DEF Begin
  <2> HIDE DEF k
  <2> QED BY <2>1, <2>2, <2>3, <2>4, <2>5, JobStepsKeepNodes
<1>3. CASE NextSource(n, m) /\ UNCHANGED slots
  BY <1>1, <1>3, NextSourceKeepsNodes DEF Begin
<1> QED BY <1>2, <1>3 DEF Begin

LEMMA RestingJob == Resting \in UpdateJobs /\ Resting.at = "idle" /\ Resting.from = None
BY ConstantsOK DEF Resting, UpdateJobs

LEMMA ReceiveKeepsNodes ==
  ASSUME NodeInv, NEW n \in Nodes, Receive(n)
  PROVE  NodeInv'
<1> DEFINE m == job[n].from
           v == job[n].ver
<1>1. /\ Rest /\ job[n] \in UpdateJobs /\ Orderly(n)
      /\ job[n].at = "receiving" /\ run[n] \in Versions
  BY DEF NodeInv, Rest, Seen, Receive
<1>2. v \in Versions /\ v > run[n] /\ ~Trial(n) /\ staged[n] \in Versions \cup {None}
  BY <1>1, ConstantsOK DEF Orderly, OnItsWay, UpdateJobs, Versions, Rest
<1>3. /\ stored' = [stored EXCEPT ![n] = @ \cup {v}]
      /\ UNCHANGED <<current, previous, highest, bad, tests, acts, mishaps>>
  BY DEF Receive, budget
<1>4. stored' \in [Nodes -> SUBSET Versions]
  BY <1>1, <1>2, <1>3 DEF Rest
<1>5. CASE Goes(n, v, reported[n])
  <2>1. /\ Anew(n, v) /\ NoteHurry(n, v)
        /\ slots' = [slots EXCEPT ![n] = {}, ![m] = @ \ SlotsOf(m, n)]
    BY <1>5 DEF Receive
  <2>2. slots' \in [Nodes -> SUBSET Reservations]
    BY <1>1, <2>1 DEF Rest
  <2>3. \/ tested' = [tested EXCEPT ![n] = @ \cup {v}]
        \/ tested' = tested /\ v \notin faulty
    BY <1>5, <2>1, GoingIsSound
  <2>4. UNCHANGED budget
    BY DEF Receive
  <2> HIDE DEF v
  <2> QED BY <1>2, <1>3, <1>4, <2>1, <2>2, <2>3, <2>4, RestartKeepsNodes
<1>6. CASE ~Goes(n, v, reported[n])
  <2>1. /\ staged' = [staged EXCEPT ![n] = v] /\ job' = [job EXCEPT ![n] = Resting]
        /\ Without(m, SlotsOf(m, n))
        /\ UNCHANGED <<faulty, run, age, busy, view, reported, approved, hurry, tested>>
    BY <1>6 DEF Receive, process
  <2>2. slots' \in [Nodes -> SUBSET Reservations]
    BY <1>1, <2>1, SlotsTaken
  <2>3. Rest'
    <3> HIDE DEF v
    <3> QED BY <1>1, <1>2, <1>3, <1>4, <2>1, <2>2, RestingJob DEF Rest
  <2>4. GoesOn(n) /\ \A k \in Nodes \ {n} : staged'[k] = staged[k] /\ job'[k] = job[k]
    <3> HIDE DEF v
    <3> QED BY <1>1, <1>2, <2>1, RestingJob DEF GoesOn, Rest
  <2> QED BY <1>3, <2>1, <2>3, <2>4, IdleStepsKeepNodes
<1> QED BY <1>5, <1>6

LEMMA BreakKeepsNodes ==
  ASSUME NodeInv, NEW n \in Nodes, Break(n)
  PROVE  NodeInv'
BY NextSourceKeepsNodes DEF Break

LEMMA GiveUpKeepsNodes ==
  ASSUME NodeInv, NEW n \in Nodes, GiveUp(n)
  PROVE  NodeInv'
<1>1. slots' \in [Nodes -> SUBSET Reservations]
  BY DEF GiveUp, NodeInv, Rest
<1> QED BY <1>1, RestingJob, JobStepsKeepNodes DEF GiveUp

LEMMA SlotEndsKeepsNodes ==
  ASSUME NodeInv, NEW n \in Nodes, NEW m \in Nodes, SlotEnds(m, n)
  PROVE  NodeInv'
<1>1. /\ UNCHANGED <<faulty, current, previous, highest, bad, stored, run, age, busy, view>>
      /\ UNCHANGED <<reported, staged, approved, hurry, job, tested, tests, acts, mishaps>>
      /\ Without(m, SlotsOf(m, n))
  BY DEF SlotEnds, state, process, choice, budget
<1>2. Rest'
  BY <1>1, SlotsTaken DEF NodeInv, Rest
<1> QED BY <1>1, <1>2, SameJobsGoOn, GoingOnKeepsNodes

\* Asking the neighbours, and what comes of it short of a restart.
LEMMA PolledType ==
  ASSUME NEW n \in Nodes, NEW silent
  PROVE  Polled(n, silent) \in SUBSET (Nodes \X Versions) /\ Online(n) \in SUBSET Nodes
BY DEF Polled, Online

LEMMA WaitsKeepsNodes ==
  ASSUME NodeInv, NEW n \in Nodes, NEW v \in {staged[n], None}, NEW r \in SUBSET (Nodes \X Versions),
         Waits(n, v, r), Mishap \/ UNCHANGED budget
  PROVE  NodeInv'
<1>1. /\ UNCHANGED <<faulty, current, previous, highest, bad, stored, run, age, busy, view>>
      /\ UNCHANGED <<hurry, job, slots, tested>>
      /\ staged' = [staged EXCEPT ![n] = v] /\ reported' = [reported EXCEPT ![n] = r]
      /\ approved' = [approved EXCEPT ![n] = IF v = None THEN None ELSE @]
  BY DEF Waits, state, process
<1>2. Rest /\ tests' \in 0..MaxTests /\ acts' \in 0..MaxActs /\ mishaps' \in 0..MaxMishaps
  BY BudgetsStay DEF NodeInv
<1>3. Rest'
  BY <1>1, <1>2 DEF Rest
<1>4. GoesOn(n) /\ \A k \in Nodes \ {n} : staged'[k] = staged[k] /\ job'[k] = job[k]
  BY <1>1, <1>2 DEF GoesOn, Rest
<1> QED BY <1>1, <1>3, <1>4, IdleStepsKeepNodes

LEMMA CheckKeepsNodes ==
  ASSUME NodeInv, NEW n \in Nodes, NEW silent, Check(n, silent)
  PROVE  NodeInv'
<1> DEFINE r == Polled(n, silent)
           v == KeptStaged(n, r)
           new == Candidate(n, r)
<1>1. r \in SUBSET (Nodes \X Versions) /\ Online(n) \in SUBSET Nodes /\ v \in {staged[n], None}
  BY PolledType, StagedIsKept
<1>2. ~Trial(n) /\ (Mishap \/ UNCHANGED budget)
  BY DEF Check, Silent
<1>3. CASE StillChosen(n, v, r) /\ Goes(n, v, r) /\ RestartInto(n, v)
  <2> HIDE DEF r
  <2> QED BY <1>2, <1>3, RestartIntoKeepsNodes
<1>4. ASSUME NEW w \in {staged[n], None}, Waits(n, w, r) PROVE NodeInv'
  <2> HIDE DEF r
  <2> QED BY <1>1, <1>2, <1>4, WaitsKeepsNodes
<1>5. CASE /\ staged' = [staged EXCEPT ![n] = None] /\ approved' = [approved EXCEPT ![n] = None]
           /\ reported' = [reported EXCEPT ![n] = r]
           /\ job' = [job EXCEPT ![n] = [at |-> "asking", ver |-> new, from |-> None, left |-> Online(n)]]
           /\ UNCHANGED <<faulty, state, process, view, hurry, slots, tested>>
  <2> DEFINE k == [at |-> "asking", ver |-> new, from |-> None, left |-> Online(n)]
  <2>1. /\ UNCHANGED <<faulty, current, previous, highest, bad, stored, run, age, busy, view>>
        /\ UNCHANGED <<hurry, slots, tested>>
        /\ staged' = [staged EXCEPT ![n] = None] /\ approved' = [approved EXCEPT ![n] = None]
        /\ reported' = [reported EXCEPT ![n] = r] /\ job' = [job EXCEPT ![n] = k]
    BY <1>5 DEF state, process
  <2>2. new \in 0..MaxVersion
    BY CandidateVersion DEF NodeInv
  <2> HIDE DEF new
  <2>3. k \in UpdateJobs /\ k.at = "asking" /\ k.from = None
    BY <1>1, <2>2 DEF UpdateJobs
  <2> HIDE DEF k
  <2>4. Rest /\ tests' \in 0..MaxTests /\ acts' \in 0..MaxActs /\ mishaps' \in 0..MaxMishaps
    BY <1>2, BudgetsStay DEF NodeInv
  <2> HIDE DEF r
  <2>5. Rest'
    BY <1>1, <2>1, <2>3, <2>4 DEF Rest
  <2>6. GoesOn(n) /\ \A h \in Nodes \ {n} : staged'[h] = staged[h] /\ job'[h] = job[h]
    BY <1>2, <2>1, <2>3, <2>4 DEF GoesOn, Rest
  <2> QED BY <2>1, <2>5, <2>6, IdleStepsKeepNodes
<1> QED BY <1>1, <1>3, <1>4, <1>5 DEF Check

LEMMA UserKeepsNodes ==
  ASSUME NodeInv, NEW n \in Nodes, User(n)
  PROVE  NodeInv'
<1>1. CASE RestartNow(n)
  BY <1>1, RestartNowKeepsNodes
<1>2. CASE RollbackNow(n)
  BY <1>2, RollBackKeepsNodes DEF RollbackNow
<1>3. CASE Approve(n) \/ UpdateNow(n) \/ HurryLapses(n) \/ Retry(n) \/ BecomeBusy(n) \/ BecomeFree(n)
  <2>1. /\ UNCHANGED <<faulty, run, age, view, current, previous, highest, stored>>
        /\ UNCHANGED <<reported, staged, job, slots, tested>>
        /\ Act \/ UNCHANGED budget
    BY <1>3 DEF Approve, UpdateNow, HurryLapses, Retry, BecomeBusy, BecomeFree, state, process, memory, choice
  <2>2. Rest /\ tests' \in 0..MaxTests /\ acts' \in 0..MaxActs /\ mishaps' \in 0..MaxMishaps
    BY <2>1, BudgetsStay DEF NodeInv
  <2>3. bad' \in [Nodes -> SUBSET Versions] /\ busy' \in [Nodes -> BOOLEAN]
    <3>1. bad' = bad \/ bad' = [bad EXCEPT ![n] = {}]
      BY <1>3 DEF Approve, UpdateNow, HurryLapses, Retry, BecomeBusy, BecomeFree, state
    <3>2. busy' = busy \/ busy' = [busy EXCEPT ![n] = TRUE] \/ busy' = [busy EXCEPT ![n] = FALSE]
      BY <1>3 DEF Approve, UpdateNow, HurryLapses, Retry, BecomeBusy, BecomeFree, process
    <3> QED BY <2>2, <3>1, <3>2 DEF Rest
  <2>4. approved' \in [Nodes -> Versions \cup {None}] /\ hurry' \in [Nodes -> Versions \cup {None}]
    <3>1. approved' = approved \/ approved' = [approved EXCEPT ![n] = staged[n]]
      BY <1>3 DEF Approve, UpdateNow, HurryLapses, Retry, BecomeBusy, BecomeFree, memory, choice
    <3>2. hurry' = hurry \/ \E v \in Versions \cup {None} : hurry' = [hurry EXCEPT ![n] = v]
      <4>1. job[n].ver # 0 => job[n].ver \in Versions
        BY <2>2, ConstantsOK DEF Rest, UpdateJobs, Versions
      <4>2. Candidate(n, reported[n]) # 0 => Candidate(n, reported[n]) \in Versions
        BY CandidateVersion DEF NodeInv
      <4> QED BY <1>3, <4>1, <4>2
        DEF Approve, UpdateNow, HurryLapses, Retry, BecomeBusy, BecomeFree, memory, choice
    <3> QED BY <2>2, <3>1, <3>2 DEF Rest
  <2>5. Rest'
    BY <2>1, <2>2, <2>3, <2>4 DEF Rest
  <2> QED BY <2>1, <2>5, SameJobsGoOn, GoingOnKeepsNodes
<1> QED BY <1>1, <1>2, <1>3 DEF User

LEMMA StepKeepsNodes ==
  ASSUME NodeInv, [Next]_vars
  PROVE  NodeInv'
<1>1. CASE UNCHANGED vars
  <2>1. /\ UNCHANGED <<faulty, current, previous, highest, bad, stored, run, age, busy, view>>
        /\ UNCHANGED <<reported, staged, approved, hurry, job, slots, tested, tests, acts, mishaps>>
    BY <1>1 DEF vars, state, process, memory, choice, budget
  <2>2. Rest'
    BY <2>1 DEF NodeInv, Rest
  <2> QED BY <2>1, <2>2, SameJobsGoOn, GoingOnKeepsNodes
<1>2. CASE Tick \/ \E m, n \in Nodes : TickWithLoss(m, n)
  BY <1>2, TimeKeepsNodes DEF Tick, TickWithLoss
<1>3. ASSUME NEW n \in Nodes, Launch(n) PROVE NodeInv'
  BY <1>3, TestByHandKeepsNodes, ConfirmKeepsNodes, TrialFailsKeepsNodes, RollBackKeepsNodes,
     RebootKeepsNodes DEF Launch, CrashLoop
<1>4. ASSUME NEW n \in Nodes, Update(n) PROVE NodeInv'
  <2>1. CASE \E silent : Check(n, silent)
    BY <2>1, CheckKeepsNodes
  <2>2. CASE \E silent : PollAside(n, silent)
    <3> PICK silent : PollAside(n, silent)
      BY <2>2
    <3> DEFINE r == Polled(n, silent)
    <3>1. Waits(n, KeptStaged(n, r), r) /\ (Mishap \/ UNCHANGED budget)
      BY DEF PollAside, Silent
    <3>2. r \in SUBSET (Nodes \X Versions)
      BY PolledType
    <3> HIDE DEF r
    <3> QED BY <3>1, <3>2, StagedIsKept, WaitsKeepsNodes
  <2>3. CASE CheckForgets(n)
    <3>1. reported[n] \in SUBSET (Nodes \X Versions)
      BY DEF NodeInv, Rest
    <3> QED BY <2>3, <3>1, WaitsKeepsNodes DEF CheckForgets
  <2> QED BY <1>4, <2>1, <2>2, <2>3 DEF Update
<1>5. ASSUME NEW n \in Nodes, Download(n) PROVE NodeInv'
  BY <1>5, AskKeepsNodes, SlotEndsKeepsNodes, BeginKeepsNodes, ReceiveKeepsNodes, BreakKeepsNodes,
     GiveUpKeepsNodes DEF Download
<1> QED BY <1>1, <1>2, <1>3, <1>4, <1>5, UserKeepsNodes DEF Next

LEMMA NodesStartWell ==
  ASSUME Init
  PROVE  NodeInv
<1>1. 1 \in Versions
  BY ConstantsOK DEF Versions
<1>2. Confirmed
  BY <1>1 DEF Init, Confirmed
<1>3. Seen
  <2>1. Nodes # {} => MaxAge \in 0..MaxAge /\ Unknown \in Views
    BY MaxAgeIsNat, ConstantsOK DEF Unknown, Views
  <2> QED BY <1>1, <2>1 DEF Init, Seen
<1>4. Rest
  BY <1>1, RestingJob, ConstantsOK DEF Init, Rest
<1>5. \A n \in Nodes : Orderly(n)
  BY <1>1, RestingJob, ConstantsOK DEF Init, Orderly, Trial, OnItsWay
<1>6. Quarantine
  <2>1. 0 \notin faulty /\ 1 \notin faulty /\ None \notin faulty
    <3>1. faulty \in SUBSET (Versions \ {1}) /\ None \notin Versions
      BY ConstantsOK DEF Init
    <3>2. 0 \notin Versions
      BY ConstantsOK DEF Versions
    <3> QED BY <3>1, <3>2
  <2>2. \A n \in Nodes : current[n] = 1 /\ previous[n] = None /\ run[n] = 1
    BY DEF Init
  <2>3. \A n, m \in Nodes : view[n][m].ver = 0
    BY DEF Init, Unknown
  <2> QED BY <2>1, <2>2, <2>3 DEF Quarantine
<1> QED BY <1>2, <1>3, <1>4, <1>5, <1>6 DEF NodeInv

-----------------------------------------------------------------------------
(* The theorems. *)

\* The variables keep their types, whatever users do and whatever is lost.
THEOREM NodesTyped == Spec => []TypeOK
<1>1. Init => NodeInv
  BY NodesStartWell
<1>2. NodeInv /\ [Next]_vars => NodeInv'
  BY StepKeepsNodes
<1>3. NodeInv => TypeOK
  BY TypesAreThree DEF NodeInv
<1> QED BY <1>1, <1>2, <1>3, PTL DEF Spec

\* A version that cannot pass its trial runs only where a user has put it (waveSchedule lets a
\* node follow only what a neighbour has run for the canary time, which is longer than a trial
\* and the silence a neighbour is allowed together).
THEOREM FaultyContained == Spec => []FaultyStaysWithItsTester
<1>1. Init => NodeInv
  BY NodesStartWell
<1>2. NodeInv /\ [Next]_vars => NodeInv'
  BY StepKeepsNodes
<1>3. NodeInv => FaultyStaysWithItsTester
  BY DEF NodeInv, Quarantine, FaultyStaysWithItsTester
<1> QED BY <1>1, <1>2, <1>3, PTL DEF Spec

-----------------------------------------------------------------------------
(* A restart that no user has asked for heeds what the neighbours report. *)

LEMMA OthersRunOn ==
  ASSUME NodeInv, NEW k \in Nodes, NEW v, Anew(k, v), NEW n \in Nodes, run'[n] # run[n]
  PROVE  n = k /\ run'[n] = v
BY DEF Anew, NodeInv, Seen

\* There are two ways into a newer version without a user: from the check of a tick, with the
\* reports it has just asked for, and at the end of a download, with those known.
LEMMA WaysIntoNewer ==
  ASSUME NodeInv, [Next]_vars, NEW n \in Nodes, run'[n] > run[n], UNCHANGED budget
  PROVE  \/ /\ run'[n] = KeptStaged(n, Polled(n, {})) /\ run'[n] # None
            /\ Goes(n, run'[n], Polled(n, {}))
         \/ Goes(n, run'[n], reported[n])
<1> DEFINE Way == \/ /\ run'[n] = KeptStaged(n, Polled(n, {})) /\ run'[n] # None
                     /\ Goes(n, run'[n], Polled(n, {}))
                  \/ Goes(n, run'[n], reported[n])
<1>1. run'[n] # run[n] /\ run[n] \in Versions
  BY ConstantsOK DEF NodeInv, Seen, Versions
<1>2. ASSUME UNCHANGED run PROVE FALSE
  BY <1>1, <1>2
<1>3. ~Mishap /\ ~Act
  BY ConstantsOK DEF Mishap, Act, budget, NodeInv, Rest
<1>4. CASE UNCHANGED vars \/ Tick \/ \E m, k \in Nodes : TickWithLoss(m, k)
  BY <1>2, <1>4 DEF vars, process, Tick, TickWithLoss, TimePasses
<1>5. ASSUME NEW k \in Nodes, Launch(k) PROVE FALSE
  <2>1. CASE \E v \in Versions : TestByHand(k, v)
    BY <2>1, ConstantsOK DEF TestByHand, budget, NodeInv, Rest
  <2>2. CASE Confirm(k)
    BY <1>2, <2>2 DEF Confirm, process
  <2>3. CASE TrialFails(k)
    <3>1. n = k /\ run'[n] = current[n]
      BY <1>1, <2>3, OthersRunOn DEF TrialFails, StartsAs
    <3>2. run[n] > current[n] /\ current[n] \in Versions
      BY <2>3, <3>1 DEF TrialFails, NodeInv, Orderly, Confirmed
    <3> QED BY <1>1, <3>1, <3>2, ConstantsOK DEF Versions
  <2> QED BY <1>3, <1>5, <2>1, <2>2, <2>3 DEF Launch, CrashLoop, Reboot
<1>6. ASSUME NEW k \in Nodes, Update(k) PROVE Way
  <2>1. CASE \E silent : PollAside(k, silent)
    BY <1>2, <2>1 DEF PollAside, Waits, process
  <2>2. CASE CheckForgets(k)
    BY <1>2, <2>2 DEF CheckForgets, Waits, process
  <2>3. ASSUME NEW silent, Check(k, silent) PROVE Way
    <3> DEFINE r == Polled(k, silent)
               v == KeptStaged(k, r)
    <3>1. silent = {}
      BY <1>3, <2>3 DEF Check, Silent
    <3>2. StillChosen(k, v, r) /\ Goes(k, v, r) /\ RestartInto(k, v)
      BY <1>2, <2>3 DEF Check, Waits, process
    <3>3. n = k /\ run'[n] = v
      <4> HIDE DEF r
      <4> QED BY <1>1, <3>2, OthersRunOn DEF RestartInto, StartsAs
    <3>4. v # None
      BY <3>2 DEF StillChosen
    <3> QED BY <3>1, <3>2, <3>3, <3>4
  <2> QED BY <1>6, <2>1, <2>2, <2>3 DEF Update
<1>7. ASSUME NEW k \in Nodes, Download(k) PROVE Way
  <2>1. CASE \/ \E m \in Nodes : Ask(k, m) \/ SlotEnds(m, k)
             \/ Begin(k) \/ Break(k) \/ GiveUp(k)
    BY <1>2, <2>1 DEF Ask, SlotEnds, Begin, Break, GiveUp, process
  <2>2. CASE Receive(k)
    <3>1. Goes(k, job[k].ver, reported[k]) /\ Anew(k, job[k].ver)
      BY <1>2, <2>2 DEF Receive, process
    <3>2. n = k /\ run'[n] = job[k].ver
      BY <1>1, <3>1, OthersRunOn
    <3> QED BY <3>1, <3>2
  <2> QED BY <1>7, <2>1, <2>2 DEF Download
<1>8. ASSUME NEW k \in Nodes, User(k) PROVE FALSE
  BY <1>2, <1>3, <1>8
    DEF User, Approve, RestartNow, UpdateNow, HurryLapses, RollbackNow, Retry, BecomeBusy, BecomeFree, memory, process
<1> QED BY <1>4, <1>5, <1>6, <1>7, <1>8 DEF Next

\* How many accuse a version: the reports of it are finitely many.
LEMMA AccusersCount ==
  ASSUME NEW r \in SUBSET (Nodes \X Versions), NEW v
  PROVE  /\ Accusers(r, v) \in Nat
         /\ (\E x \in r : x[2] = v) => Accusers(r, v) >= 1
         /\ \A x : {y \in r : y[2] = v} = {x} => Accusers(r, v) = 1
<1> DEFINE S == {y \in r : y[2] = v}
<1>1. IsFiniteSet(Nodes \X Versions)
  <2>1. IsFiniteSet(Versions)
    BY FS_Interval, ConstantsOK DEF Versions
  <2> QED BY <2>1, FS_Product, ConstantsOK
<1>2. S \in SUBSET (Nodes \X Versions) /\ Accusers(r, v) = Cardinality(S)
  BY DEF Accusers
<1>3. (\E x \in r : x[2] = v) => S # {}
  OBVIOUS
<1> HIDE DEF S
<1>4. IsFiniteSet(S)
  BY <1>1, <1>2, FS_Subset
<1>5. Cardinality(S) \in Nat /\ (Cardinality(S) = 0 => S = {})
  BY <1>4, FS_CardinalityType, FS_EmptySet
<1>6. \A x : S = {x} => Cardinality(S) = 1
  BY <1>4, FS_Singleton
<1>7. Accusers(r, v) \in Nat /\ ((\E x \in r : x[2] = v) => Accusers(r, v) >= 1)
  BY <1>2, <1>3, <1>5
<1>8. \A x : S = {x} => Accusers(r, v) = 1
  BY <1>2, <1>6
<1> QED BY <1>7, <1>8 DEF S

\* A node that one neighbour has told that a version is bad there does not restart into it
\* without its user (_evaluateRestart, _reactToReports), as long as the neighbours answer.
THEOREM ReportsHeeded == Spec => HeedsReports
<1>1. Init => NodeInv
  BY NodesStartWell
<1>2. NodeInv /\ [Next]_vars => NodeInv'
  BY StepKeepsNodes
<1> DEFINE Heeded == \A n \in Nodes : IntoOnItsOwn(n) /\ mishaps' = mishaps =>
                       ~(ToldBad(n, run'[n]) /\ \E m \in Nodes : OnlyTeller(n, m, run'[n]))
<1>3. NodeInv /\ [Next]_vars => [Heeded]_vars
  <2> SUFFICES ASSUME NodeInv, [Next]_vars, NEW n \in Nodes,
                      IntoOnItsOwn(n), mishaps' = mishaps, ToldBad(n, run'[n]),
                      NEW m \in Nodes, OnlyTeller(n, m, run'[n])
               PROVE  FALSE
    OBVIOUS
  <2> DEFINE v == run'[n]
             r == Polled(n, {})
  <2>1. v > run[n] /\ hurry[n] # v /\ UNCHANGED budget
    BY DEF IntoOnItsOwn, budget
  <2>2. approved[n] # v /\ m \in Online(n) /\ {x \in reported[n] : x[2] = v} = {<<m, v>>}
    BY DEF ToldBad, OnlyTeller
  <2>3. v \in bad[m] /\ v \in Versions
    <3>1. PICK k \in Nodes : <<k, v>> \in reported[n] /\ v \in bad[k]
      BY DEF ToldBad
    <3>2. <<k, v>> \in {x \in reported[n] : x[2] = v}
      BY <3>1
    <3>3. k = m
      BY <2>2, <3>2
    <3>4. bad[m] \in SUBSET Versions
      BY DEF NodeInv, Rest
    <3> QED BY <3>1, <3>3, <3>4
  <2>4. reported[n] \in SUBSET (Nodes \X Versions) /\ r \in SUBSET (Nodes \X Versions)
    BY PolledType DEF NodeInv, Rest
  <2>5. Accusers(reported[n], v) = 1
    <3> HIDE DEF v
    <3> QED BY <2>2, <2>4, AccusersCount
  <2>6. ~Goes(n, v, reported[n])
    BY <2>1, <2>2, <2>5 DEF Goes, Allowed
  <2>7. v = KeptStaged(n, r) /\ v # None /\ Goes(n, v, r)
    BY <2>1, <2>6, WaysIntoNewer
  <2>8. <<m, v>> \in r
    BY <2>2, <2>3 DEF Polled
  <2>9. Accusers(r, v) \in Nat /\ Accusers(r, v) >= 1
    <3>1. \E x \in r : x[2] = v
      BY <2>8
    <3> HIDE DEF v, r
    <3> QED BY <2>4, <3>1, AccusersCount
  <2>10. Accusers(r, v) # 1
    BY <2>1, <2>2, <2>7 DEF Goes, Allowed
  <2>11. Accusers(r, v) >= 2
    <3> HIDE DEF v, r
    <3> QED BY <2>9, <2>10
  <2>12. r # reported[n]
    <3> HIDE DEF v, r
    <3> QED BY <2>5, <2>10
  <2> HIDE DEF v, r
  <2> QED BY <2>7, <2>11, <2>12 DEF KeptStaged
<1>4. NodeInv /\ [Next]_vars => [\A n \in Nodes : IntoOnItsOwn(n) /\ mishaps' = mishaps =>
                       ~(ToldBad(n, run'[n]) /\ \E m \in Nodes : OnlyTeller(n, m, run'[n]))]_vars
  BY <1>3
<1> QED BY <1>1, <1>2, <1>4, PTL DEF Spec, HeedsReports
=============================================================================
