---------------------------- MODULE Library_proofs ----------------------------
(* Proofs about RateWindow, for every burst, window, inbox and arrival order,   *)
(* and about MCLibrary: a behaviour of the composition is a behaviour of each   *)
(* of its parts, so that what is proved of a part holds in it.                  *)
EXTENDS MCLibrary, Hub_proofs, Serving_proofs, NirPlan_proofs,
        Integers, FiniteSetTheorems, SequenceTheorems, TLAPS

(***************************************************************************)
(* The deque is the end of what was ever queued, in the order of arrival,  *)
(* and what it no longer holds is older than the window.                   *)
(***************************************************************************)
EndOf(w) ==
  /\ w \in Seq(0..clock) /\ Len(w) <= Len(taken)
  /\ \A i \in 1..Len(w) : w[i] = taken[Len(taken) - Len(w) + i]
  /\ \A i \in 1..(Len(taken) - Len(w)) : clock - taken[i] > RateWindowSeconds

InOrder == \A i, j \in 1..Len(taken) : i <= j => taken[i] <= taken[j]

RateInv == RateTypeOK /\ EndOf(arrivals) /\ InOrder /\ BurstBound
-----------------------------------------------------------------------------
\* A set of positions that has with each one all that come before it is as long
\* as it has members.
LEMMA Prefixes ==
  ASSUME NEW n \in Nat, NEW E \in SUBSET (1..n),
         \A i \in E : \A j \in 1..i : j \in E
  PROVE  Cardinality(E) \in 0..n /\ E = 1..Cardinality(E)
<1>1. IsFiniteSet(1..n) /\ Cardinality(1..n) = n
  BY FS_Interval
<1>2. IsFiniteSet(E) /\ Cardinality(E) \in Nat /\ Cardinality(E) <= n
  BY <1>1, FS_Subset, FS_CardinalityType
<1> DEFINE c == Cardinality(E)
<1>3. ASSUME NEW i \in E PROVE i <= c
  <2>1. 1..i \subseteq E /\ i \in Nat
    OBVIOUS
  <2>2. Cardinality(1..i) = i
    BY <2>1, FS_Interval
  <2>3. Cardinality(1..i) <= c
    BY <1>2, <2>1, FS_Subset
  <2>4. QED
    BY <2>2, <2>3
<1> HIDE DEF c
<1>4. E \subseteq 1..c /\ c \in Nat
  BY <1>2, <1>3 DEF c
<1>5. IsFiniteSet(1..c) /\ Cardinality(1..c) = c
  BY <1>4, FS_Interval
<1>6. E = 1..c
  BY <1>4, <1>5, FS_Subset DEF c
<1>7. QED
  BY <1>2, <1>6 DEF c

\* What offer() keeps of the deque is the end of what was queued, within the
\* window.
LEMMA WindowIsEnd == ASSUME RateInv PROVE EndOf(InWindow)
<1>1. /\ clock \in Nat /\ arrivals \in Seq(0..clock) /\ taken \in Seq(0..clock)
      /\ Len(arrivals) \in Nat /\ Len(taken) \in Nat /\ RateWindowSeconds \in Nat
      /\ DOMAIN arrivals = 1..Len(arrivals)
  BY RateAssumption DEF RateInv, RateTypeOK
<1>2. /\ Len(arrivals) <= Len(taken)
      /\ \A i \in 1..Len(arrivals) : arrivals[i] = taken[Len(taken) - Len(arrivals) + i]
      /\ \A i \in 1..(Len(taken) - Len(arrivals)) : clock - taken[i] > RateWindowSeconds
  BY DEF RateInv, EndOf
<1> DEFINE c == Cardinality(Expired)
<1>3. c \in 0..Len(arrivals) /\ Expired = 1..c
  <2>1. Expired \in SUBSET (1..Len(arrivals))
    BY <1>1 DEF Expired
  <2>2. ASSUME NEW i \in Expired, NEW j \in 1..i PROVE j \in Expired
    <3>1. i \in 1..Len(arrivals) /\ j \in 1..Len(arrivals) /\ j <= i
      BY <2>1
    <3>2. /\ Len(taken) - Len(arrivals) + i \in 1..Len(taken)
          /\ Len(taken) - Len(arrivals) + j \in 1..Len(taken)
      BY <1>1, <1>2, <3>1
    <3>3. arrivals[j] <= arrivals[i]
      <4> DEFINE d == Len(taken) - Len(arrivals)
      <4>1. d + j <= d + i /\ d + j \in 1..Len(taken) /\ d + i \in 1..Len(taken)
        BY <1>1, <3>1, <3>2
      <4>2. taken[d + j] <= taken[d + i]
        BY <4>1 DEF RateInv, InOrder
      <4>3. arrivals[i] = taken[d + i] /\ arrivals[j] = taken[d + j]
        BY <1>2, <3>1
      <4>4. QED
        BY <4>2, <4>3
    <3>4. arrivals[i] \in 0..clock /\ arrivals[j] \in 0..clock
      BY <1>1, <3>1
    <3>5. QED
      BY <1>1, <3>1, <3>3, <3>4 DEF Expired
  <2>3. QED
    BY <1>1, <2>1, <2>2, Prefixes
<1> DEFINE w == SubSeq(arrivals, c + 1, Len(arrivals))
<1> HIDE DEF c
<1>4. /\ w \in Seq(0..clock) /\ Len(w) = Len(arrivals) - c
      /\ \A i \in 1..Len(w) : w[i] = arrivals[c + i]
  <2>1. /\ c + 1 \in Int /\ Len(arrivals) \in Int
        /\ \A i \in (c + 1)..Len(arrivals) : arrivals[i] \in 0..clock
    BY <1>1, <1>3
  <2>2. /\ w \in Seq(0..clock)
        /\ Len(w) = IF c + 1 <= Len(arrivals) THEN Len(arrivals) - (c + 1) + 1 ELSE 0
        /\ \A i \in 1..(Len(arrivals) - (c + 1) + 1) : w[i] = arrivals[(c + 1) + i - 1]
    BY <2>1, SubSeqProperties
  <2> HIDE DEF w
  <2>3. Len(w) = Len(arrivals) - c /\ Len(arrivals) - (c + 1) + 1 = Len(arrivals) - c
    <3>1. c \in Int /\ 0 <= c /\ c <= Len(arrivals) /\ Len(arrivals) \in Int
      BY <1>1, <1>3
    <3>2. CASE c + 1 <= Len(arrivals)
      BY <2>2, <3>1, <3>2
    <3>3. CASE ~(c + 1 <= Len(arrivals))
      <4>1. c = Len(arrivals)
        BY <3>1, <3>3
      <4>2. Len(w) = 0
        BY <2>2, <3>3
      <4>3. QED
        BY <3>1, <4>1, <4>2
    <3>4. QED
      BY <3>2, <3>3
  <2>4. ASSUME NEW i \in 1..Len(w) PROVE w[i] = arrivals[c + i]
    <3>1. i \in 1..(Len(arrivals) - (c + 1) + 1)
      BY <2>3
    <3>2. (c + 1) + i - 1 = c + i
      BY <1>3
    <3>3. QED
      BY <2>2, <3>1, <3>2
  <2>5. QED
    BY <2>2, <2>3, <2>4
<1> HIDE DEF w
<1>5. ASSUME NEW i \in 1..Len(w)
      PROVE  w[i] = taken[Len(taken) - Len(w) + i]
  <2>1. c + i \in 1..Len(arrivals) /\ w[i] = arrivals[c + i]
    BY <1>1, <1>3, <1>4
  <2>2. arrivals[c + i] = taken[Len(taken) - Len(arrivals) + (c + i)]
    BY <1>2, <2>1
  <2>3. Len(taken) - Len(arrivals) + (c + i) = Len(taken) - Len(w) + i
    BY <1>1, <1>3, <1>4
  <2>4. QED
    BY <2>1, <2>2, <2>3
<1>6. ASSUME NEW i \in 1..(Len(taken) - Len(w))
      PROVE  clock - taken[i] > RateWindowSeconds
  <2>1. CASE i <= Len(taken) - Len(arrivals)
    BY <1>1, <1>2, <1>3, <2>1
  <2>2. CASE i > Len(taken) - Len(arrivals)
    <3> DEFINE k == i - (Len(taken) - Len(arrivals))
    <3>1. k \in 1..c /\ k \in 1..Len(arrivals) /\ Len(taken) - Len(arrivals) + k = i
      <4>1. /\ c \in Int /\ 0 <= c /\ c <= Len(arrivals)
            /\ Len(arrivals) \in Int /\ Len(taken) \in Int /\ Len(arrivals) <= Len(taken)
            /\ Len(w) = Len(arrivals) - c
        BY <1>1, <1>2, <1>3, <1>4
      <4>2. i \in Int /\ i <= Len(taken) - (Len(arrivals) - c)
        BY <4>1
      <4>3. QED
        BY <2>2, <4>1, <4>2
    <3> HIDE DEF k
    <3>2. k \in Expired /\ arrivals[k] = taken[i]
      <4>1. arrivals[k] = taken[Len(taken) - Len(arrivals) + k]
        BY <1>2, <3>1
      <4>2. QED
        BY <1>3, <3>1, <4>1
    <3>3. QED
      BY <3>2 DEF Expired
  <2>3. QED
    BY <1>1, <1>3, <1>4, <2>1, <2>2
<1>7. w = InWindow
  BY DEF w, c, InWindow
<1>8. EndOf(w)
  BY <1>1, <1>2, <1>3, <1>4, <1>5, <1>6 DEF EndOf
<1>9. QED
  BY <1>7, <1>8
-----------------------------------------------------------------------------
LEMMA RateInvInit == RateInit => RateInv
  BY RateAssumption DEF RateInit, RateInv, RateTypeOK, EndOf, InOrder, BurstBound

\* A refused message only drops what has left the window.
LEMMA RefusedKeepsInv ==
  ASSUME RateInv, arrivals' = InWindow, UNCHANGED <<clock, inbox, taken>>
  PROVE  RateInv'
<1>1. EndOf(InWindow)
  BY WindowIsEnd
<1>2. EndOf(arrivals)'
  BY <1>1 DEF EndOf
<1>3. QED
  BY <1>1, <1>2 DEF RateInv, RateTypeOK, EndOf, InOrder, BurstBound

\* A queued message is more than the window after the one RateBurst before it:
\* the deque no longer holds that one.
LEMMA QueuedKeepsInv == ASSUME RateInv, Queued PROVE RateInv'
<1> DEFINE w == InWindow
<1>1. EndOf(w)
  BY WindowIsEnd
<1> HIDE DEF w
<1>2. /\ Len(w) < RateBurst /\ inbox' = inbox + 1 /\ inbox < InboxMaxsize /\ clock' = clock
      /\ arrivals' = Append(w, clock) /\ taken' = Append(taken, clock)
  BY DEF Queued, w
<1>3. /\ clock \in Nat /\ clock \in 0..clock /\ taken \in Seq(0..clock) /\ Len(taken) \in Nat
      /\ w \in Seq(0..clock) /\ Len(w) \in Nat /\ Len(w) <= Len(taken)
      /\ RateBurst \in Nat /\ RateWindowSeconds \in Nat
      /\ \A i \in 1..Len(taken) : taken[i] \in 0..clock
  BY <1>1, RateAssumption DEF RateInv, RateTypeOK, EndOf
<1>4. /\ arrivals' \in Seq(0..clock) /\ Len(arrivals') = Len(w) + 1
      /\ arrivals'[Len(w) + 1] = clock
      /\ \A i \in 1..Len(w) : arrivals'[i] = w[i]
  BY <1>2, <1>3
<1>5. /\ taken' \in Seq(0..clock) /\ Len(taken') = Len(taken) + 1
      /\ taken'[Len(taken) + 1] = clock
      /\ \A i \in 1..Len(taken) : taken'[i] = taken[i]
      /\ DOMAIN taken' = 1..(Len(taken) + 1) /\ DOMAIN taken = 1..Len(taken)
  BY <1>2, <1>3
<1>6. RateTypeOK'
  BY <1>2, <1>4, <1>5, RateAssumption DEF RateInv, RateTypeOK
<1>7. EndOf(arrivals)'
  <2>1. \A i \in 1..Len(arrivals') :
          arrivals'[i] = taken'[Len(taken') - Len(arrivals') + i]
    <3> SUFFICES ASSUME NEW i \in 1..Len(arrivals')
                 PROVE  arrivals'[i] = taken'[Len(taken') - Len(arrivals') + i]
      OBVIOUS
    <3>1. CASE i = Len(w) + 1
      BY <1>3, <1>4, <1>5, <3>1
    <3>2. CASE i \in 1..Len(w)
      <4>1. w[i] = taken[Len(taken) - Len(w) + i]
        BY <1>1, <3>2 DEF EndOf
      <4>2. Len(taken) - Len(w) + i \in 1..Len(taken)
        BY <1>3, <3>2
      <4>3. Len(taken') - Len(arrivals') + i = Len(taken) - Len(w) + i
        BY <1>3, <1>4, <1>5, <3>2
      <4>4. QED
        BY <1>4, <1>5, <3>2, <4>1, <4>2, <4>3
    <3>3. QED
      BY <1>3, <1>4, <3>1, <3>2
  <2>2. \A i \in 1..(Len(taken') - Len(arrivals')) : clock - taken'[i] > RateWindowSeconds
    <3>1. Len(taken') - Len(arrivals') = Len(taken) - Len(w)
      BY <1>3, <1>4, <1>5
    <3>2. ASSUME NEW i \in 1..(Len(taken) - Len(w))
          PROVE  clock - taken'[i] > RateWindowSeconds
      <4>1. i \in 1..Len(taken) /\ clock - taken[i] > RateWindowSeconds
        BY <1>1, <1>3 DEF EndOf
      <4>2. QED
        BY <1>5, <4>1
    <3>3. QED
      BY <3>1, <3>2
  <2>3. Len(arrivals') <= Len(taken')
    BY <1>3, <1>4, <1>5
  <2>4. arrivals' \in Seq(0..clock')
    BY <1>2, <1>4
  <2>5. QED
    BY <1>2, <2>1, <2>2, <2>3, <2>4 DEF EndOf
<1>8. InOrder'
  <2> SUFFICES ASSUME NEW i \in 1..(Len(taken) + 1), NEW j \in 1..(Len(taken) + 1), i <= j
               PROVE  taken'[i] <= taken'[j]
    BY <1>5 DEF InOrder
  <2>1. CASE j <= Len(taken)
    <3>1. i \in 1..Len(taken) /\ j \in 1..Len(taken)
      BY <1>3, <2>1
    <3>2. taken[i] <= taken[j]
      BY <3>1 DEF RateInv, InOrder
    <3>3. QED
      BY <1>5, <3>1, <3>2
  <2>2. CASE j = Len(taken) + 1 /\ i \in 1..Len(taken)
    BY <1>3, <1>5, <2>2
  <2>3. CASE j = Len(taken) + 1 /\ i = Len(taken) + 1
    BY <1>3, <1>5, <2>3
  <2>4. QED
    BY <1>3, <2>1, <2>2, <2>3
<1>9. BurstBound'
  <2> SUFFICES ASSUME NEW i \in DOMAIN taken', NEW j \in DOMAIN taken', j - i >= RateBurst
               PROVE  taken'[j] - taken'[i] > RateWindowSeconds
    BY DEF BurstBound
  <2>1. CASE j <= Len(taken)
    <3>1. i \in 1..Len(taken) /\ j \in 1..Len(taken)
      BY <1>3, <1>5, <2>1
    <3>2. taken[j] - taken[i] > RateWindowSeconds
      BY <1>5, <3>1 DEF RateInv, BurstBound
    <3>3. QED
      BY <1>5, <3>1, <3>2
  <2>2. CASE j = Len(taken) + 1
    <3>1. i \in 1..(Len(taken) - Len(w))
      BY <1>2, <1>3, <1>5, <2>2
    <3>2. clock - taken[i] > RateWindowSeconds
      BY <1>1, <3>1 DEF EndOf
    <3>3. taken'[i] = taken[i] /\ taken'[j] = clock
      BY <1>3, <1>5, <2>2, <3>1
    <3>4. QED
      BY <3>2, <3>3
  <2>3. QED
    BY <1>3, <1>5, <2>1, <2>2
<1>10. QED
  BY <1>6, <1>7, <1>8, <1>9 DEF RateInv

\* Time passes: what is older than the window stays so.
LEMMA TickKeepsInv == ASSUME RateInv, Tick PROVE RateInv'
<1>1. /\ clock \in Nat /\ clock' = clock + 1 /\ UNCHANGED <<arrivals, inbox, taken>>
      /\ Len(taken) \in Nat /\ Len(arrivals) \in Nat /\ RateWindowSeconds \in Nat
      /\ arrivals \in Seq(0..clock) /\ taken \in Seq(0..clock)
      /\ \A i \in 1..Len(taken) : taken[i] \in 0..clock
  BY RateAssumption DEF Tick, RateInv, RateTypeOK
<1>2. arrivals \in Seq(0..(clock + 1)) /\ taken \in Seq(0..(clock + 1))
  BY <1>1
<1>3. EndOf(arrivals)'
  BY <1>1, <1>2 DEF RateInv, EndOf
<1>4. RateTypeOK' /\ InOrder' /\ BurstBound'
  BY <1>1, <1>2 DEF RateInv, RateTypeOK, InOrder, BurstBound
<1>5. QED
  BY <1>3, <1>4 DEF RateInv

LEMMA RateInvNext == RateInv /\ [RateNext]_rateVars => RateInv'
<1> SUFFICES ASSUME RateInv, [RateNext]_rateVars PROVE RateInv'
  OBVIOUS
<1>1. CASE Limited
  BY <1>1, RefusedKeepsInv DEF Limited
<1>2. CASE Full
  BY <1>2, RefusedKeepsInv DEF Full
<1>3. CASE Queued
  BY <1>3, QueuedKeepsInv
<1>4. CASE Dispatched
  BY <1>4, RateAssumption DEF Dispatched, RateInv, RateTypeOK, EndOf, InOrder, BurstBound
<1>5. CASE Tick
  BY <1>5, TickKeepsInv
<1>6. CASE UNCHANGED rateVars
  BY <1>6 DEF rateVars, RateInv, RateTypeOK, EndOf, InOrder, BurstBound
<1>7. QED
  BY <1>1, <1>2, <1>3, <1>4, <1>5, <1>6 DEF RateNext

\* The invariant holds for every client.
LEMMA RateInvHolds == RateSpec => []RateInv
  BY RateInvInit, RateInvNext, PTL DEF RateSpec
-----------------------------------------------------------------------------
\* The inbox never exceeds its size, and arrival times lie in the past.
THEOREM RateTypesHold == RateSpec => []RateTypeOK
<1>1. RateInv => RateTypeOK
  BY DEF RateInv
<1>2. QED
  BY <1>1, RateInvHolds, PTL

\* However messages, refusals and the dispatcher interleave, of RateBurst + 1
\* queued messages the last arrived more than the window after the first.
THEOREM BurstHolds == RateSpec => []BurstBound
<1>1. RateInv => BurstBound
  BY DEF RateInv
<1>2. QED
  BY <1>1, RateInvHolds, PTL
-----------------------------------------------------------------------------
(***************************************************************************)
(* The composition.                                                        *)
(***************************************************************************)
\* No document and no topology are ones the two parts may start from.
LEMMA NothingStarts == (NoDocument => GraphInit) /\ (NoTopology => NirInit)
<1>1. ASSUME NEW S, NEW k \in Nat PROVE <<>> \in Lists(S, k)
  <2>1. <<>> \in [1..0 -> S]
    OBVIOUS
  <2>2. 0 \in 0..k
    OBVIOUS
  <2>3. QED
    BY <2>1, <2>2 DEF Lists
<1>2. NoDocument => GraphInit
  BY <1>1, GraphAssumption DEF NoDocument, GraphInit
<1>3. {} \in {E \in SUBSET NirEdge(Stages) : Cardinality(E) <= MaxLinks}
  BY NirAssumption, FS_EmptySet
<1>4. NoTopology => NirInit
  BY <1>3, NirAssumption DEF NoTopology, NirInit
<1>5. QED
  BY <1>2, <1>4

\* While one part runs the others rest: the composition implements each part.
THEOREM PartsHold ==
  Spec => HubSpec /\ RegistrySpec /\ ServingSpec /\ GraphSpec /\ NirSpec /\ RateSpec
<1>1. Init => HubInit /\ RegistryInit /\ ServingInit /\ GraphInit /\ NirInit /\ RateInit
  BY NothingStarts DEF Init
<1>2. [Next]_vars => [HubNext]_hubVars
  BY DEF Next, vars
<1>3. [Next]_vars => [RegistryNext]_registryVars
  BY DEF Next, vars
<1>4. [Next]_vars => [ServingNext]_servingVars
  BY DEF Next, vars
<1>5. [Next]_vars => [GraphNext]_graphVars
  BY DEF Next, vars
<1>6. [Next]_vars => [NirNext]_nirVars
  BY DEF Next, vars
<1>7. [Next]_vars => [RateNext]_rateVars
  BY DEF Next, vars
<1>8. QED
  BY <1>1, <1>2, <1>3, <1>4, <1>5, <1>6, <1>7, PTL
     DEF Spec, HubSpec, RegistrySpec, ServingSpec, GraphSpec, NirSpec, RateSpec

\* TypeOK: in the composition every part's state keeps its types.
THEOREM TypesHold == Spec => []TypeOK
<1>1. /\ HubTypeOK /\ RegistryTypeOK /\ ServingTypeOK
      /\ GraphTypeOK /\ NirTypeOK /\ RateTypeOK
      => TypeOK
  BY DEF TypeOK
<1>2. QED
  BY <1>1, PartsHold, HubTypes, RegistryTypes, ServingTypesHold, GraphTypesHold,
     NirTypesHold, RateTypesHold, PTL
=============================================================================
