-------------------------- MODULE BmcScan_proofs ---------------------------
(***************************************************************************)
(* The scans of the best-master algorithm end with a dataset no other one  *)
(* beats, for every set of datasets that is consistent.  The comparison is *)
(* first shown to be a strict order: each comparison chain is replaced by  *)
(* the order it decides (NearerDs, AttrBefore), of which transitivity is   *)
(* plain arithmetic.                                                       *)
(***************************************************************************)
EXTENDS BmcScan, SequenceTheorems, TLAPS

(* d is topologically nearer than e.                                       *)
SenderBefore(d, e) ==
    \/ d.sender.clockIdentity < e.sender.clockIdentity
    \/ /\ d.sender.clockIdentity = e.sender.clockIdentity
       /\ \/ Octets(d.sender.portNumber) < Octets(e.sender.portNumber)
          \/ /\ Octets(d.sender.portNumber) = Octets(e.sender.portNumber)
             /\ d.receiver.portNumber < e.receiver.portNumber

NearerDs(d, e) ==
    \/ d.stepsRemoved < e.stepsRemoved
    \/ d.stepsRemoved = e.stepsRemoved /\ SenderBefore(d, e)

QualityEqual(d, e) ==
    /\ d.clockClass = e.clockClass
    /\ d.clockAccuracy = e.clockAccuracy
    /\ d.offsetScaledLogVariance = e.offsetScaledLogVariance

QualityBefore(d, e) ==
    \/ d.clockClass < e.clockClass
    \/ /\ d.clockClass = e.clockClass
       /\ \/ d.clockAccuracy < e.clockAccuracy
          \/ /\ d.clockAccuracy = e.clockAccuracy
             /\ d.offsetScaledLogVariance < e.offsetScaledLogVariance

(* A dataset of the network: what _portIgnore lets through.                *)
Foreign(d) == d.sender.clockIdentity # d.receiver.clockIdentity

(* A port number or a number of steps is a natural number.                 *)
LEMMA UInt16Nat == \A n \in UInt16 : n \in Nat
  BY SMT DEF UInt16

(* What memcmp orders of a port number is a number.                        *)
LEMMA OctetsInt == \A n \in UInt16 : Octets(n) \in Int
  BY UInt16Nat, BmcConfig, SMT DEF Octets

(* The numbers of a dataset that the comparisons read.                     *)
LEMMA DataSetFields ==
  ASSUME NEW d \in DataSet
  PROVE  /\ d.identity \in Nat /\ d.priority1 \in Nat /\ d.clockClass \in Nat
         /\ d.clockAccuracy \in Nat /\ d.offsetScaledLogVariance \in Nat
         /\ d.priority2 \in Nat /\ d.localPriority \in Nat
         /\ d.stepsRemoved \in Nat
         /\ d.sender.clockIdentity \in Nat
         /\ d.receiver.clockIdentity \in Nat
         /\ Octets(d.sender.portNumber) \in Int
         /\ Octets(d.receiver.portNumber) \in Int
         /\ d.receiver.portNumber \in Nat
<1>1. /\ d.stepsRemoved \in UInt16
      /\ d.sender \in PortIdentity /\ d.receiver \in PortIdentity
  BY DEF DataSet
<1>2. /\ d.identity \in Nat /\ d.priority1 \in Nat /\ d.clockClass \in Nat
      /\ d.clockAccuracy \in Nat /\ d.offsetScaledLogVariance \in Nat
      /\ d.priority2 \in Nat /\ d.localPriority \in Nat
  BY DEF DataSet
<1>3. /\ d.sender.clockIdentity \in Nat /\ d.sender.portNumber \in UInt16
      /\ d.receiver.clockIdentity \in Nat /\ d.receiver.portNumber \in UInt16
  BY <1>1 DEF PortIdentity
<1> QED BY <1>1, <1>2, <1>3, UInt16Nat, OctetsInt

(* dscmp2 says "a" exactly when a is nearer: "error-1" needs a port that   *)
(* hears itself, and the one-step cases only add how sure the verdict is.  *)
LEMMA Dscmp2Sign ==
  ASSUME NEW a \in DataSet, NEW b \in DataSet, Foreign(a), Foreign(b)
  PROVE  dscmp2(a, b) > 0 <=> NearerDs(a, b)
<1> DEFINE oa == Octets(a.sender.portNumber)
           ob == Octets(b.sender.portNumber)
<1>2. /\ a.stepsRemoved \in Nat /\ b.stepsRemoved \in Nat
      /\ a.sender.clockIdentity \in Nat /\ b.sender.clockIdentity \in Nat
      /\ a.receiver.clockIdentity \in Nat /\ b.receiver.clockIdentity \in Nat
      /\ a.receiver.portNumber \in Nat /\ b.receiver.portNumber \in Nat
      /\ oa \in Int /\ ob \in Int
      /\ Octets(a.receiver.portNumber) \in Int
      /\ Octets(b.receiver.portNumber) \in Int
  BY DataSetFields
<1>3. OneStepNearer(a) \in {1, 2} /\ OneStepNearer(b) \in {1, 2}
  <2>1. ASSUME NEW d \in DataSet, Foreign(d)
        PROVE  OneStepNearer(d) \in {1, 2}
    <3>1. Smaller(d.receiver.clockIdentity, d.sender.clockIdentity)
            \in {A_BETTER, B_BETTER}
      BY <2>1, DataSetFields DEF Smaller, Foreign
    <3>2. PidCompare(d.receiver, d.sender) \in {A_BETTER, B_BETTER}
      BY <3>1 DEF PidCompare, Else, A_BETTER, B_BETTER
    <3> QED
      BY <3>2 DEF OneStepNearer, A_BETTER, B_BETTER, A_BETTER_TOPO
  <2> QED BY <2>1
<1>4. CASE a.stepsRemoved # b.stepsRemoved
  BY <1>2, <1>3, <1>4 DEF dscmp2, NearerDs, A_BETTER, B_BETTER
<1>5. CASE a.stepsRemoved = b.stepsRemoved
  <2> HIDE DEF oa, ob
  <2>1. dscmp2(a, b) = 2 * Else(PidCompare(a.sender, b.sender),
                  Smaller(a.receiver.portNumber, b.receiver.portNumber))
    BY <1>2, <1>5 DEF dscmp2
  <2>2. PidCompare(a.sender, b.sender) =
          Else(Smaller(a.sender.clockIdentity, b.sender.clockIdentity),
               Smaller(oa, ob))
    BY DEF PidCompare, oa, ob
  <2>3. Else(PidCompare(a.sender, b.sender),
             Smaller(a.receiver.portNumber, b.receiver.portNumber)) > 0
          <=> SenderBefore(a, b)
    <3>1. SenderBefore(a, b) <=>
            \/ a.sender.clockIdentity < b.sender.clockIdentity
            \/ /\ a.sender.clockIdentity = b.sender.clockIdentity
               /\ \/ oa < ob
                  \/ oa = ob /\ a.receiver.portNumber < b.receiver.portNumber
      BY DEF SenderBefore, oa, ob
    <3> QED
      BY <1>2, <2>2, <3>1 DEF Else, Smaller, A_BETTER, B_BETTER
  <2>4. Else(PidCompare(a.sender, b.sender),
             Smaller(a.receiver.portNumber, b.receiver.portNumber)) \in Int
    BY <1>2, <2>2 DEF Else, Smaller, A_BETTER, B_BETTER
  <2> QED
    BY <1>2, <1>5, <2>1, <2>3, <2>4 DEF NearerDs
<1> QED BY <1>4, <1>5

(* The two comparisons, reduced to a strict order each.                    *)
AttrBefore(d, e) ==
    \/ d.priority1 < e.priority1
    \/ /\ d.priority1 = e.priority1
       /\ \/ QualityBefore(d, e)
          \/ /\ QualityEqual(d, e)
             /\ \/ d.priority2 < e.priority2
                \/ d.priority2 = e.priority2 /\ d.identity < e.identity

(* ByQuality is the order of the clock qualities.                          *)
LEMMA QualitySign ==
  ASSUME NEW a \in DataSet, NEW b \in DataSet
  PROVE  /\ ByQuality(a, b) \in {A_BETTER, 0, B_BETTER}
         /\ ByQuality(a, b) = A_BETTER <=> QualityBefore(a, b)
         /\ ByQuality(a, b) = 0 <=> QualityEqual(a, b)
  BY DataSetFields DEF ByQuality, Else, Smaller, QualityBefore, QualityEqual,
                       A_BETTER, B_BETTER

(* dscmp says "a" when a has the better attributes, or the same            *)
(* grandmaster is nearer through a.                                        *)
LEMMA DscmpSign ==
  ASSUME NEW a \in DataSet, NEW b \in DataSet, Foreign(a), Foreign(b)
  PROVE  dscmp(a, b) > 0 <=> IF a.identity = b.identity THEN NearerDs(a, b)
                             ELSE AttrBefore(a, b)
<1>1. CASE a = b
  BY <1>1, DataSetFields DEF dscmp, OrNull, NearerDs, SenderBefore
<1>2. CASE a # b
  <2>1. a # Null /\ b # Null
    BY NullIsNothing
  <2>2. CASE a.identity = b.identity
    BY <1>2, <2>1, <2>2, Dscmp2Sign DEF dscmp, OrNull
  <2>3. CASE a.identity # b.identity
    <3>1. dscmp(a, b) =
            Else(Smaller(a.priority1, b.priority1),
            Else(ByQuality(a, b),
            Else(Smaller(a.priority2, b.priority2), ByIdentity(a, b))))
      BY <1>2, <2>1, <2>3 DEF dscmp, OrNull
    <3> QED
      BY <2>3, <3>1, QualitySign, DataSetFields
         DEF Else, Smaller, ByIdentity, AttrBefore, A_BETTER, B_BETTER
  <2> QED BY <2>2, <2>3
<1> QED BY <1>1, <1>2

TelecomBefore(d, e) ==
    \/ QualityBefore(d, e)
    \/ /\ QualityEqual(d, e)
       /\ \/ d.priority2 < e.priority2
          \/ /\ d.priority2 = e.priority2
             /\ \/ d.localPriority < e.localPriority
                \/ /\ d.localPriority = e.localPriority
                   /\ IF d.clockClass <= 127 \/ d.identity = e.identity
                      THEN NearerDs(d, e)
                      ELSE d.identity < e.identity

(* telecom_dscmp says "a" in the order of clock quality, priority2,        *)
(* localPriority, and then of distance or identity.                        *)
LEMMA TelecomSign ==
  ASSUME NEW a \in DataSet, NEW b \in DataSet, Foreign(a), Foreign(b)
  PROVE  telecom_dscmp(a, b) > 0 <=> TelecomBefore(a, b)
<1>1. CASE a = b
  BY <1>1, DataSetFields DEF telecom_dscmp, OrNull, NearerDs, SenderBefore,
                             TelecomBefore, QualityBefore
<1>2. CASE a # b
  <2> DEFINE rest == IF a.clockClass <= 127 \/ a.identity = b.identity
                     THEN dscmp2(a, b) ELSE ByIdentity(a, b)
  <2>1. a # Null /\ b # Null
    BY NullIsNothing
  <2>2. telecom_dscmp(a, b) =
          Else(ByQuality(a, b),
          Else(Smaller(a.priority2, b.priority2),
          Else(Smaller(a.localPriority, b.localPriority), rest)))
    BY <1>2, <2>1 DEF telecom_dscmp, OrNull
  <2>3. rest > 0 <=> IF a.clockClass <= 127 \/ a.identity = b.identity
                     THEN NearerDs(a, b) ELSE a.identity < b.identity
    BY Dscmp2Sign, DataSetFields DEF ByIdentity, Smaller, A_BETTER, B_BETTER
  <2> HIDE DEF rest
  <2> QED
    BY <2>2, <2>3, QualitySign, DataSetFields
       DEF Else, Smaller, TelecomBefore, A_BETTER, B_BETTER
<1> QED BY <1>1, <1>2

----------------------------------------------------------------------------
(* The orders the comparisons decide are strict: each is transitive and    *)
(* none has a dataset before itself.                                       *)
LEMMA NearerTransitive ==
  ASSUME NEW d \in DataSet, NEW e \in DataSet, NEW f \in DataSet,
         NearerDs(d, e), NearerDs(e, f)
  PROVE  NearerDs(d, f)
  BY DataSetFields DEF NearerDs, SenderBefore

(* Clock qualities are ordered transitively.                               *)
LEMMA QualityTransitive ==
  ASSUME NEW d \in DataSet, NEW e \in DataSet, NEW f \in DataSet
  PROVE  /\ QualityBefore(d, e) /\ QualityBefore(e, f) => QualityBefore(d, f)
         /\ QualityBefore(d, e) /\ QualityEqual(e, f) => QualityBefore(d, f)
         /\ QualityEqual(d, e) /\ QualityBefore(e, f) => QualityBefore(d, f)
         /\ QualityEqual(d, e) /\ QualityEqual(e, f) => QualityEqual(d, f)
  BY DataSetFields DEF QualityBefore, QualityEqual

(* So are the attributes of grandmasters.                                  *)
LEMMA AttrTransitive ==
  ASSUME NEW d \in DataSet, NEW e \in DataSet, NEW f \in DataSet,
         AttrBefore(d, e), AttrBefore(e, f)
  PROVE  AttrBefore(d, f)
  BY DataSetFields, QualityTransitive DEF AttrBefore

(* No grandmaster has better attributes than itself.                       *)
LEMMA AttrIrreflexive ==
  ASSUME NEW d \in DataSet, NEW e \in DataSet, AttrBefore(d, e),
         d.identity = e.identity
  PROVE  \/ d.priority1 # e.priority1 \/ d.clockClass # e.clockClass
         \/ d.clockAccuracy # e.clockAccuracy
         \/ d.offsetScaledLogVariance # e.offsetScaledLogVariance
         \/ d.priority2 # e.priority2
  BY DataSetFields DEF AttrBefore, QualityBefore, QualityEqual

(* Better is transitive on the datasets the scan may meet; consistency is  *)
(* what keeps the identity test of dscmp from breaking it.                 *)
THEOREM BetterTransitive ==
  ASSUME NEW d \in Universe, NEW e \in Universe, NEW f \in Universe,
         Better(d, e), Better(e, f)
  PROVE  Better(d, f)
<1>1. d \in DataSet /\ e \in DataSet /\ f \in DataSet
  BY UniverseIsDataSets
<1>2. Foreign(d) /\ Foreign(e) /\ Foreign(f)
  BY UniverseForeign DEF HeardFromOthers, Foreign
<1>3. CASE Telecom
  <2>1. TelecomBefore(d, e) /\ TelecomBefore(e, f)
    BY <1>1, <1>2, <1>3, TelecomSign DEF Better, Compare
  <2>2. TelecomBefore(d, f)
    BY <1>1, <2>1, QualityTransitive, NearerTransitive, DataSetFields
       DEF TelecomBefore, QualityEqual
  <2> QED BY <1>1, <1>2, <1>3, <2>2, TelecomSign DEF Better, Compare
<1>4. CASE ~Telecom
  <2>1. ASSUME NEW x \in {d, e, f}, NEW y \in {d, e, f}
        PROVE  Better(x, y) <=> IF x.identity = y.identity THEN NearerDs(x, y)
                                ELSE AttrBefore(x, y)
    BY <1>1, <1>2, <1>4, DscmpSign DEF Better, Compare
  <2>2. ASSUME NEW x \in {d, e, f}, NEW y \in {d, e, f}, x.identity = y.identity
        PROVE  /\ x.priority1 = y.priority1 /\ x.clockClass = y.clockClass
               /\ x.clockAccuracy = y.clockAccuracy
               /\ x.offsetScaledLogVariance = y.offsetScaledLogVariance
               /\ x.priority2 = y.priority2
    BY <2>2, UniverseConsistent DEF Consistent, Attributes
  <2>3. CASE d.identity = e.identity /\ e.identity = f.identity
    BY <1>1, <2>1, <2>3, NearerTransitive
  <2>4. CASE d.identity = e.identity /\ e.identity # f.identity
    <3>1. AttrBefore(e, f)
      BY <2>1, <2>4
    <3>2. AttrBefore(d, f)
      BY <2>2, <2>4, <3>1 DEF AttrBefore, QualityBefore, QualityEqual
    <3> QED BY <2>1, <2>4, <3>2
  <2>5. CASE d.identity # e.identity /\ e.identity = f.identity
    <3>1. AttrBefore(d, e)
      BY <2>1, <2>5
    <3>2. AttrBefore(d, f)
      BY <2>2, <2>5, <3>1 DEF AttrBefore, QualityBefore, QualityEqual
    <3> QED BY <2>1, <2>5, <3>2
  <2>6. CASE d.identity # e.identity /\ e.identity # f.identity
    <3>1. AttrBefore(d, e) /\ AttrBefore(e, f)
      BY <2>1, <2>6
    <3>2. AttrBefore(d, f)
      BY <1>1, <3>1, AttrTransitive
    <3>3. d.identity # f.identity
      BY <1>1, <2>2, <3>2, AttrIrreflexive
    <3> QED BY <2>1, <3>2, <3>3
  <2> QED BY <2>3, <2>4, <2>5, <2>6
<1> QED BY <1>3, <1>4, BmcConfig

(* No dataset is better than itself.                                       *)
LEMMA BetterIrreflexive ==
  ASSUME NEW d \in DataSet
  PROVE  ~Better(d, d)
  BY DEF Better, Compare, dscmp, telecom_dscmp, OrNull

----------------------------------------------------------------------------
(* The scan.                                                               *)

(* The running best is none before the first dataset, and is one of those  *)
(* seen, not beaten by any, after it.                                      *)
ScanInv ==
    /\ TypeOK
    /\ best = Null => seen = {}
    /\ best # Null => best \in seen
    /\ BestBeatsSeen

(* The states of the scan are well typed.                                  *)
THEOREM ScanTypeCorrect == Spec => []TypeOK
<1>1. Init => TypeOK
  BY DEF Init, TypeOK
<1>2. TypeOK /\ [Next]_vars => TypeOK'
  BY DEF TypeOK, Next, Scan, vars
<1> QED BY <1>1, <1>2, PTL DEF Spec

(* ScanInv is an invariant.                                                *)
LEMMA ScanInvariant == Spec => []ScanInv
<1>1. Init => ScanInv
  BY DEF Init, ScanInv, TypeOK, BestBeatsSeen
<1>2. ScanInv /\ [Next]_vars => ScanInv'
  <2> SUFFICES ASSUME ScanInv, [Next]_vars PROVE ScanInv'
    OBVIOUS
  <2>1. CASE UNCHANGED vars
    BY <2>1 DEF ScanInv, TypeOK, BestBeatsSeen, vars
  <2>2. ASSUME NEW d \in Universe, Scan(d) PROVE ScanInv'
    <3>1. /\ seen \subseteq Universe /\ d \in DataSet /\ d # Null
          /\ \A e \in seen : e \in DataSet
      BY UniverseIsDataSets, NullIsNothing DEF ScanInv, TypeOK
    <3>2. seen' = seen \cup {d} /\ best' \in seen' /\ best' # Null /\ TypeOK'
      BY <2>2, <3>1 DEF Scan, ScanInv, TypeOK
    <3>3. ASSUME NEW e \in seen PROVE ~Better(e, best')
      <4>1. best # Null /\ best \in Universe /\ ~Better(e, best)
        BY <3>3 DEF ScanInv, BestBeatsSeen, TypeOK
      <4>2. CASE best' = best
        BY <4>1, <4>2
      <4>3. CASE best' = d /\ Better(d, best)
        BY <3>1, <4>1, <4>3, BetterTransitive
      <4> QED BY <2>2, <4>1, <4>2, <4>3 DEF Scan
    <3>4. ~Better(d, best')
      BY <2>2, <3>1, BetterIrreflexive DEF Scan
    <3> QED BY <3>2, <3>3, <3>4 DEF ScanInv, BestBeatsSeen
  <2> QED BY <2>1, <2>2 DEF Next
<1> QED BY <1>1, <1>2, PTL DEF Spec

(* port_compute_best and handle_state_decision_event compare every dataset *)
(* with the running best only, and still none they have seen beats the     *)
(* result: for either comparison and any set of consistent datasets.       *)
THEOREM ScanFindsBest == Spec => []BestBeatsSeen
<1>1. ScanInv => BestBeatsSeen
  BY DEF ScanInv
<1> QED BY <1>1, ScanInvariant, PTL
----------------------------------------------------------------------------
(* The ranking.                                                            *)

(* What a dataset is ranked by before its distance.                        *)
Merits(d) ==
    IF Telecom
    THEN << d.clockClass, d.clockAccuracy, d.offsetScaledLogVariance,
            d.priority2, d.localPriority,
            IF d.clockClass <= 127 THEN 0 ELSE d.identity >>
    ELSE << d.priority1, d.clockClass, d.clockAccuracy,
            d.offsetScaledLogVariance, d.priority2, d.identity >>

(* Two sequences, end to end, place by place.                              *)
LEMMA EndToEnd ==
  ASSUME NEW s \in Seq(Int), NEW t \in Seq(Int)
  PROVE  /\ s \o t \in Seq(Int) /\ Len(s \o t) = Len(s) + Len(t)
         /\ DOMAIN (s \o t) = 1 .. Len(s) + Len(t)
         /\ \A i \in 1 .. Len(s) : (s \o t)[i] = s[i]
         /\ \A i \in 1 .. Len(t) : (s \o t)[Len(s) + i] = t[i]
<1> DEFINE c == s \o t
           m == Len(s)
           n == Len(t)
<1>0. m \in Nat /\ n \in Nat
  OBVIOUS
<1>1. /\ c \in Seq(Int) /\ Len(c) = m + n
      /\ \A i \in 1 .. m + n : c[i] = IF i <= m THEN s[i] ELSE t[i - m]
  BY ConcatProperties, Zenon
<1> HIDE DEF c, m, n
<1>2. DOMAIN c = 1 .. m + n
  BY <1>1
<1>3. \A i \in 1 .. m : c[i] = s[i]
  BY <1>0, <1>1
<1>4. \A i \in 1 .. n : c[m + i] = t[i]
  <2> SUFFICES ASSUME NEW i \in 1 .. n PROVE c[m + i] = t[i]
    OBVIOUS
  <2>1. m + i \in 1 .. m + n /\ ~(m + i <= m) /\ (m + i) - m = i
    BY <1>0
  <2> QED BY <1>1, <2>1
<1> QED BY <1>1, <1>2, <1>3, <1>4 DEF c, m, n

(* A rank has ten places: the merits, then the topology.                   *)
LEMMA RankPlaces ==
  ASSUME NEW d \in DataSet
  PROVE  /\ DOMAIN Rank(d) = 1 .. 10
         /\ \A i \in 1 .. 6 : Rank(d)[i] = Merits(d)[i]
         /\ \A i \in 1 .. 4 : Rank(d)[6 + i] = Topology(d)[i]
<1>1. /\ Topology(d) \in Seq(Int) /\ Len(Topology(d)) = 4
  BY DataSetFields DEF Topology
<1>2. Merits(d) \in Seq(Int) /\ Len(Merits(d)) = 6
  BY DataSetFields DEF Merits
<1>3. Rank(d) = Merits(d) \o Topology(d)
  <2>1. CASE Telecom
    BY <2>1 DEF Rank, Merits
  <2>2. CASE ~Telecom
    <3>1. Attributes(d) \in Seq(Int) /\ Len(Attributes(d)) = 5
      BY DataSetFields DEF Attributes
    <3> DEFINE a == Attributes(d)
               e == << d.identity >>
               both == a \o e
    <3>2. e \in Seq(Int) /\ Len(e) = 1 /\ e[1] = d.identity
      BY DataSetFields
    <3> HIDE DEF a, e
    <3>3. /\ both \in Seq(Int) /\ Len(both) = 5 + 1
          /\ \A i \in 1 .. 5 : both[i] = a[i]
          /\ \A i \in 1 .. 1 : both[5 + i] = e[i]
      <4>1. a \in Seq(Int) /\ Len(a) = 5
        BY <3>1 DEF a
      <4>2. /\ both \in Seq(Int) /\ Len(both) = Len(a) + Len(e)
            /\ \A i \in 1 .. Len(a) : both[i] = a[i]
            /\ \A i \in 1 .. Len(e) : both[Len(a) + i] = e[i]
        BY <3>2, <4>1, EndToEnd, Zenon
      <4> HIDE DEF both
      <4> QED BY <3>2, <4>1, <4>2
    <3> HIDE DEF both
    <3>4. /\ a[1] = d.priority1 /\ a[2] = d.clockClass
          /\ a[3] = d.clockAccuracy /\ a[4] = d.offsetScaledLogVariance
          /\ a[5] = d.priority2
      BY DEF a, Attributes
    <3>5. both[6] = d.identity
      BY <3>2, <3>3
    <3>6. both[1] = d.priority1 /\ both[2] = d.clockClass
          /\ both[3] = d.clockAccuracy /\ both[4] = d.offsetScaledLogVariance
          /\ both[5] = d.priority2
      BY <3>3, <3>4
    <3>7. \A i \in 1 .. 6 : both[i] = Merits(d)[i]
      BY <2>2, <3>5, <3>6 DEF Merits
    <3>8. both = Merits(d)
      <4>1. Len(both) = Len(Merits(d)) /\ \A i \in 1 .. Len(both) : both[i] = Merits(d)[i]
        BY <1>2, <3>3, <3>7
      <4> QED BY <1>2, <3>3, <4>1, SeqEqual, Zenon
    <3> QED BY <2>2, <3>8 DEF Rank, both, a, e
  <2> QED BY <2>1, <2>2
<1> HIDE DEF Merits, Topology, Rank
<1> QED
  <2> DEFINE u == Merits(d)
             v == Topology(d)
             r == u \o v
  <2> HIDE DEF u, v
  <2>1. /\ DOMAIN r = 1 .. Len(u) + Len(v)
        /\ \A i \in 1 .. Len(u) : r[i] = u[i]
        /\ \A i \in 1 .. Len(v) : r[Len(u) + i] = v[i]
    BY <1>1, <1>2, EndToEnd, Zenon DEF u, v
  <2> HIDE DEF r
  <2>2. Len(u) = 6 /\ Len(v) = 4 /\ Rank(d) = r
    BY <1>1, <1>2, <1>3 DEF u, v, r
  <2> QED BY <2>1, <2>2 DEF u, v

(* Tuples of ten numbers are ordered by the first place they differ in.    *)
LEMMA TenPlaces ==
  ASSUME NEW s, NEW t, DOMAIN s = 1 .. 10,
         \A i \in 1 .. 10 : s[i] \in Int /\ t[i] \in Int
  PROVE  Before(s, t) <=>
         \/ s[1] < t[1]
         \/ s[1] = t[1] /\ s[2] < t[2]
         \/ s[1] = t[1] /\ s[2] = t[2] /\ s[3] < t[3]
         \/ s[1] = t[1] /\ s[2] = t[2] /\ s[3] = t[3] /\ s[4] < t[4]
         \/ s[1] = t[1] /\ s[2] = t[2] /\ s[3] = t[3] /\ s[4] = t[4]
            /\ \/ s[5] < t[5]
               \/ s[5] = t[5] /\ s[6] < t[6]
               \/ s[5] = t[5] /\ s[6] = t[6] /\ s[7] < t[7]
               \/ s[5] = t[5] /\ s[6] = t[6] /\ s[7] = t[7] /\ s[8] < t[8]
               \/ s[5] = t[5] /\ s[6] = t[6] /\ s[7] = t[7] /\ s[8] = t[8]
                  /\ \/ s[9] < t[9]
                     \/ s[9] = t[9] /\ s[10] < t[10]
  BY SMTT(60) DEF Before

(* Two datasets of one grandmaster tie on everything but the distance.     *)
LEMMA SameGrandmaster ==
  ASSUME NEW d \in Universe, NEW e \in Universe, d.identity = e.identity
  PROVE  /\ d.priority1 = e.priority1 /\ d.clockClass = e.clockClass
         /\ d.clockAccuracy = e.clockAccuracy
         /\ d.offsetScaledLogVariance = e.offsetScaledLogVariance
         /\ d.priority2 = e.priority2
  BY UniverseConsistent DEF Consistent, Attributes

(* The comparison in use decides the order of the ranks.                   *)
LEMMA BetterIsBefore ==
  ASSUME NEW d \in Universe, NEW e \in Universe
  PROVE  Before(Rank(d), Rank(e)) <=> Better(d, e)
<1> DEFINE s == Rank(d)
           t == Rank(e)
<1>1. d \in DataSet /\ e \in DataSet /\ Foreign(d) /\ Foreign(e)
  BY UniverseIsDataSets, UniverseForeign DEF HeardFromOthers, Foreign
<1>2. /\ DOMAIN s = 1 .. 10
      /\ s[1] = Merits(d)[1] /\ s[2] = Merits(d)[2] /\ s[3] = Merits(d)[3]
      /\ s[4] = Merits(d)[4] /\ s[5] = Merits(d)[5] /\ s[6] = Merits(d)[6]
      /\ t[1] = Merits(e)[1] /\ t[2] = Merits(e)[2] /\ t[3] = Merits(e)[3]
      /\ t[4] = Merits(e)[4] /\ t[5] = Merits(e)[5] /\ t[6] = Merits(e)[6]
  BY <1>1, RankPlaces
<1>3. ASSUME NEW x \in {d, e}
      PROVE  /\ Rank(x)[7] = x.stepsRemoved
             /\ Rank(x)[8] = x.sender.clockIdentity
             /\ Rank(x)[9] = Octets(x.sender.portNumber)
             /\ Rank(x)[10] = x.receiver.portNumber
  <2>1. \A i \in 1 .. 4 : Rank(x)[6 + i] = Topology(x)[i]
    BY <1>1, RankPlaces
  <2>2. /\ Rank(x)[7] = Topology(x)[1] /\ Rank(x)[8] = Topology(x)[2]
        /\ Rank(x)[9] = Topology(x)[3] /\ Rank(x)[10] = Topology(x)[4]
    BY <2>1
  <2> QED BY <2>2 DEF Topology
<1>4. /\ s[7] = d.stepsRemoved /\ s[8] = d.sender.clockIdentity
      /\ s[9] = Octets(d.sender.portNumber) /\ s[10] = d.receiver.portNumber
      /\ t[7] = e.stepsRemoved /\ t[8] = e.sender.clockIdentity
      /\ t[9] = Octets(e.sender.portNumber) /\ t[10] = e.receiver.portNumber
  BY <1>3
<1> HIDE DEF s, t
<1>5. CASE Telecom
  <2>1. /\ s[1] = d.clockClass /\ s[2] = d.clockAccuracy
        /\ s[3] = d.offsetScaledLogVariance /\ s[4] = d.priority2
        /\ s[5] = d.localPriority
        /\ s[6] = IF d.clockClass <= 127 THEN 0 ELSE d.identity
        /\ t[1] = e.clockClass /\ t[2] = e.clockAccuracy
        /\ t[3] = e.offsetScaledLogVariance /\ t[4] = e.priority2
        /\ t[5] = e.localPriority
        /\ t[6] = IF e.clockClass <= 127 THEN 0 ELSE e.identity
    BY <1>2, <1>5 DEF Merits
  <2>2. \A i \in 1 .. 10 : s[i] \in Int /\ t[i] \in Int
    BY <1>1, <1>4, <2>1, DataSetFields
  <2>3. Before(s, t) <=> TelecomBefore(d, e)
    BY <1>1, <1>2, <1>4, <2>1, <2>2, TenPlaces, DataSetFields
       DEF TelecomBefore, QualityBefore, QualityEqual, NearerDs, SenderBefore
  <2> QED BY <1>1, <1>5, <2>3, TelecomSign DEF Better, Compare, s, t
<1>6. CASE ~Telecom
  <2>1. /\ s[1] = d.priority1 /\ s[2] = d.clockClass /\ s[3] = d.clockAccuracy
        /\ s[4] = d.offsetScaledLogVariance /\ s[5] = d.priority2
        /\ s[6] = d.identity
        /\ t[1] = e.priority1 /\ t[2] = e.clockClass /\ t[3] = e.clockAccuracy
        /\ t[4] = e.offsetScaledLogVariance /\ t[5] = e.priority2
        /\ t[6] = e.identity
    BY <1>2, <1>6 DEF Merits
  <2>2. \A i \in 1 .. 10 : s[i] \in Int /\ t[i] \in Int
    BY <1>1, <1>4, <2>1, DataSetFields
  <2>3. Before(s, t) <=> IF d.identity = e.identity THEN NearerDs(d, e)
                         ELSE AttrBefore(d, e)
    <3>1. CASE d.identity = e.identity
      BY <1>1, <1>2, <1>4, <2>1, <2>2, <3>1, TenPlaces, SameGrandmaster,
         DataSetFields DEF NearerDs, SenderBefore
    <3>2. CASE d.identity # e.identity
      BY <1>1, <1>2, <2>1, <2>2, <3>2, TenPlaces, DataSetFields
         DEF AttrBefore, QualityBefore, QualityEqual
    <3> QED BY <3>1, <3>2
  <2> QED BY <1>1, <1>6, <2>3, DscmpSign DEF Better, Compare, s, t
<1> QED BY <1>5, <1>6

(* The scan ends with the dataset that ranks first, by the ranking of the  *)
(* profile, in whatever order the announces were heard.                    *)
THEOREM ScanRanksFirst == Spec => []BestRanksFirst
<1>1. ScanInv => BestRanksFirst
  <2> SUFFICES ASSUME ScanInv, seen # {}
               PROVE  /\ best \in seen
                      /\ \A d \in seen : ~Before(Rank(d), Rank(best))
    BY DEF BestRanksFirst
  <2>1. best \in seen /\ seen \subseteq Universe
    BY DEF ScanInv, TypeOK
  <2> QED BY <2>1, BetterIsBefore DEF ScanInv, BestBeatsSeen
<1> QED BY <1>1, ScanInvariant, PTL
=============================================================================
