------------------------ MODULE PccpIndicatorProofs ------------------------
(***************************************************************************)
(* Proofs about PccpIndicator, for every capacity of the queue, every      *)
(* length of the PIT, all weights and thresholds and any resolution of the *)
(* fractions. The averages are products and quotients of several           *)
(* parameters, so the arithmetic is in lemmas that name the products.      *)
(***************************************************************************)
EXTENDS PccpIndicator, TLAPS, WellFoundedInduction

----------------------------------------------------------------------------
(* Arithmetic. *)

LEMMA ProductMonotone ==
    ASSUME NEW a \in Nat, NEW b \in Nat, NEW k \in Nat, a <= b
    PROVE  k * a \in Nat /\ k * b \in Nat /\ k * a <= k * b
OBVIOUS

(* A quotient is the largest number whose product does not exceed x. *)
LEMMA Quotient ==
    ASSUME NEW x \in Nat, NEW w \in Nat \ {0}
    PROVE  /\ x \div w \in Nat
           /\ w * (x \div w) <= x
           /\ x < w * (x \div w) + w
OBVIOUS

LEMMA QuotientBound ==
    ASSUME NEW x \in Nat, NEW w \in Nat \ {0}, NEW b \in Nat, x <= w * b
    PROVE  x \div w \in 0 .. b
<1> DEFINE y == x \div w
<1>1. y \in Nat /\ w * y <= x
    BY Quotient
<1> HIDE DEF y
<1>2. ASSUME y > b PROVE FALSE
  <2>1. y >= b + 1 /\ b + 1 \in Nat
    BY <1>1, <1>2
  <2>2. w * (b + 1) <= w * y
    BY <1>1, <2>1, ProductMonotone
  <2>3. w * (b + 1) = w * b + w /\ w * b \in Nat
    OBVIOUS
  <2>4. w * y \in Nat
    BY <1>1
  <2> QED BY <1>1, <2>2, <2>3, <2>4
<1> QED BY <1>1, <1>2 DEF y

----------------------------------------------------------------------------
(* A set of numbers has a smallest one: what induction is done with. *)
LEMMA Smallest ==
    ASSUME NEW P, P \subseteq Nat, P # {}
    PROVE  \E i \in P : \A j \in P : i <= j
<1> DEFINE R == {ss \in Nat \X Nat : ss[1] < ss[2]}
<1>1. IsWellFoundedOn(R, Nat)
    BY NatLessThanWellFounded, Zenon DEF OpToRel
<1> HIDE DEF R
<1>2. PICK i \in P : \A j \in P : ~ (<<j, i>> \in R)
    BY <1>1, WFMin
<1>3. ASSUME NEW j \in P, j < i PROVE FALSE
  <2>1. i \in Nat /\ j \in Nat
    OBVIOUS
  <2>2. <<j, i>> \in R
    BY <1>3, <2>1 DEF R
  <2> QED BY <1>2, <2>2
<1> QED BY <1>3

(* One step of the decay. *)
Weakened(a) == ((WqInverse - 1) * a) \div WqInverse

LEMMA WeakenedBound ==
    ASSUME NEW a \in Nat
    PROVE  Weakened(a) \in 0 .. a
<1>1. WqInverse \in Nat \ {0} /\ WqInverse - 1 \in Nat
    BY IndicatorAssumption
<1>2. (WqInverse - 1) * a \in Nat /\ (WqInverse - 1) * a = WqInverse * a - a
    BY <1>1
<1>3. WqInverse * a \in Nat
    BY <1>1
<1>4. (WqInverse - 1) * a <= WqInverse * a
    BY <1>2, <1>3
<1> QED BY <1>1, <1>2, <1>4, QuotientBound DEF Weakened

(* f is the sequence of averages Decay goes through in n steps. *)
Decays(f, avg, n) == f = [k \in 0 .. n |-> IF k = 0 THEN avg ELSE Weakened(f[k - 1])]

(* The recursion is well defined: there is such a sequence for every n. *)
LEMMA DecayExists ==
    ASSUME NEW avg \in Nat
    PROVE  \A n \in Nat : \E f : Decays(f, avg, n)
<1> DEFINE None == {n \in Nat : ~ \E f : Decays(f, avg, n)}
<1> SUFFICES ASSUME None # {} PROVE FALSE
    OBVIOUS
<1>1. PICK n \in None : \A j \in None : n <= j
    BY Smallest
<1>2. CASE n = 0
  <2> DEFINE f == [k \in 0 .. n |-> avg]
  <2>1. f = [k \in 0 .. n |-> IF k = 0 THEN avg ELSE Weakened(f[k - 1])]
    BY <1>2
  <2> QED BY <1>1, <2>1 DEF Decays
<1>3. CASE n # 0
  <2>1. n - 1 \in Nat /\ n - 1 \notin None
    BY <1>1, <1>3
  <2>2. PICK f : Decays(f, avg, n - 1)
    BY <2>1
  <2> DEFINE g == [k \in 0 .. n |-> IF k = n THEN Weakened(f[n - 1]) ELSE f[k]]
  <2>3. \A k \in 0 .. n : g[k] = IF k = 0 THEN avg ELSE Weakened(g[k - 1])
    <3> SUFFICES ASSUME NEW k \in 0 .. n
                 PROVE  g[k] = IF k = 0 THEN avg ELSE Weakened(g[k - 1])
      OBVIOUS
    <3>1. \A j \in 0 .. n - 1 : f[j] = IF j = 0 THEN avg ELSE Weakened(f[j - 1])
      BY <2>2 DEF Decays
    <3>2. \A j \in 0 .. n - 1 : g[j] = f[j]
      BY <1>1
    <3>3. CASE k = 0
      BY <1>1, <1>3, <2>1, <3>1, <3>2, <3>3
    <3>4. CASE k # 0 /\ k = n
      <4>1. g[k] = Weakened(f[n - 1]) /\ n - 1 \in 0 .. n - 1
        BY <2>1, <3>4
      <4> QED BY <3>2, <3>4, <4>1
    <3>5. CASE k # 0 /\ k # n
      <4>1. k \in 0 .. n - 1 /\ k - 1 \in 0 .. n - 1
        BY <1>1, <3>5
      <4> QED BY <3>1, <3>2, <3>5, <4>1
    <3> QED BY <3>3, <3>4, <3>5
  <2> HIDE DEF g
  <2>4. g = [k \in 0 .. n |-> g[k]]
    BY DEF g
  <2>5. Decays(g, avg, n)
    BY <2>3, <2>4 DEF Decays
  <2> QED BY <1>1, <2>5
<1> QED BY <1>2, <1>3

(* pow(1 - wq, m) * avg is never more than avg. *)
LEMMA DecayBound ==
    ASSUME NEW avg \in Nat, NEW m \in Nat
    PROVE  Decay(avg, m) \in 0 .. avg
<1> DEFINE after == CHOOSE f : Decays(f, avg, m)
<1>1. Decay(avg, m) = after[m]
    BY DEF Decay, Decays, Weakened
<1>2. Decays(after, avg, m)
    BY DecayExists
<1> HIDE DEF after
<1>3. \A k \in 0 .. m : after[k] = IF k = 0 THEN avg ELSE Weakened(after[k - 1])
    BY <1>2 DEF Decays
<1> DEFINE Bad == {k \in 0 .. m : after[k] \notin 0 .. avg}
<1>4. ASSUME Bad # {} PROVE FALSE
  <2>1. Bad \subseteq Nat
    OBVIOUS
  <2>2. PICK k \in Bad : \A j \in Bad : k <= j
    BY <1>4, <2>1, Smallest
  <2>3. k # 0
    BY <1>3, <2>2
  <2>4. k - 1 \in 0 .. m /\ k - 1 \notin Bad
    BY <2>2, <2>3
  <2>5. after[k - 1] \in 0 .. avg
    BY <2>4
  <2>6. Weakened(after[k - 1]) \in 0 .. after[k - 1]
    BY <2>5, WeakenedBound
  <2>7. after[k] = Weakened(after[k - 1])
    BY <1>3, <2>2, <2>3
  <2> HIDE DEF Bad
  <2>8. after[k] \in 0 .. avg
    BY <2>5, <2>6, <2>7
  <2> QED BY <2>2, <2>8 DEF Bad
<1>5. after[m] \in 0 .. avg
    BY <1>4
<1> QED BY <1>1, <1>5

----------------------------------------------------------------------------
(* The average of a length that is at most the capacity stays within it,   *)
(* and rises by at most the weight of the capacity.                        *)
LEMMA AverageBound ==
    ASSUME NEW M \in Nat, NEW avg \in 0 .. M, NEW length \in Nat, length * Unit <= M
    PROVE  /\ Average(avg, length) \in 0 .. M
           /\ Average(avg, length) <= avg + M \div WqInverse
<1>1. WqInverse \in Nat \ {0} /\ WqInverse - 1 \in Nat /\ Unit \in Nat
    BY IndicatorAssumption
<1> DEFINE v == WqInverse - 1
           x == v * avg + length * Unit
           new == x \div WqInverse
<1>2. v * avg \in Nat /\ length * Unit \in Nat /\ v * M \in Nat /\ v * avg <= v * M
    BY <1>1, ProductMonotone
<1>3. WqInverse * M = v * M + M /\ WqInverse * avg = v * avg + avg
    BY <1>1
<1>4. x \in Nat /\ x <= WqInverse * M /\ x <= WqInverse * avg - avg + M
    BY <1>2, <1>3
<1>5. Average(avg, length) = new
    BY DEF Average
<1>6. new \in Nat /\ WqInverse * new <= x
    BY <1>1, <1>4, Quotient
<1>7. new \in 0 .. M
    BY <1>1, <1>4, QuotientBound
<1> HIDE DEF v, x, new
<1>8. new <= avg + M \div WqInverse
  <2>1. CASE new <= avg
    <3>1. M \div WqInverse \in Nat
      BY <1>1, Quotient
    <3> QED BY <1>6, <2>1, <3>1
  <2>2. CASE new > avg
    <3> DEFINE rise == new - avg
    <3>1. rise \in Nat /\ new = avg + rise
      BY <1>6, <2>2
    <3> HIDE DEF rise
    <3>2. WqInverse * new = WqInverse * avg + WqInverse * rise
      BY <1>1, <3>1
    <3>3. WqInverse * rise \in Nat /\ WqInverse * avg \in Nat
      BY <1>1, <3>1
    <3>4. WqInverse * rise <= M
      BY <1>4, <1>6, <3>2, <3>3
    <3> DEFINE y == M \div WqInverse
    <3>5. y \in Nat /\ M < WqInverse * y + WqInverse
      BY <1>1, Quotient
    <3> HIDE DEF y
    <3>6. ASSUME rise >= y + 1 PROVE FALSE
      <4>1. y + 1 \in Nat
        BY <3>5
      <4>2. WqInverse * (y + 1) <= WqInverse * rise
        BY <1>1, <3>1, <3>6, <4>1, ProductMonotone
      <4>3. WqInverse * (y + 1) = WqInverse * y + WqInverse /\ WqInverse * y \in Nat
        BY <1>1, <3>5
      <4> QED BY <1>1, <3>3, <3>4, <3>5, <4>2, <4>3
    <3>7. rise <= y
      BY <3>1, <3>5, <3>6
    <3> QED BY <3>1, <3>5, <3>7 DEF y
  <2> QED BY <1>6, <2>1, <2>2
<1> QED BY <1>5, <1>7, <1>8

(* The average of the PIT has no bound, as the PIT has none. *)
LEMMA AverageIsNatural ==
    ASSUME NEW avg \in Nat, NEW length \in Nat
    PROVE  Average(avg, length) \in Nat
<1>1. WqInverse \in Nat \ {0} /\ WqInverse - 1 \in Nat /\ Unit \in Nat
    BY IndicatorAssumption
<1>2. (WqInverse - 1) * avg + length * Unit \in Nat
    BY <1>1
<1> QED BY <1>1, <1>2, Quotient DEF Average

(* The sum PCCP divides by the capacity, for a PIT of the share pit. *)
Weighted(data, pit) == (Unit - G) * data + G * pit

(* The full queue, in the units of the averages. *)
Full == Capacity * Unit

LEMMA WeightedBound ==
    ASSUME NEW data \in 0 .. Full, NEW pit \in 0 .. Full
    PROVE  /\ Weighted(data, pit) \in Nat
           /\ Weighted(data, pit) <= Full * Unit
           /\ data = 0 => Weighted(data, pit) <= Full * G
<1>1. Full \in Nat /\ Unit \in Nat /\ G \in Nat /\ Unit - G \in Nat
    BY IndicatorAssumption DEF Full
<1>2. /\ (Unit - G) * data \in Nat /\ (Unit - G) * Full \in Nat
      /\ (Unit - G) * data <= (Unit - G) * Full
    BY <1>1, ProductMonotone
<1>3. G * pit \in Nat /\ G * Full \in Nat /\ G * pit <= G * Full
    BY <1>1, ProductMonotone
<1>4. (Unit - G) * Full + G * Full = Full * Unit /\ G * Full = Full * G
    BY <1>1
<1>5. data = 0 => (Unit - G) * data = 0
    BY <1>1
<1> QED BY <1>1, <1>2, <1>3, <1>4, <1>5 DEF Weighted

(* The index of one node. ECP measures the PIT against its own capacity,   *)
(* which is not enforced, so only the other two are bounded.               *)
LEMMA CongestionIndexBound ==
    ASSUME NEW data \in 0 .. Full, NEW pit \in Nat, Algorithm # "ECP"
    PROVE  /\ CongestionIndex(data, pit) \in 0 .. Unit
           /\ data = 0 => CongestionIndex(data, pit) <= G
<1>1. /\ Capacity \in Nat \ {0} /\ Unit \in Nat \ {0} /\ G \in 0 .. Unit
      /\ Algorithm \in {"CCS", "PCCP"}
    BY IndicatorAssumption
<1>2. Full \in Nat \ {0}
    BY <1>1 DEF Full
<1>3. CASE Algorithm = "CCS"
  <2>1. CongestionIndex(data, pit) = data \div Capacity
    BY <1>3 DEF CongestionIndex
  <2>2. data \div Capacity \in 0 .. Unit
    BY <1>1, QuotientBound DEF Full
  <2>3. data = 0 => data \div Capacity \in 0 .. 0
    <3>1. 0 <= Capacity * 0
      BY <1>1
    <3> QED BY <1>1, <3>1, QuotientBound
  <2> QED BY <1>1, <2>1, <2>2, <2>3
<1>4. CASE Algorithm = "PCCP"
  <2> DEFINE share == Smaller(pit, Full)
  <2>1. share \in 0 .. Full
    BY <1>2 DEF Smaller
  <2>2. CongestionIndex(data, pit) = Weighted(data, share) \div Full
    BY <1>4 DEF CongestionIndex, Weighted, Full
  <2> HIDE DEF share
  <2>3. Weighted(data, share) \div Full \in 0 .. Unit
    BY <1>1, <1>2, <2>1, WeightedBound, QuotientBound
  <2>4. data = 0 => Weighted(data, share) \div Full \in 0 .. G
    BY <1>1, <1>2, <2>1, WeightedBound, QuotientBound
  <2> QED BY <2>2, <2>3, <2>4
<1> QED BY <1>1, <1>3, <1>4

----------------------------------------------------------------------------
(* The inductive invariant: the averages are what they may be, and the     *)
(* index is the one of the averages.                                       *)
IInv ==
    /\ queueLength \in 0 .. Capacity
    /\ avgDataQueueLength \in 0 .. Full
    /\ avgPitLength \in Nat
    /\ idle \in Nat
    /\ ci = CongestionIndex(avgDataQueueLength, avgPitLength)

LEMMA InitIInv == Init => IInv
<1> SUFFICES ASSUME Init PROVE IInv
    OBVIOUS
<1>1. /\ Capacity \in Nat \ {0} /\ PitCapacity \in Nat \ {0} /\ Unit \in Nat \ {0}
      /\ G \in 0 .. Unit /\ Algorithm \in {"ECP", "CCS", "PCCP"}
    BY IndicatorAssumption
<1>2. Full \in Nat \ {0}
    BY <1>1 DEF Full
<1>3. \A w \in Nat \ {0} : 0 \div w = 0
  <2> SUFFICES ASSUME NEW w \in Nat \ {0} PROVE 0 \div w = 0
    OBVIOUS
  <2>1. 0 <= w * 0
    OBVIOUS
  <2> QED BY <2>1, QuotientBound
<1>4. (Unit - G) * 0 + G * Smaller(0, Full) = 0
    BY <1>1, <1>2 DEF Smaller
<1>5. CongestionIndex(0, 0) = 0
  <2>1. CASE Algorithm = "ECP"
    BY <1>1, <1>3, <2>1 DEF CongestionIndex
  <2>2. CASE Algorithm = "CCS"
    BY <1>1, <1>3, <2>2 DEF CongestionIndex
  <2>3. CASE Algorithm = "PCCP"
    <3>1. CongestionIndex(0, 0) = ((Unit - G) * 0 + G * Smaller(0, Full)) \div Full
      BY <2>3 DEF CongestionIndex, Full
    <3> QED BY <1>2, <1>3, <1>4, <3>1
  <2> QED BY <1>1, <2>1, <2>2, <2>3
<1> QED BY <1>1, <1>2, <1>5 DEF Init, IInv

(* The queue and the clock. *)
LEMMA PushStep ==
    ASSUME IInv, pushOrSendPacket
    PROVE  queueLength' \in 0 .. Capacity /\ idle' \in Nat
<1>1. Capacity \in Nat \ {0}
    BY IndicatorAssumption
<1>2. queueLength' \in 0 .. Capacity
    BY <1>1 DEF IInv, pushOrSendPacket, Smaller
<1>3. idle' \in Nat
    BY DEF IInv, pushOrSendPacket
<1> QED BY <1>2, <1>3

(* What Data does to the averages: that of the queue rises by at most its  *)
(* weight, however many packets are queued.                                *)
LEMMA DataStep ==
    ASSUME IInv, NEW pitLength \in PitLength, NEW level, DataPasses(pitLength, level)
    PROVE  /\ IInv'
           /\ avgDataQueueLength' <= avgDataQueueLength + Full \div WqInverse
<1>1. /\ Capacity \in Nat \ {0} /\ Unit \in Nat \ {0} /\ WqInverse \in Nat \ {0}
      /\ pitLength \in Nat
    BY IndicatorAssumption
<1>2. Full \in Nat \ {0} /\ Full \div WqInverse \in Nat
    BY <1>1, Quotient DEF Full
<1>3. queueLength * Unit <= Full
  <2>1. Unit * queueLength <= Unit * Capacity
    BY <1>1, ProductMonotone DEF IInv
  <2> QED BY <1>1, <2>1 DEF Full, IInv
<1>4. /\ avgDataQueueLength' \in 0 .. Full
      /\ avgDataQueueLength' <= avgDataQueueLength + Full \div WqInverse
  <2>1. CASE queueLength > 0
    <3>1. avgDataQueueLength' = Average(avgDataQueueLength, queueLength)
      BY <2>1 DEF DataPasses
    <3>2. avgDataQueueLength \in 0 .. Full /\ queueLength \in Nat
      BY <1>1 DEF IInv
    <3> QED BY <1>2, <1>3, <3>1, <3>2, AverageBound
  <2>2. CASE ~(queueLength > 0)
    <3>1. avgDataQueueLength' = Decay(avgDataQueueLength, idle)
      BY <2>2 DEF DataPasses
    <3>2. avgDataQueueLength \in Nat /\ avgDataQueueLength <= Full /\ idle \in Nat
      BY DEF IInv
    <3>3. avgDataQueueLength' \in 0 .. avgDataQueueLength
      BY <3>1, <3>2, DecayBound
    <3> QED BY <1>2, <3>2, <3>3
  <2> QED BY <2>1, <2>2
<1>5. avgPitLength' \in Nat
    BY <1>1, AverageIsNatural DEF IInv, DataPasses
<1>6. ci' = CongestionIndex(avgDataQueueLength', avgPitLength')
    BY DEF DataPasses
<1>7. queueLength' \in 0 .. Capacity /\ idle' \in Nat
    BY PushStep DEF DataPasses
<1> QED BY <1>4, <1>5, <1>6, <1>7 DEF IInv

LEMMA NextIInv == IInv /\ [Next]_vars => IInv'
<1> SUFFICES ASSUME IInv, [Next]_vars PROVE IInv'
    OBVIOUS
<1>1. CASE SomeData
    BY <1>1, DataStep DEF SomeData
<1>2. CASE GetPasses
  <2>1. queueLength' \in 0 .. Capacity /\ idle' \in Nat
    BY <1>2, PushStep DEF GetPasses
  <2> QED BY <1>2, <2>1 DEF IInv, GetPasses
<1>3. CASE Transmit
  <2>1. queueLength' \in 0 .. Capacity
    BY <1>3, IndicatorAssumption DEF IInv, Transmit
  <2> QED BY <1>3, <2>1 DEF IInv, Transmit
<1>4. CASE Elapse
  <2>1. idle' \in Nat
    BY <1>4 DEF IInv, Elapse
  <2> QED BY <1>4, <2>1 DEF IInv, Elapse
<1>5. CASE UNCHANGED vars
    BY <1>5 DEF IInv, vars
<1> QED BY <1>1, <1>2, <1>3, <1>4, <1>5 DEF Next

(* updateAverageQueueLengthAndCI keeps the averages within their bounds,   *)
(* and the index is always that of the two averages.                       *)
THEOREM IndicatorInvariance == Spec => []IInv
<1>1. Init => IInv
    BY InitIInv
<1>2. IInv /\ [Next]_vars => IInv'
    BY NextIInv
<1> QED BY <1>1, <1>2, PTL DEF Spec

(* With PCCP and CCS the congestion index never leaves the range of the    *)
(* thresholds, whatever lengths the PIT reports; and with a queue that has *)
(* been empty long enough the PIT counts as no more than its weight.       *)
THEOREM IndexBoundedHolds ==
    ASSUME Algorithm # "ECP"
    PROVE  Spec => []IndexBounded
<1>1. IInv => IndexBounded
    BY CongestionIndexBound DEF IInv, IndexBounded, Full
<1> QED BY <1>1, IndicatorInvariance, PTL

----------------------------------------------------------------------------
(* By how much the index may rise between two Data: the queue counts with  *)
(* its weight wq, but the share of the PIT may jump from nothing to its    *)
(* limit, as a single length of the PIT has no bound. With the defaults    *)
(* (wq = 0.02, g = 0.2) this is 0.216, and the 1 is the rounding.          *)
Rise == G + (Unit - G) \div WqInverse + 1

LEMMA IndexRise ==
    ASSUME NEW data \in 0 .. Full, NEW pit \in 0 .. Full, NEW dataNew \in 0 .. Full,
           NEW pitNew \in 0 .. Full, dataNew <= data + Full \div WqInverse
    PROVE  Weighted(dataNew, pitNew) \div Full <= Weighted(data, pit) \div Full + Rise
<1>1. /\ Full \in Nat \ {0} /\ WqInverse \in Nat \ {0} /\ Unit \in Nat /\ G \in Nat
      /\ Unit - G \in Nat
    BY IndicatorAssumption DEF Full
<1> DEFINE v == Unit - G
           h == Full \div WqInverse
           k == v \div WqInverse
           old == Weighted(data, pit)
           new == Weighted(dataNew, pitNew)
           q == old \div Full
           y == new \div Full
<1>2. h \in Nat /\ WqInverse * h <= Full
    BY <1>1, Quotient
<1>3. k \in Nat /\ v < WqInverse * k + WqInverse
    BY <1>1, Quotient
<1>4. old \in Nat /\ new \in Nat
    BY WeightedBound
<1>5. q \in Nat /\ old < Full * q + Full
    BY <1>1, <1>4, Quotient
<1>6. y \in Nat /\ Full * y <= new
    BY <1>1, <1>4, Quotient
<1>7. old = v * data + G * pit /\ new = v * dataNew + G * pitNew /\ v \in Nat
    BY <1>1 DEF Weighted
<1>8. Rise = G + k + 1 /\ dataNew <= data + h
    BY DEF Rise
<1> HIDE DEF v, h, k, old, new, q, y
<1>9. v * h <= Full * (k + 1)
  <2> DEFINE b == k + 1
  <2>1. b \in Nat /\ v <= WqInverse * b /\ WqInverse * b \in Nat /\ WqInverse * h \in Nat
    BY <1>1, <1>2, <1>3, <1>7
  <2> HIDE DEF b
  <2>2. h * v <= h * (WqInverse * b)
    BY <1>2, <1>7, <2>1, ProductMonotone
  <2>3. h * (WqInverse * b) = b * (WqInverse * h)
    BY <1>1, <1>2, <2>1
  <2>4. b * (WqInverse * h) <= b * Full
    BY <1>1, <1>2, <2>1, ProductMonotone
  <2>5. h * v = v * h /\ b * Full = Full * b /\ h * v \in Nat /\ b * Full \in Nat
        /\ b * (WqInverse * h) \in Nat
    BY <1>1, <1>2, <1>7, <2>1
  <2>6. v * h <= Full * b
    BY <2>2, <2>3, <2>4, <2>5
  <2> QED BY <2>6 DEF b
<1>10. v * dataNew <= v * data + v * h
  <2>1. v * dataNew <= v * (data + h)
    BY <1>1, <1>2, <1>7, <1>8, ProductMonotone
  <2>2. v * (data + h) = v * data + v * h
    BY <1>1, <1>2, <1>7
  <2> QED BY <2>1, <2>2
<1>11. G * pitNew <= G * Full /\ G * pit \in Nat
    BY <1>1, ProductMonotone
<1>12. /\ v * dataNew \in Nat /\ v * data \in Nat /\ v * h \in Nat /\ G * pitNew \in Nat
       /\ G * Full \in Nat /\ Full * (k + 1) \in Nat /\ Full * q \in Nat
    BY <1>1, <1>2, <1>3, <1>5, <1>7
<1>13. new < Full * q + Full + Full * (k + 1) + G * Full
    BY <1>1, <1>4, <1>5, <1>7, <1>9, <1>10, <1>11, <1>12
<1>14. Full * q + Full + Full * (k + 1) + G * Full = Full * (q + Rise + 1)
    BY <1>1, <1>3, <1>5, <1>8
<1>15. ASSUME y >= q + Rise + 1 PROVE FALSE
  <2>1. q + Rise + 1 \in Nat
    BY <1>1, <1>3, <1>5, <1>8
  <2>2. Full * (q + Rise + 1) <= Full * y /\ Full * y \in Nat /\ Full * (q + Rise + 1) \in Nat
    BY <1>1, <1>6, <1>15, <2>1, ProductMonotone
  <2> QED BY <1>4, <1>6, <1>13, <1>14, <2>2
<1>16. Rise \in Nat
    BY <1>1, <1>3, <1>8
<1>17. y <= q + Rise
    BY <1>5, <1>6, <1>15, <1>16
<1> QED BY <1>17 DEF y, q, old, new

(* If neighbouring thresholds are further apart than the index may rise    *)
(* (as the defaults 0.05, 0.3 and 0.6 are) the level computed for the next *)
(* Data is at most one step higher, whatever the queue and the PIT do.     *)
THEOREM LevelsRiseGraduallyHolds ==
    ASSUME Algorithm = "PCCP", CI_FREE + Rise <= CI_BUSY, CI_BUSY + Rise < CI_CONG
    PROVE  Spec => LevelsRiseGradually
<1>1. ASSUME IInv, [Next]_vars
      PROVE  [CongestionLevel(ci') <= CongestionLevel(ci) + 1]_vars
  <2>1. /\ Full \in Nat \ {0} /\ Unit \in Nat /\ G \in 0 .. Unit
        /\ CI_FREE \in Int /\ CI_BUSY \in Int /\ CI_CONG \in Int
        /\ CI_FREE < CI_BUSY /\ CI_BUSY < CI_CONG
    BY IndicatorAssumption DEF Full
  <2>2. CongestionLevel(ci) \in 0 .. 3
    BY DEF CongestionLevel, FREE, BUSY_1, BUSY_2, CONGESTED
  <2>3. CASE SomeData
    <3>1. PICK pitLength \in PitLength, level \in {FREE, BUSY_2} : DataPasses(pitLength, level)
      BY <2>3 DEF SomeData
    <3>2. /\ IInv'
          /\ avgDataQueueLength' <= avgDataQueueLength + Full \div WqInverse
      BY <1>1, <3>1, DataStep
    <3> DEFINE share == Smaller(avgPitLength, Full)
               shareNew == Smaller(avgPitLength', Full)
    <3>3. share \in 0 .. Full /\ shareNew \in 0 .. Full
      BY <1>1, <2>1, <3>2 DEF IInv, Smaller
    <3>4. /\ ci = Weighted(avgDataQueueLength, share) \div Full
          /\ ci' = Weighted(avgDataQueueLength', shareNew) \div Full
      BY <1>1, <3>2 DEF IInv, CongestionIndex, Weighted, Full
    <3>5. avgDataQueueLength \in 0 .. Full /\ avgDataQueueLength' \in 0 .. Full
      BY <1>1, <3>2 DEF IInv
    <3> HIDE DEF share, shareNew
    <3>6. ci' <= ci + Rise
      BY <3>2, <3>3, <3>4, <3>5, IndexRise
    <3>7. ci \in Nat /\ ci' \in Nat
      BY <2>1, <3>3, <3>4, <3>5, WeightedBound, Quotient
    <3>8. Rise \in Nat
      BY IndicatorAssumption, Quotient DEF Rise
    <3> QED BY <2>1, <3>6, <3>7, <3>8 DEF CongestionLevel, FREE, BUSY_1, BUSY_2, CONGESTED
  <2>4. CASE ci' = ci
    BY <2>2, <2>4
  <2>5. ASSUME ~SomeData PROVE ci' = ci
    BY <1>1, <2>5 DEF Next, GetPasses, Transmit, Elapse, vars
  <2> QED BY <2>3, <2>4, <2>5
<1> QED BY <1>1, IndicatorInvariance, PTL DEF Spec, LevelsRiseGradually
============================================================================
