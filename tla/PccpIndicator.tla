--------------------------- MODULE PccpIndicator ---------------------------
(***************************************************************************)
(* The filter in front of the link-layer queue of a node: from the lengths *)
(* of that queue and of the PIT, averaged over the Data that pass, it      *)
(* computes a congestion index (CI), and marks the Data with the           *)
(* congestion level (CL) consumers adjust their windows by (Pccp). Data    *)
(* are 802.11 frames, the only ones setPccpCl marks.                       *)
(*                                                                         *)
(* The doubles are kept as multiples of 1/Unit, rounded down. Time counts  *)
(* transmissions of 0.5 ms, the unit of the exponent m in the code.        *)
(***************************************************************************)
EXTENDS Integers

CONSTANTS
    Capacity,       \* getMaxNumPackets of the queue, 100
    PitLength,      \* lengths of the PIT, whose capacity is not enforced
    PitCapacity,    \* the capacity the PIT reports
    Algorithm,      \* par algorithm
    Unit,           \* 1.0
    WqInverse,      \* 1 / wq
    G,              \* g, in units of 1/Unit
    CI_FREE, CI_BUSY, CI_CONG,
    MaxIdle         \* bound: from here on, all longer times since q_time

ASSUME IndicatorAssumption ==
    /\ {Capacity, PitCapacity, Unit, WqInverse} \subseteq Nat \ {0}
    /\ PitLength \subseteq Nat
    /\ MaxIdle \in Nat
    /\ Algorithm \in {"ECP", "CCS", "PCCP"}
    /\ {G, CI_FREE, CI_BUSY, CI_CONG} \subseteq 0 .. Unit
    /\ CI_FREE < CI_BUSY /\ CI_BUSY < CI_CONG

VARIABLES
    queueLength,            \* collection->getNumPackets()
    avgDataQueueLength,
    avgPitLength,
    ci,
    idle,                   \* simTime() - q_time
    marked                  \* the level of the Data that left last

vars == <<queueLength, avgDataQueueLength, avgPitLength, ci, idle, marked>>

FREE == 0
BUSY_1 == 1
BUSY_2 == 2
CONGESTED == 3
PccpClCode == FREE .. CONGESTED

----------------------------------------------------------------------------
(* Faulty variant: the weights are interchanged. *)
AverageHasty(avg, length) == (avg + (WqInverse - 1) * length * Unit) \div WqInverse

(* (1 - wq) * avg + wq * length *)
Average(avg, length) == ((WqInverse - 1) * avg + length * Unit) \div WqInverse

(* Faulty variant: an empty queue leaves the average as it is. *)
KeepAverage(avg, m) == avg

(* pow(1 - wq, m) * avg *)
Decay(avg, m) ==
    LET after[k \in 0 .. m] == IF k = 0 THEN avg
                               ELSE ((WqInverse - 1) * after[k - 1]) \div WqInverse
    IN  after[m]

Smaller(a, b) == IF a > b THEN b ELSE a

(* Faulty variant: the share of the PIT is not limited. *)
CongestionIndexUnlimited(avgData, avgPit) ==
    ((Unit - G) * avgData + G * avgPit) \div (Capacity * Unit)

(* updateAverageQueueLengthAndCI: the PIT is measured against the capacity *)
(* of the queue, not its own.                                              *)
CongestionIndex(avgData, avgPit) ==
    CASE Algorithm = "ECP" -> avgPit \div PitCapacity
      [] Algorithm = "CCS" -> avgData \div Capacity
      [] Algorithm = "PCCP" ->
           ((Unit - G) * avgData + G * Smaller(avgPit, Capacity * Unit)) \div (Capacity * Unit)

(* Faulty variant: nothing is marked as congested. *)
CongestionLevelBusy(index) ==
    IF index <= CI_FREE THEN FREE ELSE IF index <= CI_BUSY THEN BUSY_1 ELSE BUSY_2

(* calculateCongestionLevel *)
CongestionLevel(index) ==
    IF index <= CI_FREE THEN FREE
    ELSE IF index >= CI_CONG THEN CONGESTED
    ELSE IF index <= CI_BUSY THEN BUSY_1 ELSE BUSY_2

(* setPccpCl: a level is never lowered on the way. *)
setPccpCl(level, cl) == IF cl > level THEN cl ELSE level

(* pushOrSendPacket: the packet joins the queue, which drops it when full  *)
(* and hands it on at once when it is empty and the link idle. q_time is   *)
(* set if the queue is empty afterwards.                                   *)
pushOrSendPacket ==
    /\ \/ queueLength' = Smaller(queueLength + 1, Capacity)
       \/ queueLength = 0 /\ queueLength' = 0
    /\ idle' = IF queueLength' = 0 THEN 0 ELSE idle

----------------------------------------------------------------------------
Init ==
    /\ queueLength = 0
    /\ avgDataQueueLength = 0
    /\ avgPitLength = 0
    /\ ci = 0
    /\ idle = 0
    /\ marked = FREE

(* matchesPacket for Data, which carries the length of the PIT and the     *)
(* level of the nodes it has passed, and pushOrSendPacket.                 *)
DataPasses(pitLength, level) ==
    /\ avgDataQueueLength' = IF queueLength > 0 THEN Average(avgDataQueueLength, queueLength)
                             ELSE Decay(avgDataQueueLength, idle)
    /\ avgPitLength' = Average(avgPitLength, pitLength)
    /\ ci' = CongestionIndex(avgDataQueueLength', avgPitLength')
    /\ marked' = setPccpCl(level, CongestionLevel(ci'))
    /\ pushOrSendPacket

(* A packet without PitInd, a GET, passes unmarked. *)
GetPasses ==
    /\ pushOrSendPacket
    /\ UNCHANGED <<avgDataQueueLength, avgPitLength, ci, marked>>

(* The link takes a packet from the queue, which tells nobody. *)
Transmit ==
    /\ queueLength > 0
    /\ queueLength' = queueLength - 1
    /\ UNCHANGED <<avgDataQueueLength, avgPitLength, ci, idle, marked>>

(* Time passes. *)
Elapse ==
    /\ idle < MaxIdle
    /\ idle' = idle + 1
    /\ UNCHANGED <<queueLength, avgDataQueueLength, avgPitLength, ci, marked>>

SomeData == \E pitLength \in PitLength, level \in {FREE, BUSY_2} : DataPasses(pitLength, level)

Next ==
    \/ SomeData
    \/ GetPasses
    \/ Transmit
    \/ Elapse

Spec == Init /\ [][Next]_vars

(* A node that keeps relaying Data, while time passes, and not all of them *)
(* at the very moment another packet has passed.                           *)
FairSpec == Spec /\ WF_vars(SomeData) /\ WF_vars(Elapse) /\ SF_vars(SomeData /\ idle > 0)

----------------------------------------------------------------------------
(* CI stays between 0 and 1 although the PIT grows beyond the capacity it  *)
(* is measured against, and a PIT alone, however full, with a queue that   *)
(* was empty long enough, never counts as more than its weight. The        *)
(* average of the queue never exceeds the length the queue can have.       *)
IndexBounded ==
    /\ ci \in 0 .. Unit
    /\ avgDataQueueLength \in 0 .. Capacity * Unit
    /\ avgDataQueueLength = 0 => ci <= G

(* The average does its work: between two Data the level this node         *)
(* computes rises by at most one step, so that a burst does not make       *)
(* consumers halve their windows at once. It may fall by any number.       *)
LevelsRiseGradually ==
    [][CongestionLevel(ci') <= CongestionLevel(ci) + 1]_vars

(* A queue that stays full is signalled: in the end every Data leaves      *)
(* marked as congested, whatever the PIT and the upstream nodes say.       *)
CongestionSignalled ==
    <>[](queueLength = Capacity) => <>[](marked = CONGESTED)

(* And a queue that stays empty is signalled again as free as the PIT      *)
(* allows: no level stays on because of Data long gone.                    *)
CongestionForgotten ==
    <>[](queueLength = 0) => <>[](ci <= G)
============================================================================
