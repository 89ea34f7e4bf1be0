----------------------------- MODULE PccpTimed -----------------------------
(***************************************************************************)
(* Pccp with the simulation clock: the retransmission time-out PccpAlg     *)
(* derives from measured round trips (Jacobson, Karn, back-off), the times *)
(* at which REXMIT timers are due, and the "halved less than srtt ago"     *)
(* test, which Pccp leaves open. Every handler is Pccp's, together with    *)
(* what it does to the variables that hold times.                          *)
(*                                                                         *)
(* Times are whole numbers of one unit. The gain of 1/8 does not divide    *)
(* them, so an estimate moves by either of the two nearest values,         *)
(* whichever way simtime_t rounds.                                         *)
(***************************************************************************)
EXTENDS Pccp

CONSTANTS
    StartTime,          \* par startTime
    MinRexmitTimeout,   \* MIN_REXMIT_TIMEOUT, 0.5 s
    MaxRexmitTimeout,   \* MAX_REXMIT_TIMEOUT, 1 s
    InitialRttvar,      \* rttvar before the first measurement, 0.75 s
    Horizon             \* bound: the clock stops here

ASSUME TimedAssumption ==
    /\ StartTime \in Nat
    /\ MinRexmitTimeout \in Nat \ {0}
    /\ MaxRexmitTimeout \in Nat
    /\ MinRexmitTimeout <= MaxRexmitTimeout
    /\ InitialRttvar \in 0 .. MaxRexmitTimeout
    /\ Horizon \in Nat

VARIABLES
    now,                        \* simTime()
    expiry,                     \* when the REXMIT timer of a request is due
    firstTransTime,             \* PccpSendQueue: when a request was first sent
    rtsid_sendtime,             \* when the measured request was sent
    srtt, rttvar,               \* smoothed round trip and its deviation
    rexmit_timeout,             \* the RTO
    last_timeout_doubled_time,
    last_cong_rcvd,             \* when the window was halved last
    postponed                   \* history: requests that waited in rexmitQueue

estimate == <<srtt, rttvar>>
clocks == <<now, expiry, firstTransTime, rtsid_sendtime, srtt, rttvar, rexmit_timeout,
            last_timeout_doubled_time, last_cong_rcvd, postponed>>
timedVars == <<vars, clocks>>

----------------------------------------------------------------------------
(* processRexmitTimer and rttMeasurementComplete: no more than the maximum. *)
ClampAbove(t) == IF t > MaxRexmitTimeout THEN MaxRexmitTimeout ELSE t

(* The RTO between its bounds. *)
Clamp(t) == IF t < MinRexmitTimeout THEN MinRexmitTimeout ELSE ClampAbove(t)

(* g * d, rounded down or up. *)
Eighth(d) == {d \div 8, (d + 7) \div 8}
Abs(d) == IF d < 0 THEN -d ELSE d

(* rttMeasurementComplete *)
rttMeasurementComplete(newRTT) ==
    LET err == newRTT - srtt
    IN  /\ srtt' \in {srtt + e : e \in Eighth(err)}
        /\ rttvar' \in {rttvar + e : e \in Eighth(Abs(err) - rttvar)}
        /\ rexmit_timeout' = Clamp(srtt' + 4 * rttvar')

(* processRexmitTimer: the RTO is doubled at most once in an RTO. *)
BackOff ==
    IF now > last_timeout_doubled_time + rexmit_timeout
    THEN /\ rexmit_timeout' = ClampAbove(2 * rexmit_timeout)
         /\ last_timeout_doubled_time' = now
    ELSE UNCHANGED <<rexmit_timeout, last_timeout_doubled_time>>

(* Faulty variant: the back-off is applied once more. *)
scheduleTimeoutTwice ==
    expiry' = [s \in SID |-> IF getsSent'[s] > getsSent[s] THEN now + 2 * rexmit_timeout' ELSE expiry[s]]

(* Faulty variant: half the RTO. *)
scheduleTimeoutHalf ==
    expiry' = [s \in SID |-> IF getsSent'[s] > getsSent[s] THEN now + rexmit_timeout' \div 2 ELSE expiry[s]]

(* The GETs a handler sends: requestSent and retransmitRequest schedule    *)
(* the timer with the RTO as the handler has left it.                      *)
scheduleTimeout ==
    expiry' = [s \in SID |-> IF getsSent'[s] > getsSent[s] THEN now + rexmit_timeout' ELSE expiry[s]]

FirstSent(s) == getsSent[s] = 0 /\ getsSent'[s] > 0

(* Faulty variant: simulation time 0 is a time like any other. *)
StartMeasurementAnytime ==
    /\ rtsid' = NoMeasurement => \A s \in SID : ~FirstSent(s)
    /\ rtsid_sendtime' = IF rtsid' = NoMeasurement THEN 0
                         ELSE IF rtsid' = rtsid THEN rtsid_sendtime ELSE now

(* requestSent starts a measurement with the first new request. At time 0  *)
(* that leaves rtsid_sendtime at 0, which says that none is running.       *)
StartMeasurement ==
    /\ now = 0 => rtsid' = NoMeasurement
    /\ now > 0 /\ rtsid' = NoMeasurement => \A s \in SID : ~FirstSent(s)
    /\ rtsid_sendtime' = IF rtsid' = NoMeasurement THEN 0
                         ELSE IF rtsid' = rtsid THEN rtsid_sendtime ELSE now

(* What is written down with every GET. *)
Stamp ==
    /\ scheduleTimeout
    /\ StartMeasurement
    /\ firstTransTime' = [s \in SID |-> IF FirstSent(s) THEN now ELSE firstTransTime[s]]
    /\ UNCHANGED now

----------------------------------------------------------------------------
TimedInit ==
    /\ Init
    /\ now = 0
    /\ expiry = [s \in SID |-> 0]
    /\ firstTransTime = [s \in SID |-> 0]
    /\ rtsid_sendtime = 0
    /\ srtt = 0
    /\ rttvar = InitialRttvar
    /\ rexmit_timeout = MaxRexmitTimeout
    /\ last_timeout_doubled_time = 0
    /\ last_cong_rcvd = 0
    /\ postponed = {}

(* The start message is due at startTime; send timers come at any time. *)
TimedSend ==
    /\ \/ StartMessage /\ now = StartTime
       \/ SendTimer
       \/ LastSendTimer
    /\ UNCHANGED <<estimate, rexmit_timeout, last_timeout_doubled_time, last_cong_rcvd, postponed>>
    /\ Stamp

(* processRexmitTimer, when the timer is due: no back-off for a request    *)
(* that is given up.                                                       *)
TimedRexmit(s) ==
    /\ expiry[s] = now
    /\ RexmitTimer(s)
    /\ IF s \in aborted' THEN UNCHANGED <<rexmit_timeout, last_timeout_doubled_time>> ELSE BackOff
    /\ Stamp
    /\ postponed' = postponed \cup ({s} \cap RangeOf(rexmitQueue'))
    /\ UNCHANGED <<estimate, last_cong_rcvd>>

TimedDeliverUp(s) == DeliverUp(s) /\ UNCHANGED clocks

(* dataReceived: the measurement ends first, so the window is halved at    *)
(* most once in the srtt that includes it, and the GETs sent next get the  *)
(* new RTO.                                                                *)
TimedData(s, cl) ==
    LET halve == cl = "CONGESTED" /\ now > last_cong_rcvd + srtt'
    IN  /\ IF rtsid = s THEN rttMeasurementComplete(now - rtsid_sendtime)
           ELSE UNCHANGED <<estimate, rexmit_timeout>>
        /\ DataReceived(s, cl, halve)
        /\ last_cong_rcvd' = IF halve THEN now ELSE last_cong_rcvd
        /\ Stamp
        /\ UNCHANGED <<last_timeout_doubled_time, postponed>>

(* Time passes, but not beyond an event that is due. *)
Tick ==
    /\ now < Horizon
    /\ \A s \in rexmitTimers : expiry[s] > now
    /\ appTimer = "start" => now < StartTime
    /\ now' = now + 1
    /\ UNCHANGED <<vars, expiry, firstTransTime, rtsid_sendtime, estimate, rexmit_timeout,
                   last_timeout_doubled_time, last_cong_rcvd, postponed>>

(* The clock has reached its bound. *)
TimeIsUp == now = Horizon /\ UNCHANGED timedVars

TimedNext ==
    \/ TimedSend
    \/ \E s \in SID : TimedRexmit(s)
    \/ \E s \in SID : TimedDeliverUp(s)
    \/ \E s \in SID, cl \in PccpClCode : TimedData(s, cl)
    \/ Tick
    \/ TimeIsUp

TimedSpec == TimedInit /\ [][TimedNext]_timedVars

----------------------------------------------------------------------------
TimedTypeOK ==
    /\ now \in Nat
    /\ expiry \in [SID -> Nat]
    /\ firstTransTime \in [SID -> Nat]
    /\ rtsid_sendtime \in Nat
    /\ srtt \in Int /\ rttvar \in Int
    /\ rexmit_timeout \in Nat
    /\ last_timeout_doubled_time \in Nat
    /\ last_cong_rcvd \in Nat
    /\ postponed \in SUBSET SID

(* The estimates stay in the range of possible round trips and the RTO     *)
(* between its bounds. The upper bound of srtt is not enforced anywhere:   *)
(* it holds because a time-out cancels the measurement of its request, so  *)
(* that no measured round trip exceeds the RTO the request was sent with.  *)
EstimatesBounded ==
    /\ srtt \in 0 .. MaxRexmitTimeout
    /\ rttvar \in 0 .. MaxRexmitTimeout
    /\ rexmit_timeout \in MinRexmitTimeout .. MaxRexmitTimeout

(* The round trip being measured is counted from the only GET of its       *)
(* request, and is at most as old as the RTO allows, although 0 is both a  *)
(* simulation time and the mark for "no measurement".                      *)
MeasuredFromItsGet ==
    rtsid # NoMeasurement =>
        /\ rtsid_sendtime > 0
        /\ rtsid_sendtime = firstTransTime[rtsid]
        /\ now - rtsid_sendtime <= MaxRexmitTimeout

(* A request is given up no sooner than maxRexmitLimit + 1 minimal RTOs    *)
(* after its first GET, however short the measured round trips have made   *)
(* the RTO in between.                                                     *)
NotGivenUpEarly ==
    [][\A s \in aborted' \ aborted :
          now - firstTransTime[s] >= (MaxRexmitLimit + 1) * MinRexmitTimeout]_timedVars

(* A request that never had to wait for the window is in it no longer than *)
(* one maximal RTO for each of its GETs: back-off does not delay giving up *)
(* beyond that.                                                            *)
SettledInTime ==
    \A s \in sidToTimerMap \ postponed :
        now - firstTransTime[s] <= (sidRexmitCount[s] + 1) * MaxRexmitTimeout
============================================================================
