------------------------------- MODULE Pccp -------------------------------
(***************************************************************************)
(* The consumer side of PCCP: PccpApp issues one request (an SID) after    *)
(* another, PccpAlg sends at most a congestion window of them as GETs,     *)
(* retransmits on time-out and adjusts the window by the congestion level  *)
(* (CL) every Data carries, PccpSendQueue holds the requests on their way. *)
(*                                                                         *)
(* The simulator runs one handler at a time, so a handler is one action.   *)
(* simTime() is abstracted: a scheduled timer may fire at any moment, and  *)
(* the one comparison of times that matters here ("was the window halved   *)
(* less than srtt ago?") may go either way.                                *)
(***************************************************************************)
EXTENDS Integers, Sequences, FiniteSets

CONSTANTS
    RequestNum,               \* par requestNum: how many requests the app issues
    InitialWindowSize,        \* par initialWindowSize
    MaxRexmitLimit,           \* par maxRexmitLimit
    CongestionControlEnabled, \* par congestionControlEnabled
    VeryLargeWindow,          \* VERY_LARGE_WINDOW, out of reach of the requests
    Scale                     \* the double window is kept in units of 1/Scale

ASSUME PccpAssumption ==
    /\ RequestNum \in Nat \ {0}
    /\ InitialWindowSize \in Nat \ {0}
    /\ MaxRexmitLimit \in Nat
    /\ CongestionControlEnabled \in BOOLEAN
    /\ VeryLargeWindow \in Nat \ {0}
    /\ Scale \in Nat \ {0}

VARIABLES
    content,         \* number of the request the app issued last
    appTimer,        \* which of the app's own messages is scheduled
    unsentSidQueue,  \* requests never sent
    rexmitQueue,     \* timed-out requests that wait for the window
    sidToTimerMap,   \* the requests in the window (keys of the map)
    rexmitTimers,    \* the requests whose REXMIT timer is scheduled
    sidRexmitCount,  \* time-outs of a request, wherever the request is kept
    rtsid,           \* the request whose round trip is being measured
    window,          \* the congestion window, in units of 1/Scale
    SIDtoSockets,    \* colorNoCluster: SIDs with a consumer waiting
    transportOut,    \* Data on their way up from colorNoCluster to the app
    getsSent,        \* history: how many GETs were sent for a request
    delivered,       \* history: requests whose Data reached dataReceived
    aborted          \* history: requests reported by maxRexmit

app   == <<content, appTimer>>
net   == <<SIDtoSockets, transportOut>>
vars  == <<content, appTimer, unsentSidQueue, rexmitQueue, sidToTimerMap,
           rexmitTimers, sidRexmitCount, rtsid, window, SIDtoSockets,
           transportOut, getsSent, delivered, aborted>>

SID == 0 .. RequestNum - 1
PccpClCode == {"FREE", "BUSY_1", "BUSY_2", "CONGESTED"}
NoMeasurement == -1    \* rtsid_sendtime = 0

----------------------------------------------------------------------------
(* int(state.window) - sendQueue.getSentRequestCount()                     *)
EffectiveWindow(win, sent) == (win \div Scale) - Cardinality(sent)

(* How many elements one of the two loops of sendRequestsToSocket pops.    *)
Popped(eff, q) == IF eff <= 0 THEN 0 ELSE IF Len(q) <= eff THEN Len(q) ELSE eff

Front(q, n) == {q[i] : i \in 1 .. n}
Rest(q, n) == SubSeq(q, n + 1, Len(q))

(***************************************************************************)
(* The first new request sent while no round trip is being measured starts *)
(* a measurement, except at simulation time 0: a rtsid_sendtime of 0 means *)
(* that nothing is being measured.                                         *)
(***************************************************************************)
MeasurementAfter(measured, uq, j) ==
    IF measured = NoMeasurement /\ j > 0 THEN {uq[1], NoMeasurement} ELSE {measured}

(***************************************************************************)
(* sendRequestsToSocket and the requestSent it calls for every request, on *)
(* the state its caller left: time-outs first, then new requests, as long  *)
(* as the window has room. A request enters the window, its timer is       *)
(* scheduled, its GET goes down to colorNoCluster, which registers the     *)
(* consumer.                                                               *)
(***************************************************************************)
sendRequestsToSocket(sent, timers, rq, uq, win, measured) ==
    LET eff == EffectiveWindow(win, sent)
        k   == Popped(eff, rq)
        j   == Popped(eff - k, uq)
        out == Front(rq, k) \cup Front(uq, j)
    IN  /\ rexmitQueue' = Rest(rq, k)
        /\ unsentSidQueue' = Rest(uq, j)
        /\ sidToTimerMap' = sent \cup out
        /\ rexmitTimers' = timers \cup out
        /\ rtsid' \in MeasurementAfter(measured, uq, j)
        /\ SIDtoSockets' = SIDtoSockets \cup out
        /\ getsSent' = [s \in SID |-> IF s \in out THEN getsSent[s] + 1 ELSE getsSent[s]]

sendNothing(sent, timers, rq, uq, win, measured) ==
    /\ rexmitQueue' = rq
    /\ unsentSidQueue' = uq
    /\ sidToTimerMap' = sent
    /\ rexmitTimers' = timers
    /\ rtsid' = measured
    /\ UNCHANGED <<SIDtoSockets, getsSent>>

(* The window dataReceived leaves: +1/w, +0.5/w, -1/w, or halved at most   *)
(* once in srtt,                                                           *)
AdjustWindowUnclamped(w, cl, halve) ==
    CASE cl = "FREE"      -> w + ((Scale * Scale) \div w)
      [] cl = "BUSY_1"    -> w + ((Scale * Scale) \div (2 * w))
      [] cl = "BUSY_2"    -> w - ((Scale * Scale) \div w)
      [] cl = "CONGESTED" -> IF halve THEN w \div 2 ELSE w

(* and never below one request. *)
AdjustWindow(w, cl, halve) ==
    LET adjusted == AdjustWindowUnclamped(w, cl, halve)
    IN  IF ~CongestionControlEnabled THEN VeryLargeWindow * Scale
        ELSE IF adjusted < Scale THEN Scale ELSE adjusted

----------------------------------------------------------------------------
Init ==
    /\ content = 0
    /\ appTimer = "start"
    /\ unsentSidQueue = <<>>
    /\ rexmitQueue = <<>>
    /\ sidToTimerMap = {}
    /\ rexmitTimers = {}
    /\ sidRexmitCount = [s \in SID |-> 0]
    /\ rtsid = NoMeasurement
    /\ window = (IF CongestionControlEnabled THEN InitialWindowSize
                                             ELSE VeryLargeWindow) * Scale
    /\ SIDtoSockets = {}
    /\ transportOut = {}
    /\ getsSent = [s \in SID |-> 0]
    /\ delivered = {}
    /\ aborted = {}

(* PccpAlg::sendRequest *)
sendRequest(s) ==
    /\ sendRequestsToSocket(sidToTimerMap, rexmitTimers, rexmitQueue,
                            Append(unsentSidQueue, s), window, rtsid)
    /\ UNCHANGED <<sidRexmitCount, window, transportOut, delivered, aborted>>

(* The start message: the first request, and the send timer. *)
StartMessage ==
    /\ appTimer = "start"
    /\ sendRequest(content)
    /\ appTimer' = "sendGET"
    /\ UNCHANGED content

(* The send timer: the next request, or the timer stays off. *)
SendTimer ==
    /\ appTimer = "sendGET"
    /\ content < RequestNum - 1
    /\ content' = content + 1
    /\ sendRequest(content + 1)
    /\ UNCHANGED appTimer

LastSendTimer ==
    /\ appTimer = "sendGET"
    /\ content >= RequestNum - 1
    /\ appTimer' = "off"
    /\ UNCHANGED <<content, unsentSidQueue, rexmitQueue, sidToTimerMap,
                   rexmitTimers, sidRexmitCount, rtsid, window, net, getsSent,
                   delivered, aborted>>

----------------------------------------------------------------------------
(* Faulty variant: a time-out leaves the measurement running. *)
KeepMeasurement(s) == rtsid

(* A time-out ends a measurement of its own request (Karn's algorithm). *)
CancelMeasurement(s) == IF rtsid = s THEN NoMeasurement ELSE rtsid

(* Faulty variant: a time-out is not counted. *)
forgetRexmitCount(s) == sidRexmitCount

(* increaseRexmitCount *)
increaseRexmitCount(s) == [sidRexmitCount EXCEPT ![s] = @ + 1]

(* Faulty variant: the early return skips sendRequestsToSocket. *)
AbortWithoutRefill(s) ==
    /\ sidRexmitCount' = increaseRexmitCount(s)
    /\ aborted' = aborted \cup {s}
    /\ sendNothing(sidToTimerMap \ {s}, rexmitTimers \ {s}, rexmitQueue,
                   unsentSidQueue, window, CancelMeasurement(s))
    /\ UNCHANGED <<app, window, transportOut, delivered>>

(* processRexmitTimer, beyond maxRexmitLimit: discard, tell the app, and   *)
(* give the place in the window to the requests that wait.                 *)
AbortRequest(s) ==
    /\ sidRexmitCount' = increaseRexmitCount(s)
    /\ aborted' = aborted \cup {s}
    /\ sendRequestsToSocket(sidToTimerMap \ {s}, rexmitTimers \ {s}, rexmitQueue,
                            unsentSidQueue, window, CancelMeasurement(s))
    /\ UNCHANGED <<app, window, transportOut, delivered>>

(* Faulty variant: enqueueRexmit leaves the request in sidToTimerMap. *)
PostponeWithoutErase(s) ==
    /\ sidRexmitCount' = increaseRexmitCount(s)
    /\ sendNothing(sidToTimerMap, rexmitTimers \ {s}, Append(rexmitQueue, s),
                   unsentSidQueue, window, CancelMeasurement(s))
    /\ UNCHANGED <<app, window, transportOut, delivered, aborted>>

(* retransmitRequest when the window has shrunk below what is in it: the   *)
(* request leaves the window for the retransmission queue, its timer off.  *)
PostponeRetransmission(s) ==
    /\ sidRexmitCount' = increaseRexmitCount(s)
    /\ sendNothing(sidToTimerMap \ {s}, rexmitTimers \ {s}, Append(rexmitQueue, s),
                   unsentSidQueue, window, CancelMeasurement(s))
    /\ UNCHANGED <<app, window, transportOut, delivered, aborted>>

(* Faulty variant: the timer is not scheduled again. *)
RetransmitWithoutTimer(s) ==
    /\ sidRexmitCount' = increaseRexmitCount(s)
    /\ getsSent' = [getsSent EXCEPT ![s] = @ + 1]
    /\ SIDtoSockets' = SIDtoSockets \cup {s}
    /\ rtsid' = CancelMeasurement(s)
    /\ rexmitTimers' = rexmitTimers \ {s}
    /\ UNCHANGED <<app, unsentSidQueue, rexmitQueue, sidToTimerMap,
                   window, transportOut, delivered, aborted>>

(* retransmitRequest otherwise: another GET, the timer scheduled again. *)
Retransmit(s) ==
    /\ sidRexmitCount' = increaseRexmitCount(s)
    /\ getsSent' = [getsSent EXCEPT ![s] = @ + 1]
    /\ SIDtoSockets' = SIDtoSockets \cup {s}
    /\ rtsid' = CancelMeasurement(s)
    /\ UNCHANGED <<app, unsentSidQueue, rexmitQueue, sidToTimerMap, rexmitTimers,
                   window, transportOut, delivered, aborted>>

(* processRexmitTimer *)
RexmitTimer(s) ==
    /\ s \in rexmitTimers
    /\ \/ /\ increaseRexmitCount(s)[s] > MaxRexmitLimit
          /\ AbortRequest(s)
       \/ /\ increaseRexmitCount(s)[s] <= MaxRexmitLimit
          /\ EffectiveWindow(window, sidToTimerMap) < 0
          /\ PostponeRetransmission(s)
       \/ /\ increaseRexmitCount(s)[s] <= MaxRexmitLimit
          /\ EffectiveWindow(window, sidToTimerMap) >= 0
          /\ Retransmit(s)

----------------------------------------------------------------------------
(* Faulty variant: Data is sent up whether or not a consumer waits. *)
DeliverUnasked(s) ==
    /\ s \notin transportOut
    /\ SIDtoSockets' = SIDtoSockets \ {s}
    /\ transportOut' = transportOut \cup {s}
    /\ UNCHANGED <<app, unsentSidQueue, rexmitQueue, sidToTimerMap, rexmitTimers,
                   sidRexmitCount, rtsid, window, getsSent, delivered, aborted>>

(* colorNoCluster gets the (last fragment of the) Data of a SID a consumer *)
(* here waits for, forgets the consumer and sends the Data up. Data for    *)
(* which no consumer waits stays below.                                    *)
DeliverUp(s) ==
    /\ s \in SIDtoSockets \ transportOut
    /\ SIDtoSockets' = SIDtoSockets \ {s}
    /\ transportOut' = transportOut \cup {s}
    /\ UNCHANGED <<app, unsentSidQueue, rexmitQueue, sidToTimerMap, rexmitTimers,
                   sidRexmitCount, rtsid, window, getsSent, delivered, aborted>>

(* dataReceived: a measurement of this request ends, the request leaves    *)
(* the window if it is in it (not if it waits in rexmitQueue), the window  *)
(* is adjusted and filled.                                                 *)
DataReceived(s, cl, halve) ==
    /\ s \in transportOut
    /\ halve => cl = "CONGESTED"
    /\ transportOut' = transportOut \ {s}
    /\ window' = AdjustWindow(window, cl, halve)
    /\ sendRequestsToSocket(sidToTimerMap \ {s}, rexmitTimers \ {s}, rexmitQueue,
                            unsentSidQueue, window', CancelMeasurement(s))
    /\ delivered' = delivered \cup {s}
    /\ UNCHANGED <<app, sidRexmitCount, aborted>>

(* Everything asked for is settled and nothing is scheduled any more. *)
Settled ==
    /\ appTimer = "off"
    /\ sidToTimerMap = {}
    /\ unsentSidQueue = <<>>
    /\ rexmitQueue = <<>>

Done == Settled /\ UNCHANGED vars

Next ==
    \/ StartMessage
    \/ SendTimer
    \/ LastSendTimer
    \/ \E s \in SID : RexmitTimer(s)
    \/ \E s \in SID : DeliverUp(s)
    \/ \E s \in SID, cl \in PccpClCode, halve \in BOOLEAN : DataReceived(s, cl, halve)
    \/ Done

Spec == Init /\ [][Next]_vars

(***************************************************************************)
(* The simulator executes every scheduled message unless it is cancelled,  *)
(* so timers and Data on their way up are weakly fair. The network below   *)
(* is not: Data may never come.                                            *)
(***************************************************************************)
Fairness ==
    /\ WF_vars(StartMessage)
    /\ WF_vars(SendTimer)
    /\ WF_vars(LastSendTimer)
    /\ \A s \in SID : WF_vars(RexmitTimer(s))
    /\ \A s \in SID : WF_vars(\E cl \in PccpClCode, halve \in BOOLEAN :
                                  DataReceived(s, cl, halve))

FairSpec == Spec /\ Fairness

----------------------------------------------------------------------------
RangeOf(q) == {q[i] : i \in 1 .. Len(q)}
Distinct(q) == \A i, j \in 1 .. Len(q) : q[i] = q[j] => i = j

(* Types; the window never shuts out the last request (window >= 1.0). *)
TypeOK ==
    /\ content \in SID
    /\ appTimer \in {"start", "sendGET", "off"}
    /\ unsentSidQueue \in Seq(SID)
    /\ rexmitQueue \in Seq(SID)
    /\ sidToTimerMap \in SUBSET SID
    /\ rexmitTimers \in SUBSET SID
    /\ sidRexmitCount \in [SID -> Nat]
    /\ rtsid \in SID \cup {NoMeasurement}
    /\ window \in Nat /\ window >= Scale
    /\ SIDtoSockets \in SUBSET SID
    /\ transportOut \in SUBSET SID
    /\ getsSent \in [SID -> Nat]
    /\ delivered \in SUBSET SID
    /\ aborted \in SUBSET SID

(* A request is in at most one of the three containers of PccpSendQueue,   *)
(* and at most once: the window, the queue of new requests and the queue   *)
(* of time-outs never hold the same SID, so no timer is scheduled twice.   *)
OnePlace ==
    /\ Distinct(unsentSidQueue)
    /\ Distinct(rexmitQueue)
    /\ RangeOf(unsentSidQueue) \cap RangeOf(rexmitQueue) = {}
    /\ sidToTimerMap \cap (RangeOf(unsentSidQueue) \cup RangeOf(rexmitQueue)) = {}

(* Exactly the requests in the window have a REXMIT timer scheduled: none  *)
(* can wait there for an answer that was lost without ever timing out.     *)
TimerForEveryRequestInWindow == rexmitTimers = sidToTimerMap

(* Requests wait only while the window is full. As the window holds at     *)
(* least one request, and requests in it have timers, waiting requests     *)
(* always have an event to wait for: sendRequestsToSocket is called        *)
(* wherever the window gets room, although retransmitRequest takes a       *)
(* request out of the window without calling it.                           *)
NoIdleWindow ==
    (unsentSidQueue # <<>> \/ rexmitQueue # <<>>)
        => Cardinality(sidToTimerMap) >= window \div Scale

(* Every time-out is paid with one GET, whether it is sent at once or the  *)
(* request first waits for the window; the app is told maxRexmit exactly   *)
(* after the original GET and maxRexmitLimit retransmissions.              *)
GetsMatchTimeouts ==
    \A s \in SID :
        /\ s \in sidToTimerMap => getsSent[s] = sidRexmitCount[s] + 1
        /\ s \in RangeOf(rexmitQueue) => getsSent[s] = sidRexmitCount[s]
        /\ s \in aborted => getsSent[s] = MaxRexmitLimit + 1

(* Karn's algorithm: the round trip being measured is the one of a request *)
(* in the window for which exactly one GET was sent, so that Data is never *)
(* matched with the wrong transmission.                                    *)
KarnMeasurement ==
    rtsid # NoMeasurement => rtsid \in sidToTimerMap /\ getsSent[rtsid] = 1

(* A step that puts more requests into the window leaves no more of them   *)
(* than the window allows.                                                 *)
WindowRespected ==
    [][Cardinality(sidToTimerMap') > Cardinality(sidToTimerMap)
           => Cardinality(sidToTimerMap') <= window' \div Scale]_vars

(* Whatever the network loses or delays, every request the app issues is   *)
(* answered or reported as aborted, and in the end nothing is left waiting.*)
EveryRequestSettled ==
    /\ \A s \in SID : <>(s \in delivered \cup aborted)
    /\ <>[]Settled

(* What the consumer promises (RequestService): the requests issued are    *)
(* those up to content, and the GETs, answers and aborts are the histories *)
(* of this module.                                                         *)
Service == INSTANCE RequestService
    WITH Request <- SID,
         Attempts <- MaxRexmitLimit + 1,
         issued <- {s \in SID : appTimer # "start" /\ s <= content},
         gets <- getsSent,
         answered <- delivered,
         givenUp <- aborted

(* PccpAlg with its window, queues and timers implements the service: it   *)
(* never asks beyond the limit or for a request it has given up, gives up  *)
(* only when every attempt was made, and takes no answer for a request it  *)
(* never sent.                                                             *)
ImplementsService == Service!Spec
============================================================================
