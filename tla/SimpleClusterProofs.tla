------------------------ MODULE SimpleClusterProofs ------------------------
(***************************************************************************)
(* Proofs about SimpleCluster, for any set of nodes, any radio ranges, any *)
(* NIDs and all parameters. A handler changes one node by a function of    *)
(* its record, so the argument is about single records: each of the        *)
(* functions the handlers are made of keeps a record well formed.          *)
(***************************************************************************)
EXTENDS SimpleCluster, TLAPS

(* A node that has not started has done nothing. *)
Fresh(r) ==
    /\ r.state = "INI" /\ r.retryTimes = Retry
    /\ r.wait = Off /\ r.hello = Off /\ r.prehead = Off /\ r.collect = Off /\ r.retry = Off

(* A record of the right type whose timers match its state. *)
WellFormed(r) == r \in NodeRecord /\ TimersOK(r) /\ (r.start # Off => Fresh(r))

(* The inductive invariant. *)
IInv ==
    /\ \A n \in Node : WellFormed(node[n])
    /\ node \in [Node -> NodeRecord]
    /\ packets \in [Link \X PacketType -> Nat]
    /\ simTime \in 0 .. OneSecond

LEMMA Constants ==
    /\ WaitingTime \in Nat /\ WaitingTime > 0
    /\ CollectTime \in Nat /\ CollectTime > 0
    /\ Interval \in Nat /\ Interval > 0
    /\ HelloTime \in Nat /\ HelloTime > 0
    /\ NbClearInterval \in Nat /\ NbClearInterval > 0
    /\ Retry \in Nat /\ OneSecond \in Nat
BY ClusterAssumption

LEMMA Pauses ==
    /\ {"INI", "MEMBER", "GATEWAY", "PREHEAD", "HEAD"} \subseteq ClusterState
    /\ WaitingTime \in Pause(WaitingTime) /\ NbClearInterval \in Pause(NbClearInterval)
    /\ CollectTime \in Pause(CollectTime)
    /\ \A t \in 1 .. HelloTime : t \in Pause(HelloTime) /\ t # Off
    /\ \A t \in 1 .. Interval : t \in Pause(Interval) /\ t # Off
    /\ \A m \in {0, WaitingTime, NbClearInterval, CollectTime, HelloTime, Interval} : Off \in Pause(m)
    /\ WaitingTime # Off /\ NbClearInterval # Off /\ CollectTime # Off
BY Constants DEF Pause, Off, ClusterState

(* The functions, field by field. *)
LEMMA MemberFields ==
    ASSUME NEW r \in NodeRecord
    PROVE  /\ becomeMember(r) \in NodeRecord
           /\ becomeMember(r).state = "MEMBER" /\ becomeMember(r).start = r.start
           /\ becomeMember(r).wait = WaitingTime /\ becomeMember(r).hello = Off
           /\ becomeMember(r).prehead = Off /\ becomeMember(r).neighborsClear = NbClearInterval
           /\ becomeMember(r).collect = r.collect /\ becomeMember(r).retry = r.retry
BY Pauses DEF becomeMember, NodeRecord

LEMMA GatewayFields ==
    ASSUME NEW r \in NodeRecord
    PROVE  /\ becomeGateway(r) \in NodeRecord
           /\ becomeGateway(r).state = "GATEWAY" /\ becomeGateway(r).start = r.start
           /\ becomeGateway(r).wait = WaitingTime /\ becomeGateway(r).hello = Off
           /\ becomeGateway(r).prehead = r.prehead
           /\ becomeGateway(r).neighborsClear = NbClearInterval
           /\ becomeGateway(r).collect = r.collect /\ becomeGateway(r).retry = r.retry
BY Pauses DEF becomeGateway, NodeRecord

LEMMA PreheadFields ==
    ASSUME NEW r \in NodeRecord, NEW t \in 1 .. HelloTime
    PROVE  /\ becomePrehead(r, t) \in NodeRecord
           /\ becomePrehead(r, t).state = "PREHEAD" /\ becomePrehead(r, t).start = r.start
           /\ becomePrehead(r, t).wait = Off /\ becomePrehead(r, t).hello = t
           /\ becomePrehead(r, t).prehead = WaitingTime
           /\ becomePrehead(r, t).collect = r.collect /\ becomePrehead(r, t).retry = r.retry
BY Pauses DEF becomePrehead, scheduleHello, NodeRecord

LEMMA HeadFields ==
    ASSUME NEW r \in NodeRecord, NEW t \in 1 .. HelloTime
    PROVE  /\ becomeHead(r, t) \in NodeRecord
           /\ becomeHead(r, t).state = "HEAD" /\ becomeHead(r, t).start = r.start
           /\ becomeHead(r, t).wait = Off /\ becomeHead(r, t).hello = t
           /\ becomeHead(r, t).prehead = r.prehead
           /\ becomeHead(r, t).collect = r.collect /\ becomeHead(r, t).retry = r.retry
BY Pauses DEF becomeHead, scheduleHello, NodeRecord

(* The records the handlers leave. A member has neither collect nor retry, *)
LEMMA MemberWellFormed ==
    ASSUME NEW r \in NodeRecord, r.start = Off, r.collect = Off, r.retry = Off
    PROVE  WellFormed(becomeMember(r))
BY Pauses, MemberFields DEF WellFormed, TimersOK, TimersOf

LEMMA GatewayWellFormed ==
    ASSUME NEW r \in NodeRecord, r.start = Off, r.collect = Off, r.retry = Off, r.prehead = Off
    PROVE  WellFormed(becomeGateway(r))
BY Pauses, GatewayFields DEF WellFormed, TimersOK, TimersOf

(* a candidate does not wait, and a head has no candidate's timer either.  *)
LEMMA PreheadWellFormed ==
    ASSUME NEW r \in NodeRecord, NEW t \in 1 .. HelloTime,
           r.start = Off, r.collect = Off, r.retry = Off
    PROVE  WellFormed(becomePrehead(r, t))
BY Pauses, PreheadFields DEF WellFormed, TimersOK, TimersOf

LEMMA HeadWellFormed ==
    ASSUME NEW r \in NodeRecord, NEW t \in 1 .. HelloTime,
           r.start = Off, r.collect = Off, r.retry = Off, r.prehead = Off
    PROVE  WellFormed(becomeHead(r, t))
BY Pauses, HeadFields DEF WellFormed, TimersOK, TimersOf

(* Joining a first cluster, while collecting or waiting. *)
LEMMA JoinWellFormed ==
    ASSUME NEW r \in NodeRecord, r.start = Off
    PROVE  WellFormed([becomeMember(r) EXCEPT !.retry = Off, !.collect = Off])
<1>1. PICK m \in NodeRecord : m = becomeMember(r)
    BY MemberFields
<1>2. PICK x \in NodeRecord : x = [m EXCEPT !.retry = Off, !.collect = Off]
    BY Pauses DEF NodeRecord
<1>3. /\ x.state = m.state /\ x.start = m.start /\ x.wait = m.wait /\ x.hello = m.hello
      /\ x.prehead = m.prehead /\ x.neighborsClear = m.neighborsClear
      /\ x.collect = Off /\ x.retry = Off
    BY <1>2 DEF NodeRecord
<1>4. WellFormed(x)
    BY <1>1, <1>3, Pauses, MemberFields DEF WellFormed, TimersOK, TimersOf
<1> QED BY <1>1, <1>2, <1>4

LEMMA WaitFields ==
    ASSUME NEW r \in NodeRecord
    PROVE  /\ scheduleWait(r) \in NodeRecord
           /\ scheduleWait(r).state = r.state /\ scheduleWait(r).start = r.start
           /\ scheduleWait(r).wait = WaitingTime /\ scheduleWait(r).hello = r.hello
           /\ scheduleWait(r).prehead = r.prehead
           /\ scheduleWait(r).neighborsClear = r.neighborsClear
           /\ scheduleWait(r).collect = r.collect /\ scheduleWait(r).retry = r.retry
BY Pauses DEF scheduleWait, NodeRecord

(* A node that waits may start to wait anew. *)
LEMMA WaitWellFormed ==
    ASSUME NEW r, WellFormed(r), r.start = Off, r.state \in {"MEMBER", "GATEWAY"}
    PROVE  WellFormed(scheduleWait(r))
BY Pauses, WaitFields DEF WellFormed, TimersOK, TimersOf

(* What a state says about the timers. *)
LEMMA TimersByState ==
    ASSUME NEW r, WellFormed(r), r.start = Off
    PROVE  /\ r.state # "INI" => r.collect = Off /\ r.retry = Off
           /\ r.state # "PREHEAD" => r.prehead = Off
           /\ r.wait # Off => r.collect = Off /\ r.retry = Off /\ r.prehead = Off
           /\ r.prehead # Off => r.state = "PREHEAD"
           /\ r.hello # Off => r.state \in {"PREHEAD", "HEAD"}
           /\ r.collect # Off => r.state = "INI" /\ r.wait = Off /\ r.hello = Off /\ r.prehead = Off
BY DEF WellFormed, TimersOK, TimersOf, NodeRecord, ClusterState

(* processClusterPacket, CALL *)
LEMMA CallWellFormed ==
    ASSUME NEW old, WellFormed(old), old.start = Off, NEW n \in Node, NEW h \in Node
    PROVE  WellFormed(CallReceived(n, old, h))
<1>1. PICK r \in NodeRecord : r = [old EXCEPT !.clusterHeads = @ \cup {h}]
    BY DEF WellFormed, NodeRecord
<1>2. /\ r.state = old.state /\ r.start = old.start /\ r.wait = old.wait /\ r.hello = old.hello
      /\ r.prehead = old.prehead /\ r.neighborsClear = old.neighborsClear
      /\ r.collect = old.collect /\ r.retry = old.retry
    BY <1>1 DEF WellFormed, NodeRecord
<1>3. WellFormed(r)
    BY <1>2 DEF WellFormed, TimersOK, TimersOf
<1>4. r.start = Off /\ r.state \in ClusterState
    BY <1>2 DEF NodeRecord
<1>5. CASE r.state = "INI"
    BY <1>1, <1>4, <1>5, JoinWellFormed DEF CallReceived
<1>6. CASE r.state = "MEMBER"
    <2>1. WellFormed(becomeGateway(r)) /\ becomeGateway(r).start = Off /\ becomeGateway(r).state = "GATEWAY"
        BY <1>3, <1>4, <1>6, TimersByState, GatewayWellFormed, GatewayFields
    <2>2. WellFormed(scheduleWait(becomeGateway(r))) /\ WellFormed(scheduleWait(r))
        BY <1>3, <1>4, <1>6, <2>1, WaitWellFormed
    <2> QED BY <1>1, <1>6, <2>2 DEF CallReceived
<1>7. CASE r.state = "GATEWAY"
    <2>1. WellFormed(becomeMember(r)) /\ becomeMember(r).start = Off /\ becomeMember(r).state = "MEMBER"
        BY <1>3, <1>4, <1>7, TimersByState, MemberWellFormed, MemberFields
    <2>2. WellFormed(scheduleWait(becomeMember(r))) /\ WellFormed(scheduleWait(r))
        BY <1>3, <1>4, <1>7, <2>1, WaitWellFormed
    <2> QED BY <1>1, <1>7, <2>2 DEF CallReceived
<1>8. CASE r.state = "PREHEAD"
    <2>1. WellFormed(becomeMember(r))
        BY <1>3, <1>4, <1>8, TimersByState, MemberWellFormed
    <2> QED BY <1>1, <1>3, <1>8, <2>1 DEF CallReceived
<1>9. CASE r.state = "HEAD"
    BY <1>1, <1>3, <1>9 DEF CallReceived
<1> QED BY <1>4, <1>5, <1>6, <1>7, <1>8, <1>9 DEF ClusterState

----------------------------------------------------------------------------
(* A step changes one node, to a well-formed record. *)
LEMMA OneNode ==
    ASSUME IInv, NEW n \in Node, NEW x, WellFormed(x), node' = [node EXCEPT ![n] = x],
           packets' \in [Link \X PacketType -> Nat], UNCHANGED simTime
    PROVE  IInv'
<1>1. \A m \in Node : node'[m] = IF m = n THEN x ELSE node[m]
    BY DEF IInv
<1>2. node' \in [Node -> NodeRecord]
    BY DEF IInv, WellFormed
<1>3. \A m \in Node : WellFormed(node[m])
    BY DEF IInv
<1>4. ASSUME NEW m \in Node PROVE WellFormed(node'[m])
    BY <1>1, <1>3
<1>5. simTime' \in 0 .. OneSecond
    BY DEF IInv
<1> QED BY <1>2, <1>4, <1>5 DEF IInv

LEMMA PacketsType ==
    ASSUME IInv, NEW n, NEW type, NEW count \in Nat, sendCluster(n, type, count)
    PROVE  packets' \in [Link \X PacketType -> Nat]
BY DEF IInv, sendCluster

LEMMA StartStep ==
    ASSUME IInv, NEW n \in Node, Start(n)
    PROVE  IInv'
<1>1. PICK old \in NodeRecord : old = node[n]
    BY DEF IInv
<1>2. old.start = 0 /\ Fresh(old) /\ TimersOK(old)
    BY <1>1, Constants DEF Start, IInv, WellFormed, Off
<1>a. PICK r : r = [old EXCEPT !.start = Off, !.collect = CollectTime]
    OBVIOUS
<1>b. PICK t \in 1 .. Interval :
          node' = [node EXCEPT ![n] = IF Retry > 0 THEN scheduleRetry(r, t) ELSE r]
    BY <1>1, <1>a DEF Start
<1>3. /\ r = [old EXCEPT !.start = Off, !.collect = CollectTime]
      /\ node' = [node EXCEPT ![n] = IF Retry > 0 THEN scheduleRetry(r, t) ELSE r]
    BY <1>a, <1>b
<1>4. /\ r \in NodeRecord /\ r.start = Off /\ r.collect = CollectTime /\ r.state = "INI"
      /\ r.wait = Off /\ r.hello = Off /\ r.prehead = Off /\ r.retry = Off /\ r.retryTimes = Retry
    BY <1>2, <1>3, Pauses DEF NodeRecord, Fresh
<1>5. WellFormed(r)
    BY <1>4, Pauses DEF WellFormed, TimersOK, TimersOf
<1>6. ASSUME Retry > 0 PROVE WellFormed(scheduleRetry(r, t))
    <2>1. Retry - 1 \in 0 .. Retry
        BY <1>6, Constants
    <2>2. PICK x : x = scheduleRetry(r, t)
        OBVIOUS
    <2>3. x \in NodeRecord
        BY <1>4, <2>1, <2>2, Pauses DEF scheduleRetry, NodeRecord
    <2>4. /\ x.start = Off /\ x.collect = CollectTime /\ x.state = "INI"
          /\ x.wait = Off /\ x.hello = Off /\ x.prehead = Off
        BY <1>4, <2>2 DEF scheduleRetry, NodeRecord
    <2>5. WellFormed(x)
        BY <2>3, <2>4, Pauses DEF WellFormed, TimersOK, TimersOf
    <2> QED BY <2>2, <2>5
<1>7. packets' \in [Link \X PacketType -> Nat]
    BY PacketsType DEF Start
<1>8. PICK x : x = (IF Retry > 0 THEN scheduleRetry(r, t) ELSE r) /\ WellFormed(x)
    BY <1>5, <1>6
<1> QED BY <1>3, <1>7, <1>8, OneNode DEF Start

(* A retry happens while INITs are collected. *)
LEMMA RetryStep ==
    ASSUME IInv, NEW n \in Node, RetryTimer(n)
    PROVE  IInv'
<1>1. PICK old \in NodeRecord : old = node[n] /\ WellFormed(old)
    BY DEF IInv
<1>2. old.retry = 0 /\ old.retry # Off
    BY <1>1 DEF RetryTimer, Off
<1>3. old.start = Off /\ old.collect # Off
    BY <1>1, <1>2 DEF WellFormed, TimersOK, Fresh
<1>4. old.state = "INI" /\ old.wait = Off /\ old.hello = Off /\ old.prehead = Off
    BY <1>1, <1>3, TimersByState
<1>5. PICK r : r = [old EXCEPT !.retry = Off]
    OBVIOUS
<1>6. /\ r \in NodeRecord /\ r.start = Off /\ r.collect # Off /\ r.state = "INI"
      /\ r.wait = Off /\ r.hello = Off /\ r.prehead = Off /\ r.retry = Off
      /\ r.retryTimes = old.retryTimes /\ r.retryTimes \in 0 .. Retry
    BY <1>3, <1>4, <1>5, Pauses DEF NodeRecord
<1>7. WellFormed(r)
    BY <1>6, Pauses DEF WellFormed, TimersOK, TimersOf
<1>8. CASE node' = [node EXCEPT ![n] = r] /\ UNCHANGED packets
    BY <1>7, <1>8, OneNode DEF RetryTimer, IInv
<1>9. ASSUME NEW t \in 1 .. Interval, r.retryTimes > 1,
             node' = [node EXCEPT ![n] = scheduleRetry(r, t)], sendCluster(n, "INIT", 1)
      PROVE  IInv'
    <2>1. r.retryTimes - 1 \in 0 .. Retry
        BY <1>6, <1>9, Constants
    <2>2. PICK x : x = scheduleRetry(r, t)
        OBVIOUS
    <2>3. x \in NodeRecord
        BY <1>6, <2>1, <2>2, Pauses DEF scheduleRetry, NodeRecord
    <2>4. /\ x.start = Off /\ x.collect # Off /\ x.state = "INI"
          /\ x.wait = Off /\ x.hello = Off /\ x.prehead = Off
        BY <1>6, <2>2 DEF scheduleRetry, NodeRecord
    <2>5. WellFormed(x)
        BY <2>3, <2>4, Pauses DEF WellFormed, TimersOK, TimersOf
    <2>6. packets' \in [Link \X PacketType -> Nat]
        BY <1>9, PacketsType
    <2> QED BY <1>9, <2>2, <2>5, <2>6, OneNode DEF RetryTimer
<1> QED BY <1>1, <1>5, <1>8, <1>9 DEF RetryTimer

LEMMA CollectStep ==
    ASSUME IInv, NEW n \in Node, CollectTimer(n)
    PROVE  IInv'
<1>1. PICK old \in NodeRecord : old = node[n] /\ WellFormed(old)
    BY DEF IInv
<1>2. old.collect = 0 /\ old.collect # Off
    BY <1>1 DEF CollectTimer, Off
<1>3. old.start = Off
    BY <1>1, <1>2 DEF WellFormed, Fresh
<1>4. old.state = "INI" /\ old.wait = Off /\ old.hello = Off /\ old.prehead = Off
    BY <1>1, <1>2, <1>3, TimersByState
<1>5. PICK r : r = [old EXCEPT !.collect = Off, !.retry = Off]
    OBVIOUS
<1>6. /\ r \in NodeRecord /\ r.start = Off /\ r.collect = Off /\ r.state = "INI"
      /\ r.wait = Off /\ r.hello = Off /\ r.prehead = Off /\ r.retry = Off
    BY <1>3, <1>4, <1>5, Pauses DEF NodeRecord
<1>7. ASSUME NEW t \in 1 .. HelloTime, node' = [node EXCEPT ![n] = becomeHead(r, t)],
             sendCluster(n, "CALL", 1)
      PROVE  IInv'
    <2>1. WellFormed(becomeHead(r, t))
        BY <1>6, HeadWellFormed
    <2>2. packets' \in [Link \X PacketType -> Nat]
        BY <1>7, PacketsType
    <2> QED BY <1>7, <2>1, <2>2, OneNode DEF CollectTimer
<1>8. CASE node' = [node EXCEPT ![n] = scheduleWait(r)] /\ UNCHANGED packets
    <2>1. WellFormed(scheduleWait(r))
        BY <1>6, Pauses, WaitFields DEF WellFormed, TimersOK, TimersOf
    <2> QED BY <1>8, <2>1, OneNode DEF CollectTimer, IInv
<1> QED BY <1>1, <1>5, <1>7, <1>8 DEF CollectTimer

LEMMA WaitStep ==
    ASSUME IInv, NEW n \in Node, WaitTimer(n)
    PROVE  IInv'
<1>1. PICK old \in NodeRecord : old = node[n] /\ WellFormed(old)
    BY DEF IInv
<1>2. old.wait # Off
    BY <1>1 DEF WaitTimer, Off
<1>3. old.start = Off
    BY <1>1, <1>2 DEF WellFormed, Fresh
<1>4. old.collect = Off /\ old.retry = Off /\ old.prehead = Off
    BY <1>1, <1>2, <1>3, TimersByState
<1>5. PICK t \in 1 .. HelloTime :
          node' = [node EXCEPT ![n] = IF @.state = "INI" \/ simTime < OneSecond
                                      THEN becomePrehead(@, t) ELSE becomeHead(@, t)]
    BY DEF WaitTimer
<1>6. PICK x : /\ x \in {becomePrehead(old, t), becomeHead(old, t)}
               /\ node' = [node EXCEPT ![n] = x]
    BY <1>1, <1>5
<1>7. WellFormed(x)
    BY <1>3, <1>4, <1>6, PreheadWellFormed, HeadWellFormed
<1>8. packets' \in [Link \X PacketType -> Nat]
    BY PacketsType DEF WaitTimer
<1> QED BY <1>6, <1>7, <1>8, OneNode DEF WaitTimer

LEMMA PreheadStep ==
    ASSUME IInv, NEW n \in Node, PreheadTimer(n)
    PROVE  IInv'
<1>1. PICK old \in NodeRecord : old = node[n] /\ WellFormed(old)
    BY DEF IInv
<1>2. old.prehead # Off
    BY <1>1 DEF PreheadTimer, Off
<1>3. old.start = Off
    BY <1>1, <1>2 DEF WellFormed, Fresh
<1>4. old.state = "PREHEAD"
    BY <1>1, <1>2, <1>3, TimersByState
<1>5. old.collect = Off /\ old.retry = Off
    BY <1>1, <1>3, <1>4, TimersByState
<1>6. PICK r : r = [old EXCEPT !.prehead = Off]
    OBVIOUS
<1>7. r \in NodeRecord /\ r.start = Off /\ r.collect = Off /\ r.retry = Off /\ r.prehead = Off
    BY <1>3, <1>5, <1>6, Pauses DEF NodeRecord
<1>8. PICK t \in 1 .. HelloTime : node' = [node EXCEPT ![n] = becomeHead(r, t)]
    BY <1>1, <1>6 DEF PreheadTimer
<1>9. WellFormed(becomeHead(r, t))
    BY <1>7, HeadWellFormed
<1>10. packets' \in [Link \X PacketType -> Nat]
    BY PacketsType DEF PreheadTimer
<1> QED BY <1>8, <1>9, <1>10, OneNode DEF PreheadTimer

LEMMA HelloStep ==
    ASSUME IInv, NEW n \in Node, HelloTimer(n)
    PROVE  IInv'
<1>1. PICK old \in NodeRecord : old = node[n] /\ WellFormed(old)
    BY DEF IInv
<1>2. old.hello # Off
    BY <1>1 DEF HelloTimer, Off
<1>3. old.start = Off
    BY <1>1, <1>2 DEF WellFormed, Fresh
<1>4. PICK t \in 1 .. HelloTime : node' = [node EXCEPT ![n] = scheduleHello(old, t)]
    BY <1>1 DEF HelloTimer
<1>5. PICK x : x = scheduleHello(old, t)
    OBVIOUS
<1>6. /\ x \in NodeRecord /\ x.hello # Off /\ x.start = Off
      /\ x.state = old.state /\ x.wait = old.wait /\ x.prehead = old.prehead
      /\ x.neighborsClear = old.neighborsClear /\ x.collect = old.collect /\ x.retry = old.retry
    BY <1>3, <1>5, Pauses DEF scheduleHello, NodeRecord
<1>7. WellFormed(x)
    BY <1>1, <1>2, <1>3, <1>6 DEF WellFormed, TimersOK, TimersOf
<1>8. packets' \in [Link \X PacketType -> Nat]
    BY PacketsType DEF HelloTimer
<1> QED BY <1>4, <1>5, <1>7, <1>8, OneNode DEF HelloTimer

LEMMA ClearStep ==
    ASSUME IInv, NEW n \in Node, ClearTimer(n)
    PROVE  IInv'
<1>1. PICK old \in NodeRecord : old = node[n] /\ WellFormed(old)
    BY DEF IInv
<1>2. PICK x : x = [old EXCEPT !.clusterHeads = {}, !.neighborsClear = NbClearInterval]
    OBVIOUS
<1>3. node' = [node EXCEPT ![n] = x]
    BY <1>1, <1>2 DEF ClearTimer, IInv
<1>4. /\ x \in NodeRecord /\ x.neighborsClear # Off /\ x.hello = old.hello /\ x.start = old.start
      /\ x.state = old.state /\ x.wait = old.wait /\ x.prehead = old.prehead
      /\ x.collect = old.collect /\ x.retry = old.retry /\ x.retryTimes = old.retryTimes
    BY <1>2, Pauses DEF NodeRecord
<1>5. WellFormed(x)
    BY <1>1, <1>4 DEF WellFormed, TimersOK, TimersOf, Fresh
<1> QED BY <1>3, <1>5, OneNode DEF ClearTimer, IInv

LEMMA ReceiveStep ==
    ASSUME IInv, NEW p \in Link \X PacketType, Receive(p)
    PROVE  IInv'
<1>1. PICK h \in Node, n \in Node : h = p[1][1] /\ n = p[1][2]
    BY ClusterAssumption
<1>2. PICK old \in NodeRecord : old = node[n] /\ WellFormed(old) /\ old.start = Off
    BY DEF IInv, Receive, OnItsWay
<1>3. packets' \in [Link \X PacketType -> Nat]
    BY DEF IInv, Receive, OnItsWay
<1>4. PICK x : /\ x \in {InitReceived(old, h), CallReceived(n, old, h)}
               /\ node' = [node EXCEPT ![n] = x]
    BY <1>1, <1>2 DEF Receive
<1>5. WellFormed(CallReceived(n, old, h))
    BY <1>2, CallWellFormed
<1>6. WellFormed(InitReceived(old, h))
    <2>1. PICK y : y = InitReceived(old, h)
        OBVIOUS
    <2>2. Nid[h] \in Nat
        BY ClusterAssumption
    <2>3. y \in NodeRecord
        BY <2>1, <2>2 DEF InitReceived, NodeRecord
    <2>4. /\ y.neighborsClear = old.neighborsClear /\ y.hello = old.hello /\ y.start = old.start
          /\ y.state = old.state /\ y.wait = old.wait /\ y.prehead = old.prehead
          /\ y.collect = old.collect /\ y.retry = old.retry
        BY <2>1 DEF InitReceived, NodeRecord
    <2>5. WellFormed(y)
        BY <1>2, <2>3, <2>4 DEF WellFormed, TimersOK, TimersOf
    <2> QED BY <2>1, <2>5
<1>7. WellFormed(x)
    BY <1>4, <1>5, <1>6
<1> QED BY <1>3, <1>4, <1>7, OneNode DEF Receive

LEMMA LoseStep ==
    ASSUME IInv, NEW p \in Link \X PacketType, Lose(p)
    PROVE  IInv'
BY DEF IInv, Lose, OnItsWay

(* Time passes: what is scheduled stays so, as nothing was due. *)
LEMMA ElapseKeeps ==
    ASSUME NEW max \in Nat, NEW t \in Pause(max), t # 0
    PROVE  Elapse(t) \in Pause(max) /\ (Elapse(t) # Off <=> t # Off)
BY DEF Elapse, Pause, Off

LEMMA TickStep ==
    ASSUME IInv, Tick
    PROVE  IInv'
<1>1. ASSUME NEW n \in Node PROVE WellFormed(node'[n])
    <2>1. PICK old \in NodeRecord : old = node[n] /\ WellFormed(old)
        BY DEF IInv
    <2>2. PICK x : x = [old EXCEPT !.collect = Elapse(@), !.retry = Elapse(@), !.wait = Elapse(@),
                                   !.hello = Elapse(@), !.neighborsClear = Elapse(@),
                                   !.prehead = Elapse(@)]
        OBVIOUS
    <2>3. node'[n] = x
        BY <2>1, <2>2 DEF Tick
    <2>4. /\ old.start # 0 /\ old.collect # 0 /\ old.retry # 0 /\ old.wait # 0
          /\ old.hello # 0 /\ old.neighborsClear # 0 /\ old.prehead # 0
        BY <2>1 DEF Tick, Timer
    <2>5. old.start = Off
        BY <2>4 DEF NodeRecord, Pause, Off
    <2>6. /\ x.state = old.state /\ x.start = old.start /\ x.maxNeighbor = old.maxNeighbor
          /\ x.clusterHeads = old.clusterHeads /\ x.retryTimes = old.retryTimes
          /\ x.collect = Elapse(old.collect) /\ x.retry = Elapse(old.retry)
          /\ x.wait = Elapse(old.wait) /\ x.hello = Elapse(old.hello)
          /\ x.neighborsClear = Elapse(old.neighborsClear) /\ x.prehead = Elapse(old.prehead)
        BY <2>2 DEF NodeRecord
    <2>7. /\ Elapse(old.collect) \in Pause(CollectTime) /\ (Elapse(old.collect) # Off <=> old.collect # Off)
          /\ Elapse(old.retry) \in Pause(Interval) /\ (Elapse(old.retry) # Off <=> old.retry # Off)
          /\ Elapse(old.wait) \in Pause(WaitingTime) /\ (Elapse(old.wait) # Off <=> old.wait # Off)
        BY <2>4, ElapseKeeps, Constants DEF NodeRecord
    <2>8. /\ Elapse(old.hello) \in Pause(HelloTime) /\ (Elapse(old.hello) # Off <=> old.hello # Off)
          /\ Elapse(old.neighborsClear) \in Pause(NbClearInterval)
          /\ Elapse(old.neighborsClear) # Off <=> old.neighborsClear # Off
          /\ Elapse(old.prehead) \in Pause(WaitingTime) /\ (Elapse(old.prehead) # Off <=> old.prehead # Off)
        BY <2>4, ElapseKeeps, Constants DEF NodeRecord
    <2>9. x \in NodeRecord
        BY <2>2, <2>7, <2>8 DEF NodeRecord
    <2>10. TimersOf(x) = TimersOf(old)
        BY <2>6, <2>7 DEF TimersOf
    <2>11. WellFormed(x)
        BY <2>1, <2>5, <2>6, <2>7, <2>8, <2>9, <2>10 DEF WellFormed, TimersOK
    <2> QED BY <2>3, <2>11
<1>2. node' \in [Node -> NodeRecord]
    <2>1. \A n \in Node : node'[n] \in NodeRecord
        BY <1>1 DEF WellFormed
    <2>2. DOMAIN node' = Node /\ node' = [n \in Node |-> node'[n]]
        BY DEF Tick
    <2> QED BY <2>1, <2>2
<1>3. packets' \in [Link \X PacketType -> Nat] /\ simTime' \in 0 .. OneSecond
    <2>1. packets' = packets /\ packets \in [Link \X PacketType -> Nat]
        BY DEF Tick, IInv
    <2>2. simTime \in 0 .. OneSecond /\ simTime' = IF simTime < OneSecond THEN simTime + 1 ELSE simTime
        BY DEF Tick, IInv
    <2>3. simTime' \in 0 .. OneSecond
        BY <2>2, Constants
    <2> QED BY <2>1, <2>3
<1> QED BY <1>1, <1>2, <1>3 DEF IInv

LEMMA InitEstablishes == Init => IInv
<1> SUFFICES ASSUME Init PROVE IInv
    OBVIOUS
<1>1. ASSUME NEW n \in Node PROVE WellFormed(node[n])
    <2>1. PICK x : x = node[n]
        OBVIOUS
    <2>2. /\ x \in NodeRecord /\ x.state = "INI" /\ x.retryTimes = Retry /\ x.start = 0
          /\ x.wait = Off /\ x.hello = Off /\ x.prehead = Off /\ x.collect = Off /\ x.retry = Off
          /\ x.neighborsClear = Off
        <3>1. Nid[n] \in Nat /\ Retry \in 0 .. Retry /\ 0 \in Pause(0)
            BY ClusterAssumption DEF Pause, Off
        <3>2. x = [state |-> "INI", maxNeighbor |-> Nid[n], clusterHeads |-> {},
                   retryTimes |-> Retry, start |-> 0, collect |-> Off, retry |-> Off,
                   wait |-> Off, hello |-> Off, neighborsClear |-> Off, prehead |-> Off]
            BY <2>1 DEF Init
        <3> QED BY <3>1, <3>2, Pauses DEF NodeRecord
    <2>3. x.start # Off
        BY <2>2 DEF Off
    <2> QED BY <2>1, <2>2, <2>3 DEF WellFormed, TimersOK, TimersOf, Fresh
<1>2. node \in [Node -> NodeRecord]
    <2>1. \A n \in Node : node[n] \in NodeRecord
        BY <1>1 DEF WellFormed
    <2> QED BY <2>1 DEF Init
<1> QED BY <1>1, <1>2, Constants DEF IInv, Init

LEMMA StepPreserves == IInv /\ [Next]_vars => IInv'
<1> SUFFICES ASSUME IInv, [Next]_vars PROVE IInv'
    OBVIOUS
<1>1. CASE UNCHANGED vars
    BY <1>1 DEF vars, IInv
<1> QED BY <1>1, StartStep, RetryStep, CollectStep, WaitStep, PreheadStep, HelloStep, ClearStep,
           ReceiveStep, LoseStep, TickStep DEF Next

(* The invariant that carries the proofs. *)
THEOREM ClusterInvariance == Spec => []IInv
<1> QED BY InitEstablishes, StepPreserves, PTL DEF Spec

(* The records of the nodes, the packets and the time keep their types: no *)
(* timer runs past its time and retryTimes, which is unsigned, does not go *)
(* below zero.                                                             *)
THEOREM ClusterTypes == Spec => []TypeOK
<1>1. IInv => TypeOK
    BY DEF IInv, TypeOK
<1> QED BY <1>1, ClusterInvariance, PTL

(* In every state of a node the events that lead out of it are scheduled,  *)
(* and no timer is left over from an earlier state: the become... functions *)
(* of SimpleCluster cancel all that they have to.                          *)
THEOREM TimersMatch == Spec => []TimersMatchState
<1>1. IInv => TimersMatchState
    BY DEF IInv, WellFormed, TimersMatchState
<1> QED BY <1>1, ClusterInvariance, PTL
----------------------------------------------------------------------------
(***************************************************************************)
(* The roles. A candidate yields to the sender of a CALL, which may have   *)
(* yielded itself since it sent it; but it did so to a larger one. So a    *)
(* CALL on its way always has an elected node behind it whose index is at  *)
(* least that of its sender, and that node is not the one that yields.     *)
(***************************************************************************)
Elected == InState("PREHEAD") \cup InState("HEAD")

CallsBacked ==
    \A l \in Link : packets[<<l, "CALL">>] > 0 => \E h \in Elected : l[1] <= h

(* A step of the roles takes no elected node away that has no larger one. *)
LEMMA LargestStep ==
    ASSUME [Roles!Next]_(Roles!roleVars)
    PROVE  \A n \in Elected : \E h \in Elected' : n <= h
<1>1. Elected \subseteq Nat /\ Elected = Roles!elected
    BY ClusterAssumption DEF Elected, InState, Roles!elected
<1>2. Elected' = InState("PREHEAD")' \cup InState("HEAD")'
    BY DEF Elected
<1>3. CASE UNCHANGED Roles!roleVars
    BY <1>1, <1>2, <1>3 DEF Roles!roleVars, Elected
<1>4. ASSUME NEW m \in Node, Roles!becomePrehead(m) \/ Roles!becomeHead(m)
      PROVE  Elected \subseteq Elected'
    BY <1>2, <1>4 DEF Roles!becomePrehead, Roles!becomeHead, Elected
<1>5. ASSUME NEW m \in Node, Roles!becomeMember(m)
      PROVE  \A n \in Elected : \E h \in Elected' : n <= h
    <2>1. PICK g \in Elected : m < g
        BY <1>1, <1>5 DEF Roles!becomeMember
    <2>2. Elected \ {m} \subseteq Elected' /\ m \in Nat
        BY <1>2, <1>5, ClusterAssumption DEF Roles!becomeMember, Elected
    <2>3. g \in Elected' /\ m <= g
        BY <1>1, <2>1, <2>2
    <2> QED BY <1>1, <2>2, <2>3
<1>6. \A n \in Elected : n <= n
    BY <1>1
<1> QED BY <1>3, <1>4, <1>5, <1>6 DEF Roles!Next

(* What a step that changes one node does to the roles. *)
LEMMA RoleStep ==
    ASSUME IInv, NEW n \in Node, NEW old, NEW x, old = node[n], node' = [node EXCEPT ![n] = x],
           \/ x.state = old.state
           \/ {x.state, old.state} \cap {"PREHEAD", "HEAD"} = {}
           \/ x.state = "PREHEAD" /\ old.state \notin {"PREHEAD", "HEAD"}
           \/ x.state = "HEAD"
           \/ old.state = "PREHEAD" /\ x.state = "MEMBER" /\ \E h \in Elected : n < h
    PROVE  [Roles!Next]_(Roles!roleVars)
<1>1. \A m \in Node : node'[m] = IF m = n THEN x ELSE node[m]
    BY DEF IInv
<1>2. /\ InState("PREHEAD")' = (InState("PREHEAD") \ {n}) \cup (IF x.state = "PREHEAD" THEN {n} ELSE {})
      /\ InState("HEAD")' = (InState("HEAD") \ {n}) \cup (IF x.state = "HEAD" THEN {n} ELSE {})
    BY <1>1 DEF InState
<1>3. /\ n \in InState("PREHEAD") <=> old.state = "PREHEAD"
      /\ n \in InState("HEAD") <=> old.state = "HEAD"
    BY DEF InState
<1>4. CASE x.state = old.state \/ {x.state, old.state} \cap {"PREHEAD", "HEAD"} = {}
    BY <1>2, <1>3, <1>4 DEF Roles!roleVars
<1>5. CASE x.state = "PREHEAD" /\ old.state \notin {"PREHEAD", "HEAD"}
    <2>1. Roles!becomePrehead(n)
        BY <1>2, <1>3, <1>5 DEF Roles!becomePrehead, Roles!elected
    <2> QED BY <2>1 DEF Roles!Next
<1>6. CASE x.state = "HEAD" /\ old.state # "HEAD"
    <2>1. Roles!becomeHead(n)
        BY <1>2, <1>3, <1>6 DEF Roles!becomeHead
    <2> QED BY <2>1 DEF Roles!Next
<1>7. CASE old.state = "PREHEAD" /\ x.state = "MEMBER" /\ \E h \in Elected : n < h
    <2>1. Roles!becomeMember(n)
        BY <1>2, <1>3, <1>7 DEF Roles!becomeMember, Roles!elected, Elected
    <2> QED BY <2>1 DEF Roles!Next
<1> QED BY <1>4, <1>5, <1>6, <1>7

(* CALLs stay backed if new ones come from nodes that are elected. *)
LEMMA BackedStep ==
    ASSUME IInv, CallsBacked, [Roles!Next]_(Roles!roleVars),
           \A l \in Link : packets'[<<l, "CALL">>] > 0 =>
                               packets[<<l, "CALL">>] > 0 \/ l[1] \in Elected'
    PROVE  CallsBacked'
<1>1. \A n \in Elected : \E h \in Elected' : n <= h
    BY LargestStep
<1>2. Elected \subseteq Nat /\ Elected' \subseteq Nat /\ \A l \in Link : l[1] \in Nat
    BY ClusterAssumption DEF Elected, InState
<1>3. ASSUME NEW l \in Link, packets'[<<l, "CALL">>] > 0
      PROVE  \E h \in Elected' : l[1] <= h
    <2>1. CASE l[1] \in Elected'
        BY <1>2, <2>1
    <2>2. CASE packets[<<l, "CALL">>] > 0
        <3>1. PICK g \in Elected : l[1] <= g
            BY <2>2 DEF CallsBacked
        <3>2. PICK h \in Elected' : g <= h
            BY <1>1
        <3> QED BY <1>2, <3>1, <3>2
    <2> QED BY <1>3, <2>1, <2>2
<1> QED BY <1>3 DEF CallsBacked

(* An elected node sends a CALL. *)
LEMMA CallSent ==
    ASSUME IInv, NEW n \in Node, sendCluster(n, "CALL", 1), n \in Elected'
    PROVE  \A l \in Link : packets'[<<l, "CALL">>] > 0 =>
                               packets[<<l, "CALL">>] > 0 \/ l[1] \in Elected'
<1>1. \A l \in Link : packets'[<<l, "CALL">>] = IF l[1] = n THEN packets[<<l, "CALL">>] + 1
                                                           ELSE packets[<<l, "CALL">>]
    BY DEF sendCluster, PacketType
<1> QED BY <1>1

LEMMA InitSent ==
    ASSUME NEW n, NEW count, sendCluster(n, "INIT", count)
    PROVE  \A l \in Link : packets'[<<l, "CALL">>] = packets[<<l, "CALL">>]
BY DEF sendCluster, PacketType

(* A node that is elected after the step, and sends a CALL in it. *)
LEMMA ElectedCalls ==
    ASSUME IInv, CallsBacked, NEW n \in Node, NEW old, NEW x, old = node[n],
           node' = [node EXCEPT ![n] = x], sendCluster(n, "CALL", 1),
           \/ x.state \in {"PREHEAD", "HEAD"} /\ x.state = old.state
           \/ x.state = "PREHEAD" /\ old.state \notin {"PREHEAD", "HEAD"}
           \/ x.state = "HEAD"
    PROVE  [Roles!Next]_(Roles!roleVars) /\ CallsBacked'
<1>1. [Roles!Next]_(Roles!roleVars)
    BY RoleStep
<1>2. node'[n] = x
    BY DEF IInv
<1>3. n \in Elected'
    BY <1>2 DEF Elected, InState
<1> QED BY <1>1, <1>3, CallSent, BackedStep

(* A step that keeps the node's role and sends no CALL. *)
LEMMA NoCall ==
    ASSUME IInv, CallsBacked, NEW n \in Node, NEW old, NEW x, old = node[n],
           node' = [node EXCEPT ![n] = x], x.state = old.state,
           \A l \in Link : packets'[<<l, "CALL">>] > 0 => packets[<<l, "CALL">>] > 0
    PROVE  [Roles!Next]_(Roles!roleVars) /\ CallsBacked'
<1>1. [Roles!Next]_(Roles!roleVars)
    BY RoleStep
<1> QED BY <1>1, BackedStep

LEMMA CallRoles ==
    ASSUME NEW old, WellFormed(old), old.start = Off, NEW n \in Node, NEW h \in Node
    PROVE  LET x == CallReceived(n, old, h)
           IN  \/ x.state = old.state
               \/ {x.state, old.state} \cap {"PREHEAD", "HEAD"} = {}
               \/ old.state = "PREHEAD" /\ x.state = "MEMBER" /\ n < h
<1>1. PICK r \in NodeRecord : r = [old EXCEPT !.clusterHeads = @ \cup {h}]
    BY DEF WellFormed, NodeRecord
<1>2. r.state = old.state /\ r.state \in ClusterState
    BY <1>1 DEF WellFormed, NodeRecord
<1>3. /\ becomeMember(r) \in NodeRecord /\ becomeMember(r).state = "MEMBER"
      /\ becomeGateway(r) \in NodeRecord /\ becomeGateway(r).state = "GATEWAY"
    BY MemberFields, GatewayFields
<1>4. CASE r.state = "INI"
    <2>1. CallReceived(n, old, h) = [becomeMember(r) EXCEPT !.retry = Off, !.collect = Off]
        BY <1>1, <1>4 DEF CallReceived
    <2>2. CallReceived(n, old, h).state = "MEMBER"
        BY <1>3, <2>1 DEF NodeRecord
    <2> QED BY <1>2, <1>4, <2>2
<1>5. CASE r.state = "MEMBER"
    <2>1. CallReceived(n, old, h) \in {scheduleWait(becomeGateway(r)), scheduleWait(r)}
        BY <1>1, <1>5 DEF CallReceived
    <2>2. CallReceived(n, old, h).state \in {"GATEWAY", "MEMBER"}
        BY <1>3, <1>5, <2>1, WaitFields
    <2> QED BY <1>2, <1>5, <2>2
<1>6. CASE r.state = "GATEWAY"
    <2>1. CallReceived(n, old, h) \in {scheduleWait(becomeMember(r)), scheduleWait(r)}
        BY <1>1, <1>6 DEF CallReceived
    <2>2. CallReceived(n, old, h).state \in {"GATEWAY", "MEMBER"}
        BY <1>3, <1>6, <2>1, WaitFields
    <2> QED BY <1>2, <1>6, <2>2
<1>7. CASE r.state = "PREHEAD"
    <2>1. CallReceived(n, old, h) = IF n < h THEN becomeMember(r) ELSE r
        BY <1>1, <1>7 DEF CallReceived, yieldsTo
    <2> QED BY <1>2, <1>3, <1>7, <2>1
<1>8. CASE r.state = "HEAD"
    <2>1. CallReceived(n, old, h) = r
        BY <1>1, <1>8 DEF CallReceived
    <2> QED BY <1>2, <2>1
<1> QED BY <1>2, <1>4, <1>5, <1>6, <1>7, <1>8 DEF ClusterState

LEMMA RolesReceive ==
    ASSUME IInv, CallsBacked, NEW p \in Link \X PacketType, Receive(p)
    PROVE  [Roles!Next]_(Roles!roleVars) /\ CallsBacked'
<1>1. PICK l \in Link, type \in PacketType : p = <<l, type>>
    OBVIOUS
<1>2. PICK h \in Node, n \in Node : h = l[1] /\ n = l[2] /\ h = p[1][1] /\ n = p[1][2]
    BY <1>1, ClusterAssumption
<1>3. PICK old \in NodeRecord : old = node[n] /\ WellFormed(old) /\ old.start = Off
    BY DEF IInv, Receive, OnItsWay
<1>4. packets[p] > 0 /\ packets' = [packets EXCEPT ![p] = @ - 1]
    BY DEF Receive, OnItsWay
<1>5. \A k \in Link : packets'[<<k, "CALL">>] > 0 => packets[<<k, "CALL">>] > 0
    BY <1>4 DEF IInv, PacketType
<1>6. PICK x : /\ x = IF type = "INIT" THEN InitReceived(old, h) ELSE CallReceived(n, old, h)
               /\ node' = [node EXCEPT ![n] = x]
    BY <1>1, <1>2, <1>3 DEF Receive
<1>7. CASE type = "INIT"
    <2>1. x.state = old.state
        BY <1>6, <1>7 DEF InitReceived, NodeRecord
    <2> QED BY <1>3, <1>5, <1>6, <2>1, NoCall
<1>8. CASE type = "CALL"
    <2>1. PICK g \in Elected : h <= g
        BY <1>1, <1>2, <1>4, <1>8 DEF CallsBacked
    <2>2. g \in Nat /\ h \in Nat /\ n \in Nat
        BY ClusterAssumption DEF Elected, InState
    <2>3. n < h => n < g
        BY <2>1, <2>2
    <2>4. \/ x.state = old.state
          \/ {x.state, old.state} \cap {"PREHEAD", "HEAD"} = {}
          \/ old.state = "PREHEAD" /\ x.state = "MEMBER" /\ n < h
        BY <1>3, <1>6, <1>8, CallRoles
    <2>5. [Roles!Next]_(Roles!roleVars)
        BY <1>3, <1>6, <2>3, <2>4, RoleStep
    <2> QED BY <1>5, <2>5, BackedStep
<1> QED BY <1>7, <1>8 DEF PacketType

(* A node that is waiting for a CALL is not elected. *)
LEMMA RolesWait ==
    ASSUME IInv, CallsBacked, NEW n \in Node, WaitTimer(n)
    PROVE  [Roles!Next]_(Roles!roleVars) /\ CallsBacked'
<1>1. PICK old \in NodeRecord : old = node[n] /\ WellFormed(old)
    BY DEF IInv
<1>2. old.wait # Off
    BY <1>1 DEF WaitTimer, Off
<1>3. old.start = Off
    BY <1>1, <1>2 DEF WellFormed, Fresh
<1>4. old.state \notin {"PREHEAD", "HEAD"}
    BY <1>1, <1>2, <1>3 DEF WellFormed, TimersOK, TimersOf
<1>5. PICK t \in 1 .. HelloTime :
          node' = [node EXCEPT ![n] = IF @.state = "INI" \/ simTime < OneSecond
                                      THEN becomePrehead(@, t) ELSE becomeHead(@, t)]
    BY DEF WaitTimer
<1>6. PICK x : /\ x \in {becomePrehead(old, t), becomeHead(old, t)}
               /\ node' = [node EXCEPT ![n] = x]
    BY <1>1, <1>5
<1>7. x.state \in {"PREHEAD", "HEAD"}
    BY <1>6, PreheadFields, HeadFields
<1>8. sendCluster(n, "CALL", 1)
    BY DEF WaitTimer
<1> QED BY <1>1, <1>4, <1>6, <1>7, <1>8, ElectedCalls

LEMMA RolesPrehead ==
    ASSUME IInv, CallsBacked, NEW n \in Node, PreheadTimer(n)
    PROVE  [Roles!Next]_(Roles!roleVars) /\ CallsBacked'
<1>1. PICK old \in NodeRecord : old = node[n]
    BY DEF IInv
<1>2. PICK r \in NodeRecord : r = [old EXCEPT !.prehead = Off]
    BY Pauses DEF NodeRecord
<1>3. PICK t \in 1 .. HelloTime : node' = [node EXCEPT ![n] = becomeHead(r, t)]
    BY <1>1, <1>2 DEF PreheadTimer
<1>4. becomeHead(r, t).state = "HEAD"
    BY HeadFields
<1>5. sendCluster(n, "CALL", 1)
    BY DEF PreheadTimer
<1> QED BY <1>1, <1>3, <1>4, <1>5, ElectedCalls

(* Only an elected node has a hello timer. *)
LEMMA RolesHello ==
    ASSUME IInv, CallsBacked, NEW n \in Node, HelloTimer(n)
    PROVE  [Roles!Next]_(Roles!roleVars) /\ CallsBacked'
<1>1. PICK old \in NodeRecord : old = node[n] /\ WellFormed(old)
    BY DEF IInv
<1>2. old.hello # Off
    BY <1>1 DEF HelloTimer, Off
<1>3. old.start = Off
    BY <1>1, <1>2 DEF WellFormed, Fresh
<1>4. old.state \in {"PREHEAD", "HEAD"}
    BY <1>1, <1>2, <1>3, TimersByState
<1>5. PICK t \in 1 .. HelloTime : node' = [node EXCEPT ![n] = scheduleHello(old, t)]
    BY <1>1 DEF HelloTimer
<1>6. scheduleHello(old, t).state = old.state
    BY DEF scheduleHello, NodeRecord
<1>7. sendCluster(n, "CALL", 1)
    BY DEF HelloTimer
<1> QED BY <1>1, <1>4, <1>5, <1>6, <1>7, ElectedCalls

LEMMA RolesCollect ==
    ASSUME IInv, CallsBacked, NEW n \in Node, CollectTimer(n)
    PROVE  [Roles!Next]_(Roles!roleVars) /\ CallsBacked'
<1>1. PICK old \in NodeRecord : old = node[n]
    BY DEF IInv
<1>2. PICK r \in NodeRecord : r = [old EXCEPT !.collect = Off, !.retry = Off]
    BY Pauses DEF NodeRecord
<1>3. r.state = old.state
    BY <1>2 DEF NodeRecord
<1>4. ASSUME NEW t \in 1 .. HelloTime, node' = [node EXCEPT ![n] = becomeHead(r, t)],
             sendCluster(n, "CALL", 1)
      PROVE  [Roles!Next]_(Roles!roleVars) /\ CallsBacked'
    <2>1. becomeHead(r, t).state = "HEAD"
        BY HeadFields
    <2> QED BY <1>1, <1>4, <2>1, ElectedCalls
<1>5. CASE node' = [node EXCEPT ![n] = scheduleWait(r)] /\ UNCHANGED packets
    <2>1. scheduleWait(r).state = old.state
        BY <1>3, WaitFields
    <2> QED BY <1>1, <1>5, <2>1, NoCall
<1> QED BY <1>1, <1>2, <1>4, <1>5 DEF CollectTimer

(* The other steps of one node change no role and send no CALL. *)
LEMMA RolesStart ==
    ASSUME IInv, CallsBacked, NEW n \in Node, Start(n)
    PROVE  [Roles!Next]_(Roles!roleVars) /\ CallsBacked'
<1>1. PICK old \in NodeRecord : old = node[n]
    BY DEF IInv
<1>2. PICK r : r = [old EXCEPT !.start = Off, !.collect = CollectTime]
    OBVIOUS
<1>3. PICK t \in 1 .. Interval :
          node' = [node EXCEPT ![n] = IF Retry > 0 THEN scheduleRetry(r, t) ELSE r]
    BY <1>1, <1>2 DEF Start
<1>4. PICK x : x = IF Retry > 0 THEN scheduleRetry(r, t) ELSE r
    OBVIOUS
<1>5. x.state = old.state
    BY <1>2, <1>4 DEF scheduleRetry, NodeRecord
<1>6. \A l \in Link : packets'[<<l, "CALL">>] = packets[<<l, "CALL">>]
    BY InitSent DEF Start
<1> QED BY <1>1, <1>3, <1>4, <1>5, <1>6, NoCall

LEMMA RolesRetry ==
    ASSUME IInv, CallsBacked, NEW n \in Node, RetryTimer(n)
    PROVE  [Roles!Next]_(Roles!roleVars) /\ CallsBacked'
<1>1. PICK old \in NodeRecord : old = node[n]
    BY DEF IInv
<1>2. PICK r : r = [old EXCEPT !.retry = Off]
    OBVIOUS
<1>3. r.state = old.state /\ \A t \in 1 .. Interval : scheduleRetry(r, t).state = old.state
    BY <1>2 DEF scheduleRetry, NodeRecord
<1>4. \A l \in Link : packets'[<<l, "CALL">>] = packets[<<l, "CALL">>]
    BY InitSent DEF RetryTimer
<1>5. PICK x : x.state = old.state /\ node' = [node EXCEPT ![n] = x]
    BY <1>1, <1>2, <1>3 DEF RetryTimer
<1> QED BY <1>1, <1>4, <1>5, NoCall

LEMMA RolesClear ==
    ASSUME IInv, CallsBacked, NEW n \in Node, ClearTimer(n)
    PROVE  [Roles!Next]_(Roles!roleVars) /\ CallsBacked'
<1>1. PICK old \in NodeRecord : old = node[n]
    BY DEF IInv
<1>2. PICK x : x = [old EXCEPT !.clusterHeads = {}, !.neighborsClear = NbClearInterval]
    OBVIOUS
<1>3. node' = [node EXCEPT ![n] = x]
    BY <1>1, <1>2 DEF ClearTimer, IInv
<1>4. x.state = old.state
    BY <1>2 DEF NodeRecord
<1>5. packets' = packets
    BY DEF ClearTimer
<1> QED BY <1>1, <1>3, <1>4, <1>5, NoCall

LEMMA RolesTick ==
    ASSUME IInv, CallsBacked, Tick
    PROVE  [Roles!Next]_(Roles!roleVars) /\ CallsBacked'
<1>1. ASSUME NEW n \in Node PROVE node'[n].state = node[n].state
    <2>1. PICK old \in NodeRecord : old = node[n]
        BY DEF IInv
    <2>2. node'[n] = [old EXCEPT !.collect = Elapse(@), !.retry = Elapse(@), !.wait = Elapse(@),
                                 !.hello = Elapse(@), !.neighborsClear = Elapse(@),
                                 !.prehead = Elapse(@)]
        BY <2>1 DEF Tick
    <2> QED BY <2>1, <2>2 DEF NodeRecord
<1>2. UNCHANGED Roles!roleVars
    BY <1>1 DEF Roles!roleVars, InState
<1>3. packets' = packets
    BY DEF Tick
<1> QED BY <1>2, <1>3, BackedStep

LEMMA RolesNext ==
    ASSUME IInv, CallsBacked, [Next]_vars
    PROVE  [Roles!Next]_(Roles!roleVars) /\ CallsBacked'
<1>1. ASSUME node' = node, \A l \in Link : packets'[<<l, "CALL">>] > 0 => packets[<<l, "CALL">>] > 0
      PROVE  [Roles!Next]_(Roles!roleVars) /\ CallsBacked'
    <2>1. UNCHANGED Roles!roleVars
        BY <1>1 DEF Roles!roleVars, InState
    <2> QED BY <1>1, <2>1, BackedStep
<1>2. CASE UNCHANGED vars
    BY <1>1, <1>2 DEF vars
<1>3. ASSUME NEW p \in Link \X PacketType, Lose(p)
      PROVE  [Roles!Next]_(Roles!roleVars) /\ CallsBacked'
    <2>1. \A l \in Link : packets'[<<l, "CALL">>] > 0 => packets[<<l, "CALL">>] > 0
        BY <1>3 DEF Lose, OnItsWay, IInv, PacketType
    <2> QED BY <1>1, <1>3, <2>1 DEF Lose
<1> QED BY <1>2, <1>3, RolesStart, RolesRetry, RolesCollect, RolesWait, RolesPrehead, RolesHello,
           RolesClear, RolesReceive, RolesTick DEF Next

(* SimpleCluster implements ClusterRoles: whatever CALLs are lost or late, *)
(* a candidate gives up only while a larger one remains, and a head stays. *)
THEOREM RolesImplemented == Spec => ImplementsRoles
<1>1. Init => Roles!Init /\ CallsBacked
    BY DEF Init, Roles!Init, InState, CallsBacked, PacketType
<1>2. IInv /\ CallsBacked /\ [Next]_vars => [Roles!Next]_(Roles!roleVars) /\ CallsBacked'
    BY RolesNext
<1> QED BY <1>1, <1>2, ClusterInvariance, PTL DEF Spec, ImplementsRoles, Roles!Spec

(* The election never comes undone: the largest index among candidates and *)
(* heads does not decrease, so once a node has been elected, one is.       *)
THEOREM ElectionStands == Spec => Roles!LargestStays
<1>1. [Roles!Next]_(Roles!roleVars)
          => [\A n \in Roles!elected : \E h \in (Roles!elected)' : n <= h]_(Roles!roleVars)
    BY LargestStep DEF Elected, Roles!elected
<1> QED BY <1>1, RolesImplemented, PTL DEF ImplementsRoles, Roles!Spec, Roles!LargestStays

============================================================================
