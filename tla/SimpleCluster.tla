--------------------------- MODULE SimpleCluster ---------------------------
(***************************************************************************)
(* Cluster formation: nodes exchange INIT packets, the one with the        *)
(* largest NID among its neighbours becomes a cluster head when the        *)
(* collection time is over, heads announce themselves with CALL packets,   *)
(* and a node that has not heard a CALL for a waiting time becomes a head  *)
(* itself, in the first second of the simulation by way of PREHEAD.        *)
(*                                                                         *)
(* A handler is one action, and a function from the record of the node to  *)
(* its new record. Timers hold the time that is left, so the model needs   *)
(* no absolute time except for the test "simTime() < 1". Broadcasts reach  *)
(* each neighbour, or are lost, before the next unit of time. A node that  *)
(* moves out of range is one whose packets are lost.                       *)
(***************************************************************************)
EXTENDS Integers, FiniteSets

CONSTANTS
    Node,           \* the node indices
    Link,           \* set of pairs <<sender, receiver>> within radio range
    Nid,            \* NID of a node, a hash
    WaitingTime,    \* par waitingTime, also PreHeadChange
    CollectTime,    \* par collectTime
    Interval,       \* par interval: largest pause between two INITs
    HelloTime,      \* par hello: largest pause between two CALLs
    NbClearInterval,
    Retry,          \* par retry
    OneSecond       \* the constant in simTime() < 1

ASSUME ClusterAssumption ==
    /\ Node \subseteq Nat
    /\ Link \subseteq Node \X Node
    /\ Nid \in [Node -> Nat]
    /\ {WaitingTime, CollectTime, Interval, HelloTime, NbClearInterval} \subseteq Nat \ {0}
    /\ Retry \in Nat
    /\ OneSecond \in Nat

VARIABLES
    node,       \* the state of every node
    packets,    \* how many packets of a type are on their way over a link
    simTime     \* simTime(), which matters up to OneSecond only

vars == <<node, packets, simTime>>

Off == -1       \* a timer that is not scheduled
Timer == {"start", "collect", "retry", "wait", "hello", "neighborsClear", "prehead"}
PacketType == {"INIT", "CALL"}

----------------------------------------------------------------------------
(* sendCluster: a broadcast to all nodes in range. *)
sendCluster(n, type, count) ==
    packets' = [p \in Link \X PacketType |->
                   IF p[1][1] = n /\ p[2] = type THEN packets[p] + count ELSE packets[p]]

(* Faulty variant: the time until the known heads are forgotten starts     *)
(* anew as well.                                                           *)
scheduleWaitAndClear(r) == [r EXCEPT !.wait = WaitingTime, !.neighborsClear = NbClearInterval]

(* scheduleWait *)
scheduleWait(r) == [r EXCEPT !.wait = WaitingTime]

(* scheduleHello, which also sends a CALL; t is drawn from (0, helloTime). *)
scheduleHello(r, t) == [r EXCEPT !.hello = t]

(* scheduleRetry, which also sends an INIT. *)
scheduleRetry(r, t) == [r EXCEPT !.retryTimes = @ - 1, !.retry = t]

(* Faulty variant: the node still becomes a head when the prehead timer    *)
(* that was not cancelled expires.                                         *)
becomeMemberInHope(r) ==
    [r EXCEPT !.neighborsClear = NbClearInterval, !.hello = Off,
              !.wait = WaitingTime, !.state = "MEMBER"]

becomeMember(r) ==
    [r EXCEPT !.prehead = Off, !.neighborsClear = NbClearInterval, !.hello = Off,
              !.wait = WaitingTime, !.state = "MEMBER"]

becomeGateway(r) ==
    [r EXCEPT !.neighborsClear = NbClearInterval, !.hello = Off,
              !.wait = WaitingTime, !.state = "GATEWAY"]

becomePrehead(r, t) ==
    scheduleHello([r EXCEPT !.wait = Off, !.prehead = WaitingTime, !.state = "PREHEAD"], t)

becomeHead(r, t) == scheduleHello([r EXCEPT !.wait = Off, !.state = "HEAD"], t)

(* processClusterPacket, INIT: the largest NID of the neighbourhood. *)
InitReceived(r, h) == [r EXCEPT !.maxNeighbor = IF @ < Nid[h] THEN Nid[h] ELSE @]

(* Faulty variant: two candidates in range yield to each other. *)
yieldsToAnyone(n, h) == n # h

(* Of two candidates the one with the smaller index yields. *)
yieldsTo(n, h) == n < h

(* Faulty variant: heads yield as well, and to everybody. *)
HeadsYield(n, old, h) ==
    LET r == [old EXCEPT !.clusterHeads = @ \cup {h}]
    IN  IF r.state = "INI" THEN [becomeMember(r) EXCEPT !.retry = Off, !.collect = Off]
        ELSE becomeMember(r)

(* processClusterPacket, CALL from h, by the state of node n. *)
CallReceived(n, old, h) ==
    LET r == [old EXCEPT !.clusterHeads = @ \cup {h}]
    IN  CASE r.state = "INI" ->
               [becomeMember(r) EXCEPT !.retry = Off, !.collect = Off]
          [] r.state = "MEMBER" ->
               scheduleWait(IF Cardinality(r.clusterHeads) > 1 THEN becomeGateway(r) ELSE r)
          [] r.state = "GATEWAY" ->
               scheduleWait(IF Cardinality(r.clusterHeads) = 1 THEN becomeMember(r) ELSE r)
          [] r.state = "PREHEAD" -> IF yieldsTo(n, h) THEN becomeMember(r) ELSE r
          [] r.state = "HEAD" -> r

isMax(n) == node[n].maxNeighbor = Nid[n]

----------------------------------------------------------------------------
Init ==
    /\ node = [n \in Node |->
                  [state |-> "INI", maxNeighbor |-> Nid[n], clusterHeads |-> {},
                   retryTimes |-> Retry, start |-> 0, collect |-> Off, retry |-> Off,
                   wait |-> Off, hello |-> Off, neighborsClear |-> Off, prehead |-> Off]]
    /\ packets = [p \in Link \X PacketType |-> 0]
    /\ simTime = 0

(* The start timer of simulation time 0: one INIT, another if retries are  *)
(* configured, and the collection time.                                    *)
Start(n) ==
    /\ node[n].start = 0
    /\ LET r == [node[n] EXCEPT !.start = Off, !.collect = CollectTime]
       IN  \E t \in 1 .. Interval :
              node' = [node EXCEPT ![n] = IF Retry > 0 THEN scheduleRetry(r, t) ELSE r]
    /\ sendCluster(n, "INIT", IF Retry > 0 THEN 2 ELSE 1)
    /\ UNCHANGED simTime

RetryTimer(n) ==
    /\ node[n].retry = 0
    /\ LET r == [node[n] EXCEPT !.retry = Off]
       IN  \/ /\ r.retryTimes > 1
              /\ \E t \in 1 .. Interval : node' = [node EXCEPT ![n] = scheduleRetry(r, t)]
              /\ sendCluster(n, "INIT", 1)
           \/ /\ r.retryTimes <= 1
              /\ node' = [node EXCEPT ![n] = r]
              /\ UNCHANGED packets
    /\ UNCHANGED simTime

(* The end of the collection: head, or wait for one. *)
CollectTimer(n) ==
    /\ node[n].collect = 0
    /\ LET r == [node[n] EXCEPT !.collect = Off, !.retry = Off]
       IN  \/ /\ isMax(n)
              /\ \E t \in 1 .. HelloTime : node' = [node EXCEPT ![n] = becomeHead(r, t)]
              /\ sendCluster(n, "CALL", 1)
           \/ /\ ~isMax(n)
              /\ node' = [node EXCEPT ![n] = scheduleWait(r)]
              /\ UNCHANGED packets
    /\ UNCHANGED simTime

(* No CALL for a waiting time. *)
WaitTimer(n) ==
    /\ node[n].wait = 0
    /\ \E t \in 1 .. HelloTime :
          node' = [node EXCEPT ![n] =
                      IF @.state = "INI" \/ simTime < OneSecond
                      THEN becomePrehead(@, t) ELSE becomeHead(@, t)]
    /\ sendCluster(n, "CALL", 1)
    /\ UNCHANGED simTime

PreheadTimer(n) ==
    /\ node[n].prehead = 0
    /\ \E t \in 1 .. HelloTime :
          node' = [node EXCEPT ![n] = becomeHead([@ EXCEPT !.prehead = Off], t)]
    /\ sendCluster(n, "CALL", 1)
    /\ UNCHANGED simTime

HelloTimer(n) ==
    /\ node[n].hello = 0
    /\ \E t \in 1 .. HelloTime : node' = [node EXCEPT ![n] = scheduleHello(@, t)]
    /\ sendCluster(n, "CALL", 1)
    /\ UNCHANGED simTime

ClearTimer(n) ==
    /\ node[n].neighborsClear = 0
    /\ node' = [node EXCEPT ![n].clusterHeads = {}, ![n].neighborsClear = NbClearInterval]
    /\ UNCHANGED <<packets, simTime>>

(* A packet takes some time, so it meets nodes that have started. *)
OnItsWay(p) == packets[p] > 0 /\ \A n \in Node : node[n].start = Off

Receive(p) ==
    LET h == p[1][1]
        n == p[1][2]
    IN  /\ OnItsWay(p)
        /\ packets' = [packets EXCEPT ![p] = @ - 1]
        /\ node' = [node EXCEPT ![n] = IF p[2] = "INIT" THEN InitReceived(@, h)
                                                        ELSE CallReceived(n, @, h)]
        /\ UNCHANGED simTime

Lose(p) ==
    /\ OnItsWay(p)
    /\ packets' = [packets EXCEPT ![p] = @ - 1]
    /\ UNCHANGED <<node, simTime>>

(* Time passes when nothing is due. *)
Elapse(t) == IF t = Off THEN Off ELSE t - 1

Tick ==
    /\ \A n \in Node, t \in Timer : node[n][t] # 0
    /\ \A p \in Link \X PacketType : packets[p] = 0
    /\ node' = [n \in Node |->
                   [node[n] EXCEPT !.collect = Elapse(@), !.retry = Elapse(@), !.wait = Elapse(@),
                                   !.hello = Elapse(@), !.neighborsClear = Elapse(@),
                                   !.prehead = Elapse(@)]]
    /\ simTime' = IF simTime < OneSecond THEN simTime + 1 ELSE simTime
    /\ UNCHANGED packets

Next ==
    \/ \E n \in Node : Start(n)
    \/ \E n \in Node : RetryTimer(n)
    \/ \E n \in Node : CollectTimer(n)
    \/ \E n \in Node : WaitTimer(n)
    \/ \E n \in Node : PreheadTimer(n)
    \/ \E n \in Node : HelloTimer(n)
    \/ \E n \in Node : ClearTimer(n)
    \/ \E p \in Link \X PacketType : Receive(p)
    \/ \E p \in Link \X PacketType : Lose(p)
    \/ Tick

Spec == Init /\ [][Next]_vars

(* The simulation goes on: an event that is due is executed and time       *)
(* passes. Nothing is assumed about packets, each of which may be lost.    *)
FairSpec == Spec /\ WF_vars(Next)

----------------------------------------------------------------------------
ClusterState == {"INI", "PREHEAD", "HEAD", "MEMBER", "GATEWAY"}
Pause(max) == Off .. max
NodeRecord == [state: ClusterState, maxNeighbor: Nat, clusterHeads: SUBSET Node,
               retryTimes: 0 .. Retry, start: Pause(0), collect: Pause(CollectTime),
               retry: Pause(Interval), wait: Pause(WaitingTime), hello: Pause(HelloTime),
               neighborsClear: Pause(NbClearInterval), prehead: Pause(WaitingTime)]

TypeOK ==
    /\ node \in [Node -> NodeRecord]
    /\ packets \in [Link \X PacketType -> Nat]
    /\ simTime \in 0 .. OneSecond

(* The timers a node needs in its state. *)
TimersOf(r) ==
    CASE r.state = "INI" -> IF r.collect # Off THEN {"collect"} ELSE {"wait"}
      [] r.state = "PREHEAD" -> {"prehead", "hello"}
      [] r.state = "HEAD" -> {"hello"}
      [] r.state \in {"MEMBER", "GATEWAY"} -> {"wait", "neighborsClear"}

TimersOK(r) ==
    /\ r.start = Off =>
          /\ r.wait # Off <=> "wait" \in TimersOf(r)
          /\ r.hello # Off <=> "hello" \in TimersOf(r)
          /\ r.prehead # Off <=> "prehead" \in TimersOf(r)
          /\ r.collect # Off <=> "collect" \in TimersOf(r)
    /\ "neighborsClear" \in TimersOf(r) => r.neighborsClear # Off
    /\ r.retry # Off => r.collect # Off

(* The timers a node that has started needs in its state, and no others,   *)
(* are scheduled: no state is without the event that leads out of it       *)
(* (a HEAD stays), and becomePrehead, scheduleRetry and the handler of     *)
(* collect, which schedule without cancelling first, never meet a timer    *)
(* that is already scheduled, which would be a runtime error.              *)
TimersMatchState == \A n \in Node : TimersOK(node[n])

(* The guarantee of SimpleCluster.h: in the end, and for good, every node  *)
(* is a head or in range of one, whatever packets are lost and in whatever *)
(* order candidates yield to each other.                                   *)
EveryNodeServed ==
    <>[](\A n \in Node :
            \/ node[n].state = "HEAD"
            \/ /\ node[n].state \in {"MEMBER", "GATEWAY"}
               /\ \E h \in Node : <<h, n>> \in Link /\ node[h].state = "HEAD")

(* A node that depends on heads forgets again and again the ones it knows, *)
(* so that a head that has gone does not stay known: the CALLs that turn   *)
(* members into gateways and back restart neighborsClear, but cannot put   *)
(* it off for ever.                                                        *)
HeadsForgotten ==
    \A n \in Node : []<>(\/ node[n].state \notin {"MEMBER", "GATEWAY"}
                         \/ node[n].clusterHeads = {})
----------------------------------------------------------------------------
(* The refinement mapping forgets everything but the two elected states. *)
InState(s) == {n \in Node : node[n].state = s}

Roles == INSTANCE ClusterRoles WITH prehead <- InState("PREHEAD"), head <- InState("HEAD")

(* Although candidates yield on hearing the CALL of one that may itself    *)
(* have yielded since, and CALLs are lost, repeated by hello timers and    *)
(* late, a candidate becomes a member only while a candidate or head with  *)
(* a larger index remains, and a head stays a head.                        *)
ImplementsRoles == Roles!Spec
============================================================================
