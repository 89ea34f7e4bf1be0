------------------------- MODULE ColorTwoInterface -------------------------
(***************************************************************************)
(* A network of colorTwoInterface nodes: forwarding with clusters. Every   *)
(* node has two interfaces, 5 GHz inside its cluster and 2.4 GHz between   *)
(* clusters. Only heads (and preheads) relay: a GET they cannot send along *)
(* a route they flood on both interfaces, each after a delay of its own,   *)
(* and Data goes back on the interfaces the GETs came from. A member asks  *)
(* and answers on 5 GHz and only listens on 2.4 GHz.                       *)
(*                                                                         *)
(* One action per event. Time is abstracted as in ColorNoCluster: a PIT    *)
(* timer, a route's lifetime and a delayed packet may run out at any       *)
(* moment. The first state is the one after testProvide (1 s), before the  *)
(* first testSend (2 s). lastHop is left out: where it is read it is the   *)
(* node that transmitted the frame. Of a PIT entry the interface, the      *)
(* nonce and the consumer flag are read; it is a set, as no order matters. *)
(* A node has one MAC address per interface, so a next hop is a node and   *)
(* an interface. The MAC address insert is given for a GET is not stored:  *)
(* what leaves a delay queue is broadcast. MustBeFresh is never set.       *)
(***************************************************************************)
EXTENDS RouteOps, QueueOps

CONSTANTS
    Node,
    InRange,        \* per interface and node, the nodes that hear it
    Sid,
    Provider,       \* per SID, the node that holds the content
    Consumer,       \* the nodes that request
    FirstHeads,     \* the heads there are when the requests begin
    Fragments,      \* number of packets FragmentAndStore makes of a content
    HopLimit,       \* par hopLimit
    CacheTtl,       \* the TTL of a cached copy (8 in the code)
    TC,             \* par TC
    Flood,          \* par flood
    MaxGets,        \* bound: number of GETs the consumers issue
    Electable,      \* the members that may become preheads and heads meanwhile
    MaxFaults       \* bound: number of lost frames and of PIT and route time-outs

Nic == {24, 5}

ASSUME TwoInterfaceAssumption ==
    /\ InRange \in [Nic -> [Node -> SUBSET Node]]
    /\ Provider \in [Sid -> Node]
    /\ Consumer \subseteq Node /\ FirstHeads \subseteq Node /\ Electable \subseteq Node
    /\ Fragments \in Nat \ {0}
    /\ HopLimit \in Nat /\ CacheTtl \in Nat /\ TC \in Nat
    /\ MaxGets \in Nat /\ MaxFaults \in Nat
    /\ Flood \in BOOLEAN
    /\ "default" \notin Node

VARIABLES
    rt,             \* per node and destination, the routing table
    pit,            \* per node and SID, the pending GETs
    cache,          \* per node and SID, the offsets of the cached packets
    delay_queue,    \* per node and interface, the packets that wait (delay_queue24, _5)
    ResemBuffer,    \* per node and SID, the offsets received so far
    prehead, head,  \* the nodes the cluster module calls so
    net,            \* the frames on the air
    gets,           \* number of GETs issued, the last nonce
    faults,         \* number of frames lost and of time-outs so far
    relays,         \* history: per node and SID, GETs taken on since the last time-out
    dataRelays,     \* history: per node, SID and offset, Data it relayed
    received        \* history: per node, SIDs received as a whole

roles   == <<prehead, head>>
upper   == <<ResemBuffer, received>>
history == <<relays, dataRelays>>
counts  == <<gets, faults>>
vars    == <<rt, pit, cache, delay_queue, upper, roles, net, counts, history>>

Offset == 1 .. Fragments
Default == "default"    \* NID::isDefault

isHead(n) == n \in head \cup prehead

----------------------------------------------------------------------------
(* The routing table of a node (RouteOps) at the constant time 0. *)
createRoute(tab, dest, hop, q) == [tab EXCEPT ![dest] = CreateEntryIn(@, 0, hop, 1, q)]
HasRoute(tab, dest) == Scanned(tab[dest], 0) > 0
Route(tab, dest) == FoundRoute(tab[dest], 0).nextHop
LookedUp(tab, dest) == [tab EXCEPT ![dest] = AfterFind(@, 0)]

(* Faulty variant: the GET is not entered. *)
NoEntry(entries, nic, nonce, own) == entries

(* createEntry, unless the nonce is there already. *)
WithEntry(entries, nic, nonce, own) ==
    IF \E e \in entries : e.nonce = nonce THEN entries
    ELSE entries \cup {[nic |-> nic, nonce |-> nonce, consumer |-> own]}

(* sendDatagramToOutput, to everyone in range or to one address. *)
Broadcast(n, nic, p) == {[from |-> n, to |-> m, nic |-> nic, pkt |-> p] : m \in InRange[nic][n]}
Unicast(n, m, nic, p) == {[from |-> n, to |-> m, nic |-> nic, pkt |-> p]}

----------------------------------------------------------------------------
(* The delay queues. *)

(* What check_and_decrease looks for: a GET by SID, source and nonce, Data *)
(* by its SID.                                                             *)
have(q, p) == {i \in 1 .. Len(q) :
                  /\ q[i].pkt.type = p.type
                  /\ q[i].pkt.sid = p.sid
                  /\ p.type = "Get" => q[i].pkt.source = p.source /\ q[i].pkt.nonce = p.nonce}

HeardAgain(q, p) == IF have(q, p) = {} THEN q ELSE [q EXCEPT ![FirstOf(have(q, p))].tc = @ - 1]

pendPkt(p, tc) == [pkt |-> p, tc |-> tc]

(* Faulty variant: the scan stops at the first packet that is not due yet. *)
InsertedIfAlone(q, e) == IF q = <<>> THEN <<e>> ELSE q

(* insert of a packet that is due at once: in front of all others. *)
InsertedNow(q, e) == <<e>> \o q

(* check_and_decrease, and insert if it finds nothing. *)
Delayed(q, e) == IF have(q, e.pkt) = {} THEN InsertedLater(q, e) ELSE {HeardAgain(q, e.pkt)}

----------------------------------------------------------------------------
(* GetHead *)
GetHead(n, s, nonce) ==
    [type |-> "Get", sid |-> s, source |-> n, nonce |-> nonce, ttl |-> HopLimit,
     nexthop |-> IF HasRoute(rt[n], Provider[s]) /\ ~Flood
                 THEN Route(rt[n], Provider[s]).node ELSE Default]

(* FragmentAndStore: the packets of a content, in the order of their offsets. *)
FragmentAndStore == [i \in Offset |-> i]

Init ==
    /\ rt = [n \in Node |-> [d \in Node |-> <<>>]]
    /\ pit = [n \in Node |-> [s \in Sid |-> {}]]
    /\ cache = [n \in Node |-> [s \in Sid |-> IF n = Provider[s] THEN FragmentAndStore ELSE <<>>]]
    /\ delay_queue = [n \in Node |-> [i \in Nic |-> <<>>]]
    /\ ResemBuffer = [n \in Node |-> [s \in Sid |-> {}]]
    /\ prehead = {} /\ head = FirstHeads
    /\ net = {}
    /\ gets = 0 /\ faults = 0
    /\ relays = [n \in Node |-> [s \in Sid |-> 0]]
    /\ dataRelays = [n \in Node |-> [s \in Sid |-> [o \in Offset |-> 0]]]
    /\ received = [n \in Node |-> {}]

(* testSend: an own entry with nonce 0, and the GET on 5 GHz; a head sends *)
(* it on 2.4 GHz too (its second entry has the nonce of the first).        *)
testSend(n, s) ==
    LET get == GetHead(n, s, gets + 1)
        nics == IF isHead(n) THEN Nic ELSE {5}
    IN  /\ gets < MaxGets
        /\ gets' = gets + 1
        /\ rt' = [rt EXCEPT ![n] = LookedUp(@, Provider[s])]
        /\ pit' = [pit EXCEPT ![n][s] = WithEntry(@, IF isHead(n) THEN 24 ELSE 5, 0, TRUE)]
        /\ net' = net \cup UNION {Broadcast(n, i, get) : i \in nics}
        /\ UNCHANGED <<cache, delay_queue, upper, roles, faults, history>>

----------------------------------------------------------------------------
(* handleGetPacket *)

(* Routes are learned on 5 GHz, and by heads on 2.4 GHz too. *)
LearnFromGet(n, f) ==
    LET hop    == [node |-> f.from, nic |-> f.nic]
        source == createRoute(rt[n], f.pkt.source, hop, f.pkt.ttl)
    IN  IF f.nic = 5 THEN source
        ELSE IF isHead(n) THEN createRoute(source, f.from, hop, f.pkt.ttl)
        ELSE rt[n]

(* The GET a head sends on. *)
Relayed(g, hop) == [g EXCEPT !.ttl = @ - 1, !.nexthop = hop]

(* A GET whose content is not cached, and what the node knows of the way. *)
Misses(f) == f.pkt.type = "Get" /\ f.pkt.ttl >= 1 /\ cache[f.to][f.pkt.sid] = <<>>
Knows(f) == HasRoute(LearnFromGet(f.to, f), Provider[f.pkt.sid])

(* A head with a route, and no GET for the SID pending, takes on a GET     *)
(* that is addressed to it or to nobody,                                   *)
SendsOn(f) ==
    /\ isHead(f.to)
    /\ Knows(f) /\ ~Flood
    /\ pit[f.to][f.pkt.sid] = {}
    /\ f.pkt.nexthop \in {f.to, Default}

(* and without one it probes the path for a GET addressed to nobody. *)
Probes(f) ==
    /\ isHead(f.to)
    /\ ~SendsOn(f)
    /\ Flood \/ (~Knows(f) /\ f.pkt.nexthop = Default)

DropGet(f) ==
    /\ f.pkt.type = "Get"
    /\ f.pkt.ttl < 1
    /\ net' = net \ {f}
    /\ UNCHANGED <<rt, pit, cache, delay_queue, upper, roles, counts, history>>

Learned(f) ==
    /\ rt' = [rt EXCEPT ![f.to] = LookedUp(LearnFromGet(f.to, f), Provider[f.pkt.sid])]
    /\ net' = net \ {f}

(* The GET is neither taken on nor entered into the PIT. *)
IgnoreGet(f) ==
    /\ Misses(f)
    /\ ~SendsOn(f) /\ ~Probes(f)
    /\ Learned(f)
    /\ UNCHANGED <<pit, cache, delay_queue, upper, roles, counts, history>>

ForwardGet(f) ==
    LET n == f.to
        s == f.pkt.sid
        hop == Route(LearnFromGet(n, f), Provider[s])
    IN  /\ Misses(f)
        /\ SendsOn(f)
        /\ Learned(f)
        /\ pit' = [pit EXCEPT ![n][s] = WithEntry(@, f.nic, f.pkt.nonce, FALSE)]
        /\ delay_queue' = [delay_queue EXCEPT ![n][hop.nic] =
                              InsertedNow(@, pendPkt(Relayed(f.pkt, hop.node), 1))]
        /\ relays' = [relays EXCEPT ![n][s] = @ + 1]
        /\ UNCHANGED <<cache, upper, roles, counts, dataRelays>>

(* The GET is flooded on both interfaces unless one for the SID is pending. *)
ProbeGet(f) ==
    LET n == f.to
        s == f.pkt.sid
        e == pendPkt(Relayed(f.pkt, f.pkt.nexthop), TC)
    IN  /\ Misses(f)
        /\ Probes(f)
        /\ Learned(f)
        /\ pit' = [pit EXCEPT ![n][s] = WithEntry(@, f.nic, f.pkt.nonce, FALSE)]
        /\ \/ /\ pit[n][s] = {}
              /\ \E q24 \in Delayed(delay_queue[n][24], e), q5 \in InsertedLater(delay_queue[n][5], e) :
                    delay_queue' = [delay_queue EXCEPT ![n][24] = q24, ![n][5] = q5]
              /\ relays' = [relays EXCEPT ![n][s] = @ + 1]
           \/ /\ pit[n][s] # {}
              /\ delay_queue' = [delay_queue EXCEPT ![n][24] = HeardAgain(@, e.pkt)]
              /\ UNCHANGED relays
        /\ UNCHANGED <<cache, upper, roles, counts, dataRelays>>

(* A packet of the cache: of the content itself, or a copy. *)
CachedData(n, s, o) ==
    [type |-> "Data", sid |-> s, offset |-> o,
     ttl |-> IF n = Provider[s] THEN HopLimit ELSE CacheTtl,
     comeFromSource |-> n = Provider[s] /\ Fragments = 1]

(* A head answers where it was asked. A member, if it may be meant,        *)
(* answers on 5 GHz: a GET heard on 2.4 GHz by a broadcast.                *)
Answer(n, f, p) ==
    IF isHead(n) THEN Broadcast(n, f.nic, p)
    ELSE IF f.pkt.nexthop \notin {n, Default} THEN {}
    ELSE IF f.nic = 24 THEN Broadcast(n, 5, p)
    ELSE Unicast(n, f.from, 5, p)

(* The content is cached: all its packets are sent, and the GET entered. *)
AnswerGet(f) ==
    LET n == f.to
        s == f.pkt.sid
    IN  /\ f.pkt.type = "Get"
        /\ f.pkt.ttl >= 1
        /\ cache[n][s] # <<>>
        /\ rt' = [rt EXCEPT ![n] = LearnFromGet(n, f)]
        /\ pit' = [pit EXCEPT ![n][s] = WithEntry(@, f.nic, f.pkt.nonce, FALSE)]
        /\ net' = (net \ {f}) \cup UNION {Answer(n, f, CachedData(n, s, cache[n][s][i])) :
                                             i \in 1 .. Len(cache[n][s])}
        /\ UNCHANGED <<cache, delay_queue, upper, roles, counts, history>>

----------------------------------------------------------------------------
(* handleDataPacket *)

(* A consumer adds the packet to what it has and gives up its own entries, *)
(* whether or not the content is complete.                                 *)
OwnEntries(n, s) == {e \in pit[n][s] : e.consumer}

addFragment(n, d) ==
    LET s   == d.sid
        got == ResemBuffer[n][s] \cup {d.offset}
    IN  IF OwnEntries(n, s) = {} THEN UNCHANGED upper
        ELSE /\ ResemBuffer' = [ResemBuffer EXCEPT ![n][s] = IF got = Offset THEN {} ELSE got]
             /\ received' = IF got = Offset THEN [received EXCEPT ![n] = @ \cup {s}] ELSE received

LearnFromData(n, f) ==
    LET hop    == [node |-> f.from, nic |-> f.nic]
        source == createRoute(rt[n], Provider[f.pkt.sid], hop, f.pkt.ttl)
    IN  IF ~f.pkt.comeFromSource THEN rt[n]
        ELSE IF f.nic = 5 THEN source
        ELSE IF isHead(n) THEN createRoute(source, f.from, hop, f.pkt.ttl)
        ELSE rt[n]

hasThisPacket(n, d) == \E i \in 1 .. Len(cache[n][d.sid]) : cache[n][d.sid][i] = d.offset

(* Faulty variant: the packet is not stored. *)
dropPacket(tab, n, d) == tab

(* InsterPacket, into the block of the SID, which is created if needed. *)
InsterPacket(tab, n, d) == [tab EXCEPT ![n][d.sid] = Append(@, d.offset)]

(* The Data a head sends on. *)
RelayedData(d) == [d EXCEPT !.ttl = @ - 1]

(* Data goes where the entries came from: delayed on 2.4 GHz, at once on 5 GHz. *)
Queued(queues, entries, d) ==
    LET q24 == IF \E e \in entries : e.nic = 24
               THEN Delayed(queues[24], pendPkt(RelayedData(d), TC)) ELSE {queues[24]}
        q5  == IF \E e \in entries : e.nic = 5
               THEN InsertedNow(queues[5], pendPkt(RelayedData(d), 5)) ELSE queues[5]
    IN  {[queues EXCEPT ![24] = q, ![5] = q5] : q \in q24}

(* The entries left pending once the consumer's own are removed. *)
Others(f) == pit[f.to][f.pkt.sid] \ OwnEntries(f.to, f.pkt.sid)

(* The packet reached its last hop, or it is not for this node to relay. *)
KeepData(f) ==
    LET n == f.to
        d == f.pkt
    IN  /\ d.type = "Data"
        /\ d.ttl < 1 \/ Others(f) = {} \/ ~isHead(n) \/ hasThisPacket(n, d)
        /\ addFragment(n, d)
        /\ rt' = IF d.ttl < 1 THEN rt ELSE [rt EXCEPT ![n] = LearnFromData(n, f)]
        /\ pit' = [pit EXCEPT ![n][d.sid] = Others(f)]
        /\ net' = net \ {f}
        /\ UNCHANGED <<cache, delay_queue, roles, counts, history>>

(* A head caches and relays it, and all entries are served. *)
RelayData(f) ==
    LET n == f.to
        d == f.pkt
    IN  /\ d.type = "Data"
        /\ d.ttl >= 1
        /\ Others(f) # {}
        /\ isHead(n)
        /\ ~hasThisPacket(n, d)
        /\ addFragment(n, d)
        /\ rt' = [rt EXCEPT ![n] = LearnFromData(n, f)]
        /\ cache' = InsterPacket(cache, n, d)
        /\ \E queues \in Queued(delay_queue[n], Others(f), d) :
              delay_queue' = [delay_queue EXCEPT ![n] = queues]
        /\ pit' = [pit EXCEPT ![n][d.sid] = {}]
        /\ net' = net \ {f}
        /\ dataRelays' = [dataRelays EXCEPT ![n][d.sid][d.offset] = @ + 1]
        /\ UNCHANGED <<roles, counts, relays>>

----------------------------------------------------------------------------

(* delayer24 or delayer5 fires: the head of the queue is broadcast unless  *)
(* its counter is used up.                                                 *)
Delayer(n, nic) ==
    /\ delay_queue[n][nic] # <<>>
    /\ delay_queue' = [delay_queue EXCEPT ![n][nic] = Tail(@)]
    /\ LET e == Head(delay_queue[n][nic])
       IN  net' = IF e.tc < 1 THEN net ELSE net \cup Broadcast(n, nic, e.pkt)
    /\ UNCHANGED <<rt, pit, cache, upper, roles, counts, history>>

(* What may go wrong, now and then. *)
Fault == faults < MaxFaults /\ faults' = faults + 1

(* The PIT timer of an SID fires. *)
PitTimeout(n, s) ==
    /\ Fault
    /\ pit[n][s] # {}
    /\ pit' = [pit EXCEPT ![n][s] = {}]
    /\ relays' = [relays EXCEPT ![n][s] = 0]
    /\ UNCHANGED <<rt, cache, delay_queue, upper, roles, net, gets, dataRelays>>

(* The lifetime of a route ends. *)
RouteExpires(n, d) ==
    /\ Fault
    /\ \E i \in 1 .. Len(rt[n][d]) :
          /\ rt[n][d][i].lifeTime = 1
          /\ rt' = [rt EXCEPT ![n][d][i].lifeTime = 0]
    /\ UNCHANGED <<pit, cache, delay_queue, upper, roles, net, gets, history>>

(* The channel (external): a frame is lost on its way to one receiver. *)
Lose(f) ==
    /\ Fault
    /\ net' = net \ {f}
    /\ UNCHANGED <<rt, pit, cache, delay_queue, upper, roles, gets, history>>

(* SimpleCluster meanwhile: heads stay, preheads may yield to another one. *)
(* Elections may happen at any time, also after those of the code are over *)
(* (by 1.5 s with the default parameters, before the first GET).           *)
becomePrehead(n) ==
    /\ ~isHead(n)
    /\ prehead' = prehead \cup {n}
    /\ UNCHANGED <<rt, pit, cache, delay_queue, upper, head, net, counts, history>>

becomeHead(n) ==
    /\ n \notin head
    /\ head' = head \cup {n}
    /\ prehead' = prehead \ {n}
    /\ UNCHANGED <<rt, pit, cache, delay_queue, upper, net, counts, history>>

becomeMember(n) ==
    /\ n \in prehead
    /\ prehead' = prehead \ {n}
    /\ UNCHANGED <<rt, pit, cache, delay_queue, upper, head, net, counts, history>>

Receive(f) ==
    \/ DropGet(f)
    \/ IgnoreGet(f)
    \/ ForwardGet(f)
    \/ ProbeGet(f)
    \/ AnswerGet(f)
    \/ KeepData(f)
    \/ RelayData(f)

Role(n) == becomePrehead(n) \/ becomeHead(n) \/ becomeMember(n)

(* No frame is on the air and none waits to be sent. *)
Quiet == net = {} /\ \A n \in Node, i \in Nic : delay_queue[n][i] = <<>>

Done == Quiet /\ UNCHANGED vars

Next ==
    \/ \E n \in Consumer, s \in Sid : testSend(n, s)
    \/ \E f \in net : Receive(f)
    \/ \E n \in Node, i \in Nic : Delayer(n, i)
    \/ \E n \in Node, s \in Sid : PitTimeout(n, s)
    \/ \E n, d \in Node : RouteExpires(n, d)
    \/ \E f \in net : Lose(f)
    \/ \E n \in Electable : Role(n)
    \/ Done

Spec == Init /\ [][Next]_vars

(* A frame on the air is received or lost, and scheduled events happen. *)
FairSpec ==
    /\ Spec
    /\ WF_vars(\E f \in net : Receive(f) \/ Lose(f))
    /\ \A n \in Node, i \in Nic : WF_vars(Delayer(n, i))

----------------------------------------------------------------------------
Get == [type : {"Get"}, sid : Sid, source : Node, nonce : 1 .. MaxGets,
        ttl : 0 .. HopLimit, nexthop : Node \cup {Default}]
Data == [type : {"Data"}, sid : Sid, offset : Offset, ttl : Nat, comeFromSource : BOOLEAN]
PITentry == [nic : Nic, nonce : 0 .. MaxGets, consumer : BOOLEAN]

TypeOK ==
    /\ rt \in [Node -> [Node -> Seq([nextHop : [node : Node, nic : Nic], lifeTime : {0, 1},
                                     linkQlt : Nat])]]
    /\ pit \in [Node -> [Sid -> SUBSET PITentry]]
    /\ cache \in [Node -> [Sid -> Seq(Offset)]]
    /\ delay_queue \in [Node -> [Nic -> Seq([pkt : Get \cup Data, tc : Int])]]
    /\ ResemBuffer \in [Node -> [Sid -> SUBSET Offset]]
    /\ prehead \subseteq Node \ head /\ head \subseteq Node
    /\ net \subseteq [from : Node, to : Node, nic : Nic, pkt : Get \cup Data]
    /\ gets \in 0 .. MaxGets /\ faults \in 0 .. MaxFaults
    /\ relays \in [Node -> [Sid -> Nat]]
    /\ dataRelays \in [Node -> [Sid -> [Offset -> Nat]]]
    /\ received \in [Node -> SUBSET Sid]

(* A node relays a packet of Data at most once, even if it is elected or   *)
(* yields in between, is a consumer itself, or hears its own Data again on *)
(* the other interface.                                                    *)
DataRelayedOnce ==
    \A n \in Node, s \in Sid, o \in Offset : dataRelays[n][s][o] <= 1

(* Between two time-outs of its PIT entry a node takes on at most one GET  *)
(* for an SID, although a GET reaches it over two interfaces and Data for  *)
(* the node itself removes some of the entries and not others.             *)
GetsAggregated ==
    \A n \in Node, s \in Sid : relays[n][s] <= 1

(* The comment in handleGetPacket: members "only listen and do not send"   *)
(* on 2.4 GHz. Every frame put on the air there comes from a head or a     *)
(* prehead, whether it is sent at once or after a delay.                   *)
MembersListenOnly ==
    [][\A f \in net' \ net : f.nic = 24 => isHead(f.from)]_vars

(* With finitely many requests the network falls silent, although heads    *)
(* flood on two interfaces and hear each other's copies.                   *)
FallsSilent == <>[]Quiet

(* Where nothing is lost or times out, a consumer gets the content of its  *)
(* cluster, whatever is elected meanwhile and in whichever order copies of *)
(* the GET come back from the neighbouring clusters.                       *)
RequestAnswered ==
    \A n \in Consumer, s \in Sid : (OwnEntries(n, s) # {}) ~> (s \in received[n] \/ faults > 0)
============================================================================
