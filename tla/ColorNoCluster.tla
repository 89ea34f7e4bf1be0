-------------------------- MODULE ColorNoCluster --------------------------
(***************************************************************************)
(* A network of colorNoCluster nodes. A consumer broadcasts a GET for an   *)
(* SID; nodes learn routes from what they hear, remember the GET in their  *)
(* PIT and forward it along a route or flood it after a delay; a node that *)
(* has the content sends Data back, hop by hop along the PITs, and every   *)
(* node on the way caches it.                                              *)
(*                                                                         *)
(* One action per handler. Time is abstracted: the PIT timer of an SID, a  *)
(* route's lifetime and a delayed GET may run out at any moment, and a GET *)
(* that was answered before may have been answered less than 0.1 s ago. A  *)
(* route's lifeTime is 1 while it lives and 0 once it has expired, at the  *)
(* constant time 0. Interfaces, ports, lengths and traces are left out;    *)
(* a node's NID and MAC address are one value, as a sender always puts its *)
(* NID into lastHop. MustBeFresh is never set.                             *)
(***************************************************************************)
EXTENDS RouteOps, QueueOps

CONSTANTS
    Node,
    Neighbours,     \* per node, the nodes that hear it
    Sid,
    Provider,       \* per SID, the node its NidHead names
    Consumer,       \* the nodes with an application that requests
    Stored,         \* the SIDs the providers hold before the first request
    Fragments,      \* number of packets FragmentAndStore makes of a content
    HopLimit,       \* par hopLimit
    CacheTtl,       \* the TTL of a cached copy (8 in the code)
    TC,             \* par TC
    Flood,          \* par flood
    MaxGets,        \* bound: number of GETs the applications issue
    PitExpires,     \* do PIT timers run out?
    RoutesExpire,   \* do route lifetimes run out?
    Lossy           \* does the channel lose frames?

ASSUME ColorAssumption ==
    /\ Neighbours \in [Node -> SUBSET Node]
    /\ Provider \in [Sid -> Node]
    /\ Consumer \subseteq Node
    /\ Stored \subseteq Sid
    /\ Fragments \in Nat \ {0}
    /\ HopLimit \in Nat /\ CacheTtl \in Nat /\ TC \in Nat
    /\ MaxGets \in Nat
    /\ {Flood, PitExpires, RoutesExpire, Lossy} \subseteq BOOLEAN
    /\ {"default", "nullptr"} \cap Node = {}

VARIABLES
    rt,             \* per node and destination, the routing table
    pit,            \* per node and SID, the pending GETs
    cache,          \* per node and SID, the offsets of the cached packets
    getTable,       \* per node, the (SID, requester) pairs answered so far
    delay_queue,    \* per node, the GETs waiting to be flooded
    SIDtoSockets,   \* per node, the SIDs its application waits for
    ResemBuffer,    \* per node and SID, the offsets received so far
    net,            \* the frames on the air
    gets,           \* number of GETs issued, the last nonce
    relays,         \* history: per node and SID, GETs taken on since the last time-out
    dataRelays,     \* history: per node, SID and offset, Data it relayed
    received        \* history: per node, SIDs handed to the application

tables   == <<rt, pit, cache, getTable, delay_queue>>
upper    == <<SIDtoSockets, ResemBuffer, received>>
counters == <<gets, relays, dataRelays>>
vars     == <<tables, upper, net, counters>>

Offset == 1 .. Fragments
Default == "default"    \* NID::isDefault

----------------------------------------------------------------------------
(* The routing table of a node (RouteOps) at the constant time 0.          *)
createRoute(tab, dest, hop, q) == [tab EXCEPT ![dest] = CreateEntryIn(@, 0, hop, 1, q)]
Route(tab, dest) == FoundRoute(tab[dest], 0)
LookedUp(tab, dest) == [tab EXCEPT ![dest] = AfterFind(@, 0)]

(* What a node sends: to everyone in range, or to one MAC address. *)
Broadcast(n, p) == {[to |-> m, pkt |-> p] : m \in Neighbours[n]}
Unicast(m, p) == {[to |-> m, pkt |-> p]}

(* GetHead and encapsulate *)
GetHead(n, s, route, nonce) ==
    [type |-> "Get", sid |-> s, source |-> n, lastHop |-> n, nonce |-> nonce, ttl |-> HopLimit,
     nexthop |-> IF route # NoRoute /\ ~Flood THEN route.nextHop ELSE Default]

(* FragmentAndStore: the packets of a content, in the order of their offsets. *)
FragmentAndStore == [i \in Offset |-> i]

Init ==
    /\ rt = [n \in Node |-> [d \in Node |-> <<>>]]
    /\ pit = [n \in Node |-> [s \in Sid |-> <<>>]]
    /\ cache = [n \in Node |-> [s \in Sid |->
                   IF s \in Stored /\ n = Provider[s] THEN FragmentAndStore ELSE <<>>]]
    /\ getTable = [n \in Node |-> {}]
    /\ delay_queue = [n \in Node |-> <<>>]
    /\ SIDtoSockets = [n \in Node |-> {}]
    /\ ResemBuffer = [n \in Node |-> [s \in Sid |-> {}]]
    /\ net = {}
    /\ gets = 0
    /\ relays = [n \in Node |-> [s \in Sid |-> 0]]
    /\ dataRelays = [n \in Node |-> [s \in Sid |-> [o \in Offset |-> 0]]]
    /\ received = [n \in Node |-> {}]

(* handleRequest, ColorSocketSendGetCommand: sendGET, and the consumer waits. *)
sendGET(n, s) ==
    /\ gets < MaxGets
    /\ gets' = gets + 1
    /\ rt' = [rt EXCEPT ![n] = LookedUp(@, Provider[s])]
    /\ net' = net \cup Broadcast(n, GetHead(n, s, Route(rt[n], Provider[s]), gets + 1))
    /\ SIDtoSockets' = [SIDtoSockets EXCEPT ![n] = @ \cup {s}]
    /\ UNCHANGED <<pit, cache, getTable, delay_queue, ResemBuffer, received,
                   relays, dataRelays>>

(* handleRequest, ColorSocketCacheDataCommand: the provider's content. *)
cacheData(s) ==
    /\ cache[Provider[s]][s] = <<>>
    /\ cache' = [cache EXCEPT ![Provider[s]][s] = FragmentAndStore]
    /\ UNCHANGED <<rt, pit, getTable, delay_queue, upper, net, counters>>

----------------------------------------------------------------------------
(* Faulty variant: the quality of a route is the hops behind, not those left. *)
LearnFromGetByHops(tab, g) ==
    createRoute(createRoute(tab, g.source, g.lastHop, HopLimit - g.ttl),
                g.lastHop, g.lastHop, HopLimit - g.ttl)

LearnFromGet(tab, g) ==
    createRoute(createRoute(tab, g.source, g.lastHop, g.ttl), g.lastHop, g.lastHop, g.ttl)

(* Faulty variant: the GET is not entered. *)
NoEntry(entries, g) == entries

(* createEntry, unless haveEntry finds the nonce. *)
WithEntry(entries, g) ==
    IF \E i \in 1 .. Len(entries) : entries[i].nonce = g.nonce THEN entries
    ELSE Append(entries, [nid |-> g.source, mac |-> g.lastHop, nonce |-> g.nonce])

(* Faulty variant: the TTL is not decremented. *)
RelayedForEver(n, g) == [g EXCEPT !.lastHop = n]

(* The GET a relay sends on. *)
Relayed(n, g) == [g EXCEPT !.ttl = @ - 1, !.lastHop = n]

(* Where delayQueue has the GET (SID, source and nonce). *)
have(q, g) == {i \in 1 .. Len(q) : /\ q[i].pkt.sid = g.sid
                                   /\ q[i].pkt.source = g.source
                                   /\ q[i].pkt.nonce = g.nonce}

(* check_and_decrease, or insert at a place that depends on the random     *)
(* delay; behind all the others, insert drops the packet.                  *)
Delayed(q, g) ==
    LET e == [pkt |-> g, tc |-> TC]
    IN  IF have(q, g) # {} THEN {[q EXCEPT ![i].tc = @ - 1] : i \in have(q, g)}
        ELSE InsertedLater(q, e)

(* Faulty variant: a GET is held back only by copies of itself. *)
haveCopy(n, g) == \E i \in 1 .. Len(pit[n][g.sid]) : pit[n][g.sid][i].nonce = g.nonce

(* A GET for the SID, of whichever requester, is pending at the node. *)
haveSID(n, g) == pit[n][g.sid] # <<>>

(* handleGetPacket: the hop limit is exceeded. *)
DropGet(f) ==
    /\ f.pkt.type = "Get"
    /\ f.pkt.ttl < 0
    /\ net' = net \ {f}
    /\ UNCHANGED <<tables, upper, counters>>

(***************************************************************************)
(* handleGetPacket when the content is not cached. Routes are learned and  *)
(* looked up (twice). If no GET for the SID is pending the GET is sent on  *)
(* along a route, if it is addressed to this node or to nobody, or delayed *)
(* and flooded, if there is no route and it is addressed to nobody (or     *)
(* flooding is on). In any case the GET is entered into the PIT.           *)
(***************************************************************************)
MissGet(f) ==
    LET n     == f.to
        g     == f.pkt
        s     == g.sid
        first == LookedUp(LearnFromGet(rt[n], g), Provider[s])
        route == Route(first, Provider[s])
        alone == ~haveSID(n, g)
        onRoute == alone /\ ~Flood /\ route # NoRoute /\ g.nexthop \in {n, Default}
        onAir   == alone /\ (Flood \/ (route = NoRoute /\ g.nexthop = Default))
    IN  /\ g.type = "Get"
        /\ g.ttl >= 0
        /\ cache[n][s] = <<>>
        /\ rt' = [rt EXCEPT ![n] = LookedUp(first, Provider[s])]
        /\ pit' = [pit EXCEPT ![n][s] = WithEntry(@, g)]
        /\ net' = IF onRoute
                  THEN (net \ {f}) \cup Broadcast(n, [Relayed(n, g) EXCEPT !.nexthop = route.nextHop])
                  ELSE net \ {f}
        /\ IF onAir THEN \E q \in Delayed(delay_queue[n], Relayed(n, g)) :
                             delay_queue' = [delay_queue EXCEPT ![n] = q]
           ELSE UNCHANGED delay_queue
        /\ relays' = IF onRoute \/ (onAir /\ have(delay_queue[n], g) = {})
                     THEN [relays EXCEPT ![n][s] = @ + 1] ELSE relays
        /\ UNCHANGED <<cache, getTable, upper, gets, dataRelays>>

(***************************************************************************)
(* handleGetPacket when the content is cached: the first cached packet is  *)
(* sent to the node the GET came from, unless this requester was answered  *)
(* less than 0.1 s ago. The loop over the packets breaks at the second,    *)
(* as getTable has just been set.                                          *)
(***************************************************************************)
AnswerGet(f, recent) ==
    LET n     == f.to
        g     == f.pkt
        s     == g.sid
        heard == LearnFromGet(rt[n], g)
        route == Route(heard, Provider[s])
        data  == [type |-> "Data", sid |-> s, offset |-> Head(cache[n][s]), lastHop |-> n,
                  ttl |-> IF n = Provider[s] THEN HopLimit ELSE CacheTtl,
                  comeFromSource |-> n = Provider[s] /\ Fragments = 1,
                  routeMetric |-> IF route = NoRoute THEN 0 ELSE route.linkQlt]
    IN  /\ g.type = "Get"
        /\ g.ttl >= 0
        /\ cache[n][s] # <<>>
        /\ recent => <<s, g.source>> \in getTable[n]
        /\ rt' = [rt EXCEPT ![n] = LearnFromGet(LookedUp(heard, Provider[s]), g)]
        /\ getTable' = [getTable EXCEPT ![n] = @ \cup {<<s, g.source>>}]
        /\ net' = (net \ {f}) \cup IF recent THEN {} ELSE Unicast(g.lastHop, data)
        /\ UNCHANGED <<pit, cache, delay_queue, upper, counters>>

----------------------------------------------------------------------------
LearnFromData(tab, d) ==
    LET dest == Provider[d.sid]
        neighbour == createRoute(tab, d.lastHop, d.lastHop, d.ttl)
        source == IF d.comeFromSource THEN createRoute(neighbour, dest, d.lastHop, d.ttl)
                  ELSE neighbour
    IN  IF d.routeMetric # 0 THEN createRoute(source, dest, d.lastHop, d.routeMetric) ELSE source

(* addFragment at a consumer that waits; when the content is complete it   *)
(* goes up and the consumer waits no longer.                               *)
addFragment(n, d) ==
    LET s == d.sid
        got == ResemBuffer[n][s] \cup {d.offset}
    IN  IF s \notin SIDtoSockets[n] THEN UNCHANGED upper
        ELSE IF got # Offset
             THEN /\ ResemBuffer' = [ResemBuffer EXCEPT ![n][s] = got]
                  /\ UNCHANGED <<SIDtoSockets, received>>
        ELSE /\ ResemBuffer' = [ResemBuffer EXCEPT ![n][s] = {}]
             /\ SIDtoSockets' = [SIDtoSockets EXCEPT ![n] = @ \ {s}]
             /\ received' = [received EXCEPT ![n] = @ \cup {s}]

(* hasThisPacket *)
hasThisPacket(n, d) == \E i \in 1 .. Len(cache[n][d.sid]) : cache[n][d.sid][i] = d.offset

(* Faulty variant: the packet is not stored. *)
dropPacket(tab, n, d) == tab

(* InsterPacket, into the block of the SID, which is created if needed. *)
InsterPacket(tab, n, d) == [tab EXCEPT ![n][d.sid] = Append(@, d.offset)]

(* The Data a relay sends on. *)
RelayedData(n, d) ==
    [d EXCEPT !.ttl = @ - 1, !.lastHop = n,
              !.routeMetric = IF @ # 0 THEN @ - 1 ELSE 0]

(* findRoute for the requester of each entry of the PIT, in their order. *)
AllLookedUp(tab, entries) ==
    LET after[i \in 0 .. Len(entries)] ==
            IF i = 0 THEN tab ELSE LookedUp(after[i - 1], entries[i].nid)
    IN  after[Len(entries)]

(***************************************************************************)
(* handleDataPacket. With entries in the PIT a route is looked up for each *)
(* of them, but caching the packet for the first keeps the others from     *)
(* being served; then all entries are removed.                             *)
(***************************************************************************)
handleDataPacket(f) ==
    LET n     == f.to
        d     == f.pkt
        s     == d.sid
        heard == LearnFromData(rt[n], d)
        entries == pit[n][s]
        route == Route(heard, entries[1].nid)
        next  == IF route = NoRoute THEN entries[1].mac ELSE route.nextHop
        relay == entries # <<>> /\ ~hasThisPacket(n, d)
    IN  /\ d.type = "Data"
        /\ addFragment(n, d)
        /\ rt' = [rt EXCEPT ![n] = AllLookedUp(heard, entries)]
        /\ pit' = [pit EXCEPT ![n][s] = <<>>]
        /\ cache' = IF relay THEN InsterPacket(cache, n, d) ELSE cache
        /\ net' = (net \ {f}) \cup IF relay THEN Unicast(next, RelayedData(n, d)) ELSE {}
        /\ dataRelays' = IF relay THEN [dataRelays EXCEPT ![n][s][d.offset] = @ + 1] ELSE dataRelays
        /\ UNCHANGED <<getTable, delay_queue, gets, relays>>

----------------------------------------------------------------------------
(* delayer fires: the head of the queue gets the next hop of a route, if   *)
(* there is one by now, and is flooded unless its counter is used up.      *)
Delayer(n) ==
    LET head  == Head(delay_queue[n])
        dest  == Provider[head.pkt.sid]
        route == Route(rt[n], dest)
        sent  == IF route = NoRoute THEN head.pkt ELSE [head.pkt EXCEPT !.nexthop = route.nextHop]
    IN  /\ delay_queue[n] # <<>>
        /\ delay_queue' = [delay_queue EXCEPT ![n] = Tail(@)]
        /\ rt' = [rt EXCEPT ![n] = LookedUp(@, dest)]
        /\ net' = IF head.tc < 1 THEN net ELSE net \cup Broadcast(n, sent)
        /\ UNCHANGED <<pit, cache, getTable, upper, counters>>

(* The PIT timer of an SID fires. *)
PitTimeout(n, s) ==
    /\ PitExpires
    /\ pit[n][s] # <<>>
    /\ pit' = [pit EXCEPT ![n][s] = <<>>]
    /\ relays' = [relays EXCEPT ![n][s] = 0]
    /\ UNCHANGED <<rt, cache, getTable, delay_queue, upper, net, gets, dataRelays>>

(* The lifetime of a route ends. *)
RouteExpires(n, d) ==
    /\ RoutesExpire
    /\ \E i \in 1 .. Len(rt[n][d]) :
          /\ rt[n][d][i].lifeTime = 1
          /\ rt' = [rt EXCEPT ![n][d][i].lifeTime = 0]
    /\ UNCHANGED <<pit, cache, getTable, delay_queue, upper, net, counters>>

(* The channel (external): a frame is lost on its way to one receiver. *)
Lose(f) ==
    /\ Lossy
    /\ net' = net \ {f}
    /\ UNCHANGED <<tables, upper, counters>>

Receive(f) ==
    \/ DropGet(f)
    \/ MissGet(f)
    \/ \E recent \in BOOLEAN : AnswerGet(f, recent)
    \/ handleDataPacket(f)

(* No frame is on the air and none waits to be sent. *)
Quiet == net = {} /\ \A n \in Node : delay_queue[n] = <<>>

Done == Quiet /\ UNCHANGED vars

Next ==
    \/ \E n \in Consumer, s \in Sid : sendGET(n, s)
    \/ \E s \in Sid : cacheData(s)
    \/ \E f \in net : Receive(f)
    \/ \E n \in Node : Delayer(n)
    \/ \E n \in Node, s \in Sid : PitTimeout(n, s)
    \/ \E n, d \in Node : RouteExpires(n, d)
    \/ \E f \in net : Lose(f)
    \/ Done

Spec == Init /\ [][Next]_vars

(* A frame on the air is received or lost, and scheduled events happen. A  *)
(* request need not be made, and timers of tables need not run out before  *)
(* something else happens.                                                 *)
FairSpec ==
    /\ Spec
    /\ WF_vars(\E f \in net : Receive(f) \/ Lose(f))
    /\ \A n \in Node : WF_vars(Delayer(n))

----------------------------------------------------------------------------
Get == [type : {"Get"}, sid : Sid, source : Node, lastHop : Node, nonce : 1 .. MaxGets,
        ttl : Int, nexthop : Node \cup {Default}]
Data == [type : {"Data"}, sid : Sid, offset : Offset, lastHop : Node, ttl : Int,
         comeFromSource : BOOLEAN, routeMetric : Int]

TypeOK ==
    /\ rt \in [Node -> [Node -> Seq([nextHop : Node, lifeTime : {0, 1}, linkQlt : Int])]]
    /\ pit \in [Node -> [Sid -> Seq([nid : Node, mac : Node, nonce : 1 .. MaxGets])]]
    /\ cache \in [Node -> [Sid -> Seq(Offset)]]
    /\ getTable \in [Node -> SUBSET (Sid \X Node)]
    /\ delay_queue \in [Node -> Seq([pkt : Get, tc : Int])]
    /\ SIDtoSockets \in [Node -> SUBSET Sid]
    /\ ResemBuffer \in [Node -> [Sid -> SUBSET Offset]]
    /\ net \subseteq [to : Node, pkt : Get \cup Data]
    /\ gets \in 0 .. MaxGets
    /\ relays \in [Node -> [Sid -> Nat]]
    /\ dataRelays \in [Node -> [Sid -> [Offset -> Nat]]]
    /\ received \in [Node -> SUBSET Sid]

(* A node relays a packet of Data at most once, however often GETs bring   *)
(* the PIT entry back and whichever neighbours send copies: what keeps     *)
(* Data, whose TTL nobody looks at, from circulating is the cache, as a    *)
(* node that has the content answers GETs and enters none into its PIT.    *)
DataRelayedOnce ==
    \A n \in Node, s \in Sid, o \in Offset : dataRelays[n][s][o] <= 1

(* Between two time-outs of its PIT entry a node takes on at most one GET  *)
(* for an SID, whatever consumers, nonces and paths the GETs come from,    *)
(* and although Data removes the entry before the timer does.              *)
GetsAggregated ==
    \A n \in Node, s \in Sid : relays[n][s] <= 1

(* The routes one request leaves behind lead back to its consumer: for     *)
(* every destination but a provider, following the next hops nodes would   *)
(* choose never leads around in a circle, in whatever order the copies of  *)
(* the GET and the Data reach the nodes, while nothing times out. (With    *)
(* several requests, after time-outs, and on the way to a provider whose   *)
(* content comes late, it may: README.)                                    *)
RoutesLoopFree ==
    gets <= 1 =>
        \A d \in Node \ {Provider[s] : s \in Sid} :
            \A circle \in (SUBSET (Node \ {d})) \ {{}} :
                \E n \in circle : Route(rt[n], d).nextHop \notin circle

(* With finitely many requests the network falls silent: no GET and no     *)
(* Data goes on for ever, even though PIT entries time out and let copies  *)
(* of old GETs pass again.                                                 *)
FallsSilent == <>[]Quiet

(* Where nothing is lost or times out, and the hop limit covers the ways   *)
(* the first copies take, a request for stored content is answered: PITs   *)
(* aggregate copies on two ways without cutting both of them.              *)
RequestAnswered ==
    \A n \in Consumer, s \in Sid : (s \in SIDtoSockets[n]) ~> (s \in received[n])

(* The comments in handleDataPacket: Data goes back where the GET came     *)
(* from, and one SID may have several entries in the PIT. With entries of  *)
(* two neighbours, both get the Data.                                      *)
EveryPendingGetServed ==
    [][\A f \in net : handleDataPacket(f) /\ cache' # cache
          => \A i \in 1 .. Len(pit[f.to][f.pkt.sid]) :
                \E new \in net' \ net :
                    new.to \in {pit[f.to][f.pkt.sid][i].mac,
                                Route(rt'[f.to], pit[f.to][f.pkt.sid][i].nid).nextHop}]_vars
============================================================================
