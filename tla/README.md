# A TLA+ model of the Color/PCCP extensions of INET

The repository is the INET 4 framework for OMNeT++ with an information-centric
network layer (*Color*) and a congestion control for it (*PCCP*) added to it. INET itself
is vendored and left aside; this project models what the repository adds. Paths
below are relative to `src/inet4/src/inet/`.

## 1. The system

A consumer application asks for a content by its SID. The network layer of its node
broadcasts a GET; nodes that hear it learn a route back, remember the GET in their
pending GET table (PIT) and send it on along a route or flood it after a random delay.
A node that has the content in its cache answers with Data, which travels back hop
by hop along the PITs and is cached on its way. Queues on the way mark Data with a
congestion level; the consumer adjusts its window by it and retransmits on time-out.

| component | state | operations | talks to |
|---|---|---|---|
| PCCP consumer: `applications/pccpapp/` `PccpApp`, `PccpAlg`, `PccpSendQueue`, `PccpStateVariables` | requests waiting, in the window, waiting for retransmission; one timer per request in the window; time-out counts; window, RTO, round trip being measured | start and send timer, `sendRequest`, `processRexmitTimer`, `dataReceived`, `sendRequestsToSocket` | sends commands to the network layer through `ColorSocket`; Data come back as messages |
| Forwarding: `networklayer/icn/color/ColorNoCluster` | getTable, sockets, who waits for which SID; owns the delay queue and the fragment buffer | `sendGET`, `cacheData`, `handleGetPacket`, `handleDataPacket`, the delayer | calls the tables; sends and receives frames |
| Routing table: `icn/routingTable/colorRoutingTable` | per destination, entries with next hop, lifetime, quality | `CreateEntry`, `findRoute` (erases), `removeEntry` | called by forwarding |
| PIT: `icn/pendingTable/colorPendingGetTable` | per SID, entries and one timer | `createEntry`, two `RemoveEntry`, `SetServed`, timer | called by forwarding |
| Delay queue: `icn/delayQueue` | list of packets with send time and counter; one timer | `insert`, `check_and_decrease`, `popAtFront` | called by forwarding |
| Cache: `icn/cacheTable` | per SID, the packets | `CachePacket`, `CreateBlock`, `hasThisPacket` | called by forwarding |
| Fragment buffer: `icn/color/ColorFragBuf` | per SID, the ranges received | `addFragment` | called by forwarding |
| Provider: `pccpapp/PccpProvider` | none to speak of | caches content at its start | commands to the network layer |
| Congestion indicator: `queueing/filter/PccpIndicator` | averaged lengths of queue and PIT, `q_time` | sets the level in passing Data | in front of the queue of the MAC layer |
| Forwarding with clusters: `icn/color/colorTwoInterface.cc` (and its predecessor `color.cc`) | the same tables, two interfaces with a delay queue each | as above, by role | calls the tables; asks `SimpleCluster` for its role |
| Clusters: `icn/cluster/SimpleCluster` | role, heads known, seven timers | INIT and CALL packets, election | forwarding with clusters |
| Others: `applications/Fap`, `applications/ICNapp`, `routing/aodv_cluster`, `mobility/droneGroup` | | | |

What makes it hard:

- *Concurrency.* OMNeT++ runs one event handler at a time, so inside a handler nothing
  interleaves. Between handlers everything does: frames of several nodes, timers of
  four kinds and requests of applications meet in any order.
- *Shared tables.* Handlers read and write the same tables; `handleDataPacket` tests the cache
  it fills, `findRoute` erases while it looks, all entries of an SID share one timer.
- *Loss and time.* Frames are lost or come over two paths; a retransmission races a
  late answer; lifetimes run out between a decision and its use.
- *Roles that change.* Heads are elected while requests are under way; candidates yield to each
  other on packets any of which may be lost, and a role read before a delay is stale after it.
- *Boundaries.* A real-valued window used as an integer, a hop limit that is compared
  with `<`, a rate limit that is hit by the loop that sets it.

`PROJECT.json` lists the hazards with their lines and the properties that cover them.

What correct means, per component:

- PCCP: every request ends answered or aborted, none is lost between the containers, none waits
  while the window has room, round trips are measured only where Data can be matched.
- Routing table: lookups give live routes, the best ones sooner or later; refreshing is
  safe; routes of different nodes do not lead in a circle.
- PIT: entries go away in the end but not early; a GET is entered once.
- Delay queue: every packet is sent in time or suppressed, exactly once.
- Forwarding: a request is answered if the network allows it; GETs are aggregated; Data is
  not relayed twice; traffic dies out.
- Clusters: every node is a head or served by one; forwarding by clusters keeps members silent on
  the interface between clusters.
- Congestion indicator: the index is a fraction; a full queue is signalled, though not by a burst,
  and forgotten when it has drained.

## 2. Modules

| module | models | uses |
|---|---|---|
| `RequestService` | what a consumer promises: abstract specification | |
| `Pccp` | PCCP consumer, durations left open | implements `RequestService` |
| `PccpTimed` | PCCP consumer with clock, RTO and back-off | extends `Pccp` and implements it |
| `PccpIndicator` | the congestion indicator | |
| `RouteOps` | what the routing table does to the entries of one destination, as operators | |
| `ColorRoutingTable` | the routing table with a clock | `RouteOps` |
| `QueueOps` | where `insert` may put a packet, for those who do not know the send times | |
| `WaitingGets` | the delay queue without time: abstract specification | `QueueOps` |
| `DelayQueue` | the delay queue with a clock | implements `WaitingGets` |
| `PendingGets` | the PIT without time: abstract specification | |
| `PendingGetTable` | the PIT with a clock | implements `PendingGets` |
| `ColorNoCluster` | a network of nodes: forwarding composed with the tables | `RouteOps`, `QueueOps` |
| `ClusterRoles` | what the election promises those who ask for roles: abstract specification | |
| `SimpleCluster` | the election of cluster heads in a network of nodes | implements `ClusterRoles` |
| `ColorTwoInterface` | a network of nodes with roles and two interfaces: forwarding composed with the tables and the roles | `RouteOps`, `QueueOps` |
| `MC*` | topologies, model values for TLC | the module |
| `*Proofs` | theorems | the module |

Operators whose comment begins with *Faulty variant* are not part of any specification.
Each is the form of the definition after it with a plausible mistake in it; they show
that a property notices the mistake.

### Pccp

`unsentSidQueue`, `rexmitQueue` are the two queues of `PccpSendQueue`; `sidToTimerMap` is
the key set of its map (the requests in the window) and `rexmitTimers` says which of the timers
are scheduled. `SIDtoSockets` and `transportOut` are the part of the network layer
the consumer meets: who waits, and Data on its way up. An action is an event: the start
message (`StartMessage`), the send timer (`SendTimer`, `LastSendTimer`), a retransmission timer
(`RexmitTimer`: abort, postpone or retransmit), a Data message (`DataReceived`).
`sendRequestsToSocket` takes the state its caller has made so far as parameters, as the
code calls it at the end of handlers that have already changed the containers.

The double `window` is kept in units of `1/Scale` and every adjustment is rounded down.
With `Scale = 2` the window takes two steps per request, enough for
the window to fall below what is in flight and to grow again. (At a coarse scale an increment
by `1/w` may round to 0 for large `w`; no property depends on it growing.) Durations are
abstracted: a scheduled timer fires at any moment, and "halved less than srtt
ago" is a choice. `PccpAssumption` asks for an initial window of at least one: with the
parameter 0 no request would ever be sent, and nothing in the code checks it.

`RequestService` says what of this a user sees. Its variables are the requests issued, the GETs
sent for each, and which were answered and given up; `Service` in `Pccp` instantiates it with
`content`, `getsSent`, `delivered` and `aborted`. A step of the service may ask for any number of
requests along with what it does, because every handler ends with `sendRequestsToSocket`.
An answered request may be asked for again: that is what the code does when Data meets its
request in `rexmitQueue`, and a stricter service would not be implemented.

### PccpTimed

Every handler is `Pccp`'s, conjoined with what it does to the variables that hold times: when a
timer is due (`expiry`), the smoothed round trip `srtt` and its deviation `rttvar`, the RTO, when it
was doubled and when the window was halved. A timer fires exactly when it is due, and the
choices `Pccp` leaves open (is a measurement started, is the window halved) are decided by the
clock. Times are whole numbers of one unit; the gain of 1/8 does not divide them, so an estimate
moves to either of the two neighbouring values. That makes the model independent of how
`simtime_t` rounds, and allows a few more values than the code has. `rtsid_sendtime` 0 stands for
"no measurement", as in the code, and the clock starts at 0.

### PccpIndicator

`queueLength` is the length of the queue behind the filter. `DataPasses` is `matchesPacket` for a
packet with a `PitInd` and `pushOrSendPacket`, `GetPasses` the same for one without. The link takes
packets from the queue without telling the filter (`Transmit`). `idle` is the time since `q_time`
in the unit of the exponent in the code, 0.5 ms. Doubles are multiples of `1/Unit`, rounded
down. Of the three algorithms the run uses `"PCCP"`. Left out are an unknown algorithm, which leaves
the index as it is, and frames other than 802.11, which `setPccpCl` does not mark.

### RouteOps and ColorRoutingTable

The multimap keeps the entries of a destination in insertion order, so they are a
sequence. `CreateEntryIn` is the loop of `CreateEntry`: it ends at the first entry with the same
next hop or of at least the same quality. `FoundRoute` is what `findRoute` returns and
`AfterFind` what it leaves: the loop ends at the first expired entry, which it erases.
A transmitter's NID and MAC always come together and are one value.

### DelayQueue

`priQueue` is the list, `timer` the time `delayer` is scheduled for. `insert` has three
cases, the third (behind all others) being that nothing happens. `heard` and `sent` are
history variables. The random delay is any element of `Delay`.

`WaitingGets` is the same queue without send times and timer: a new packet is put at any place
`InsertedLater` allows, and the head goes at any moment. It is the queue `ColorNoCluster` has at
every node (`Delayed` is built from the same operator); `DelayQueue` implements it.

### PendingGetTable

`table[s]` is the set of entries of an SID and `timer[s]` its one timer. `ForwardGet` is the call of
`createEntry` in both forwarding modules; `OwnRequest`, `ServeFromCache` and `RemoveConsumer` are
`colorTwoInterface`'s. `since` is history.

`PendingGets` is the table without lifetimes, timers and served marks, as the networks have it: the
entries of an SID may run out at any moment, but all together. `PendingGetTable` implements it, which
depends on the one timer per SID.

### ColorNoCluster

State per node: `rt`, `pit`, `cache`, `getTable`, `delay_queue`, `SIDtoSockets`, `ResemBuffer`; and
`net`, the frames on the air, one per receiver. `MissGet` and `AnswerGet` are the two halves
of `handleGetPacket`, `DropGet` its early return, `handleDataPacket` the handler of that name.
A broadcast puts a frame for every neighbour on the air; each is received on its own, in any
order, or lost. What is abstracted:

- Time. A PIT timer, a route's lifetime, a delayed GET may run out at any moment. A
  route's `lifeTime` is 1 or 0 (live or expired) at the constant time 0. "Answered less than
  0.1 s ago" is a choice once a requester was answered, except within one loop, where
  no time passes.
- `net` is a set: two identical frames to one receiver (which only a GET sent twice by the
  same node with the same TTL could be) count as one.
- NID and MAC address of a node are one value; there is one interface (as in the
  code) and one port per node. MustBeFresh is never set by the code.
- Byte ranges: a content is `Fragments` packets with offsets 1, 2, ...

### SimpleCluster

A node is a record: its state, the largest NID heard, the heads known, the retries left and, for
each of its timers, the time that is left. Handlers are functions on such records, as the code
composes them (`becomeMember` calls `scheduleWait`, and so on), and `Receive`, `Start` and one action
per timer apply them. `packets` counts, per link and type, packets on their way; each is
received or lost before time passes. Random pauses are any number of units up to the
parameter. Absolute time matters only for the test `simTime() < 1` and is not counted beyond. Not
modelled: authentication by RSA, the set `neighbors` (which is only written to the output), the
recording of cluster sizes, stop and crash.

`ClusterRoles` says what of this the forwarding may rely on: a node becomes a candidate or a head
at any time, a head stays one, and a candidate gives up only while a candidate or head with a larger
index remains. `Roles` in `SimpleCluster` instantiates it with the nodes in states PREHEAD and HEAD.
That it is implemented is not obvious: a candidate yields to the sender of a CALL, and when the CALL
arrives its sender may be a member again.

### ColorTwoInterface

State per node as in `ColorNoCluster`, with a delay queue for each interface and the roles `prehead`
and `head`. `handleGetPacket` is split into its outcomes: `DropGet` (hop limit), `IgnoreGet`
(a member, or a GET that is not for this node), `ForwardGet` (a head with a route), `ProbeGet` (a head
without), `AnswerGet` (content in the cache). `handleDataPacket` is `KeepData` or `RelayData`.
`testSend` is the consumer: in this module the test messages are the application.
`Delayer` is the timer of one of the queues. Differences from `ColorNoCluster`, all from the code:
only heads relay; a consumer has an entry of its own in the PIT, removed at the first Data;
all the cached packets are returned; GETs and Data both go through the delay queues. Time is
abstracted as in `ColorNoCluster`. `Role` is what `SimpleCluster` does to the roles meanwhile: a
prehead becomes a head or yields. (A head stays one: `SimpleCluster` has no step from HEAD.) It
allows all that `ClusterRoles` does and more, as a candidate may yield to any node, also one outside
the network that is modelled.

## 3. Runs

State counts are distinct states. Type invariants, and three invariants that are the plainest of
their modules (`WindowRespected`, `NoStaleRoute`, `QueuedOnce`), are proved for every
instance and have no run (in `PccpIndicator`, `IndexBounded` bounds the averages and the index).

| run | instance | what it shows |
|---|---|---|
| `pccp` (38,963) | 3 requests, window 3, one retransmission | containers disjoint, timers for exactly the window, no idle window, GETs = time-outs + 1, Karn; every request settled, whatever Data the network withholds; `RequestService` implemented |
| `pccp_timed` (989,943) | 3 requests, window 2, RTO from 2 to 4 units, clock to 8 | estimates in range, measurements from the right GET, requests given up neither early nor late |
| `indicator` (60,012) | queue of 2, PIT of 0, 1 or 8, weight 1/8 | index between 0 and 1, levels rise step by step, congestion signalled and forgotten |
| `routing` (2,446) | 3 neighbours, 3 qualities, 2 lifetimes, 3 ticks | order of entries, progressing lookups, no route shortened; expired entries are erased while lookups go on |
| `delay` (165,108) | 3 GETs, delays 1 to 3, TC 2, up to 3 copies | timer at head, order, suppression; every packet is popped |
| `pit` (3,751) | 2 nodes, 2 nonces and the own request, lifetimes 1 and 2, 4 ticks | timer for entries, forwarded GETs have their time; entries go away; `PendingGets` implemented |
| `color_diamond` (78,815) | c and p with r and x between, which hear each other; one request | Data relayed once, routes without circles; the request is answered |
| `color_silent` (395,216) | c and p, which hear each other; two requests, of one or of both; p's content comes late; flooding, loss, PIT and route expiry | GETs aggregated; traffic dies out |
| `color_served` | two consumers behind a relay | violated, see below |
| `two` (128,487) | member, head and provider of a cluster; two requests; the provider may be elected and yield; one loss or time-out | Data relayed once, GETs aggregated; traffic dies out, a request without faults is answered |
| `two_listen` | the same, the relay may be elected and yield | violated, see below |
| `cluster` (614,173) | 3 nodes in a row, every packet may be lost | timers match the state; every node is served in the end, heads are forgotten again and again; `ClusterRoles` implemented |

*Why the bounds are enough.* Three requests are needed for the window to shrink below what
is in flight while one is postponed and another waits unsent. Three next hops with three
qualities give an expired entry in front of, between and behind live ones. Three packets give an
insertion in front, in the middle and behind. Two lifetimes, the longer one of the own
request, are what the shared timer mixes up. In the networks two
ways between two nodes, two consumers behind a relay, and two nodes that relay for each other are the
patterns from which larger ones are made; `HopLimit` 1 or 2 lets a GET cross them and run out inside
them. In `color_silent` two GETs with two nonces, each also coming back to its consumer, meet in the
PIT of every node, and a hop limit of 2 lets a copy come back to a node that has relayed it and whose
PIT entry has timed out meanwhile. With two GETs and all the faults a third node is beyond what TLC
finishes in minutes; the theorem `GetsAggregatedHolds` covers every topology.
In `pccp_timed` the horizon is twice the largest RTO, enough for a request to be
retransmitted and given up while others are measured; `InitialRttvar` 1 starts where the estimates
have come down, so that the RTO meets both its bounds. In `indicator` a longer PIT than the capacity
makes the limit in the index matter, and a decay over a longer time is several
steps of two units. In `cluster` a row of three is the smallest network in which the elected head
does not reach everyone and a node hears two heads, so that all five states and all seven timers
occur; waiting, collection and hello times are 1 or 2 units so that timers meet at one instant.
In `two` a member, a head and a provider heard on both interfaces give every branch of the two
handlers; two requests let the second meet the routes and the cache of the first.
The clocks stop at `MaxTime`, the time limit of a simulation; an entry is made only if its timer
is due within it, so that nothing is left over at the end by the bound alone.

*Fairness.* The simulator executes every scheduled message unless it is cancelled: timers and
messages between modules are weakly fair, and so is the clock. Nothing is assumed of the network in
`Pccp` (Data may never come) and nothing of the applications anywhere. In `ColorNoCluster` a
frame on the air is received or lost. `RequestAnswered` is checked where the channel loses
nothing and timers outlast the exchange: these are assumptions on the environment, not facts
about the code, and the property says what the forwarding logic contributes. It also depends on
a hop limit that detours do not use up: a node enters whichever copy of a GET comes first, also
one that came round over its own sender, and ignores the shorter ones that follow. With a
triangle in front of the provider and a hop limit of 2 such a detour leaves a request unanswered.
`ExpiredAreErased` assumes that lookups of the destination go on.
`SimpleCluster` assumes only that the simulation goes on (`WF_vars(Next)`: an event that is due is
executed, and time passes); every packet may be lost. `PccpIndicator` assumes that Data keep
passing and time keeps going, and that not all Data pass at the very instant another packet
has passed: without that the exponent of the decay would always be 0. That is an assumption on
traffic. `ColorTwoInterface` assumes that a frame is received or lost and that delay timers fire; its
`RequestAnswered` speaks only of behaviours without a fault. `PccpTimed` states safety only.

### Disagreements between code and comments

Two have a run in which TLC shows them; `PROJECT.json` quotes both sides.

- `color_served`: of several pending GETs only the first is served.
- `two_listen`: a prehead that has a GET waiting in `delay_queue24` and yields sends it on 2.4 GHz as
  a member. No test of the role is made when the delay is over. `Role` lets elections happen at any
  time. In the code a node becomes a prehead only out of INI or before 1 s (`SimpleCluster.cc:390`): with
  the default parameters preheads are over at 1.5 s, with those of the shipped examples at 1.2 s, and
  the first GET is sent at 2.1 s or later (`colorTwoInterface.cc:90`). So the disagreement shows only with
  longer collecting or waiting times. For the passing runs and the theorems allowing more elections
  makes the result stronger.

Others can be read off the models directly and have no run:

- `findRoute` stops at the first expired entry and may return nothing although a live
  route stands behind it (`Scanned`); the comment at `colorRoutingTable.cc:84` says the best route
  is returned. `LookupProgress` says what remains true: such a lookup shortens the table.
- `delayQueue::insert` drops a packet due after all others (`insert`); with one packet waiting it
  takes only a second one with a longer delay. `delayQueue.h:59` says the packet is inserted.
- A GET addressed to a node without a route is neither forwarded nor flooded (`MissGet`), while
  its PIT entry holds back those that follow; the comment at `ColorNoCluster.cc:562` says the path
  must be probed.
- Of several packets of a content `colorNoCluster` returns only the first (`AnswerGet`), because the
  rate limit is hit by the loop that sets it; the comment at `ColorNoCluster.cc:619` says all are.
- Data that comes while a request waits in the retransmission queue does not take it out, and it
  is sent again (`DataReceived` leaves `rexmitQueue` alone; the TODO at `PccpAlg.cc:175` knows this).
- `CreateEntry` does not refresh an entry behind one at least as good as the packet
  (`CreateEntryIn`), though the comment at `colorRoutingTable.cc:46` says it checks for an identical
  entry first.
- Entries of an SID share one timer, so a forwarded GET cuts an own request short;
  `colorPendingGetTable.h:33` speaks of a timer for every record.
- Served entries are not deleted on insertion, as the comment at `colorPendingGetTable.cc:105` says.
- A GET with TTL 0 is handled, while the comment at `ColorNoCluster.cc:504` says it is dropped.
- Copies of a waiting GET are never counted: the PIT entry made with it hides the delay
  queue (the branch at `ColorNoCluster.cc:580` is dead). In `DelayQueue` suppression works; the
  composition never reaches it.

With clusters and two interfaces:

- Data for 2.4 GHz gets a random delay and is dropped when it is due after the GETs that wait in
  `delay_queue24` (`InsertedLater`), yet its PIT entries are removed: a requester over 2.4 GHz may stay
  unanswered. On 5 GHz Data is due at once and goes in front. `RequestAnswered` is therefore
  about a consumer on 5 GHz.
- A GET that comes while another one for the SID is pending, and a route is known, is neither
  entered nor relayed (`IgnoreGet`), so its sender is served only if it hears the broadcast.
- `check_and_decrease` finds Data by its SID, so the second packet of a content is dropped while the
  first waits; and a consumer gives up its entry at the first packet, so contents of several packets
  are not completed. The run uses one packet.
- Every copy of a GET is answered from the cache, also when `createEntry` finds its nonce (`AnswerGet`);
  the relays keep the further Data from going on (`DataRelayedOnce`).
- The second entry a head makes for its own request has the nonce of the first and is rejected.
- The MAC address given to `insert` is not stored: GETs sent along a route are broadcast.
- The comment in front of `calculateCongestionLevel` describes probabilities; the code uses
  thresholds and says so inside.

With several requests routes can lead in a circle. The
quality of an entry is that of the first packet from its next hop and later packets do
not change it; simulating a ring of four nodes with five GETs finds nodes that point at each other.
`RoutesLoopFree` is therefore stated of one request.

Even one request can leave a circle on the way to a provider, so the property speaks of all other
destinations. The proof attempt led to the case, and TLC confirms it (17,632 states, 19 steps): let
c-a-b-p and c-r-p be the two ways from consumer c to provider p, which gets its content late. The
GET comes to p over a and b first, and p relays it with a low TTL, so that the entry for p that r
makes has a low quality for good. Then p gets the content and answers r; r relays to c; and c, which
has a PIT entry because it heard its own GET again, relays the Data back to r with a better
quality than r's own entry. Now c and r look for p at each other.

## 4. Proofs

The theorems hold for all values of the constants that satisfy the named assumptions
(`PccpAssumption`, `TimedAssumption`, `IndicatorAssumption`, `RoutingAssumption`,
`DelayQueueAssumption`, `PitAssumption`, `ClusterAssumption`, `ColorAssumption`,
`TwoInterfaceAssumption`). `ColorAssumption` includes that no node is called `"default"` or
`"nullptr"`, the two values that stand for "no next hop" and "no route".

The library's induction theorems cannot be used by the provers. Where an argument is by induction
(over the length of a queue, the exponent of a recursive function, the entries a loop has
passed, the nodes of a circle) it is made by the smallest counterexample instead: `WFMin` with
`NatLessThanWellFounded` gives one, and the step before it is a contradiction.

- `PccpProofs`. The inductive invariant `IInv` adds two things to the checked invariants:
  `FreshRequests` (a request not issued yet is in no container) and `Accounting` (unsent requests
  have no GETs and no time-outs, requests under way are within the limit, aborted ones are in no
  container). Without the first `OnePlace` is not kept by `sendRequest`, without the second
  `GetsMatchTimeouts` is not kept by the abort. The centre is `FillWindow` and `FillStep`: what
  `sendRequestsToSocket` does to consistent containers, proved once and used by every handler that
  calls it. It needs that a prefix of a queue without repetitions has as many elements as its
  length (`FrontCardinality`) to relate queue lengths to the cardinality of the window.
- `ColorRoutingTableProofs`. `IInv` is typing and `BetterAndBetter`, which is inductive: an
  entry is appended only behind strictly worse ones of other next hops, and erasing keeps
  order. From it: the route `findRoute` returns is the last one it looks at
  (`FoundIsLastScanned`), hence `NoStaleRoute` and `LookupProgress`; and no step shortens an
  entry (`RoutesOnlyExtended`).
- `DelayQueueProofs`. `IInv` adds `CounterIsWhatIsLeft`: the counter of a waiting packet is TC less the
  copies heard, and a packet that does not wait has none. It ties the counter, which the code
  tests, to the history `NotSentInVain` speaks of. `WaitingImplemented`: without its send times the queue
  is `WaitingGets`, so what is proved of the network holds although it lets a delayed GET go at
  any moment. The step that needs an argument is `insert`: the place in front of the first packet
  that is due later is one of the places `InsertedLater` allows, and so is being dropped.
- `PendingGetTableProofs`. `IInv` adds `MadeBefore`: entries were made in the past and forwarded ones
  all have the same lifetime. That is why the shared timer, which every later entry
  moves, never cuts a forwarded GET short: it is always moved to at least the time the
  youngest of them needs, given that own requests live at least as long (`PitAssumption`).
  `PendingImplemented`: without times the table is `PendingGets`. Marking entries as served, which
  replaces them, must not show, and a timer that fires must take away all entries or none.

- `PccpProofs`, `ServiceImplemented`: `Pccp` implements `RequestService`. Two more invariants are needed:
  `OnlySentAwaited` (the network waits only for requests that were sent, so no answer comes to
  one that was not) and `StartsAtZero`. `SentFromQueues` says that whatever a handler sends comes
  out of the two queues, each request once; `Accounting` then bounds the GETs.
- `PccpProofs`, second half, about `PccpTimed`. `TimedRefinesPccp` makes every theorem of the first
  half one about the timed consumer. The inductive invariant adds to `EstimatesBounded` how old a request in the window is
  (`WindowTimes`: its timer is ahead, by at most the RTO, and its first GET lies one RTO per
  time-out back), the same for those in `rexmitQueue` (`QueueTimes`), and that a measurement belongs
  to the only GET of its request (`MeasurementTimes`). That is why no sample exceeds the
  maximal RTO, which nothing in the code checks.
- `SimpleClusterProofs`. The argument is about single records (`WellFormed`): each of the functions
  the handlers are made of keeps the timers of a record matching its state. A node that has
  not started must be shown to be untouched (`Fresh`). `RolesImplemented` shows the refinement of
  `ClusterRoles`. Its invariant `CallsBacked` says that behind every CALL on its way there is an elected
  node whose index is at least that of the sender: whoever yields, yields to a CALL, which is backed
  by a node that is larger than the one that yields and therefore stays. `ElectionStands` follows:
  the largest elected index never decreases.
- `PccpIndicatorProofs`. `IndicatorInvariance`: the average of the queue stays below its capacity, also
  after a decay over any time (the recursive function of the decay is shown not to rise), and the index is
  that of the two averages. Hence `IndexBoundedHolds`, for the algorithms `"CCS"` and `"PCCP"`; for `"ECP"` the code
  sets no limit. `LevelsRiseGraduallyHolds` is for `"PCCP"` and thresholds further apart than `Rise`, the most
  one sample can add to the index: the whole weight of the PIT,
  whose length is not limited, and one sample's share of the rest. With the defaults of the NED file (weights 0.02 and
  0.2, thresholds 0.05, 0.3 and 0.6) that is about 0.216 against 0.25 and 0.3. The run uses thresholds
  that are closer, and holds because its PIT lengths are few.
- `ColorNoClusterProofs` and `ColorTwoInterfaceProofs`. For any topology. `DataRelayedOnce` needs that a
  packet that was relayed stays in the cache (`RelayedIsCached`); `GetsAggregated` needs that a GET
  taken on is in the PIT until it times out or its content is cached (`TakenOnIsPending`), with
  clusters as an entry of another node, because a consumer's own entries are removed before the
  others. Routes, frames and roles do not matter for either, so the invariant is silent on them.
- `NetworkTypes` and `TwoInterfaceTypes`: every table, packet and frame keeps its type. The work is in
  the routing table (what `CreateEntryIn` and `AfterFind` leave is a table again, and in
  `handleDataPacket` so are all the tables the loop over the PIT entries goes through), in the delay queue and
  in the bounds on TTL and nonces.
- `RoutesLoopFreeHolds`, for any topology and order of events while nothing times out. The invariant
  `Sound` speaks of the one request there is, of consumer c. A node that has a route to c has taken
  part in the request (`Heard`), and the GET it sent on carries a TTL below the quality of the best
  route to c it has (`FromConsumer`); so does every route learned from that GET. Therefore
  the quality of the route to c that a node uses is below that of the node it leads to, and
  a circle would have no node of highest quality; the qualities are bounded by the hop limit. To nodes
  that are neither c nor a provider there are only routes of one hop. The freezing of a
  quality at the first packet does not matter as long as there is only one GET, because its copies
  leave a node once.
- `OnlyLeftoversHolds`: on 2.4 GHz a frame comes from a head or prehead, or from the delay queue of a node
  that could be elected (`QueuedByHeads`: nobody else has anything in `delay_queue24`). So the race of
  `two_listen` is the only way a member can send there, and `MembersListenOnlyWithoutElections` gives
  what the comment in the code says when roles no longer change.
- `RolesAdmitted`: with all nodes electable, the steps of `ClusterRoles` are steps of `ColorTwoInterface`.
  Together with `RolesImplemented` the safety theorems about `ColorTwoInterface` hold when
  `SimpleCluster` decides the roles.

Only model-checked: liveness (the provers have no support for fairness), which is `EveryRequestSettled`,
`ExpiredAreErased`, `EveryPacketPopped`, `EntriesGoAway`, `RequestAnswered`, `FallsSilent`, `EveryNodeServed`,
`HeadsForgotten`, `CongestionSignalled` and `CongestionForgotten`. Every invariant and action property of a
passing run is also a theorem. The converse does not hold: `ImplementsWaiting` and
`RolesAdmitted` are proved and have no run.

## 5. Not modelled, and the plan

The greater part of `src/` by far is the INET framework (TCP, SCTP, OSPF, BGP, PIM, 802.11,
visualizers and more), vendored without changes. It is left aside, so the models cover a small share of
the repository's lines; of the parts the repository adds they cover the ones that keep state.

Also not modelled: `color.cc` (the one-interface predecessor of `colorTwoInterface`); `Fap`;
`Aodv_cluster` (upstream AODV with a relaying rule); mobility (geometry over floating point);
statistics and test code; authentication in `SimpleCluster`; memory management (a use after free in
`colorPendingGetTable::handleMessage` is listed as a hazard); stop and crash of a node, whose
handlers are empty; operations without callers (`check_and_delete`, `cancelDelayeForwarding`,
`purgeStaleFragments`, `isFull`).

What the plan has left, in this order:

1. `ColorFragBuf` and `FragmentAndStore` as algorithms on byte ranges, against the definition of
   a complete content.
2. Bounds on the life of a circle of routes, now that its causes are known: a route that is not
   refreshed expires.
3. `Fap` and the relaying rule of `Aodv_cluster`; stop and restart of the applications.
