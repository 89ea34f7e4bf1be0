------------------------- MODULE ColorRoutingTable -------------------------
(***************************************************************************)
(* ColorRoutingTable: per destination, the routes learned from the packets *)
(* that came by. Routes expire: nothing removes an expired one but the     *)
(* next lookup of its destination, and every lookup removes at most one.   *)
(***************************************************************************)
EXTENDS RouteOps

CONSTANTS
    Dest,       \* NIDs routes lead to
    Neighbour,  \* the transmitters of packets (NID and MAC)
    Quality,    \* TimeToLive or RouteMetric of a packet, used as linkQ
    Ttl,        \* routeLifeTime, or the lifetime a Data packet carries
    MaxTime     \* bound on the clock

ASSUME RoutingAssumption ==
    /\ Quality \subseteq Int
    /\ Ttl \subseteq Nat
    /\ MaxTime \in Nat

VARIABLES
    routingTable,   \* the equal_range of every destination
    now             \* simTime()

vars == <<routingTable, now>>

Init ==
    /\ routingTable = [d \in Dest |-> <<>>]
    /\ now = 0

CreateEntry(d, h, ttl, q) ==
    /\ routingTable' = [routingTable EXCEPT ![d] = CreateEntryIn(@, now, h, ttl, q)]
    /\ UNCHANGED now

(* A lookup returns FoundRoute and changes the table. *)
findRoute(d) ==
    /\ routingTable' = [routingTable EXCEPT ![d] = AfterFind(@, now)]
    /\ UNCHANGED now

removeEntry(d) ==
    /\ routingTable' = [routingTable EXCEPT ![d] = <<>>]
    /\ UNCHANGED now

Tick ==
    /\ now < MaxTime
    /\ now' = now + 1
    /\ UNCHANGED routingTable

Next ==
    \/ \E d \in Dest, h \in Neighbour, ttl \in Ttl, q \in Quality : CreateEntry(d, h, ttl, q)
    \/ \E d \in Dest : findRoute(d)
    \/ \E d \in Dest : removeEntry(d)
    \/ Tick

Spec == Init /\ [][Next]_vars

(* Lookups go on: every GET and every Data a node handles looks routes up. *)
FairSpec == Spec /\ \A d \in Dest : WF_vars(findRoute(d))

----------------------------------------------------------------------------
Entry == [nextHop : Neighbour, lifeTime : Nat, linkQlt : Quality]

TypeOK ==
    /\ routingTable \in [Dest -> Seq(Entry)]
    /\ now \in Nat

(* Along the entries of a destination the quality strictly increases and   *)
(* no next hop comes twice, although CreateEntry compares a new route only *)
(* with the entries up to the one where its scan returns, and lookups      *)
(* erase entries from the middle: so a refresh finds the one entry of its  *)
(* next hop, and an erased entry does not leave a twin behind.             *)
BetterAndBetter ==
    \A d \in Dest : \A i, j \in 1 .. Len(routingTable[d]) :
        i < j => /\ routingTable[d][i].linkQlt < routingTable[d][j].linkQlt
                 /\ routingTable[d][i].nextHop # routingTable[d][j].nextHop

(* A route is never made shorter-lived: while an entry stays in the table, *)
(* its lifetime only grows and its quality stays, whatever packets say.    *)
RoutesOnlyExtended ==
    [][\A d \in Dest : \A i \in 1 .. Len(routingTable[d]) :
          \A j \in 1 .. Len(routingTable'[d]) :
              routingTable[d][i].nextHop = routingTable'[d][j].nextHop
                  => /\ routingTable'[d][j].lifeTime >= routingTable[d][i].lifeTime
                     /\ routingTable'[d][j].linkQlt = routingTable[d][i].linkQlt]_vars

LiveIn(range, t) == {i \in 1 .. Len(range) : range[i].lifeTime > t}

(* Stated of what the next lookup would do: if it returns anything but the *)
(* best live route it makes the table shorter, so repeated lookups find    *)
(* the best route after at most as many tries as there are expired entries.*)
LookupProgress ==
    \A d \in Dest :
        LET range == routingTable[d]
            live  == LiveIn(range, now)
        IN  \/ Len(AfterFind(range, now)) < Len(range)
            \/ live = {} /\ FoundRoute(range, now) = NoRoute
            \/ \E i \in live : /\ FoundRoute(range, now) = range[i]
                              /\ \A j \in live : range[j].linkQlt <= range[i].linkQlt

(* No lookup hands out an expired route, or one of a next hop it erases,   *)
(* wherever expired entries are among the live ones.                       *)
NoStaleRoute ==
    \A d \in Dest :
        LET found == FoundRoute(routingTable[d], now)
            after == AfterFind(routingTable[d], now)
        IN  found # NoRoute => /\ found.lifeTime > now
                               /\ \E i \in 1 .. Len(after) : after[i] = found

(* Expired entries do not stay: with lookups going on, a table nobody adds *)
(* to any more is rid of them (the clock of the instance stops).           *)
ExpiredAreErased ==
    \A d \in Dest :
        <>[][~\E h \in Neighbour, ttl \in Ttl, q \in Quality : CreateEntry(d, h, ttl, q)]_vars
            => <>[](Expired(routingTable[d], now) = {})
============================================================================
