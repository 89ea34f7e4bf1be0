----------------------- MODULE ColorNoClusterProofs -----------------------
(***************************************************************************)
(* Proofs about ColorNoCluster, for any network, any number of SIDs,       *)
(* consumers and requests, with or without flooding, losses and time-outs. *)
(* The first part rests on the interplay of PIT and cache, and its         *)
(* invariant says nothing of routes and packets. The second proves the     *)
(* types, and the third that the routes learned from GETs have no loops.   *)
(***************************************************************************)
EXTENDS ColorNoCluster, TLAPS, WellFoundedInduction, SequenceTheorems

(* A table that has a member of S for every node and SID. *)
TableOf(S) == [Node -> [Sid -> S]]

(* The tables of the nodes have the right shape, whatever is in them. *)
Shape ==
    /\ \E O : cache \in TableOf(Seq(O))
    /\ \E P : pit \in TableOf(Seq(P))
    /\ relays \in TableOf(Nat)
    /\ dataRelays \in TableOf([Offset -> Nat])

(* A packet that was relayed is in the cache, *)
RelayedIsCached ==
    \A n \in Node, s \in Sid, o \in Offset :
        dataRelays[n][s][o] > 0 => \E i \in 1 .. Len(cache[n][s]) : cache[n][s][i] = o

(* and a GET that was taken on is in the PIT, or answered into the cache.  *)
TakenOnIsPending ==
    \A n \in Node, s \in Sid : relays[n][s] > 0 => pit[n][s] # <<>> \/ cache[n][s] # <<>>

(* The inductive invariant. *)
IInv == Shape /\ DataRelayedOnce /\ GetsAggregated /\ RelayedIsCached /\ TakenOnIsPending

LEMMA SeqGrows ==
    ASSUME NEW S, NEW T, S \subseteq T, NEW q \in Seq(S)
    PROVE  q \in Seq(T)
OBVIOUS

LEMMA TableGrows ==
    ASSUME NEW S, NEW T, S \subseteq T, NEW tab \in TableOf(Seq(S))
    PROVE  tab \in TableOf(Seq(T))
<1>1. \A n \in Node, s \in Sid : tab[n][s] \in Seq(T)
    BY SeqGrows DEF TableOf
<1> QED BY <1>1 DEF TableOf

(* A table with what one node has for one SID replaced. *)
Put(tab, n, s, v) == [tab EXCEPT ![n][s] = v]

(* A table with the sequence of one node and SID replaced has the same     *)
(* shape, and a different value at most there; elsewhere there is nothing  *)
(* to replace.                                                             *)
LEMMA Replaced ==
    ASSUME NEW S, NEW tab \in TableOf(S), NEW n, NEW s, NEW v,
           n \in Node /\ s \in Sid => v \in S
    PROVE  /\ Put(tab, n, s, v) \in TableOf(S)
           /\ \A m \in Node, t \in Sid :
                 Put(tab, n, s, v)[m][t] = IF m = n /\ t = s THEN v ELSE tab[m][t]
<1> DEFINE new == [tab EXCEPT ![n][s] = v]
<1>1. \A m \in Node, t \in Sid : new[m][t] = IF m = n /\ t = s THEN v ELSE tab[m][t]
    BY DEF TableOf
<1>2. \A m \in Node, t \in Sid : new[m][t] \in S
    BY <1>1 DEF TableOf
<1>3. new \in TableOf(S)
  <2>1. \A m \in Node : new[m] = IF m = n THEN [tab[m] EXCEPT ![s] = v] ELSE tab[m]
    BY DEF TableOf
  <2>2. \A m \in Node : new[m] \in [Sid -> S]
    BY <2>1 DEF TableOf
  <2>3. new = [m \in Node |-> new[m]]
    BY DEF TableOf
  <2> QED BY <2>2, <2>3 DEF TableOf
<1> QED BY <1>1, <1>3 DEF Put

(* A table of sequences with one of them emptied. *)
LEMMA Emptied ==
    ASSUME NEW P, NEW tab \in TableOf(Seq(P)), NEW n, NEW s
    PROVE  /\ Put(tab, n, s, <<>>) \in TableOf(Seq(P))
           /\ \A m \in Node, t \in Sid :
                 Put(tab, n, s, <<>>)[m][t] = IF m = n /\ t = s THEN <<>> ELSE tab[m][t]
<1> DEFINE Q == Seq(P)
           none == <<>>
<1>1. tab \in TableOf(Q) /\ none \in Q
    OBVIOUS
<1> HIDE DEF Q, none
<1>2. /\ Put(tab, n, s, none) \in TableOf(Q)
      /\ \A m \in Node, t \in Sid :
            Put(tab, n, s, none)[m][t] = IF m = n /\ t = s THEN none ELSE tab[m][t]
    BY <1>1, Replaced
<1> QED BY <1>2 DEF Q, none

(* One counter of several goes up. *)
LEMMA Counted ==
    ASSUME NEW c \in [Offset -> Nat], NEW o
    PROVE  /\ [c EXCEPT ![o] = @ + 1] \in [Offset -> Nat]
           /\ \A x \in Offset : [c EXCEPT ![o] = @ + 1][x] = IF x = o THEN c[x] + 1 ELSE c[x]
<1>1. CASE o \in Offset
    BY <1>1
<1>2. CASE o \notin Offset
  <2>1. [c EXCEPT ![o] = @ + 1] = c
    BY <1>2
  <2> QED BY <1>2, <2>1
<1> QED BY <1>1, <1>2

(* The packets FragmentAndStore makes are a sequence that is not empty. *)
LEMMA SomeFragments ==
    FragmentAndStore \in Seq(Offset) /\ FragmentAndStore # <<>>
<1>1. Fragments \in Nat /\ Fragments > 0
    BY ColorAssumption
<1>2. FragmentAndStore \in [1 .. Fragments -> Offset]
    BY DEF FragmentAndStore, Offset
<1>3. FragmentAndStore \in Seq(Offset) /\ Len(FragmentAndStore) = Fragments
    BY <1>1, <1>2 DEF FragmentAndStore, Offset
<1> QED BY <1>1, <1>3

(* Entering a GET keeps the shape of a PIT entry and leaves one. *)
LEMMA Entered ==
    ASSUME NEW P, NEW entries \in Seq(P), NEW g
    PROVE  /\ WithEntry(entries, g)
                 \in Seq(P \cup {[nid |-> g.source, mac |-> g.lastHop, nonce |-> g.nonce]})
           /\ WithEntry(entries, g) # <<>>
<1> DEFINE e == [nid |-> g.source, mac |-> g.lastHop, nonce |-> g.nonce]
<1>1. entries \in Seq(P \cup {e})
    BY SeqGrows
<1>2. e \in P \cup {e}
    OBVIOUS
<1> HIDE DEF e
<1>3. Append(entries, e) \in Seq(P \cup {e}) /\ Append(entries, e) # <<>>
    BY <1>1, <1>2
<1>4. CASE \E i \in 1 .. Len(entries) : entries[i].nonce = g.nonce
  <2>1. entries # <<>>
    BY <1>4
  <2> QED BY <1>1, <1>4, <2>1 DEF WithEntry, e
<1>5. CASE ~ \E i \in 1 .. Len(entries) : entries[i].nonce = g.nonce
    BY <1>3, <1>5 DEF WithEntry, e
<1> QED BY <1>4, <1>5

----------------------------------------------------------------------------
(* The state the invariant is about. *)
tracked == <<pit, cache, relays, dataRelays>>

LEMMA InitIInv == Init => IInv
<1> SUFFICES ASSUME Init PROVE IInv
    OBVIOUS
<1>1. cache \in TableOf(Seq(Offset))
    BY SomeFragments DEF Init, TableOf
<1>2. pit \in TableOf(Seq({}))
    BY DEF Init, TableOf
<1>3. relays \in TableOf(Nat) /\ dataRelays \in TableOf([Offset -> Nat])
    BY DEF Init, TableOf
<1>4. Shape
    BY <1>1, <1>2, <1>3 DEF Shape
<1>5. DataRelayedOnce /\ RelayedIsCached
    BY DEF Init, DataRelayedOnce, RelayedIsCached
<1>6. GetsAggregated /\ TakenOnIsPending
    BY DEF Init, GetsAggregated, TakenOnIsPending
<1> QED BY <1>4, <1>5, <1>6 DEF IInv

LEMMA IdleStep == IInv /\ UNCHANGED tracked => IInv'
    BY DEF IInv, tracked, Shape, DataRelayedOnce, GetsAggregated, RelayedIsCached, TakenOnIsPending

(* New content replaces an empty block, of which nothing was relayed. *)
LEMMA CacheDataStep ==
    ASSUME IInv, NEW s \in Sid, cacheData(s)
    PROVE  IInv'
<1> DEFINE n == Provider[s]
<1>1. PICK O : cache \in TableOf(Seq(O))
    BY DEF IInv, Shape
<1>2. cache \in TableOf(Seq(O \cup Offset))
    BY <1>1, TableGrows
<1>3. FragmentAndStore \in Seq(O \cup Offset) /\ FragmentAndStore # <<>>
    BY SomeFragments, SeqGrows
<1>4. /\ cache' \in TableOf(Seq(O \cup Offset))
      /\ \A m \in Node, t \in Sid :
            cache'[m][t] = IF m = n /\ t = s THEN FragmentAndStore ELSE cache[m][t]
  <2>1. cache' = Put(cache, n, s, FragmentAndStore)
    BY DEF cacheData, Put
  <2> DEFINE Q == Seq(O \cup Offset)
  <2>2. cache \in TableOf(Q) /\ FragmentAndStore \in Q
    BY <1>2, <1>3
  <2> HIDE DEF n, Q
  <2>3. /\ Put(cache, n, s, FragmentAndStore) \in TableOf(Q)
        /\ \A m \in Node, t \in Sid :
              Put(cache, n, s, FragmentAndStore)[m][t]
                  = IF m = n /\ t = s THEN FragmentAndStore ELSE cache[m][t]
    BY <2>2, Replaced
  <2> QED BY <2>1, <2>3 DEF Q
<1>5. pit' = pit /\ relays' = relays /\ dataRelays' = dataRelays /\ cache[n][s] = <<>>
    BY DEF cacheData, counters
<1>6. Shape'
    BY <1>4, <1>5 DEF IInv, Shape
<1>7. DataRelayedOnce' /\ GetsAggregated'
    BY <1>5 DEF IInv, DataRelayedOnce, GetsAggregated
<1>8. RelayedIsCached'
  <2> SUFFICES ASSUME NEW m \in Node, NEW t \in Sid, NEW o \in Offset, dataRelays[m][t][o] > 0
               PROVE  \E i \in 1 .. Len(cache'[m][t]) : cache'[m][t][i] = o
    BY <1>5 DEF RelayedIsCached
  <2>1. PICK i \in 1 .. Len(cache[m][t]) : cache[m][t][i] = o
    BY DEF IInv, RelayedIsCached
  <2>2. ~(m = n /\ t = s)
    BY <1>5, <2>1
  <2> QED BY <1>4, <2>1, <2>2
<1>9. TakenOnIsPending'
    BY <1>3, <1>4, <1>5 DEF IInv, TakenOnIsPending
<1> QED BY <1>6, <1>7, <1>8, <1>9 DEF IInv

(* A GET is only taken on where none is pending and nothing is cached, so  *)
(* none was taken on since the last time-out.                              *)
LEMMA MissGetStep ==
    ASSUME IInv, NEW f \in net, MissGet(f)
    PROVE  IInv'
<1> DEFINE n == f.to
           g == f.pkt
           s == f.pkt.sid
           e == [nid |-> g.source, mac |-> g.lastHop, nonce |-> g.nonce]
<1>1. PICK P : pit \in TableOf(Seq(P))
    BY DEF IInv, Shape
<1>2. pit \in TableOf(Seq(P \cup {e}))
    BY <1>1, TableGrows
<1>3. n \in Node /\ s \in Sid => /\ WithEntry(pit[n][s], g) \in Seq(P \cup {e})
                                 /\ WithEntry(pit[n][s], g) # <<>>
  <2>1. n \in Node /\ s \in Sid => pit[n][s] \in Seq(P)
    BY <1>1 DEF TableOf
  <2> QED BY <2>1, Entered
<1>4. /\ pit' \in TableOf(Seq(P \cup {e}))
      /\ \A m \in Node, t \in Sid :
            pit'[m][t] = IF m = n /\ t = s THEN WithEntry(pit[n][s], g) ELSE pit[m][t]
  <2>1. pit' = Put(pit, n, s, WithEntry(pit[n][s], g))
    BY DEF MissGet, Put
  <2> HIDE DEF n, g, s, e
  <2> QED BY <1>2, <1>3, <2>1, Replaced
<1>5. cache' = cache /\ dataRelays' = dataRelays /\ cache[n][s] = <<>>
    BY DEF MissGet
<1>6. \/ relays' = relays
      \/ relays' = Put(relays, n, s, relays[n][s] + 1) /\ pit[n][s] = <<>>
    BY DEF MissGet, haveSID, Put
<1> HIDE DEF n, g, s, e
<1>7. relays \in TableOf(Nat)
    BY DEF IInv, Shape
<1>8. /\ relays' \in TableOf(Nat)
      /\ \A m \in Node, t \in Sid :
            relays'[m][t] = relays[m][t] \/ (m = n /\ t = s /\ relays'[m][t] = 1)
  <2>1. CASE relays' = relays
    BY <1>7, <2>1
  <2>2. CASE relays' = Put(relays, n, s, relays[n][s] + 1) /\ pit[n][s] = <<>>
    <3>1. n \in Node /\ s \in Sid => relays[n][s] = 0
      BY <1>5, <1>7, <2>2 DEF IInv, TakenOnIsPending, TableOf
    <3>2. n \in Node /\ s \in Sid => relays[n][s] + 1 = 1 /\ relays[n][s] + 1 \in Nat
      BY <3>1
    <3> QED BY <1>7, <2>2, <3>2, Replaced
  <2> QED BY <1>6, <2>1, <2>2
<1>9. Shape'
    BY <1>4, <1>5, <1>8 DEF IInv, Shape
<1>10. DataRelayedOnce' /\ RelayedIsCached'
    BY <1>5 DEF IInv, DataRelayedOnce, RelayedIsCached
<1>11. GetsAggregated'
    BY <1>8 DEF IInv, GetsAggregated
<1>12. TakenOnIsPending'
  <2> SUFFICES ASSUME NEW m \in Node, NEW t \in Sid, relays'[m][t] > 0
               PROVE  pit'[m][t] # <<>> \/ cache[m][t] # <<>>
    BY <1>5 DEF TakenOnIsPending
  <2>1. CASE m = n /\ t = s
    BY <1>3, <1>4, <2>1
  <2>2. CASE ~(m = n /\ t = s)
    BY <1>4, <1>8, <2>2 DEF IInv, TakenOnIsPending
  <2> QED BY <2>1, <2>2
<1> QED BY <1>9, <1>10, <1>11, <1>12 DEF IInv

(* Data is relayed once: what is relayed is cached, and what is cached is  *)
(* not relayed. The entries it removes leave the content in the cache.     *)
LEMMA DataStep ==
    ASSUME IInv, NEW f \in net, handleDataPacket(f)
    PROVE  IInv'
<1> DEFINE n == f.to
           d == f.pkt
           s == f.pkt.sid
           o == f.pkt.offset
           relay == pit[n][s] # <<>> /\ ~hasThisPacket(n, d)
<1>1. PICK O : cache \in TableOf(Seq(O))
    BY DEF IInv, Shape
<1>2. PICK P : pit \in TableOf(Seq(P))
    BY DEF IInv, Shape
<1>3. relays' = relays /\ pit' = Put(pit, n, s, <<>>)
    BY DEF handleDataPacket, Put
<1>4. relay => /\ cache' = Put(cache, n, s, Append(cache[n][s], o))
               /\ dataRelays' = Put(dataRelays, n, s, [dataRelays[n][s] EXCEPT ![o] = @ + 1])
    BY DEF handleDataPacket, InsterPacket, Put
<1>5. ~relay => cache' = cache /\ dataRelays' = dataRelays
    BY DEF handleDataPacket
<1>6. hasThisPacket(n, d) <=> \E i \in 1 .. Len(cache[n][s]) : cache[n][s][i] = o
    BY DEF hasThisPacket
<1>7. cache \in TableOf(Seq(O \cup {o}))
    BY <1>1, TableGrows
<1>8. n \in Node /\ s \in Sid => /\ cache[n][s] \in Seq(O \cup {o})
                                 /\ <<>> \in Seq(P)
    BY <1>7 DEF TableOf
<1> HIDE DEF n, d, s, o
<1>9. /\ pit' \in TableOf(Seq(P))
      /\ \A m \in Node, t \in Sid : pit'[m][t] = IF m = n /\ t = s THEN <<>> ELSE pit[m][t]
    BY <1>2, <1>3, Emptied
<1>10. dataRelays \in TableOf([Offset -> Nat])
    BY DEF IInv, Shape
<1>11. CASE relay
  <2>1. n \in Node /\ s \in Sid => Append(cache[n][s], o) \in Seq(O \cup {o})
    BY <1>8
  <2>2. /\ cache' \in TableOf(Seq(O \cup {o}))
        /\ \A m \in Node, t \in Sid :
              cache'[m][t] = IF m = n /\ t = s THEN Append(cache[n][s], o) ELSE cache[m][t]
    <3> DEFINE Q == Seq(O \cup {o})
               new == Append(cache[n][s], o)
    <3>1. cache \in TableOf(Q) /\ (n \in Node /\ s \in Sid => new \in Q)
      BY <1>7, <2>1
    <3>2. cache' = Put(cache, n, s, new)
      BY <1>4, <1>11
    <3> HIDE DEF Q, new
    <3>3. /\ cache' \in TableOf(Q)
          /\ \A m \in Node, t \in Sid :
                cache'[m][t] = IF m = n /\ t = s THEN new ELSE cache[m][t]
      BY <3>1, <3>2, Replaced
    <3> QED BY <3>3 DEF Q, new
  <2> DEFINE count == [dataRelays[n][s] EXCEPT ![o] = @ + 1]
  <2>counters. n \in Node /\ s \in Sid => dataRelays[n][s] \in [Offset -> Nat]
    BY <1>10 DEF TableOf
  <2>3. n \in Node /\ s \in Sid => count \in [Offset -> Nat]
    BY <2>counters, Counted
  <2>4. n \in Node /\ s \in Sid => \A x \in Offset :
            count[x] = IF x = o THEN dataRelays[n][s][x] + 1 ELSE dataRelays[n][s][x]
    BY <2>counters, Counted
  <2>5. dataRelays' = Put(dataRelays, n, s, count)
    BY <1>4, <1>11
  <2> HIDE DEF count
  <2>6. /\ dataRelays' \in TableOf([Offset -> Nat])
        /\ \A m \in Node, t \in Sid :
              dataRelays'[m][t] = IF m = n /\ t = s THEN count ELSE dataRelays[m][t]
    BY <1>10, <2>3, <2>5, Replaced
  <2>7. n \in Node /\ s \in Sid /\ o \in Offset => dataRelays[n][s][o] = 0
    <3>1. n \in Node /\ s \in Sid /\ o \in Offset => dataRelays[n][s][o] \in Nat
      BY <2>counters
    <3>2. n \in Node /\ s \in Sid /\ o \in Offset => ~(dataRelays[n][s][o] > 0)
      BY <1>6, <1>11 DEF IInv, RelayedIsCached
    <3> QED BY <3>1, <3>2
  <2>8. Shape'
    BY <1>3, <1>9, <2>2, <2>6 DEF IInv, Shape
  <2>9. DataRelayedOnce'
    <3> SUFFICES ASSUME NEW m \in Node, NEW t \in Sid, NEW x \in Offset
                 PROVE  dataRelays'[m][t][x] <= 1
      BY DEF DataRelayedOnce
    <3>1. CASE m = n /\ t = s /\ x = o
      BY <2>4, <2>6, <2>7, <3>1
    <3>2. CASE ~(m = n /\ t = s /\ x = o)
      <4>1. dataRelays'[m][t][x] = dataRelays[m][t][x]
        BY <2>4, <2>6, <3>2
      <4> QED BY <4>1 DEF IInv, DataRelayedOnce
    <3> QED BY <3>1, <3>2
  <2>10. RelayedIsCached'
    <3> SUFFICES ASSUME NEW m \in Node, NEW t \in Sid, NEW x \in Offset, dataRelays'[m][t][x] > 0
                 PROVE  \E i \in 1 .. Len(cache'[m][t]) : cache'[m][t][i] = x
      BY DEF RelayedIsCached
    <3>1. CASE m = n /\ t = s /\ x = o
      <4>1. cache'[m][t] = Append(cache[n][s], o) /\ cache[n][s] \in Seq(O \cup {o})
        BY <1>8, <2>2, <3>1
      <4>2. /\ Len(cache[n][s]) \in Nat
            /\ Len(cache'[m][t]) = Len(cache[n][s]) + 1
            /\ cache'[m][t][Len(cache[n][s]) + 1] = o
        BY <4>1
      <4> QED BY <3>1, <4>2
    <3>2. CASE ~(m = n /\ t = s /\ x = o)
      <4>1. dataRelays'[m][t][x] = dataRelays[m][t][x]
        BY <2>4, <2>6, <3>2
      <4>2. PICK i \in 1 .. Len(cache[m][t]) : cache[m][t][i] = x
        BY <4>1 DEF IInv, RelayedIsCached
      <4>3. CASE m = n /\ t = s
        <5>1. cache'[m][t] = Append(cache[n][s], o) /\ cache[n][s] \in Seq(O \cup {o})
          BY <1>8, <2>2, <4>3
        <5>2. i \in 1 .. Len(cache'[m][t]) /\ cache'[m][t][i] = x
          BY <4>2, <4>3, <5>1
        <5> QED BY <5>2
      <4>4. CASE ~(m = n /\ t = s)
        BY <2>2, <4>2, <4>4
      <4> QED BY <4>3, <4>4
    <3> QED BY <3>1, <3>2
  <2>11. TakenOnIsPending'
    <3> SUFFICES ASSUME NEW m \in Node, NEW t \in Sid, relays[m][t] > 0
                 PROVE  pit'[m][t] # <<>> \/ cache'[m][t] # <<>>
      BY <1>3 DEF TakenOnIsPending
    <3>1. CASE m = n /\ t = s
      <4>1. cache'[m][t] = Append(cache[n][s], o) /\ cache[n][s] \in Seq(O \cup {o})
        BY <1>8, <2>2, <3>1
      <4> QED BY <4>1
    <3>2. CASE ~(m = n /\ t = s)
      BY <1>9, <2>2, <3>2 DEF IInv, TakenOnIsPending
    <3> QED BY <3>1, <3>2
  <2>12. GetsAggregated'
    BY <1>3 DEF IInv, GetsAggregated
  <2> QED BY <2>8, <2>9, <2>10, <2>11, <2>12 DEF IInv
<1>12. CASE ~relay
  <2>1. cache' = cache /\ dataRelays' = dataRelays
    BY <1>5, <1>12
  <2>2. Shape'
    BY <1>3, <1>9, <2>1 DEF IInv, Shape
  <2>3. DataRelayedOnce' /\ RelayedIsCached' /\ GetsAggregated'
    BY <1>3, <2>1 DEF IInv, DataRelayedOnce, RelayedIsCached, GetsAggregated
  <2>4. TakenOnIsPending'
    <3> SUFFICES ASSUME NEW m \in Node, NEW t \in Sid, relays[m][t] > 0
                 PROVE  pit'[m][t] # <<>> \/ cache[m][t] # <<>>
      BY <1>3, <2>1 DEF TakenOnIsPending
    <3>1. CASE m = n /\ t = s /\ pit[n][s] # <<>>
      <4>1. PICK i \in 1 .. Len(cache[n][s]) : cache[n][s][i] = o
        BY <1>6, <1>12, <3>1
      <4>2. cache[n][s] # <<>>
        BY <4>1
      <4> QED BY <3>1, <4>2
    <3>2. CASE ~(m = n /\ t = s /\ pit[n][s] # <<>>)
      <4>1. pit'[m][t] = pit[m][t]
        BY <1>9, <3>2
      <4> QED BY <4>1 DEF IInv, TakenOnIsPending
    <3> QED BY <3>1, <3>2
  <2> QED BY <2>2, <2>3, <2>4 DEF IInv
<1> QED BY <1>11, <1>12

(* A time-out empties the PIT entry, and counting starts anew. *)
LEMMA PitTimeoutStep ==
    ASSUME IInv, NEW n \in Node, NEW s \in Sid, PitTimeout(n, s)
    PROVE  IInv'
<1>1. PICK P : pit \in TableOf(Seq(P))
    BY DEF IInv, Shape
<1>2. /\ pit' = Put(pit, n, s, <<>>)
      /\ relays' = Put(relays, n, s, 0)
      /\ cache' = cache /\ dataRelays' = dataRelays
    BY DEF PitTimeout, Put
<1>3. <<>> \in Seq(P) /\ 0 \in Nat
    OBVIOUS
<1>4. relays \in TableOf(Nat)
    BY DEF IInv, Shape
<1>5. /\ pit' \in TableOf(Seq(P))
      /\ \A m \in Node, t \in Sid : pit'[m][t] = IF m = n /\ t = s THEN <<>> ELSE pit[m][t]
    BY <1>1, <1>2, Emptied
<1>6. /\ relays' \in TableOf(Nat)
      /\ \A m \in Node, t \in Sid : relays'[m][t] = IF m = n /\ t = s THEN 0 ELSE relays[m][t]
    BY <1>2, <1>3, <1>4, Replaced
<1>7. Shape'
    BY <1>2, <1>5, <1>6 DEF IInv, Shape
<1>8. DataRelayedOnce' /\ RelayedIsCached'
    BY <1>2 DEF IInv, DataRelayedOnce, RelayedIsCached
<1>9. GetsAggregated'
    BY <1>6 DEF IInv, GetsAggregated
<1>10. TakenOnIsPending'
    BY <1>2, <1>5, <1>6 DEF IInv, TakenOnIsPending
<1> QED BY <1>7, <1>8, <1>9, <1>10 DEF IInv

(* Every step preserves the invariant. *)
LEMMA NextIInv == IInv /\ [Next]_vars => IInv'
<1> SUFFICES ASSUME IInv, [Next]_vars PROVE IInv'
    OBVIOUS
<1>1. ASSUME NEW n \in Consumer, NEW s \in Sid, sendGET(n, s) PROVE IInv'
    BY <1>1, IdleStep DEF sendGET, tracked
<1>2. ASSUME NEW s \in Sid, cacheData(s) PROVE IInv'
    BY <1>2, CacheDataStep
<1>3. ASSUME NEW f \in net, Receive(f) PROVE IInv'
  <2>1. CASE DropGet(f)
    BY <2>1, IdleStep DEF DropGet, tracked, tables, counters
  <2>2. CASE MissGet(f)
    BY <2>2, MissGetStep
  <2>3. ASSUME NEW recent \in BOOLEAN, AnswerGet(f, recent) PROVE IInv'
    BY <2>3, IdleStep DEF AnswerGet, tracked, counters
  <2>4. CASE handleDataPacket(f)
    BY <2>4, DataStep
  <2> QED BY <1>3, <2>1, <2>2, <2>3, <2>4 DEF Receive
<1>4. ASSUME NEW n \in Node, Delayer(n) PROVE IInv'
    BY <1>4, IdleStep DEF Delayer, tracked, counters
<1>5. ASSUME NEW n \in Node, NEW s \in Sid, PitTimeout(n, s) PROVE IInv'
    BY <1>5, PitTimeoutStep
<1>6. ASSUME NEW n \in Node, NEW d \in Node, RouteExpires(n, d) PROVE IInv'
    BY <1>6, IdleStep DEF RouteExpires, tracked, counters
<1>7. ASSUME NEW f \in net, Lose(f) PROVE IInv'
    BY <1>7, IdleStep DEF Lose, tracked, tables, counters
<1>8. CASE Done
    BY <1>8, IdleStep DEF Done, tracked, vars, tables, counters
<1>9. CASE UNCHANGED vars
    BY <1>9, IdleStep DEF tracked, vars, tables, counters
<1> QED BY <1>1, <1>2, <1>3, <1>4, <1>5, <1>6, <1>7, <1>8, <1>9 DEF Next

----------------------------------------------------------------------------
(* PIT and cache of every node stay in step: what was relayed is cached,   *)
(* and what was taken on is pending or cached.                             *)
THEOREM ForwardingInvariance == Spec => []IInv
<1>1. Init => IInv
    BY InitIInv
<1>2. IInv /\ [Next]_vars => IInv'
    BY NextIInv
<1> QED BY <1>1, <1>2, PTL DEF Spec

(* handleDataPacket relays a packet at most once per node, in any network, *)
(* for any number of requests and whatever is lost or times out.           *)
THEOREM DataRelayedOnceHolds == Spec => []DataRelayedOnce
<1>1. IInv => DataRelayedOnce
    BY DEF IInv
<1> QED BY <1>1, ForwardingInvariance, PTL

(* handleGetPacket takes on at most one GET for an SID between two         *)
(* time-outs of its PIT entry.                                             *)
THEOREM GetsAggregatedHolds == Spec => []GetsAggregated
<1>1. IInv => GetsAggregated
    BY DEF IInv
<1> QED BY <1>1, ForwardingInvariance, PTL

----------------------------------------------------------------------------
(***************************************************************************)
(* Types. What has to be shown is that a lookup finds an entry of the      *)
(* table, so that next hops are nodes, and that the lookups handleData-    *)
(* Packet makes one after the other leave a table.                         *)
(***************************************************************************)

(* An entry of a routing table, and the routing table of a node. *)
Entry == [nextHop : Node, lifeTime : {0, 1}, linkQlt : Int]
Table == [Node -> Seq(Entry)]

(* A set of numbers has a smallest one: what induction is done with. *)
LEMMA Smallest ==
    ASSUME NEW P, P \subseteq Nat, P # {}
    PROVE  \E i \in P : \A j \in P : i <= j
<1> DEFINE R == {ss \in Nat \X Nat : ss[1] < ss[2]}
<1>1. IsWellFoundedOn(R, Nat)
    BY NatLessThanWellFounded, Zenon DEF OpToRel
<1> HIDE DEF R
<1>2. PICK i \in P : \A j \in P : ~ (<<j, i>> \in R)
    BY <1>1, WFMin
<1>3. ASSUME NEW j \in P, j < i PROVE FALSE
  <2>1. i \in Nat /\ j \in Nat
    OBVIOUS
  <2>2. <<j, i>> \in R
    BY <1>3, <2>1 DEF R
  <2> QED BY <1>2, <2>2
<1> QED BY <1>3

LEMMA FirstOfIsFirst ==
    ASSUME NEW P, P \subseteq Nat, P # {}
    PROVE  FirstOf(P) \in P /\ \A j \in P : FirstOf(P) <= j
BY Smallest DEF FirstOf

LEMMA CreateKeepsType ==
    ASSUME NEW range \in Seq(Entry), NEW h \in Node, NEW q \in Int
    PROVE  CreateEntryIn(range, 0, h, 1, q) \in Seq(Entry)
<1> DEFINE stops == {i \in 1 .. Len(range) : range[i].nextHop = h \/ range[i].linkQlt >= q}
           k == FirstOf(stops)
<1>1. Croute(h, 0 + 1, q) \in Entry
    BY DEF Croute, Entry
<1>2. Append(range, Croute(h, 0 + 1, q)) \in Seq(Entry)
    BY <1>1
<1>3. ASSUME stops # {} PROVE [range EXCEPT ![k].lifeTime = 0 + 1] \in Seq(Entry)
  <2>1. stops \subseteq Nat
    OBVIOUS
  <2>2. k \in 1 .. Len(range)
    BY <1>3, <2>1, FirstOfIsFirst
  <2> HIDE DEF k
  <2>e. range[k] \in Entry
    BY <2>2
  <2>3. [range[k] EXCEPT !.lifeTime = 0 + 1] \in Entry
    BY <2>e DEF Entry
  <2> QED BY <2>2, <2>3
<1> QED BY <1>2, <1>3 DEF CreateEntryIn

LEMMA FindKeepsType ==
    ASSUME NEW range \in Seq(Entry)
    PROVE  AfterFind(range, 0) \in Seq(Entry)
<1>1. Expired(range, 0) \subseteq 1 .. Len(range)
    BY DEF Expired
<1>2. CASE Expired(range, 0) = {}
    BY <1>2 DEF AfterFind
<1>3. CASE Expired(range, 0) # {}
  <2> DEFINE k == FirstOf(Expired(range, 0))
             a == SubSeq(range, 1, k - 1)
             b == SubSeq(range, k + 1, Len(range))
  <2>1. k \in 1 .. Len(range) /\ Len(range) \in Nat
    BY <1>1, <1>3, FirstOfIsFirst
  <2>2. AfterFind(range, 0) = a \o b
    BY <1>3 DEF AfterFind, Without
  <2> HIDE DEF k
  <2>3. a \in Seq(Entry) /\ b \in Seq(Entry)
    BY <2>1
  <2> HIDE DEF a, b
  <2> QED BY <2>2, <2>3, ConcatProperties
<1> QED BY <1>2, <1>3

(* Among the first n entries there is a first of the best. *)
Best(range, n, i) ==
    /\ \A j \in 1 .. n : range[j].linkQlt <= range[i].linkQlt
    /\ \A j \in 1 .. i - 1 : range[j].linkQlt < range[i].linkQlt

LEMMA BestExists ==
    ASSUME NEW range \in Seq(Entry), NEW n \in 1 .. Len(range)
    PROVE  \E i \in 1 .. n : Best(range, n, i)
<1>1. \A i \in 1 .. Len(range) : range[i].linkQlt \in Int
  <2>1. \A i \in 1 .. Len(range) : range[i] \in Entry
    OBVIOUS
  <2> QED BY <2>1 DEF Entry
<1>2. Len(range) \in Nat
    OBVIOUS
<1> DEFINE None == {k \in 1 .. Len(range) : ~ \E i \in 1 .. k : Best(range, k, i)}
<1>3. ASSUME None # {} PROVE FALSE
  <2>1. None \subseteq Nat
    OBVIOUS
  <2>2. PICK k \in None : \A j \in None : k <= j
    BY <1>3, <2>1, Smallest
  <2>3. k \in 1 .. Len(range) /\ ~ \E i \in 1 .. k : Best(range, k, i)
    BY <2>2
  <2>4. CASE k = 1
    <3>1. Best(range, k, 1) /\ 1 \in 1 .. k
      BY <1>1, <2>3, <2>4 DEF Best
    <3> QED BY <2>3, <3>1
  <2>5. CASE k # 1
    <3>1. k - 1 \in 1 .. Len(range) /\ k - 1 \notin None
      BY <1>2, <2>2, <2>3, <2>5
    <3>2. PICK i \in 1 .. k - 1 : Best(range, k - 1, i)
      BY <3>1
    <3>3. CASE range[k].linkQlt <= range[i].linkQlt
      <4>1. Best(range, k, i) /\ i \in 1 .. k
        BY <1>1, <2>3, <3>1, <3>2, <3>3 DEF Best
      <4> QED BY <2>3, <4>1
    <3>4. CASE range[k].linkQlt > range[i].linkQlt
      <4>0. \A j \in 1 .. k : range[j].linkQlt \in Int
        BY <1>1, <1>2, <2>3
      <4>1. \A j \in 1 .. k - 1 : range[j].linkQlt < range[k].linkQlt
        <5>1. \A j \in 1 .. k - 1 : range[j].linkQlt <= range[i].linkQlt
          BY <3>2 DEF Best
        <5>2. i \in 1 .. k /\ k \in 1 .. k /\ \A j \in 1 .. k - 1 : j \in 1 .. k
          BY <2>3, <3>1
        <5> QED BY <3>4, <4>0, <5>1, <5>2
      <4>2. \A j \in 1 .. k : j = k \/ j \in 1 .. k - 1
        BY <2>3
      <4>4. Best(range, k, k) /\ k \in 1 .. k
        BY <2>3, <4>0, <4>1, <4>2 DEF Best
      <4> QED BY <2>3, <4>4
    <3>5. range[k].linkQlt \in Int /\ range[i].linkQlt \in Int
      BY <1>1, <1>2, <2>3, <3>1
    <3> QED BY <3>3, <3>4, <3>5
  <2> QED BY <2>4, <2>5
<1> QED BY <1>3

(* findRoute returns the best of the entries it scans, if there are any. *)
LEMMA FoundIsBest ==
    ASSUME NEW range \in Seq(Entry)
    PROVE  /\ Scanned(range, 0) \in 0 .. Len(range)
           /\ Scanned(range, 0) = 0 => FoundRoute(range, 0) = NoRoute
           /\ Scanned(range, 0) # 0 =>
                 \E i \in 1 .. Scanned(range, 0) :
                     /\ FoundRoute(range, 0) = range[i]
                     /\ \A j \in 1 .. Scanned(range, 0) : range[j].linkQlt <= range[i].linkQlt
<1> DEFINE n == Scanned(range, 0)
<1>1. n \in 0 .. Len(range)
  <2>1. Expired(range, 0) \subseteq 1 .. Len(range) /\ Len(range) \in Nat
    BY DEF Expired
  <2>2. Expired(range, 0) # {} => FirstOf(Expired(range, 0)) \in 1 .. Len(range)
    BY <2>1, FirstOfIsFirst
  <2> QED BY <2>1, <2>2 DEF Scanned
<1>2. n = 0 => FoundRoute(range, 0) = NoRoute
    BY DEF FoundRoute
<1>3. ASSUME n # 0
      PROVE  \E i \in 1 .. n : /\ FoundRoute(range, 0) = range[i]
                               /\ \A j \in 1 .. n : range[j].linkQlt <= range[i].linkQlt
  <2> DEFINE i == CHOOSE i \in 1 .. n : Best(range, n, i)
  <2>1. FoundRoute(range, 0) = range[i]
    BY <1>3 DEF FoundRoute, Best
  <2>2. \E x \in 1 .. n : Best(range, n, x)
    BY <1>1, <1>3, BestExists
  <2>3. i \in 1 .. n /\ Best(range, n, i)
    BY <2>2
  <2> HIDE DEF i
  <2> QED BY <2>1, <2>3 DEF Best
<1> QED BY <1>1, <1>2, <1>3

(* The tables of a node. *)
LEMMA RouteType ==
    ASSUME NEW tab \in Table, NEW dest \in Node
    PROVE  Route(tab, dest) = NoRoute \/ Route(tab, dest) \in Entry
<1>1. tab[dest] \in Seq(Entry)
    BY DEF Table
<1> QED BY <1>1, FoundIsBest DEF Route

LEMMA createRouteType ==
    ASSUME NEW tab \in Table, NEW dest \in Node, NEW hop \in Node, NEW q \in Int
    PROVE  createRoute(tab, dest, hop, q) \in Table
<1>1. CreateEntryIn(tab[dest], 0, hop, 1, q) \in Seq(Entry)
    BY CreateKeepsType DEF Table
<1> QED BY <1>1 DEF createRoute, Table

LEMMA LookedUpType ==
    ASSUME NEW tab \in Table, NEW dest \in Node
    PROVE  LookedUp(tab, dest) \in Table
<1>1. AfterFind(tab[dest], 0) \in Seq(Entry)
    BY FindKeepsType DEF Table
<1> QED BY <1>1 DEF LookedUp, Table

(* f goes through the tables the first n lookups leave. *)
Lookups(f, tab, entries, n) ==
    f = [i \in 0 .. n |-> IF i = 0 THEN tab ELSE LookedUp(f[i - 1], entries[i].nid)]

LEMMA LookupsExist ==
    ASSUME NEW tab, NEW entries
    PROVE  \A n \in Nat : \E f : Lookups(f, tab, entries, n)
<1> DEFINE None == {n \in Nat : ~ \E f : Lookups(f, tab, entries, n)}
<1> SUFFICES ASSUME None # {} PROVE FALSE
    OBVIOUS
<1>1. PICK n \in None : \A j \in None : n <= j
    BY Smallest
<1>2. CASE n = 0
  <2> DEFINE f == [i \in 0 .. n |-> tab]
  <2>1. f = [i \in 0 .. n |-> IF i = 0 THEN tab ELSE LookedUp(f[i - 1], entries[i].nid)]
    BY <1>2
  <2> QED BY <1>1, <2>1 DEF Lookups
<1>3. CASE n # 0
  <2>1. n - 1 \in Nat /\ n - 1 \notin None
    BY <1>1, <1>3
  <2>2. PICK f : Lookups(f, tab, entries, n - 1)
    BY <2>1
  <2> DEFINE g == [i \in 0 .. n |-> IF i = n THEN LookedUp(f[n - 1], entries[n].nid) ELSE f[i]]
  <2>3. \A i \in 0 .. n : g[i] = IF i = 0 THEN tab ELSE LookedUp(g[i - 1], entries[i].nid)
    <3> SUFFICES ASSUME NEW i \in 0 .. n
                 PROVE  g[i] = IF i = 0 THEN tab ELSE LookedUp(g[i - 1], entries[i].nid)
      OBVIOUS
    <3>1. \A j \in 0 .. n - 1 : f[j] = IF j = 0 THEN tab ELSE LookedUp(f[j - 1], entries[j].nid)
      BY <2>2 DEF Lookups
    <3>2. \A j \in 0 .. n - 1 : g[j] = f[j]
      BY <1>1
    <3>3. CASE i = 0
      BY <1>1, <1>3, <2>1, <3>1, <3>2, <3>3
    <3>4. CASE i # 0 /\ i = n
      <4>1. g[i] = LookedUp(f[n - 1], entries[n].nid) /\ n - 1 \in 0 .. n - 1
        BY <2>1, <3>4
      <4> QED BY <3>2, <3>4, <4>1
    <3>5. CASE i # 0 /\ i # n
      <4>1. i \in 0 .. n - 1 /\ i - 1 \in 0 .. n - 1
        BY <1>1, <3>5
      <4> QED BY <3>1, <3>2, <3>5, <4>1
    <3> QED BY <3>3, <3>4, <3>5
  <2> HIDE DEF g
  <2>4. g = [i \in 0 .. n |-> g[i]]
    BY DEF g
  <2>5. Lookups(g, tab, entries, n)
    BY <2>3, <2>4 DEF Lookups
  <2> QED BY <1>1, <2>5
<1> QED BY <1>2, <1>3

LEMMA AllLookedUpByStep ==
    ASSUME NEW tab, NEW entries, Len(entries) \in Nat
    PROVE  \E f : /\ f[0] = tab
                  /\ \A i \in 1 .. Len(entries) : f[i] = LookedUp(f[i - 1], entries[i].nid)
                  /\ AllLookedUp(tab, entries) = f[Len(entries)]
<1> DEFINE n == Len(entries)
           f == CHOOSE f : Lookups(f, tab, entries, n)
<1>1. AllLookedUp(tab, entries) = f[n]
    BY DEF AllLookedUp, Lookups
<1>2. Lookups(f, tab, entries, n)
    BY LookupsExist
<1> HIDE DEF f
<1>3. \A i \in 0 .. n : f[i] = IF i = 0 THEN tab ELSE LookedUp(f[i - 1], entries[i].nid)
    BY <1>2 DEF Lookups
<1>4. f[0] = tab /\ \A i \in 1 .. n : f[i] = LookedUp(f[i - 1], entries[i].nid)
    BY <1>3
<1> QED BY <1>1, <1>4

LEMMA AllLookedUpType ==
    ASSUME NEW tab \in Table, NEW entries, Len(entries) \in Nat,
           \A i \in 1 .. Len(entries) : entries[i].nid \in Node
    PROVE  AllLookedUp(tab, entries) \in Table
<1>1. PICK f : /\ f[0] = tab
               /\ \A i \in 1 .. Len(entries) : f[i] = LookedUp(f[i - 1], entries[i].nid)
               /\ AllLookedUp(tab, entries) = f[Len(entries)]
    BY AllLookedUpByStep
<1> DEFINE Bad == {i \in 0 .. Len(entries) : f[i] \notin Table}
<1>2. ASSUME Bad # {} PROVE FALSE
  <2>1. Bad \subseteq Nat
    OBVIOUS
  <2>2. PICK i \in Bad : \A j \in Bad : i <= j
    BY <1>2, <2>1, Smallest
  <2>3. i # 0
    BY <1>1, <2>2
  <2>4. i \in 1 .. Len(entries) /\ i - 1 \in 0 .. Len(entries) /\ i - 1 \notin Bad
    BY <2>2, <2>3
  <2>5. f[i - 1] \in Table /\ f[i] = LookedUp(f[i - 1], entries[i].nid)
    BY <1>1, <2>4
  <2>6. f[i] \in Table
    BY <2>4, <2>5, LookedUpType
  <2> QED BY <2>2, <2>6
<1> QED BY <1>1, <1>2

----------------------------------------------------------------------------
(* What is on the air. *)
Frame == [to : Node, pkt : Get \cup Data]
PITentry == [nid : Node, mac : Node, nonce : 1 .. MaxGets]
Waiting == [pkt : Get, tc : Int]

LEMMA PacketKinds ==
    ASSUME NEW f \in Frame
    PROVE  /\ f.to \in Node /\ f.pkt.sid \in Sid
           /\ f.pkt.type = "Get" => f.pkt \in Get
           /\ f.pkt.type = "Data" => f.pkt \in Data
BY DEF Frame, Get, Data

LEMMA LearnFromGetType ==
    ASSUME NEW tab \in Table, NEW g \in Get
    PROVE  LearnFromGet(tab, g) \in Table
<1>1. g.source \in Node /\ g.lastHop \in Node /\ g.ttl \in Int
    BY DEF Get
<1> QED BY <1>1, createRouteType DEF LearnFromGet

LEMMA LearnFromDataType ==
    ASSUME NEW tab \in Table, NEW d \in Data
    PROVE  LearnFromData(tab, d) \in Table
<1>1. /\ d.lastHop \in Node /\ d.ttl \in Int /\ d.routeMetric \in Int /\ d.sid \in Sid
      /\ Provider[d.sid] \in Node
    BY ColorAssumption DEF Data
<1> DEFINE dest == Provider[d.sid]
           neighbour == createRoute(tab, d.lastHop, d.lastHop, d.ttl)
           source == IF d.comeFromSource THEN createRoute(neighbour, dest, d.lastHop, d.ttl)
                     ELSE neighbour
<1>2. neighbour \in Table
    BY <1>1, createRouteType
<1> HIDE DEF neighbour
<1>3. source \in Table
    BY <1>1, <1>2, createRouteType
<1>4. LearnFromData(tab, d) = IF d.routeMetric # 0
                              THEN createRoute(source, dest, d.lastHop, d.routeMetric) ELSE source
    BY DEF LearnFromData, neighbour
<1> HIDE DEF source, dest
<1>5. dest \in Node
    BY <1>1 DEF dest
<1> QED BY <1>1, <1>3, <1>4, <1>5, createRouteType

LEMMA BroadcastType ==
    ASSUME NEW n \in Node, NEW p \in Get \cup Data
    PROVE  Broadcast(n, p) \subseteq Frame
BY ColorAssumption DEF Broadcast, Frame

LEMMA RelayedType ==
    ASSUME NEW n \in Node, NEW g \in Get
    PROVE  /\ Relayed(n, g) \in Get
           /\ \A h \in Node \cup {Default} : [Relayed(n, g) EXCEPT !.nexthop = h] \in Get
<1>1. Relayed(n, g) \in Get
  <2>1. g.ttl - 1 \in Int
    BY DEF Get
  <2>2. ASSUME NEW r \in Get, NEW h \in Node PROVE [r EXCEPT !.lastHop = h] \in Get
    BY DEF Get
  <2>3. ASSUME NEW r \in Get, NEW i \in Int PROVE [r EXCEPT !.ttl = i] \in Get
    BY DEF Get
  <2> DEFINE later == [g EXCEPT !.ttl = g.ttl - 1]
  <2>4. Relayed(n, g) = [later EXCEPT !.lastHop = n]
    BY DEF Relayed
  <2>5. later \in Get
    BY <2>1, <2>3
  <2> HIDE DEF later
  <2>6. [later EXCEPT !.lastHop = n] \in Get
    BY <2>2, <2>5
  <2> QED BY <2>4, <2>6
<1>2. ASSUME NEW r \in Get, NEW h \in Node \cup {Default} PROVE [r EXCEPT !.nexthop = h] \in Get
    BY DEF Get
<1> QED BY <1>1, <1>2

(* A delayed packet is put somewhere into the queue, or not at all. *)
LEMMA DelayedType ==
    ASSUME NEW q \in Seq(Waiting), NEW g \in Get, NEW new \in Delayed(q, g)
    PROVE  new \in Seq(Waiting)
<1> DEFINE e == [pkt |-> g, tc |-> TC]
<1>1. e \in Waiting
    BY ColorAssumption DEF Waiting
<1>2. Len(q) \in Nat /\ \A i \in 1 .. Len(q) : q[i] \in Waiting
    OBVIOUS
<1>3. CASE have(q, g) # {}
  <2>1. PICK i \in have(q, g) : new = [q EXCEPT ![i].tc = @ - 1]
    BY <1>3 DEF Delayed, InsertedLater
  <2>2. i \in 1 .. Len(q)
    BY DEF have
  <2>e. q[i] \in Waiting
    BY <2>2
  <2>3. [q[i] EXCEPT !.tc = @ - 1] \in Waiting
    BY <2>e DEF Waiting
  <2> QED BY <2>1, <2>2, <2>3
<1>4. CASE have(q, g) = {} /\ q = <<>>
  <2>1. new = <<e>>
    BY <1>4 DEF Delayed, InsertedLater
  <2> HIDE DEF e
  <2> QED BY <1>1, <2>1
<1>5. CASE have(q, g) = {} /\ q # <<>>
  <2>1. new = q \/ \E i \in 1 .. Len(q) :
                       new = SubSeq(q, 1, i - 1) \o <<e>> \o SubSeq(q, i, Len(q))
    BY <1>5 DEF Delayed, InsertedLater
  <2> HIDE DEF e
  <2>2. ASSUME NEW i \in 1 .. Len(q)
        PROVE  SubSeq(q, 1, i - 1) \o <<e>> \o SubSeq(q, i, Len(q)) \in Seq(Waiting)
    <3> DEFINE a == SubSeq(q, 1, i - 1)
               b == SubSeq(q, i, Len(q))
               c == <<e>>
    <3>1. a \in Seq(Waiting) /\ b \in Seq(Waiting) /\ c \in Seq(Waiting)
      BY <1>1, <1>2
    <3> HIDE DEF a, b, c
    <3>2. a \o c \in Seq(Waiting)
      BY <3>1, ConcatProperties
    <3>3. a \o c \o b \in Seq(Waiting)
      BY <3>1, <3>2, ConcatProperties
    <3> QED BY <3>3 DEF a, b, c
  <2> QED BY <2>1, <2>2
<1> QED BY <1>3, <1>4, <1>5

(* TypeOK, with its sets by their names. *)
Typed ==
    /\ rt \in [Node -> Table]
    /\ pit \in TableOf(Seq(PITentry))
    /\ cache \in TableOf(Seq(Offset))
    /\ getTable \in [Node -> SUBSET (Sid \X Node)]
    /\ delay_queue \in [Node -> Seq(Waiting)]
    /\ SIDtoSockets \in [Node -> SUBSET Sid]
    /\ ResemBuffer \in TableOf(SUBSET Offset)
    /\ net \subseteq Frame
    /\ gets \in 0 .. MaxGets
    /\ relays \in TableOf(Nat)
    /\ dataRelays \in TableOf([Offset -> Nat])
    /\ received \in [Node -> SUBSET Sid]

LEMMA TypedIsTypeOK == TypeOK <=> Typed
BY DEF TypeOK, Typed, Entry, Table, TableOf, PITentry, Waiting, Frame

LEMMA InitTyped == Init => Typed
<1> SUFFICES ASSUME Init PROVE Typed
    OBVIOUS
<1>1. rt \in [Node -> Table] /\ pit \in TableOf(Seq(PITentry)) /\ delay_queue \in [Node -> Seq(Waiting)]
    BY DEF Init, Table, TableOf
<1>2. cache \in TableOf(Seq(Offset))
    BY SomeFragments DEF Init, TableOf
<1>3. /\ getTable \in [Node -> SUBSET (Sid \X Node)]
      /\ SIDtoSockets \in [Node -> SUBSET Sid]
      /\ ResemBuffer \in TableOf(SUBSET Offset)
      /\ received \in [Node -> SUBSET Sid]
      /\ net \subseteq Frame
    BY DEF Init, TableOf
<1>4. /\ gets \in 0 .. MaxGets
      /\ relays \in TableOf(Nat)
      /\ dataRelays \in TableOf([Offset -> Nat])
    BY ColorAssumption DEF Init, TableOf
<1> QED BY <1>1, <1>2, <1>3, <1>4 DEF Typed

LEMMA SendTyped ==
    ASSUME Typed, NEW n \in Consumer, NEW s \in Sid, sendGET(n, s)
    PROVE  Typed'
<1>1. n \in Node /\ Provider[s] \in Node /\ MaxGets \in Nat /\ HopLimit \in Nat
    BY ColorAssumption
<1>2. rt[n] \in Table
    BY <1>1 DEF Typed
<1>3. LookedUp(rt[n], Provider[s]) \in Table
    BY <1>1, <1>2, LookedUpType
<1> DEFINE r == Route(rt[n], Provider[s])
           g == GetHead(n, s, r, gets + 1)
<1>4. gets' \in 0 .. MaxGets /\ gets + 1 \in 1 .. MaxGets
    BY <1>1 DEF Typed, sendGET
<1>5. g \in Get
  <2>1. r = NoRoute \/ r \in Entry
    BY <1>1, <1>2, RouteType
  <2> HIDE DEF r
  <2>2. (IF r # NoRoute /\ ~Flood THEN r.nextHop ELSE Default) \in Node \cup {Default}
    BY <2>1 DEF Entry
  <2> QED BY <1>1, <1>4, <2>2 DEF GetHead, Get
<1>6. net' = net \cup Broadcast(n, g)
    BY DEF sendGET
<1> HIDE DEF g
<1>7. net' \subseteq Frame
    BY <1>1, <1>5, <1>6, BroadcastType DEF Typed
<1>8. rt' \in [Node -> Table]
    BY <1>3 DEF Typed, sendGET
<1>9. SIDtoSockets' \in [Node -> SUBSET Sid]
    BY DEF Typed, sendGET
<1> QED BY <1>4, <1>7, <1>8, <1>9 DEF Typed, sendGET

LEMMA CacheDataTyped ==
    ASSUME Typed, NEW s \in Sid, cacheData(s)
    PROVE  Typed'
<1> DEFINE n == Provider[s]
           Q == Seq(Offset)
<1>1. n \in Node
    BY ColorAssumption
<1>2. cache' = Put(cache, n, s, FragmentAndStore)
    BY DEF cacheData, Put
<1>3. cache \in TableOf(Q) /\ FragmentAndStore \in Q
    BY SomeFragments DEF Typed
<1> HIDE DEF n, Q
<1>4. cache' \in TableOf(Q)
    BY <1>2, <1>3, Replaced
<1> QED BY <1>4 DEF Typed, cacheData, upper, counters, Q

LEMMA DropTyped ==
    ASSUME Typed, NEW f \in net, net' = net \ {f}, UNCHANGED <<tables, upper, counters>>
    PROVE  Typed'
BY DEF Typed, tables, upper, counters

LEMMA MissGetTyped ==
    ASSUME Typed, NEW f \in net, MissGet(f)
    PROVE  Typed'
<1> DEFINE n == f.to
           g == f.pkt
           s == g.sid
           dest == Provider[s]
           heard == LearnFromGet(rt[n], g)
           first == LookedUp(heard, dest)
           r == Route(first, dest)
           alone == pit[n][s] = <<>>
           onRoute == alone /\ ~Flood /\ r # NoRoute /\ g.nexthop \in {n, Default}
           onAir == alone /\ (Flood \/ (r = NoRoute /\ g.nexthop = Default))
<1>1. n \in Node /\ s \in Sid /\ g \in Get /\ dest \in Node
    BY PacketKinds, ColorAssumption DEF Typed, MissGet
<1>2. rt' = [rt EXCEPT ![n] = LookedUp(first, dest)]
    BY DEF MissGet
<1>3. pit' = Put(pit, n, s, WithEntry(pit[n][s], g))
    BY DEF MissGet, Put
<1>4. net' = IF onRoute
             THEN (net \ {f}) \cup Broadcast(n, [Relayed(n, g) EXCEPT !.nexthop = r.nextHop])
             ELSE net \ {f}
    BY DEF MissGet, haveSID
<1>5. \/ delay_queue' = delay_queue
      \/ \E q \in Delayed(delay_queue[n], Relayed(n, g)) :
             delay_queue' = [delay_queue EXCEPT ![n] = q]
    BY DEF MissGet
<1>6. relays' = relays \/ relays' = Put(relays, n, s, relays[n][s] + 1)
    BY DEF MissGet, Put
<1>7. UNCHANGED <<cache, getTable, upper, gets, dataRelays>>
    BY DEF MissGet
<1> HIDE DEF n, g, s, dest
<1>8. rt[n] \in Table
    BY <1>1 DEF Typed
<1>9. heard \in Table
    BY <1>1, <1>8, LearnFromGetType
<1> HIDE DEF heard
<1>10. first \in Table
    BY <1>1, <1>9, LookedUpType
<1> HIDE DEF first
<1>11. LookedUp(first, dest) \in Table
    BY <1>1, <1>10, LookedUpType
<1>12. rt' \in [Node -> Table]
    BY <1>2, <1>11 DEF Typed
<1>13. pit' \in TableOf(Seq(PITentry))
  <2> DEFINE Q == Seq(PITentry)
             e == [nid |-> g.source, mac |-> g.lastHop, nonce |-> g.nonce]
  <2>1. pit \in TableOf(Q) /\ pit[n][s] \in Q
    BY <1>1 DEF Typed, TableOf
  <2>2. e \in PITentry
    BY <1>1 DEF Get, PITentry
  <2>3. WithEntry(pit[n][s], g) \in Seq(PITentry \cup {e})
    BY <2>1, Entered
  <2>4. PITentry \cup {e} = PITentry
    BY <2>2
  <2>5. WithEntry(pit[n][s], g) \in Q
    BY <2>3, <2>4
  <2> HIDE DEF Q
  <2>6. pit' \in TableOf(Q)
    BY <1>3, <2>1, <2>5, Replaced
  <2> QED BY <2>6 DEF Q
<1>14. net' \subseteq Frame
  <2>1. CASE onRoute
    <3>1. r \in Entry
      BY <1>1, <1>10, <2>1, RouteType
    <3>2. r.nextHop \in Node \cup {Default}
      BY <3>1 DEF Entry
    <3> DEFINE p == [Relayed(n, g) EXCEPT !.nexthop = r.nextHop]
    <3>3. p \in Get
      BY <1>1, <3>2, RelayedType
    <3>4. net' = (net \ {f}) \cup Broadcast(n, p)
      BY <1>4, <2>1
    <3> HIDE DEF p
    <3>5. Broadcast(n, p) \subseteq Frame
      BY <1>1, <3>3, BroadcastType
    <3> QED BY <3>4, <3>5 DEF Typed
  <2>2. CASE ~onRoute
    BY <1>4, <2>2 DEF Typed
  <2> QED BY <2>1, <2>2
<1>15. delay_queue' \in [Node -> Seq(Waiting)]
  <2>1. ASSUME NEW q \in Delayed(delay_queue[n], Relayed(n, g)) PROVE q \in Seq(Waiting)
    <3>1. delay_queue[n] \in Seq(Waiting) /\ Relayed(n, g) \in Get
      BY <1>1, RelayedType DEF Typed
    <3> QED BY <3>1, DelayedType
  <2> QED BY <1>5, <2>1 DEF Typed
<1>16. relays' \in TableOf(Nat)
  <2>1. relays \in TableOf(Nat) /\ relays[n][s] \in Nat
    BY <1>1 DEF Typed, TableOf
  <2>2. relays[n][s] + 1 \in Nat
    BY <2>1
  <2> QED BY <1>6, <2>1, <2>2, Replaced
<1> QED BY <1>7, <1>12, <1>13, <1>14, <1>15, <1>16 DEF Typed, upper

LEMMA AnswerGetTyped ==
    ASSUME Typed, NEW f \in net, NEW recent \in BOOLEAN, AnswerGet(f, recent)
    PROVE  Typed'
<1> DEFINE n == f.to
           g == f.pkt
           s == g.sid
           dest == Provider[s]
           heard == LearnFromGet(rt[n], g)
           r == Route(heard, dest)
           offset == Head(cache[n][s])
           data == [type |-> "Data", sid |-> s, offset |-> offset, lastHop |-> n,
                    ttl |-> IF n = dest THEN HopLimit ELSE CacheTtl,
                    comeFromSource |-> n = dest /\ Fragments = 1,
                    routeMetric |-> IF r = NoRoute THEN 0 ELSE r.linkQlt]
<1>1. n \in Node /\ s \in Sid /\ g \in Get /\ dest \in Node
    BY PacketKinds, ColorAssumption DEF Typed, AnswerGet
<1>2. rt' = [rt EXCEPT ![n] = LearnFromGet(LookedUp(heard, dest), g)]
    BY DEF AnswerGet
<1>3. getTable' = [getTable EXCEPT ![n] = @ \cup {<<s, g.source>>}]
    BY DEF AnswerGet
<1>4. net' = (net \ {f}) \cup IF recent THEN {} ELSE Unicast(g.lastHop, data)
    BY DEF AnswerGet
<1>5. cache[n][s] # <<>> /\ UNCHANGED <<pit, cache, delay_queue, upper, counters>>
    BY DEF AnswerGet
<1> HIDE DEF n, g, s, dest
<1>6. rt[n] \in Table
    BY <1>1 DEF Typed
<1>7. heard \in Table
    BY <1>1, <1>6, LearnFromGetType
<1> HIDE DEF heard
<1>8. LookedUp(heard, dest) \in Table
    BY <1>1, <1>7, LookedUpType
<1>9. LearnFromGet(LookedUp(heard, dest), g) \in Table
    BY <1>1, <1>8, LearnFromGetType
<1>10. rt' \in [Node -> Table]
    BY <1>2, <1>9 DEF Typed
<1>11. getTable' \in [Node -> SUBSET (Sid \X Node)]
  <2>1. <<s, g.source>> \in Sid \X Node
    BY <1>1 DEF Get
  <2> QED BY <1>3, <2>1 DEF Typed
<1>12. data \in Data
  <2>1. offset \in Offset
    <3>1. cache[n][s] \in Seq(Offset)
      BY <1>1 DEF Typed, TableOf
    <3> QED BY <1>5, <3>1
  <2>2. (IF r = NoRoute THEN 0 ELSE r.linkQlt) \in Int
    <3>1. r = NoRoute \/ r \in Entry
      BY <1>1, <1>7, RouteType
    <3> HIDE DEF r
    <3> QED BY <3>1 DEF Entry
  <2> HIDE DEF offset, r
  <2> QED BY <1>1, <2>1, <2>2, ColorAssumption DEF Data
<1> HIDE DEF data
<1>13. net' \subseteq Frame
  <2>1. g.lastHop \in Node
    BY <1>1 DEF Get
  <2>2. Unicast(g.lastHop, data) \subseteq Frame
    BY <1>12, <2>1 DEF Unicast, Frame
  <2> QED BY <1>4, <2>2 DEF Typed
<1> QED BY <1>5, <1>10, <1>11, <1>13 DEF Typed, upper, counters

(* A consumer's buffers. *)
LEMMA addFragmentTyped ==
    ASSUME Typed, NEW n \in Node, NEW d \in Data, addFragment(n, d)
    PROVE  /\ SIDtoSockets' \in [Node -> SUBSET Sid]
           /\ ResemBuffer' \in TableOf(SUBSET Offset)
           /\ received' \in [Node -> SUBSET Sid]
<1> DEFINE s == d.sid
           got == ResemBuffer[n][s] \cup {d.offset}
           B == SUBSET Offset
<1>1. s \in Sid /\ d.offset \in Offset
    BY DEF Data
<1>2. ResemBuffer \in TableOf(B) /\ got \in B /\ {} \in B
    BY <1>1 DEF Typed, TableOf
<1>3. \/ UNCHANGED upper
      \/ ResemBuffer' = Put(ResemBuffer, n, s, got) /\ UNCHANGED <<SIDtoSockets, received>>
      \/ /\ ResemBuffer' = Put(ResemBuffer, n, s, {})
         /\ SIDtoSockets' = [SIDtoSockets EXCEPT ![n] = @ \ {s}]
         /\ received' = [received EXCEPT ![n] = @ \cup {s}]
    BY DEF addFragment, Put
<1> HIDE DEF s, got, B
<1>4. ResemBuffer' \in TableOf(B)
    BY <1>2, <1>3, Replaced DEF upper
<1>5. SIDtoSockets' \in [Node -> SUBSET Sid]
    BY <1>3 DEF Typed, upper
<1>6. received' \in [Node -> SUBSET Sid]
    BY <1>1, <1>3 DEF Typed, upper
<1> QED BY <1>4, <1>5, <1>6 DEF B

LEMMA RelayedDataType ==
    ASSUME NEW n \in Node, NEW d \in Data
    PROVE  RelayedData(n, d) \in Data
<1> DEFINE metric == IF d.routeMetric # 0 THEN d.routeMetric - 1 ELSE 0
           a == [d EXCEPT !.ttl = d.ttl - 1]
           b == [a EXCEPT !.lastHop = n]
<1>1. d.ttl - 1 \in Int /\ metric \in Int
    BY DEF Data
<1>2. RelayedData(n, d) = [b EXCEPT !.routeMetric = metric]
    BY DEF RelayedData, Data
<1> HIDE DEF metric
<1>3. a \in Data
    BY <1>1 DEF Data
<1> HIDE DEF a
<1>4. b \in Data
    BY <1>3 DEF Data
<1> HIDE DEF b
<1>5. [b EXCEPT !.routeMetric = metric] \in Data
    BY <1>1, <1>4 DEF Data
<1> QED BY <1>2, <1>5

LEMMA DataTyped ==
    ASSUME Typed, NEW f \in net, handleDataPacket(f)
    PROVE  Typed'
<1> DEFINE n == f.to
           d == f.pkt
           s == d.sid
           o == d.offset
           heard == LearnFromData(rt[n], d)
           entries == pit[n][s]
           r == Route(heard, entries[1].nid)
           next == IF r = NoRoute THEN entries[1].mac ELSE r.nextHop
           relay == entries # <<>> /\ ~hasThisPacket(n, d)
<1>1. n \in Node /\ s \in Sid /\ d \in Data /\ o \in Offset
  <2>1. n \in Node /\ s \in Sid /\ d \in Data
    BY PacketKinds DEF Typed, handleDataPacket
  <2> QED BY <2>1 DEF Data
<1>2. /\ addFragment(n, d)
      /\ rt' = [rt EXCEPT ![n] = AllLookedUp(heard, entries)]
      /\ pit' = Put(pit, n, s, <<>>)
      /\ net' = (net \ {f}) \cup IF relay THEN Unicast(next, RelayedData(n, d)) ELSE {}
      /\ UNCHANGED <<getTable, delay_queue, gets, relays>>
    BY DEF handleDataPacket, Put
<1>3. \/ cache' = cache /\ dataRelays' = dataRelays
      \/ /\ cache' = Put(cache, n, s, Append(cache[n][s], o))
         /\ dataRelays' = Put(dataRelays, n, s, [dataRelays[n][s] EXCEPT ![o] = @ + 1])
    BY DEF handleDataPacket, InsterPacket, Put
<1> HIDE DEF n, d, s, o
<1>4. entries \in Seq(PITentry)
    BY <1>1 DEF Typed, TableOf
<1>5. heard \in Table
  <2>1. rt[n] \in Table
    BY <1>1 DEF Typed
  <2> QED BY <1>1, <2>1, LearnFromDataType
<1> HIDE DEF heard, entries
<1>6. Len(entries) \in Nat /\ \A i \in 1 .. Len(entries) : entries[i] \in PITentry
    BY <1>4
<1>7. \A i \in 1 .. Len(entries) : entries[i].nid \in Node /\ entries[i].mac \in Node
    BY <1>6 DEF PITentry
<1>8. rt' \in [Node -> Table]
  <2>1. AllLookedUp(heard, entries) \in Table
    BY <1>5, <1>6, <1>7, AllLookedUpType
  <2> QED BY <1>2, <2>1 DEF Typed
<1>9. pit' \in TableOf(Seq(PITentry))
    BY <1>2, Emptied DEF Typed
<1>10. relay => next \in Node
  <2> SUFFICES ASSUME relay PROVE next \in Node
    OBVIOUS
  <2>1. 1 \in 1 .. Len(entries)
    BY <1>4, <1>6
  <2>2. entries[1].nid \in Node /\ entries[1].mac \in Node
    BY <1>7, <2>1
  <2>3. r = NoRoute \/ r \in Entry
    BY <1>5, <2>2, RouteType
  <2> HIDE DEF r
  <2> QED BY <2>2, <2>3 DEF Entry
<1>11. net' \subseteq Frame
  <2>1. RelayedData(n, d) \in Data
    BY <1>1, RelayedDataType
  <2>2. relay => Unicast(next, RelayedData(n, d)) \subseteq Frame
    BY <1>10, <2>1 DEF Unicast, Frame
  <2> QED BY <1>2, <2>2 DEF Typed
<1>12. cache' \in TableOf(Seq(Offset))
  <2> DEFINE Q == Seq(Offset)
             new == Append(cache[n][s], o)
  <2>1. cache \in TableOf(Q) /\ cache[n][s] \in Seq(Offset)
    BY <1>1 DEF Typed, TableOf
  <2>2. new \in Q
    BY <1>1, <2>1
  <2>3. cache' = cache \/ cache' = Put(cache, n, s, new)
    BY <1>3
  <2> HIDE DEF Q, new
  <2>4. cache' \in TableOf(Q)
    BY <2>1, <2>2, <2>3, Replaced
  <2> QED BY <2>4 DEF Q
<1>13. dataRelays' \in TableOf([Offset -> Nat])
  <2> DEFINE count == [dataRelays[n][s] EXCEPT ![o] = @ + 1]
  <2>1. dataRelays \in TableOf([Offset -> Nat]) /\ dataRelays[n][s] \in [Offset -> Nat]
    BY <1>1 DEF Typed, TableOf
  <2>2. count \in [Offset -> Nat]
    BY <2>1, Counted
  <2>3. dataRelays' = dataRelays \/ dataRelays' = Put(dataRelays, n, s, count)
    BY <1>3
  <2> HIDE DEF count
  <2> QED BY <2>1, <2>2, <2>3, Replaced
<1>14. /\ SIDtoSockets' \in [Node -> SUBSET Sid]
       /\ ResemBuffer' \in TableOf(SUBSET Offset)
       /\ received' \in [Node -> SUBSET Sid]
    BY <1>1, <1>2, addFragmentTyped
<1> QED BY <1>2, <1>8, <1>9, <1>11, <1>12, <1>13, <1>14 DEF Typed

LEMMA DelayerTyped ==
    ASSUME Typed, NEW n \in Node, Delayer(n)
    PROVE  Typed'
<1> DEFINE q == delay_queue[n]
           first == Head(q)
           dest == Provider[first.pkt.sid]
           r == Route(rt[n], dest)
           sent == IF r = NoRoute THEN first.pkt ELSE [first.pkt EXCEPT !.nexthop = r.nextHop]
<1>1. q \in Seq(Waiting) /\ q # <<>>
    BY DEF Typed, Delayer
<1>2. first \in Waiting /\ Tail(q) \in Seq(Waiting)
    BY <1>1
<1>3. /\ delay_queue' = [delay_queue EXCEPT ![n] = Tail(q)]
      /\ rt' = [rt EXCEPT ![n] = LookedUp(rt[n], dest)]
      /\ net' = net \/ net' = net \cup Broadcast(n, sent)
      /\ UNCHANGED <<pit, cache, getTable, upper, counters>>
    BY DEF Delayer
<1> HIDE DEF first
<1>4. first.pkt \in Get
    BY <1>2 DEF Waiting
<1>5. dest \in Node
    BY <1>4, ColorAssumption DEF Get
<1> HIDE DEF q, dest
<1>6. rt[n] \in Table /\ LookedUp(rt[n], dest) \in Table
    BY <1>5, LookedUpType DEF Typed
<1>7. rt' \in [Node -> Table] /\ delay_queue' \in [Node -> Seq(Waiting)]
    BY <1>2, <1>3, <1>6 DEF Typed
<1>8. sent \in Get
  <2>1. r = NoRoute \/ r \in Entry
    BY <1>5, <1>6, RouteType
  <2> HIDE DEF r
  <2>2. CASE r = NoRoute
    BY <1>4, <2>2
  <2>3. CASE r # NoRoute
    <3>1. r.nextHop \in Node
      BY <2>1, <2>3 DEF Entry
    <3>2. ASSUME NEW g \in Get, NEW h \in Node PROVE [g EXCEPT !.nexthop = h] \in Get
      BY DEF Get
    <3> QED BY <1>4, <2>3, <3>1, <3>2
  <2> QED BY <2>2, <2>3
<1> HIDE DEF sent
<1>9. net' \subseteq Frame
    BY <1>3, <1>8, BroadcastType DEF Typed
<1> QED BY <1>3, <1>7, <1>9 DEF Typed, upper, counters

LEMMA PitTimeoutTyped ==
    ASSUME Typed, NEW n \in Node, NEW s \in Sid, PitTimeout(n, s)
    PROVE  Typed'
<1>1. /\ pit' = Put(pit, n, s, <<>>)
      /\ relays' = Put(relays, n, s, 0)
      /\ UNCHANGED <<rt, cache, getTable, delay_queue, upper, net, gets, dataRelays>>
    BY DEF PitTimeout, Put
<1>2. pit' \in TableOf(Seq(PITentry))
    BY <1>1, Emptied DEF Typed
<1>3. relays \in TableOf(Nat) /\ 0 \in Nat
    BY DEF Typed
<1>4. relays' \in TableOf(Nat)
    BY <1>1, <1>3, Replaced
<1> QED BY <1>1, <1>2, <1>4 DEF Typed, upper

LEMMA RouteExpiresTyped ==
    ASSUME Typed, NEW n \in Node, NEW d \in Node, RouteExpires(n, d)
    PROVE  Typed'
<1>1. PICK i \in 1 .. Len(rt[n][d]) : rt' = [rt EXCEPT ![n][d][i].lifeTime = 0]
    BY DEF RouteExpires
<1> DEFINE old == rt[n][d]
           new == [old EXCEPT ![i].lifeTime = 0]
<1>2. rt[n] \in Table /\ old \in Seq(Entry)
    BY DEF Typed, Table
<1>3. old[i] \in Entry
    BY <1>2
<1>4. [old[i] EXCEPT !.lifeTime = 0] \in Entry
    BY <1>3 DEF Entry
<1>5. new \in Seq(Entry)
    BY <1>2, <1>4
<1>6. rt' = [rt EXCEPT ![n] = [rt[n] EXCEPT ![d] = new]]
    BY <1>1
<1> HIDE DEF old, new
<1>7. [rt[n] EXCEPT ![d] = new] \in Table
    BY <1>2, <1>5 DEF Table
<1>8. rt' \in [Node -> Table]
    BY <1>6, <1>7 DEF Typed
<1> QED BY <1>8 DEF Typed, RouteExpires, upper, counters

LEMMA NextTyped == Typed /\ [Next]_vars => Typed'
<1> SUFFICES ASSUME Typed, [Next]_vars PROVE Typed'
    OBVIOUS
<1>1. ASSUME NEW n \in Consumer, NEW s \in Sid, sendGET(n, s) PROVE Typed'
    BY <1>1, SendTyped
<1>2. ASSUME NEW s \in Sid, cacheData(s) PROVE Typed'
    BY <1>2, CacheDataTyped
<1>3. ASSUME NEW f \in net, Receive(f) PROVE Typed'
  <2>1. CASE DropGet(f)
    BY <2>1, DropTyped DEF DropGet
  <2>2. CASE MissGet(f)
    BY <2>2, MissGetTyped
  <2>3. ASSUME NEW recent \in BOOLEAN, AnswerGet(f, recent) PROVE Typed'
    BY <2>3, AnswerGetTyped
  <2>4. CASE handleDataPacket(f)
    BY <2>4, DataTyped
  <2> QED BY <1>3, <2>1, <2>2, <2>3, <2>4 DEF Receive
<1>4. ASSUME NEW n \in Node, Delayer(n) PROVE Typed'
    BY <1>4, DelayerTyped
<1>5. ASSUME NEW n \in Node, NEW s \in Sid, PitTimeout(n, s) PROVE Typed'
    BY <1>5, PitTimeoutTyped
<1>6. ASSUME NEW n \in Node, NEW d \in Node, RouteExpires(n, d) PROVE Typed'
    BY <1>6, RouteExpiresTyped
<1>7. ASSUME NEW f \in net, Lose(f) PROVE Typed'
    BY <1>7, DropTyped DEF Lose
<1>8. CASE UNCHANGED vars
    BY <1>8 DEF Typed, vars, tables, upper, counters
<1> QED BY <1>1, <1>2, <1>3, <1>4, <1>5, <1>6, <1>7, <1>8 DEF Next, Done

(* All tables, queues and frames keep their types: in particular findRoute *)
(* always returns an entry of the table or none, so every next hop, PIT    *)
(* entry and answered neighbour is a node.                                 *)
THEOREM NetworkTypes == Spec => []TypeOK
<1>1. Init => Typed
    BY InitTyped
<1>2. Typed /\ [Next]_vars => Typed'
    BY NextTyped
<1>3. Typed => TypeOK
    BY TypedIsTypeOK
<1> QED BY <1>1, <1>2, <1>3, PTL DEF Spec

----------------------------------------------------------------------------
(***************************************************************************)
(* Loops. While nothing times out, the one request there is travels away   *)
(* from its consumer c: a node sends it on once, with a TTL below the      *)
(* quality of the route to c it has just learned, so along the routes to c *)
(* the qualities rise.                                                     *)
(***************************************************************************)

Providers == {Provider[s] : s \in Sid}

(* The node has taken part in the request for s, as its consumer, by a     *)
(* pending GET or by its cache.                                            *)
Heard(c, s, m) == m = c \/ pit[m][s] # <<>> \/ cache[m][s] # <<>>

(* A route of m to c that is better than q. *)
Better(c, m, q) == \E i \in 1 .. Len(rt[m][c]) : rt[m][c][i].linkQlt > q

(* A GET of c that m has sent with some TTL, or the route learned from it. *)
FromConsumer(c, s, m, ttl) ==
    /\ Heard(c, s, m)
    /\ m # c => ttl <= HopLimit /\ Better(c, m, ttl)

SoundGet(c, s, g) ==
    /\ g.source = c /\ g.sid = s
    /\ g.ttl <= HopLimit
    /\ c \notin Providers => FromConsumer(c, s, g.lastHop, g.ttl)

(* A route to d: it lives; only neighbours are known, apart from c and the *)
(* providers; and a route to c was learned from a GET, or is c itself.     *)
SoundRoute(c, s, d, e) ==
    /\ e.lifeTime = 1
    /\ d \notin Providers \cup {c} => e.nextHop = d
    /\ d = c /\ c \notin Providers => FromConsumer(c, s, e.nextHop, e.linkQlt)

SoundTable(c, s, n) ==
    /\ \A d \in Node : \A i \in 1 .. Len(rt[n][d]) : SoundRoute(c, s, d, rt[n][d][i])
    /\ c \notin Providers /\ ~Heard(c, s, n) => rt[n][c] = <<>>

(* The state one request of c for s leads to. *)
Sound(c, s) ==
    /\ \A n \in Node : SoundTable(c, s, n)
    /\ \A f \in net : f.pkt.type = "Get" => SoundGet(c, s, f.pkt)
    /\ c \notin Providers => \A f \in net : f.pkt.type = "Data" => Heard(c, s, f.to)
    /\ \A n \in Node : \A i \in 1 .. Len(delay_queue[n]) : SoundGet(c, s, delay_queue[n][i].pkt)
    /\ c \notin Providers =>
          \A n \in Node, t \in Sid : \A i \in 1 .. Len(pit[n][t]) :
              pit[n][t][i].nid = c /\ Heard(c, s, pit[n][t][i].mac)

(* Nothing has been sent or learned yet. *)
Unused ==
    /\ net = {}
    /\ \A n \in Node : delay_queue[n] = <<>>
    /\ \A n, d \in Node : rt[n][d] = <<>>
    /\ \A n \in Node, t \in Sid : pit[n][t] = <<>>

LInv ==
    /\ gets = 0 => Unused
    /\ gets = 1 => \E c \in Node, s \in Sid : Sound(c, s)

----------------------------------------------------------------------------
(* Tables without expired routes: lookups change nothing, and learning     *)
(* adds a route or leaves the table as it is.                              *)

Alive(tab) == \A d \in Node : \A i \in 1 .. Len(tab[d]) : tab[d][i].lifeTime = 1

(* What is in the old table is in the new one, at the same place. *)
Grows(old, new) ==
    \A d \in Node : \A i \in 1 .. Len(old[d]) : i \in 1 .. Len(new[d]) /\ new[d][i] = old[d][i]

(* Every route of the table to every destination is one of S. *)
Within(tab, S) == \A d \in Node : \A i \in 1 .. Len(tab[d]) : <<d, tab[d][i]>> \in S

LEMMA GrowsFurther ==
    ASSUME NEW a, NEW b, NEW c, Grows(a, b), Grows(b, c)
    PROVE  Grows(a, c)
BY DEF Grows

LEMMA AliveUnexpired ==
    ASSUME NEW tab \in Table, Alive(tab), NEW dest \in Node
    PROVE  /\ Expired(tab[dest], 0) = {}
           /\ Scanned(tab[dest], 0) = Len(tab[dest])
           /\ LookedUp(tab, dest) = tab
<1>1. Expired(tab[dest], 0) = {}
    BY DEF Alive, Expired
<1>2. AfterFind(tab[dest], 0) = tab[dest]
    BY <1>1 DEF AfterFind
<1>3. LookedUp(tab, dest) = tab
    BY <1>2 DEF LookedUp, Table
<1> QED BY <1>1, <1>3 DEF Scanned

LEMMA AllLookedUpAlive ==
    ASSUME NEW tab \in Table, Alive(tab), NEW entries, Len(entries) \in Nat,
           \A i \in 1 .. Len(entries) : entries[i].nid \in Node
    PROVE  AllLookedUp(tab, entries) = tab
<1>1. PICK f : /\ f[0] = tab
               /\ \A i \in 1 .. Len(entries) : f[i] = LookedUp(f[i - 1], entries[i].nid)
               /\ AllLookedUp(tab, entries) = f[Len(entries)]
    BY AllLookedUpByStep
<1> DEFINE Bad == {i \in 0 .. Len(entries) : f[i] # tab}
<1>2. ASSUME Bad # {} PROVE FALSE
  <2>1. Bad \subseteq Nat
    OBVIOUS
  <2>2. PICK i \in Bad : \A j \in Bad : i <= j
    BY <1>2, <2>1, Smallest
  <2>3. i # 0
    BY <1>1, <2>2
  <2>4. i \in 1 .. Len(entries) /\ i - 1 \in 0 .. Len(entries) /\ i - 1 \notin Bad
    BY <2>2, <2>3
  <2>5. f[i - 1] = tab /\ f[i] = LookedUp(f[i - 1], entries[i].nid)
    BY <1>1, <2>4
  <2>6. f[i] = tab
    BY <2>4, <2>5, AliveUnexpired
  <2> QED BY <2>2, <2>6
<1> QED BY <1>1, <1>2

LEMMA CreateAlive ==
    ASSUME NEW range \in Seq(Entry), \A i \in 1 .. Len(range) : range[i].lifeTime = 1,
           NEW h \in Node, NEW q \in Int
    PROVE  LET new == CreateEntryIn(range, 0, h, 1, q)
           IN  \/ new = range /\ range # <<>>
               \/ new = Append(range, Croute(h, 1, q))
<1> DEFINE stops == {i \in 1 .. Len(range) : range[i].nextHop = h \/ range[i].linkQlt >= q}
           k == FirstOf(stops)
<1>1. CASE stops = {}
    BY <1>1 DEF CreateEntryIn
<1>2. CASE stops # {}
  <2>1. stops \subseteq Nat
    OBVIOUS
  <2>2. k \in 1 .. Len(range)
    BY <1>2, <2>1, FirstOfIsFirst
  <2>3. range[k].lifeTime = 1
    BY <2>2
  <2>4. CreateEntryIn(range, 0, h, 1, q) = range
    BY <1>2, <2>3 DEF CreateEntryIn
  <2>5. range # <<>>
    BY <2>2
  <2> QED BY <2>4, <2>5
<1> QED BY <1>1, <1>2

LEMMA createRouteAlive ==
    ASSUME NEW tab \in Table, Alive(tab), NEW dest \in Node, NEW hop \in Node, NEW q \in Int,
           NEW S, Within(tab, S), <<dest, Croute(hop, 1, q)>> \in S
    PROVE  LET new == createRoute(tab, dest, hop, q)
           IN  /\ new \in Table /\ Alive(new) /\ Within(new, S) /\ Grows(tab, new)
               /\ tab[dest] = <<>> => 1 \in 1 .. Len(new[dest]) /\ new[dest][1].linkQlt = q
<1> DEFINE new == createRoute(tab, dest, hop, q)
           e == Croute(hop, 1, q)
           old == tab[dest]
<1> SUFFICES /\ new \in Table /\ Alive(new) /\ Within(new, S) /\ Grows(tab, new)
             /\ old = <<>> => 1 \in 1 .. Len(new[dest]) /\ new[dest][1].linkQlt = q
    OBVIOUS
<1>1. new \in Table
    BY createRouteType
<1>2. /\ \A d \in Node : d # dest => new[d] = tab[d]
      /\ new[dest] = CreateEntryIn(old, 0, hop, 1, q)
    BY DEF createRoute, Table
<1>3. old \in Seq(Entry) /\ \A i \in 1 .. Len(old) : old[i].lifeTime = 1
    BY DEF Table, Alive
<1>4. (new[dest] = old /\ old # <<>>) \/ new[dest] = Append(old, e)
    BY <1>2, <1>3, CreateAlive
<1>5. e \in Entry /\ e.lifeTime = 1 /\ e.linkQlt = q
    BY DEF Croute, Entry
<1> HIDE DEF new, e, old
<1>6. CASE new[dest] = old /\ old # <<>>
  <2>1. \A d \in Node : new[d] = tab[d]
    BY <1>2, <1>6 DEF old
  <2> QED BY <1>1, <1>6, <2>1 DEF Alive, Within, Grows
<1>7. CASE new[dest] = Append(old, e)
  <2>1. /\ Len(old) \in Nat /\ Len(new[dest]) = Len(old) + 1
        /\ \A i \in 1 .. Len(old) : new[dest][i] = old[i]
        /\ new[dest][Len(old) + 1] = e
    BY <1>3, <1>5, <1>7
  <2>2. \A i \in 1 .. Len(new[dest]) : i \in 1 .. Len(old) \/ i = Len(old) + 1
    BY <2>1
  <2>3. Alive(new)
    BY <1>2, <1>3, <1>5, <2>1, <2>2 DEF Alive
  <2>4. Within(new, S)
    <3>1. \A i \in 1 .. Len(old) : <<dest, old[i]>> \in S
      BY DEF Within, old
    <3>2. \A i \in 1 .. Len(new[dest]) : <<dest, new[dest][i]>> \in S
      BY <2>1, <2>2, <3>1 DEF e
    <3> QED BY <1>2, <3>2 DEF Within
  <2>5. Grows(tab, new)
    <3>1. \A i \in 1 .. Len(old) : i \in 1 .. Len(new[dest]) /\ new[dest][i] = old[i]
      BY <2>1
    <3> QED BY <1>2, <3>1 DEF Grows, old
  <2>6. old = <<>> => 1 \in 1 .. Len(new[dest]) /\ new[dest][1].linkQlt = q
    BY <1>5, <2>1
  <2> QED BY <1>1, <2>3, <2>4, <2>5, <2>6
<1> QED BY <1>4, <1>6, <1>7

LEMMA LearnFromGetAlive ==
    ASSUME NEW tab \in Table, Alive(tab), NEW g \in Get, NEW S, Within(tab, S),
           <<g.source, Croute(g.lastHop, 1, g.ttl)>> \in S,
           <<g.lastHop, Croute(g.lastHop, 1, g.ttl)>> \in S
    PROVE  LET new == LearnFromGet(tab, g)
           IN  /\ new \in Table /\ Alive(new) /\ Within(new, S) /\ Grows(tab, new)
               /\ tab[g.source] = <<>> => \E i \in 1 .. Len(new[g.source]) :
                                             new[g.source][i].linkQlt = g.ttl
<1> DEFINE src == g.source
           hop == g.lastHop
           q == g.ttl
           mid == createRoute(tab, src, hop, q)
           new == createRoute(mid, hop, hop, q)
<1>1. src \in Node /\ hop \in Node /\ q \in Int
    BY DEF Get
<1>a. <<src, Croute(hop, 1, q)>> \in S /\ <<hop, Croute(hop, 1, q)>> \in S
    OBVIOUS
<1>4. LearnFromGet(tab, g) = new
    BY DEF LearnFromGet
<1> SUFFICES /\ new \in Table /\ Alive(new) /\ Within(new, S) /\ Grows(tab, new)
             /\ tab[src] = <<>> => \E i \in 1 .. Len(new[src]) : new[src][i].linkQlt = q
    BY <1>4
<1> HIDE DEF src, hop, q
<1>2. /\ mid \in Table /\ Alive(mid) /\ Within(mid, S) /\ Grows(tab, mid)
      /\ tab[src] = <<>> => 1 \in 1 .. Len(mid[src]) /\ mid[src][1].linkQlt = q
    BY <1>1, <1>a, createRouteAlive
<1> HIDE DEF mid
<1>3. new \in Table /\ Alive(new) /\ Within(new, S) /\ Grows(mid, new)
    BY <1>1, <1>a, <1>2, createRouteAlive
<1> HIDE DEF new
<1>5. Grows(tab, new)
    BY <1>2, <1>3, GrowsFurther
<1>6. tab[src] = <<>> => 1 \in 1 .. Len(new[src]) /\ new[src][1].linkQlt = q
    BY <1>1, <1>2, <1>3 DEF Grows
<1> QED BY <1>3, <1>5, <1>6

LEMMA LearnFromDataAlive ==
    ASSUME NEW tab \in Table, Alive(tab), NEW d \in Data, NEW S, Within(tab, S),
           <<d.lastHop, Croute(d.lastHop, 1, d.ttl)>> \in S,
           <<Provider[d.sid], Croute(d.lastHop, 1, d.ttl)>> \in S,
           <<Provider[d.sid], Croute(d.lastHop, 1, d.routeMetric)>> \in S
    PROVE  LET new == LearnFromData(tab, d)
           IN  new \in Table /\ Alive(new) /\ Within(new, S) /\ Grows(tab, new)
<1> DEFINE dest == Provider[d.sid]
           neighbour == createRoute(tab, d.lastHop, d.lastHop, d.ttl)
           direct == createRoute(neighbour, dest, d.lastHop, d.ttl)
           source == IF d.comeFromSource THEN direct ELSE neighbour
           metric == createRoute(source, dest, d.lastHop, d.routeMetric)
<1>1. /\ d.lastHop \in Node /\ d.ttl \in Int /\ d.routeMetric \in Int /\ d.sid \in Sid
      /\ dest \in Node
    BY ColorAssumption DEF Data
<1>2. neighbour \in Table /\ Alive(neighbour) /\ Within(neighbour, S) /\ Grows(tab, neighbour)
    BY <1>1, createRouteAlive
<1>3. LearnFromData(tab, d) = IF d.routeMetric # 0 THEN metric ELSE source
    BY DEF LearnFromData
<1> HIDE DEF neighbour
<1>4. direct \in Table /\ Alive(direct) /\ Within(direct, S) /\ Grows(neighbour, direct)
    BY <1>1, <1>2, createRouteAlive
<1> HIDE DEF direct
<1>5. source \in Table /\ Alive(source) /\ Within(source, S) /\ Grows(tab, source)
    BY <1>2, <1>4, GrowsFurther
<1> HIDE DEF source
<1>6. metric \in Table /\ Alive(metric) /\ Within(metric, S) /\ Grows(source, metric)
    BY <1>1, <1>5, createRouteAlive
<1> HIDE DEF metric
<1>7. Grows(tab, metric)
    BY <1>5, <1>6, GrowsFurther
<1> QED BY <1>3, <1>5, <1>6, <1>7

----------------------------------------------------------------------------
(* The members of a sequence. *)
In(e, q) == \E i \in 1 .. Len(q) : q[i] = e

(* What a step must do to keep a request sound, if at most the table of n0 *)
(* changes: it forgets nothing, and everything it adds is sound.           *)
LEMMA SoundStep ==
    ASSUME Typed, Typed', NEW c \in Node, NEW s \in Sid, Sound(c, s), NEW n0 \in Node,
           \A m \in Node : Heard(c, s, m) => Heard(c, s, m)',
           \A m \in Node : m # n0 => rt'[m] = rt[m],
           Grows(rt[n0], rt'[n0]),
           \A d \in Node, e \in Entry :
               In(e, rt'[n0][d]) => In(e, rt[n0][d]) \/ SoundRoute(c, s, d, e)',
           rt'[n0] = rt[n0] \/ c \in Providers \/ Heard(c, s, n0)',
           \A f \in Frame :
               f \in net' => \/ f \in net
                             \/ f.pkt.type = "Get" /\ SoundGet(c, s, f.pkt)'
                             \/ f.pkt.type = "Data" /\ (c \notin Providers => Heard(c, s, f.to)'),
           \A n \in Node, w \in Waiting :
               In(w, delay_queue'[n]) => \/ \E v \in Waiting : In(v, delay_queue[n]) /\ v.pkt = w.pkt
                                         \/ SoundGet(c, s, w.pkt)',
           \A n \in Node, t \in Sid, e \in PITentry :
               In(e, pit'[n][t]) => \/ In(e, pit[n][t])
                                    \/ (c \notin Providers => e.nid = c /\ Heard(c, s, e.mac)')
    PROVE  Sound(c, s)'
<1>1. ASSUME NEW m \in Node, NEW q, Better(c, m, q) PROVE Better(c, m, q)'
  <2>1. PICK i \in 1 .. Len(rt[m][c]) : rt[m][c][i].linkQlt > q
    BY <1>1 DEF Better
  <2>2. i \in 1 .. Len(rt'[m][c]) /\ rt'[m][c][i] = rt[m][c][i]
    BY <2>1 DEF Grows
  <2> QED BY <2>1, <2>2 DEF Better
<1>2. ASSUME NEW m \in Node, NEW q, FromConsumer(c, s, m, q) PROVE FromConsumer(c, s, m, q)'
    BY <1>1, <1>2 DEF FromConsumer
<1>3. ASSUME NEW g \in Get, SoundGet(c, s, g) PROVE SoundGet(c, s, g)'
  <2>1. g.lastHop \in Node
    BY DEF Get
  <2> QED BY <1>2, <1>3, <2>1 DEF SoundGet, Providers
<1>4. ASSUME NEW d \in Node, NEW e \in Entry, SoundRoute(c, s, d, e) PROVE SoundRoute(c, s, d, e)'
  <2>1. e.nextHop \in Node
    BY DEF Entry
  <2> QED BY <1>2, <1>4, <2>1 DEF SoundRoute, Providers
<1>5. ASSUME NEW n \in Node PROVE SoundTable(c, s, n)'
  <2>1. SoundTable(c, s, n)
    BY DEF Sound
  <2>2. ASSUME NEW d \in Node, NEW i \in 1 .. Len(rt'[n][d]), NEW e, e = rt'[n][d][i]
        PROVE  SoundRoute(c, s, d, e)'
    <3>1. rt'[n][d] \in Seq(Entry)
      BY DEF Typed, Table
    <3>2. e \in Entry /\ In(e, rt'[n][d])
      BY <2>2, <3>1 DEF In
    <3>3. In(e, rt[n][d]) \/ SoundRoute(c, s, d, e)'
      BY <3>2
    <3>4. In(e, rt[n][d]) => SoundRoute(c, s, d, e)
      BY <2>1 DEF In, SoundTable
    <3> QED BY <1>4, <3>2, <3>3, <3>4
  <2>3. \A d \in Node : \A i \in 1 .. Len(rt'[n][d]) : \A e : e = rt'[n][d][i] => SoundRoute(c, s, d, e)'
    BY <2>2
  <2>4. c \notin Providers /\ ~Heard(c, s, n)' => rt'[n][c] = <<>>
    BY <2>1 DEF SoundTable
  <2> QED BY <2>3, <2>4 DEF SoundTable, SoundRoute, FromConsumer, Providers
<1>6. ASSUME NEW f \in net', f.pkt.type = "Get" PROVE SoundGet(c, s, f.pkt)'
  <2>1. f \in Frame /\ f.pkt \in Get
    BY <1>6, PacketKinds DEF Typed
  <2>2. f \in net => SoundGet(c, s, f.pkt)
    BY <1>6 DEF Sound
  <2> QED BY <1>3, <1>6, <2>1, <2>2
<1>7. ASSUME NEW f \in net', f.pkt.type = "Data", c \notin Providers PROVE Heard(c, s, f.to)'
  <2>1. f \in Frame /\ f.to \in Node
    BY PacketKinds DEF Typed
  <2>2. f \in net => Heard(c, s, f.to)
    BY <1>7 DEF Sound
  <2> QED BY <1>7, <2>1, <2>2
<1>8. ASSUME NEW n \in Node, NEW i \in 1 .. Len(delay_queue'[n]), NEW g, g = delay_queue'[n][i].pkt
      PROVE  SoundGet(c, s, g)'
  <2> DEFINE w == delay_queue'[n][i]
  <2>1. delay_queue'[n] \in Seq(Waiting) /\ delay_queue[n] \in Seq(Waiting)
    BY DEF Typed
  <2>2. w \in Waiting /\ In(w, delay_queue'[n]) /\ w.pkt = g
    BY <1>8, <2>1 DEF In
  <2> HIDE DEF w
  <2>3. g \in Get
    BY <2>2 DEF Waiting
  <2>4. \A v \in Waiting : In(v, delay_queue[n]) => SoundGet(c, s, v.pkt)
    BY DEF Sound, In
  <2>5. PICK x \in Waiting : x = w
    BY <2>2
  <2>6. \/ \E v \in Waiting : In(v, delay_queue[n]) /\ v.pkt = x.pkt
        \/ SoundGet(c, s, x.pkt)'
    BY <2>2, <2>5
  <2>7. x.pkt = g
    BY <2>2, <2>5
  <2>8. CASE \E v \in Waiting : In(v, delay_queue[n]) /\ v.pkt = x.pkt
    BY <1>3, <2>3, <2>4, <2>7, <2>8
  <2>9. CASE SoundGet(c, s, x.pkt)'
    BY <2>7, <2>9
  <2> QED BY <2>6, <2>8, <2>9
<1>9. ASSUME NEW n \in Node, NEW t \in Sid, NEW i \in 1 .. Len(pit'[n][t]), c \notin Providers,
             NEW e, e = pit'[n][t][i]
      PROVE  e.nid = c /\ Heard(c, s, e.mac)'
  <2>1. pit'[n][t] \in Seq(PITentry)
    BY DEF Typed, TableOf
  <2>2. e \in PITentry /\ In(e, pit'[n][t])
    BY <1>9, <2>1 DEF In
  <2>3. In(e, pit[n][t]) => e.nid = c /\ Heard(c, s, e.mac)
    BY <1>9 DEF Sound, In
  <2>4. e.mac \in Node
    BY <2>2 DEF PITentry
  <2> QED BY <1>9, <2>2, <2>3, <2>4
<1>10. \A n \in Node : \A i \in 1 .. Len(delay_queue'[n]) : \A g : g = delay_queue'[n][i].pkt => SoundGet(c, s, g)'
    BY <1>8
<1>11. c \notin Providers => \A n \in Node, t \in Sid : \A i \in 1 .. Len(pit'[n][t]) : \A e :
           e = pit'[n][t][i] => e.nid = c /\ Heard(c, s, e.mac)'
    BY <1>9
<1>12. c \notin Providers =>
          \A n \in Node, t \in Sid : \A i \in 1 .. Len(pit'[n][t]) :
              (pit[n][t][i].nid = c /\ Heard(c, s, pit[n][t][i].mac))'
    BY <1>11 DEF Heard
<1>13. \A n \in Node : \A i \in 1 .. Len(delay_queue'[n]) : SoundGet(c, s, delay_queue[n][i].pkt)'
    BY <1>10 DEF SoundGet, FromConsumer, Heard, Better, Providers
<1> QED BY <1>5, <1>6, <1>7, <1>12, <1>13 DEF Sound, Providers

(* Sound tables are alive, and growing sets of routes. *)
LEMMA SoundIsAlive ==
    ASSUME NEW c \in Node, NEW s \in Sid, Sound(c, s), NEW n \in Node
    PROVE  Alive(rt[n])
BY DEF Sound, SoundTable, SoundRoute, Alive

(* The next hop findRoute returns is that of a route, and no other is better. *)
LEMMA BestRoute ==
    ASSUME Typed, NEW c \in Node, NEW s \in Sid, Sound(c, s), NEW n \in Node, NEW d \in Node,
           Route(rt[n], d) # NoRoute
    PROVE  /\ Route(rt[n], d) \in Entry
           /\ SoundRoute(c, s, d, Route(rt[n], d))
           /\ \A j \in 1 .. Len(rt[n][d]) : rt[n][d][j].linkQlt <= Route(rt[n], d).linkQlt
<1>1. rt[n] \in Table /\ rt[n][d] \in Seq(Entry) /\ Alive(rt[n])
    BY SoundIsAlive DEF Typed, Table
<1>2. Scanned(rt[n][d], 0) = Len(rt[n][d])
    BY <1>1, AliveUnexpired
<1>3. PICK i \in 1 .. Len(rt[n][d]) :
          /\ Route(rt[n], d) = rt[n][d][i]
          /\ \A j \in 1 .. Len(rt[n][d]) : rt[n][d][j].linkQlt <= rt[n][d][i].linkQlt
    BY <1>1, <1>2, FoundIsBest DEF Route
<1>4. rt[n][d][i] \in Entry
    BY <1>1
<1>5. SoundRoute(c, s, d, rt[n][d][i])
    BY DEF Sound, SoundTable
<1> QED BY <1>3, <1>4, <1>5

(* Without a timeout no circle: along the routes to the consumer of the    *)
(* one request the quality rises, and the hop limit bounds it; the routes  *)
(* to any other node that is no provider are that node itself.             *)
LEMMA LoopFree ==
    ASSUME Typed, LInv
    PROVE  RoutesLoopFree
<1> SUFFICES ASSUME gets <= 1, NEW d \in Node \ Providers,
                    NEW circle \in (SUBSET (Node \ {d})) \ {{}},
                    \A n \in circle : Route(rt[n], d).nextHop \in circle
             PROVE  FALSE
    BY DEF RoutesLoopFree, Providers
<1>1. gets = 0 \/ gets = 1
    BY DEF Typed
<1>2. \A n \in circle : Route(rt[n], d) # NoRoute
  <2>1. "nullptr" \notin circle
    BY ColorAssumption
  <2> QED BY <2>1 DEF NoRoute
<1>3. PICK n1 \in circle : n1 \in Node
  <2>1. circle # {} /\ circle \subseteq Node
    OBVIOUS
  <2> QED BY <2>1
<1>4. CASE gets = 0
  <2>1. rt[n1][d] = <<>>
    BY <1>3, <1>4 DEF LInv, Unused
  <2>2. Scanned(<<>>, 0) = 0
    BY DEF Scanned, Expired
  <2>3. Route(rt[n1], d) = NoRoute
    BY <2>1, <2>2 DEF Route, FoundRoute
  <2> QED BY <1>2, <2>3
<1>5. CASE gets = 1
  <2>1. PICK c \in Node, s \in Sid : Sound(c, s)
    BY <1>5 DEF LInv
  <2>2. \A n \in circle : /\ Route(rt[n], d) \in Entry
                          /\ SoundRoute(c, s, d, Route(rt[n], d))
                          /\ \A j \in 1 .. Len(rt[n][d]) :
                                rt[n][d][j].linkQlt <= Route(rt[n], d).linkQlt
    BY <1>2, <2>1, BestRoute
  <2>3. d = c
    BY <1>3, <2>2 DEF SoundRoute
  <2> DEFINE best(n) == Route(rt[n], c).linkQlt
             hop(n) == Route(rt[n], c).nextHop
  <2>4. \A n \in circle : best(n) \in Int /\ hop(n) \in circle /\ hop(n) # c
    BY <2>2, <2>3 DEF Entry
  <2>5. ASSUME NEW n \in circle PROVE best(n) <= HopLimit /\ best(n) < best(hop(n))
    <3>1. FromConsumer(c, s, hop(n), best(n))
      BY <2>2, <2>3 DEF SoundRoute
    <3>2. best(n) <= HopLimit /\ Better(c, hop(n), best(n))
      BY <2>4, <3>1 DEF FromConsumer
    <3> DEFINE m == hop(n)
    <3>3. m \in circle /\ m \in Node
      BY <2>4
    <3>4. PICK j \in 1 .. Len(rt[m][c]) : rt[m][c][j].linkQlt > best(n)
      BY <3>2 DEF Better
    <3>5. rt[m][c][j].linkQlt <= best(m)
      BY <2>2, <2>3, <3>3
    <3>6. rt[m][c][j].linkQlt \in Int
      <4>1. rt[m][c] \in Seq(Entry)
        BY <3>3 DEF Typed, Table
      <4>2. rt[m][c][j] \in Entry
        BY <4>1
      <4> QED BY <4>2 DEF Entry
    <3>7. best(m) \in Int /\ best(n) \in Int
      BY <2>4, <3>3
    <3> HIDE DEF best, hop
    <3> QED BY <3>2, <3>4, <3>5, <3>6, <3>7
  <2> HIDE DEF best, hop
  <2> DEFINE P == {HopLimit - best(n) : n \in circle}
  <2>6. P \subseteq Nat /\ P # {}
    BY <1>3, <2>4, <2>5, ColorAssumption
  <2>7. PICK x \in P : \A y \in P : x <= y
    BY <2>6, Smallest
  <2>8. PICK n \in circle : x = HopLimit - best(n)
    BY <2>7
  <2>9. hop(n) \in circle /\ best(n) < best(hop(n)) /\ best(n) \in Int /\ best(hop(n)) \in Int
    BY <2>4, <2>5
  <2>10. x <= HopLimit - best(hop(n))
    BY <2>7, <2>9
  <2> QED BY <2>8, <2>9, <2>10, ColorAssumption
<1> QED BY <1>1, <1>4, <1>5

----------------------------------------------------------------------------
(* A node that was heard stays heard, as PIT entries are only removed when *)
(* the content is cached.                                                  *)

LEMMA QuietSound ==
    ASSUME Typed, Typed', NEW c \in Node, NEW s \in Sid, Sound(c, s),
           rt' = rt, pit' = pit, delay_queue' = delay_queue, net' \subseteq net,
           \A m \in Node : cache[m][s] # <<>> => cache'[m][s] # <<>>
    PROVE  Sound(c, s)'
<1>1. \A m \in Node : Heard(c, s, m) => Heard(c, s, m)'
    BY DEF Heard
<1>2. Grows(rt[c], rt'[c])
    BY DEF Grows
<1>3. \A w \in Waiting : w.pkt = w.pkt
    OBVIOUS
<1> QED BY <1>1, <1>2, <1>3, SoundStep

(* The delayed GETs are those that were there and at most the new one. *)
LEMMA DelayedFrom ==
    ASSUME NEW q \in Seq(Waiting), NEW g \in Get, NEW new \in Delayed(q, g),
           NEW w \in Waiting, In(w, new)
    PROVE  w.pkt = g \/ \E v \in Waiting : In(v, q) /\ v.pkt = w.pkt
<1> DEFINE e == [pkt |-> g, tc |-> TC]
<1>1. Len(q) \in Nat /\ \A i \in 1 .. Len(q) : q[i] \in Waiting /\ In(q[i], q)
    BY DEF In
<1>2. PICK k \in 1 .. Len(new) : new[k] = w
    BY DEF In
<1>3. CASE have(q, g) # {}
  <2>1. PICK i \in have(q, g) : new = [q EXCEPT ![i].tc = @ - 1]
    BY <1>3 DEF Delayed, InsertedLater
  <2>2. i \in 1 .. Len(q)
    BY DEF have
  <2>3. Len(new) = Len(q) /\ k \in 1 .. Len(q)
    BY <1>2, <2>1, <2>2
  <2>4. q[k] \in Waiting /\ In(q[k], q)
    BY <1>1, <2>3
  <2>5. new[k] = IF k = i THEN [q[k] EXCEPT !.tc = @ - 1] ELSE q[k]
    BY <2>1, <2>2, <2>3
  <2>6. new[k].pkt = q[k].pkt
    BY <2>4, <2>5 DEF Waiting
  <2> QED BY <1>2, <2>4, <2>6
<1>4. CASE have(q, g) = {} /\ q = <<>>
  <2>1. new = <<e>>
    BY <1>4 DEF Delayed, InsertedLater
  <2>2. w = e
    BY <1>2, <2>1
  <2> QED BY <2>2
<1>5. CASE have(q, g) = {} /\ q # <<>>
  <2>1. new = q \/ \E i \in 1 .. Len(q) :
                       new = SubSeq(q, 1, i - 1) \o <<e>> \o SubSeq(q, i, Len(q))
    BY <1>5 DEF Delayed, InsertedLater
  <2>2. CASE new = q
    BY <1>1, <1>2, <2>2
  <2>3. ASSUME NEW i \in 1 .. Len(q), new = SubSeq(q, 1, i - 1) \o <<e>> \o SubSeq(q, i, Len(q))
        PROVE  w = e \/ In(w, q)
    <3>0. e \in Waiting
      BY ColorAssumption DEF Waiting
    <3> HIDE DEF e
    <3> DEFINE a == SubSeq(q, 1, i - 1)
               b == SubSeq(q, i, Len(q))
               c == <<e>>
               ac == a \o c
    <3>1. /\ a \in Seq(Waiting) /\ Len(a) = i - 1
          /\ \A j \in 1 .. i - 1 : a[j] = q[j]
      BY <1>1
    <3>2. /\ b \in Seq(Waiting) /\ Len(b) = Len(q) - i + 1
          /\ \A j \in 1 .. Len(q) - i + 1 : b[j] = q[i + j - 1]
      BY <1>1
    <3>3. c \in Seq(Waiting) /\ Len(c) = 1 /\ c[1] = e
      BY <3>0
    <3>4. new = ac \o b
      BY <2>3
    <3> HIDE DEF a, b, c
    <3>5. /\ ac \in Seq(Waiting) /\ Len(ac) = i
          /\ \A j \in 1 .. i : ac[j] = IF j <= i - 1 THEN a[j] ELSE c[j - (i - 1)]
      <4>1. /\ ac \in Seq(Waiting) /\ Len(ac) = Len(a) + Len(c)
            /\ \A j \in 1 .. Len(a) + Len(c) : ac[j] = IF j <= Len(a) THEN a[j] ELSE c[j - Len(a)]
        BY <3>1, <3>3, ConcatProperties
      <4>2. Len(a) + Len(c) = i /\ Len(a) = i - 1
        BY <1>1, <3>1, <3>3
      <4> QED BY <4>1, <4>2
    <3> HIDE DEF ac
    <3>6. /\ Len(new) = Len(q) + 1
          /\ \A j \in 1 .. Len(q) + 1 : new[j] = IF j <= i THEN ac[j] ELSE b[j - i]
      <4>1. /\ Len(new) = Len(ac) + Len(b)
            /\ \A j \in 1 .. Len(ac) + Len(b) : new[j] = IF j <= Len(ac) THEN ac[j] ELSE b[j - Len(ac)]
        BY <3>2, <3>4, <3>5, ConcatProperties
      <4>2. Len(ac) + Len(b) = Len(q) + 1 /\ Len(ac) = i
        BY <1>1, <3>2, <3>5
      <4> QED BY <4>1, <4>2
    <3>7. CASE k <= i - 1
      <4>1. k \in 1 .. i /\ k \in 1 .. i - 1 /\ k \in 1 .. Len(q)
        BY <1>1, <1>2, <3>6, <3>7
      <4>2. new[k] = q[k]
        BY <3>1, <3>5, <3>6, <3>7, <4>1
      <4> QED BY <1>2, <4>1, <4>2 DEF In
    <3>8. CASE k = i
      <4>1. k \in 1 .. i /\ ~(k <= i - 1) /\ k - (i - 1) = 1
        BY <1>1, <1>2, <3>8
      <4>2. new[k] = c[1]
        BY <3>5, <3>6, <3>8, <4>1
      <4> QED BY <1>2, <3>3, <4>2
    <3>9. CASE k > i
      <4>1. k - i \in 1 .. Len(q) - i + 1 /\ k - 1 \in 1 .. Len(q) /\ i + (k - i) - 1 = k - 1
        BY <1>1, <1>2, <3>6, <3>9
      <4>2. new[k] = b[k - i]
        BY <1>2, <3>6, <3>9
      <4>3. b[k - i] = q[i + (k - i) - 1]
        BY <3>2, <4>1
      <4>4. w = q[k - 1]
        BY <1>2, <4>1, <4>2, <4>3
      <4> QED BY <4>1, <4>4 DEF In
    <3> QED BY <1>2, <3>6, <3>7, <3>8, <3>9
  <2>4. w = e \/ In(w, q)
    BY <1>1, <1>2, <2>1, <2>2, <2>3 DEF In
  <2>5. w = e => w.pkt = g
    OBVIOUS
  <2> QED BY <2>4, <2>5
<1> QED BY <1>3, <1>4, <1>5

(* What a node learns from a sound GET is sound, and if it knew nothing of *)
(* the consumer, its route there is better than any GET it sends on.       *)
LEMMA LearnedSound ==
    ASSUME Typed, Typed', NEW c \in Node, NEW s \in Sid, Sound(c, s), NEW n \in Node,
           NEW g \in Get, SoundGet(c, s, g),
           \A m \in Node : Heard(c, s, m) => Heard(c, s, m)',
           \/ rt' = [rt EXCEPT ![n] = LearnFromGet(rt[n], g)]
           \/ rt' = [rt EXCEPT ![n] = LearnFromGet(LearnFromGet(rt[n], g), g)]
    PROVE  /\ \A m \in Node : m # n => rt'[m] = rt[m]
           /\ Grows(rt[n], rt'[n])
           /\ \A d \in Node, e \in Entry :
                  In(e, rt'[n][d]) => In(e, rt[n][d]) \/ SoundRoute(c, s, d, e)'
           /\ SoundGet(c, s, g)'
           /\ rt[n][c] = <<>> => Better(c, n, g.ttl - 1)'
<1> DEFINE once == LearnFromGet(rt[n], g)
           twice == LearnFromGet(once, g)
           new == Croute(g.lastHop, 1, g.ttl)
<1>1. rt[n] \in Table /\ Alive(rt[n])
    BY SoundIsAlive DEF Typed
<1>2. /\ g.source = c /\ g.lastHop \in Node /\ g.ttl \in Int /\ new \in Entry
      /\ new.lifeTime = 1 /\ new.nextHop = g.lastHop /\ new.linkQlt = g.ttl
    BY DEF Get, SoundGet, Croute, Entry
<1>3. ASSUME NEW S, Within(rt[n], S), <<c, new>> \in S, <<g.lastHop, new>> \in S
      PROVE  /\ Within(rt'[n], S) /\ Grows(rt[n], rt'[n])
             /\ rt[n][c] = <<>> => \E i \in 1 .. Len(rt'[n][c]) : rt'[n][c][i].linkQlt = g.ttl
  <2>1. /\ once \in Table /\ Alive(once) /\ Within(once, S) /\ Grows(rt[n], once)
        /\ rt[n][c] = <<>> => \E i \in 1 .. Len(once[c]) : once[c][i].linkQlt = g.ttl
    BY <1>1, <1>2, <1>3, LearnFromGetAlive
  <2>2. rt' = [rt EXCEPT ![n] = once] \/ rt' = [rt EXCEPT ![n] = twice]
    OBVIOUS
  <2>3. rt'[n] = once \/ rt'[n] = twice
    BY <2>2 DEF Typed
  <2> HIDE DEF once
  <2>4. twice \in Table /\ Within(twice, S) /\ Grows(once, twice)
    BY <1>2, <1>3, <2>1, LearnFromGetAlive
  <2> HIDE DEF twice
  <2>5. CASE rt'[n] = once
    BY <2>1, <2>5
  <2>6. CASE rt'[n] = twice
    <3>1. Grows(rt[n], twice)
      BY <2>1, <2>4, GrowsFurther
    <3>2. ASSUME NEW i \in 1 .. Len(once[c]), once[c][i].linkQlt = g.ttl
          PROVE  \E j \in 1 .. Len(twice[c]) : twice[c][j].linkQlt = g.ttl
      BY <2>4, <3>2 DEF Grows
    <3> QED BY <2>1, <2>4, <2>6, <3>1, <3>2
  <2> QED BY <2>3, <2>5, <2>6
<1> DEFINE All == Node \X Entry
<1>4. Within(rt[n], All) /\ <<c, new>> \in All /\ <<g.lastHop, new>> \in All
  <2>1. \A d \in Node : \A i \in 1 .. Len(rt[n][d]) : rt[n][d][i] \in Entry
    BY <1>1 DEF Table
  <2> HIDE DEF new
  <2> QED BY <1>2, <2>1 DEF Within
<1> HIDE DEF All
<1>5. /\ Grows(rt[n], rt'[n])
      /\ rt[n][c] = <<>> => \E i \in 1 .. Len(rt'[n][c]) : rt'[n][c][i].linkQlt = g.ttl
    BY <1>3, <1>4
<1>6. \A m \in Node : m # n => rt'[m] = rt[m]
    BY DEF Typed
<1> HIDE DEF once, twice
<1>7. rt[n][c] = <<>> => Better(c, n, g.ttl - 1)'
    BY <1>2, <1>5 DEF Better
<1>8. SoundGet(c, s, g)'
  <2>1. ASSUME NEW m \in Node, NEW q, Better(c, m, q) PROVE Better(c, m, q)'
    <3>1. PICK i \in 1 .. Len(rt[m][c]) : rt[m][c][i].linkQlt > q
      BY <2>1 DEF Better
    <3>2. i \in 1 .. Len(rt'[m][c]) /\ rt'[m][c][i] = rt[m][c][i]
      BY <1>5, <1>6, <3>1 DEF Grows
    <3> QED BY <3>1, <3>2 DEF Better
  <2> QED BY <1>2, <2>1 DEF SoundGet, FromConsumer, Providers
<1> DEFINE S == {x \in Node \X Entry : In(x[2], rt[n][x[1]]) \/ SoundRoute(c, s, x[1], x[2])'}
<1>9. SoundRoute(c, s, c, new)' /\ SoundRoute(c, s, g.lastHop, new)'
  <2> HIDE DEF new
  <2>1. c \notin Providers => FromConsumer(c, s, g.lastHop, g.ttl)'
    BY <1>8 DEF SoundGet, Providers
  <2> QED BY <1>2, <2>1 DEF SoundRoute, FromConsumer, Heard, Providers
<1>10. Within(rt[n], S)
  <2> SUFFICES ASSUME NEW d \in Node, NEW i \in 1 .. Len(rt[n][d])
               PROVE  <<d, rt[n][d][i]>> \in S
    BY DEF Within
  <2>1. rt[n][d][i] \in Entry
    BY <1>1 DEF Table
  <2>2. In(rt[n][d][i], rt[n][d])
    BY DEF In
  <2> QED BY <2>1, <2>2
<1>11. <<c, new>> \in S /\ <<g.lastHop, new>> \in S
  <2> HIDE DEF new
  <2> QED BY <1>2, <1>9
<1>12. ASSUME NEW d \in Node, NEW e \in Entry, <<d, e>> \in S
       PROVE  In(e, rt[n][d]) \/ SoundRoute(c, s, d, e)'
    BY <1>12
<1> HIDE DEF S
<1>13. Within(rt'[n], S)
    BY <1>3, <1>10, <1>11
<1>14. \A d \in Node, e \in Entry :
           In(e, rt'[n][d]) => In(e, rt[n][d]) \/ SoundRoute(c, s, d, e)'
    BY <1>12, <1>13 DEF Within, In
<1> QED BY <1>5, <1>6, <1>7, <1>8, <1>14

(* Entering a GET adds at most that GET. *)
LEMMA EnteredFrom ==
    ASSUME NEW entries \in Seq(PITentry), NEW g, NEW e, In(e, WithEntry(entries, g))
    PROVE  In(e, entries) \/ e = [nid |-> g.source, mac |-> g.lastHop, nonce |-> g.nonce]
<1> DEFINE new == [nid |-> g.source, mac |-> g.lastHop, nonce |-> g.nonce]
<1>1. WithEntry(entries, g) = entries \/ WithEntry(entries, g) = Append(entries, new)
    BY DEF WithEntry
<1> HIDE DEF new
<1>2. CASE WithEntry(entries, g) = entries
    BY <1>2
<1>3. CASE WithEntry(entries, g) = Append(entries, new)
  <2>1. PICK i \in 1 .. Len(Append(entries, new)) : Append(entries, new)[i] = e
    BY <1>3 DEF In
  <2>2. /\ Len(entries) \in Nat
        /\ i \in 1 .. Len(entries) \/ i = Len(entries) + 1
    BY <2>1
  <2>3. CASE i \in 1 .. Len(entries)
    <3>1. entries[i] = e
      BY <2>1, <2>3
    <3> QED BY <2>3, <3>1 DEF In
  <2>4. CASE i = Len(entries) + 1
    BY <2>1, <2>4 DEF new
  <2> QED BY <2>2, <2>3, <2>4
<1> QED BY <1>1, <1>2, <1>3

(* A node that hears a GET has no expired route, before or after. *)
LEMMA HeardAlive ==
    ASSUME Typed, NEW c \in Node, NEW s \in Sid, Sound(c, s), NEW n \in Node, NEW g \in Get
    PROVE  LearnFromGet(rt[n], g) \in Table /\ Alive(LearnFromGet(rt[n], g))
<1> DEFINE All == Node \X Entry
           new == Croute(g.lastHop, 1, g.ttl)
<1>1. rt[n] \in Table /\ Alive(rt[n])
    BY SoundIsAlive DEF Typed
<1>2. \A d \in Node : \A i \in 1 .. Len(rt[n][d]) : rt[n][d][i] \in Entry
    BY <1>1 DEF Table
<1>3. new \in Entry /\ g.lastHop \in Node /\ g.source \in Node
    BY DEF Get, Croute, Entry
<1> HIDE DEF new
<1>4. Within(rt[n], All) /\ <<g.source, new>> \in All /\ <<g.lastHop, new>> \in All
    BY <1>2, <1>3 DEF Within
<1> HIDE DEF All
<1> QED BY <1>1, <1>4, LearnFromGetAlive DEF new

LEMMA MissGetSound ==
    ASSUME Typed, Typed', NEW c \in Node, NEW s \in Sid, Sound(c, s), NEW f \in net, MissGet(f)
    PROVE  Sound(c, s)'
<1> DEFINE n == f.to
           g == f.pkt
           dest == Provider[s]
           heard == LearnFromGet(rt[n], g)
           r == Route(heard, dest)
           onRoute == pit[n][s] = <<>> /\ ~Flood /\ r # NoRoute /\ g.nexthop \in {n, Default}
           p == [Relayed(n, g) EXCEPT !.nexthop = r.nextHop]
<1>1. n \in Node /\ g \in Get /\ SoundGet(c, s, g) /\ g.sid = s /\ g.source = c /\ dest \in Node
    BY PacketKinds, ColorAssumption DEF Typed, MissGet, Sound, SoundGet
<1>2. rt[n] \in Table /\ Alive(rt[n])
    BY <1>1, SoundIsAlive DEF Typed
<1>3. heard \in Table /\ Alive(heard)
    BY <1>1, HeardAlive
<1>4. LookedUp(heard, dest) = heard
    BY <1>1, <1>3, AliveUnexpired
<1>5. /\ rt' = [rt EXCEPT ![n] = LookedUp(LookedUp(heard, dest), dest)]
      /\ pit' = Put(pit, n, s, WithEntry(pit[n][s], g))
      /\ net' = IF onRoute THEN (net \ {f}) \cup Broadcast(n, p) ELSE net \ {f}
      /\ \/ delay_queue' = delay_queue
         \/ /\ pit[n][s] = <<>>
            /\ \E q \in Delayed(delay_queue[n], Relayed(n, g)) :
                   delay_queue' = [delay_queue EXCEPT ![n] = q]
      /\ cache' = cache /\ cache[n][s] = <<>>
    BY <1>1, <1>4 DEF MissGet, haveSID, Put
<1>6. rt' = [rt EXCEPT ![n] = LearnFromGet(rt[n], g)]
    BY <1>4, <1>5
<1> HIDE DEF n, g, dest, heard, r
<1>7. /\ pit[n][s] \in Seq(PITentry)
      /\ WithEntry(pit[n][s], g) # <<>>
      /\ \A m \in Node, t \in Sid :
            pit'[m][t] = IF m = n /\ t = s THEN WithEntry(pit[n][s], g) ELSE pit[m][t]
  <2>1. pit[n][s] \in Seq(PITentry)
    BY <1>1 DEF Typed, TableOf
  <2>2. WithEntry(pit[n][s], g) # <<>>
    BY <2>1, Entered
  <2>3. \A m \in Node, t \in Sid :
            pit'[m][t] = IF m = n /\ t = s THEN WithEntry(pit[n][s], g) ELSE pit[m][t]
    <3> DEFINE new == WithEntry(pit[n][s], g)
    <3>1. pit \in TableOf(Seq(PITentry)) /\ pit' = Put(pit, n, s, new)
      BY <1>5 DEF Typed
    <3> HIDE DEF new
    <3>2. \A m \in Node, t \in Sid : pit'[m][t] = IF m = n /\ t = s THEN new ELSE pit[m][t]
      BY <1>1, <3>1 DEF TableOf, Put
    <3> QED BY <3>2 DEF new
  <2> QED BY <2>1, <2>2, <2>3
<1>8. /\ \A m \in Node : Heard(c, s, m) => Heard(c, s, m)'
      /\ Heard(c, s, n)'
    BY <1>1, <1>5, <1>7 DEF Heard
<1>9. /\ \A m \in Node : m # n => rt'[m] = rt[m]
      /\ Grows(rt[n], rt'[n])
      /\ \A d \in Node, e \in Entry :
             In(e, rt'[n][d]) => In(e, rt[n][d]) \/ SoundRoute(c, s, d, e)'
      /\ SoundGet(c, s, g)'
      /\ rt[n][c] = <<>> => Better(c, n, g.ttl - 1)'
    BY <1>1, <1>6, <1>8, LearnedSound
<1>10. ASSUME pit[n][s] = <<>>, NEW new \in Get,
              new.source = c, new.sid = s, new.lastHop = n, new.ttl = g.ttl - 1
       PROVE  SoundGet(c, s, new)'
  <2>1. g.ttl \in Int /\ g.ttl <= HopLimit /\ HopLimit \in Nat
    BY <1>1, ColorAssumption DEF Get, SoundGet
  <2>2. new.ttl <= HopLimit
    BY <1>10, <2>1
  <2>3. ASSUME c \notin Providers, n # c PROVE Better(c, n, g.ttl - 1)'
    <3>1. ~Heard(c, s, n)
      BY <1>5, <1>10, <2>3 DEF Heard
    <3>2. rt[n][c] = <<>>
      BY <1>1, <2>3, <3>1 DEF Sound, SoundTable
    <3> QED BY <1>9, <3>2
  <2>4. c \notin Providers => FromConsumer(c, s, n, g.ttl - 1)'
    BY <1>8, <1>10, <2>2, <2>3 DEF FromConsumer
  <2> QED BY <1>10, <2>2, <2>4 DEF SoundGet, Providers
<1>11. /\ Relayed(n, g) \in Get
       /\ Relayed(n, g).source = c /\ Relayed(n, g).sid = s
       /\ Relayed(n, g).lastHop = n /\ Relayed(n, g).ttl = g.ttl - 1
    BY <1>1, RelayedType DEF Relayed, Get
<1>12. \A x \in Frame :
          x \in net' => x \in net \/ (x.pkt.type = "Get" /\ SoundGet(c, s, x.pkt)')
  <2> SUFFICES ASSUME NEW x \in Frame, x \in net', x \notin net
               PROVE  x.pkt.type = "Get" /\ SoundGet(c, s, x.pkt)'
    OBVIOUS
  <2>1. onRoute /\ x \in Broadcast(n, p)
    BY <1>5
  <2>2. x.pkt = p
    BY <2>1 DEF Broadcast
  <2>3. r.nextHop \in Node
    <3>1. r = NoRoute \/ r \in Entry
      BY <1>1, <1>3, RouteType DEF r
    <3> QED BY <2>1, <3>1 DEF Entry
  <2>4. p \in Get
    BY <1>1, <2>3, RelayedType
  <2>5. /\ p.source = Relayed(n, g).source /\ p.sid = Relayed(n, g).sid
        /\ p.lastHop = Relayed(n, g).lastHop /\ p.ttl = Relayed(n, g).ttl
    BY <1>11 DEF Get
  <2> HIDE DEF p
  <2>7. PICK y \in Get : y = p
    BY <2>4
  <2>8. SoundGet(c, s, y)' /\ y.type = "Get"
    BY <1>10, <1>11, <2>1, <2>5, <2>7 DEF Get
  <2> QED BY <2>2, <2>7, <2>8
<1>13. \A m \in Node, w \in Waiting :
          In(w, delay_queue'[m]) => \/ \E v \in Waiting : In(v, delay_queue[m]) /\ v.pkt = w.pkt
                                    \/ SoundGet(c, s, w.pkt)'
  <2> SUFFICES ASSUME NEW m \in Node, NEW w \in Waiting, In(w, delay_queue'[m]),
                      ~ \E v \in Waiting : In(v, delay_queue[m]) /\ v.pkt = w.pkt
               PROVE  SoundGet(c, s, w.pkt)'
    OBVIOUS
  <2>1. delay_queue'[m] # delay_queue[m]
    OBVIOUS
  <2>2. /\ pit[n][s] = <<>> /\ m = n
        /\ \E q \in Delayed(delay_queue[n], Relayed(n, g)) : delay_queue'[n] = q
    BY <1>1, <1>5, <2>1 DEF Typed
  <2>3. delay_queue[n] \in Seq(Waiting)
    BY <1>1 DEF Typed
  <2>4. w.pkt = Relayed(n, g)
    BY <1>11, <2>2, <2>3, DelayedFrom
  <2>5. w.pkt \in Get
    BY DEF Waiting
  <2> QED BY <1>10, <1>11, <2>2, <2>4, <2>5
<1>14. ASSUME NEW m \in Node, NEW t \in Sid, NEW e \in PITentry,
              In(e, pit'[m][t]), ~In(e, pit[m][t]), c \notin Providers
       PROVE  e.nid = c /\ Heard(c, s, e.mac)'
  <2>1. m = n /\ t = s /\ In(e, WithEntry(pit[n][s], g))
    BY <1>7, <1>14
  <2>2. e = [nid |-> g.source, mac |-> g.lastHop, nonce |-> g.nonce]
    BY <1>7, <1>14, <2>1, EnteredFrom
  <2>3. e.nid = c /\ e.mac = g.lastHop
    BY <1>1, <2>2
  <2>4. Heard(c, s, g.lastHop)'
    BY <1>9, <1>14 DEF SoundGet, FromConsumer, Providers
  <2> QED BY <2>3, <2>4 DEF Heard
<1>15. \A m \in Node, t \in Sid, e \in PITentry :
          In(e, pit'[m][t]) => \/ In(e, pit[m][t])
                               \/ (c \notin Providers => e.nid = c /\ Heard(c, s, e.mac)')
    BY <1>14
<1> QED BY <1>1, <1>8, <1>9, <1>12, <1>13, <1>15, SoundStep

LEMMA AnswerGetSound ==
    ASSUME Typed, Typed', NEW c \in Node, NEW s \in Sid, Sound(c, s), NEW f \in net,
           NEW recent, AnswerGet(f, recent)
    PROVE  Sound(c, s)'
<1> DEFINE n == f.to
           g == f.pkt
           dest == Provider[s]
           heard == LearnFromGet(rt[n], g)
<1>1. n \in Node /\ g \in Get /\ SoundGet(c, s, g) /\ g.sid = s /\ g.source = c /\ dest \in Node
    BY PacketKinds, ColorAssumption DEF Typed, AnswerGet, Sound, SoundGet
<1>2. /\ rt' = [rt EXCEPT ![n] = LearnFromGet(LookedUp(heard, dest), g)]
      /\ \A x \in net' : x \in net \/ (x.to = g.lastHop /\ x.pkt.type = "Data")
      /\ UNCHANGED <<pit, cache, delay_queue>>
      /\ cache[n][s] # <<>>
    BY <1>1 DEF AnswerGet, Unicast
<1>3. heard \in Table /\ Alive(heard)
    BY <1>1, HeardAlive
<1>4. LookedUp(heard, dest) = heard
    BY <1>1, <1>3, AliveUnexpired
<1>5. rt' = [rt EXCEPT ![n] = LearnFromGet(LearnFromGet(rt[n], g), g)]
    BY <1>2, <1>4
<1> HIDE DEF n, g, dest, heard
<1>6. /\ \A m \in Node : Heard(c, s, m) => Heard(c, s, m)'
      /\ Heard(c, s, n)'
    BY <1>2 DEF Heard
<1>7. /\ \A m \in Node : m # n => rt'[m] = rt[m]
      /\ Grows(rt[n], rt'[n])
      /\ \A d \in Node, e \in Entry :
             In(e, rt'[n][d]) => In(e, rt[n][d]) \/ SoundRoute(c, s, d, e)'
      /\ SoundGet(c, s, g)'
    BY <1>1, <1>5, <1>6, LearnedSound
<1>8. \A x \in Frame :
          x \in net' => x \in net \/ (x.pkt.type = "Data" /\ (c \notin Providers => Heard(c, s, x.to)'))
  <2>1. c \notin Providers => Heard(c, s, g.lastHop)'
    BY <1>7 DEF SoundGet, FromConsumer, Providers
  <2> QED BY <1>2, <2>1 DEF Heard
<1>9. \A m \in Node, w \in Waiting :
          In(w, delay_queue'[m]) => \E v \in Waiting : In(v, delay_queue[m]) /\ v.pkt = w.pkt
    BY <1>2
<1>10. \A m \in Node, t \in Sid, e \in PITentry : In(e, pit'[m][t]) => In(e, pit[m][t])
    BY <1>2
<1> QED BY <1>1, <1>6, <1>7, <1>8, <1>9, <1>10, SoundStep

(* delayer changes no table, as a lookup changes none without expired      *)
(* routes, and sends a GET as it was enqueued but for its next hop.        *)
LEMMA DelayerSound ==
    ASSUME Typed, Typed', NEW c \in Node, NEW s \in Sid, Sound(c, s), NEW n \in Node, Delayer(n)
    PROVE  Sound(c, s)'
<1> DEFINE q == delay_queue[n]
           first == Head(q)
           dest == Provider[first.pkt.sid]
           r == Route(rt[n], dest)
           sent == IF r = NoRoute THEN first.pkt ELSE [first.pkt EXCEPT !.nexthop = r.nextHop]
<1>1. q \in Seq(Waiting) /\ q # <<>>
    BY DEF Typed, Delayer
<1>2. /\ first \in Waiting /\ Tail(q) \in Seq(Waiting)
      /\ first = q[1] /\ 1 \in 1 .. Len(q)
      /\ Len(q) \in Nat /\ Len(Tail(q)) = Len(q) - 1
      /\ \A i \in 1 .. Len(Tail(q)) : Tail(q)[i] = q[i + 1]
    BY <1>1
<1>3. /\ delay_queue' = [delay_queue EXCEPT ![n] = Tail(q)]
      /\ rt' = [rt EXCEPT ![n] = LookedUp(rt[n], dest)]
      /\ \A x \in net' : x \in net \/ x.pkt = sent
      /\ UNCHANGED <<pit, cache>>
    BY DEF Delayer, Broadcast
<1>4. first.pkt \in Get /\ SoundGet(c, s, first.pkt)
    BY <1>2 DEF Waiting, Sound
<1> HIDE DEF first
<1>5. dest \in Node
    BY <1>4, ColorAssumption DEF Get
<1>6. rt[n] \in Table /\ LookedUp(rt[n], dest) = rt[n]
  <2>1. rt[n] \in Table /\ Alive(rt[n])
    BY SoundIsAlive DEF Typed
  <2> QED BY <1>5, <2>1, AliveUnexpired
<1>7. rt' = rt
    BY <1>3, <1>6 DEF Typed
<1> HIDE DEF q, dest, r
<1>8. /\ sent.type = "Get" /\ sent.source = first.pkt.source /\ sent.sid = first.pkt.sid
      /\ sent.ttl = first.pkt.ttl /\ sent.lastHop = first.pkt.lastHop
  <2>1. ASSUME NEW g \in Get, NEW h
        PROVE  LET new == [g EXCEPT !.nexthop = h]
               IN  /\ new.type = "Get" /\ new.source = g.source /\ new.sid = g.sid
                   /\ new.ttl = g.ttl /\ new.lastHop = g.lastHop
    BY DEF Get
  <2>2. first.pkt.type = "Get"
    BY <1>4 DEF Get
  <2> QED BY <1>4, <2>1, <2>2
<1> HIDE DEF sent
<1>9. /\ \A m \in Node : Heard(c, s, m) => Heard(c, s, m)'
      /\ Grows(rt[n], rt'[n])
    BY <1>3, <1>7 DEF Heard, Grows
<1>10. SoundGet(c, s, sent)
    BY <1>4, <1>8 DEF SoundGet
<1>11. ASSUME NEW x \in Frame, x \in net', x \notin net
       PROVE  x.pkt.type = "Get" /\ SoundGet(c, s, x.pkt)'
  <2>1. x.pkt = sent
    BY <1>3, <1>11
  <2>2. SoundGet(c, s, x.pkt)
    BY <1>10, <2>1
  <2>3. SoundGet(c, s, x.pkt)'
    BY <1>3, <1>7, <2>2 DEF SoundGet, FromConsumer, Heard, Better, Providers
  <2> QED BY <1>8, <2>1, <2>3
<1>12. ASSUME NEW m \in Node, NEW w \in Waiting, In(w, delay_queue'[m])
       PROVE  \E v \in Waiting : In(v, delay_queue[m]) /\ v.pkt = w.pkt
  <2>1. CASE m # n
    BY <1>3, <1>12, <2>1 DEF Typed
  <2>2. CASE m = n
    <3>1. delay_queue'[m] = Tail(q)
      BY <1>3, <2>2 DEF Typed
    <3>2. PICK i \in 1 .. Len(Tail(q)) : Tail(q)[i] = w
      BY <1>12, <3>1 DEF In
    <3>3. i + 1 \in 1 .. Len(q) /\ q[i + 1] = w
      BY <1>2, <3>2
    <3>4. In(w, delay_queue[m])
      BY <2>2, <3>3 DEF In, q
    <3> QED BY <3>4
  <2> QED BY <2>1, <2>2
<1>13. \A m \in Node, t \in Sid, e \in PITentry : In(e, pit'[m][t]) => In(e, pit[m][t])
    BY <1>3
<1> QED BY <1>7, <1>9, <1>11, <1>12, <1>13, SoundStep

(* Data makes a node know the neighbour it came from and the provider. The *)
(* PIT entries it removes leave the content in the cache, and it goes back *)
(* to a node that has been heard.                                          *)
LEMMA DataSound ==
    ASSUME Typed, Typed', NEW c \in Node, NEW s \in Sid, Sound(c, s), NEW f \in net,
           handleDataPacket(f)
    PROVE  Sound(c, s)'
<1> DEFINE n == f.to
           d == f.pkt
           t == d.sid
           heard == LearnFromData(rt[n], d)
           entries == pit[n][t]
           r == Route(heard, entries[1].nid)
           next == IF r = NoRoute THEN entries[1].mac ELSE r.nextHop
           relay == entries # <<>> /\ ~hasThisPacket(n, d)
<1>1. n \in Node /\ d \in Data /\ t \in Sid /\ d.lastHop \in Node /\ Provider[t] \in Node
  <2>1. n \in Node /\ d \in Data
    BY PacketKinds DEF Typed, handleDataPacket
  <2> QED BY <2>1, ColorAssumption DEF Data
<1>2. /\ rt' = [rt EXCEPT ![n] = AllLookedUp(heard, entries)]
      /\ pit' = Put(pit, n, t, <<>>)
      /\ net' = (net \ {f}) \cup IF relay THEN Unicast(next, RelayedData(n, d)) ELSE {}
      /\ cache' = IF relay THEN InsterPacket(cache, n, d) ELSE cache
      /\ delay_queue' = delay_queue
    BY DEF handleDataPacket, Put
<1>3. RelayedData(n, d).type = "Data"
    BY <1>1, RelayedDataType DEF Data
<1>4. c \notin Providers => Heard(c, s, n)
    BY DEF Sound, handleDataPacket
<1> HIDE DEF n, d, t
<1>5. rt[n] \in Table /\ Alive(rt[n]) /\ entries \in Seq(PITentry)
  <2>1. rt[n] \in Table /\ entries \in Seq(PITentry)
    BY <1>1 DEF Typed, TableOf
  <2> QED BY <1>1, <2>1, SoundIsAlive
<1>6. /\ \A m \in Node, u \in Sid : pit'[m][u] = IF m = n /\ u = t THEN <<>> ELSE pit[m][u]
      /\ \A m \in Node : cache[m][s] # <<>> => cache'[m][s] # <<>>
      /\ entries # <<>> => cache'[n][t] # <<>>
  <2>1. \A m \in Node, u \in Sid : pit'[m][u] = IF m = n /\ u = t THEN <<>> ELSE pit[m][u]
    <3>1. pit \in TableOf(Seq(PITentry)) /\ pit' = Put(pit, n, t, <<>>)
      BY <1>2 DEF Typed
    <3> QED BY <3>1, Emptied
  <2>2. cache[n][t] \in Seq(Offset) /\ d.offset \in Offset
    BY <1>1 DEF Typed, TableOf, Data
  <2>3. Append(cache[n][t], d.offset) # <<>>
    BY <2>2
  <2>4. cache' = cache \/ cache' = Put(cache, n, t, Append(cache[n][t], d.offset))
    BY <1>2 DEF InsterPacket, Put, t
  <2>5. \A m \in Node, u \in Sid :
            \/ cache'[m][u] = cache[m][u]
            \/ cache'[m][u] = Append(cache[n][t], d.offset)
    <3> DEFINE new == Append(cache[n][t], d.offset)
    <3>1. cache \in TableOf(Seq(Offset)) /\ (cache' = cache \/ cache' = Put(cache, n, t, new))
      BY <2>4 DEF Typed
    <3> HIDE DEF new
    <3>2. \A m \in Node, u \in Sid : cache'[m][u] = cache[m][u] \/ cache'[m][u] = new
      <4>1. CASE cache' = cache
        BY <4>1
      <4>2. CASE cache' = Put(cache, n, t, new)
        BY <1>1, <3>1, <4>2 DEF TableOf, Put
      <4> QED BY <3>1, <4>1, <4>2
    <3> QED BY <3>2 DEF new
  <2>6. \A m \in Node, u \in Sid : cache[m][u] # <<>> => cache'[m][u] # <<>>
    BY <2>3, <2>5
  <2>7. entries # <<>> => cache'[n][t] # <<>>
    <3>1. CASE relay
      <4>1. cache' = Put(cache, n, t, Append(cache[n][t], d.offset)) /\ cache \in TableOf(Seq(Offset))
        BY <1>2, <3>1 DEF InsterPacket, Put, Typed, t
      <4>2. cache'[n][t] = Append(cache[n][t], d.offset)
        <5> DEFINE new == Append(cache[n][t], d.offset)
        <5>1. cache' = Put(cache, n, t, new)
          BY <4>1
        <5> HIDE DEF new
        <5>2. cache'[n][t] = new
          BY <1>1, <4>1, <5>1 DEF TableOf, Put
        <5> QED BY <5>2 DEF new
      <4> QED BY <2>3, <4>2
    <3>2. CASE entries # <<>> /\ hasThisPacket(n, d)
      <4>1. cache[n][t] # <<>>
        BY <2>2, <3>2 DEF hasThisPacket, t
      <4> QED BY <1>1, <2>6, <4>1
    <3> QED BY <3>1, <3>2
  <2> QED BY <2>1, <2>6, <2>7
<1>7. \A m \in Node : Heard(c, s, m) => Heard(c, s, m)'
    BY <1>1, <1>6 DEF Heard
<1> DEFINE S == {x \in Node \X Entry : In(x[2], rt[n][x[1]]) \/ SoundRoute(c, s, x[1], x[2])'}
           viaTtl == Croute(d.lastHop, 1, d.ttl)
           viaMetric == Croute(d.lastHop, 1, d.routeMetric)
<1>8. ASSUME NEW u \in Node, NEW e \in Entry, <<u, e>> \in S
      PROVE  In(e, rt[n][u]) \/ SoundRoute(c, s, u, e)'
    BY <1>8
<1>9. /\ Within(rt[n], S)
      /\ <<d.lastHop, viaTtl>> \in S
      /\ <<Provider[t], viaTtl>> \in S
      /\ <<Provider[t], viaMetric>> \in S
  <2>1. \A e \in {viaTtl, viaMetric} :
            e \in Entry /\ e.lifeTime = 1 /\ e.nextHop = d.lastHop
    BY <1>1 DEF Data, Croute, Entry
  <2> HIDE DEF viaTtl, viaMetric
  <2>2. Provider[t] \in Providers
    BY <1>1 DEF Providers
  <2>3. \A e \in {viaTtl, viaMetric} : SoundRoute(c, s, d.lastHop, e)' /\ SoundRoute(c, s, Provider[t], e)'
    BY <2>1, <2>2 DEF SoundRoute, FromConsumer, Heard, Providers
  <2>4. ASSUME NEW u \in Node, NEW i \in 1 .. Len(rt[n][u]) PROVE <<u, rt[n][u][i]>> \in S
    <3>1. rt[n][u][i] \in Entry
      BY <1>5 DEF Table
    <3>2. In(rt[n][u][i], rt[n][u])
      BY DEF In
    <3> QED BY <3>1, <3>2
  <2>5. Within(rt[n], S)
    BY <2>4 DEF Within
  <2>6. <<d.lastHop, viaTtl>> \in S /\ <<Provider[t], viaTtl>> \in S /\ <<Provider[t], viaMetric>> \in S
    BY <1>1, <2>1, <2>3
  <2> QED BY <2>5, <2>6
<1> HIDE DEF S
<1>10. heard \in Table /\ Alive(heard) /\ Within(heard, S) /\ Grows(rt[n], heard)
    BY <1>1, <1>5, <1>9, LearnFromDataAlive DEF t
<1> HIDE DEF heard
<1>11. rt'[n] = heard /\ \A m \in Node : m # n => rt'[m] = rt[m]
  <2>1. Len(entries) \in Nat /\ \A i \in 1 .. Len(entries) : entries[i].nid \in Node
    <3>1. Len(entries) \in Nat /\ \A i \in 1 .. Len(entries) : entries[i] \in PITentry
      BY <1>5
    <3> QED BY <3>1 DEF PITentry
  <2>2. AllLookedUp(heard, entries) = heard
    BY <1>10, <2>1, AllLookedUpAlive
  <2> QED BY <1>1, <1>2, <2>2 DEF Typed
<1>12. \A u \in Node, e \in Entry :
           In(e, rt'[n][u]) => In(e, rt[n][u]) \/ SoundRoute(c, s, u, e)'
    BY <1>8, <1>10, <1>11 DEF Within, In
<1>13. ASSUME relay, c \notin Providers, NEW h, h = next PROVE Heard(c, s, h)'
  <2>1. 1 \in 1 .. Len(entries)
    BY <1>5, <1>13
  <2>2. entries[1].nid = c /\ Heard(c, s, entries[1].mac) /\ entries[1].mac \in Node
    <3>1. entries[1] \in PITentry
      BY <1>5, <2>1
    <3> QED BY <1>1, <1>13, <2>1, <3>1 DEF Sound, PITentry
  <2>3. CASE r = NoRoute
    <3>1. h = entries[1].mac
      BY <1>13, <2>3
    <3>2. h \in Node /\ Heard(c, s, h)
      BY <2>2, <3>1
    <3> QED BY <1>7, <3>2
  <2>4. CASE r # NoRoute
    <3>1. heard[c] \in Seq(Entry) /\ Scanned(heard[c], 0) = Len(heard[c])
      BY <1>10, AliveUnexpired DEF Table
    <3>2. PICK i \in 1 .. Len(heard[c]) : r = heard[c][i]
      BY <2>2, <2>4, <3>1, FoundIsBest DEF Route
    <3>3. r \in Entry /\ r.nextHop \in Node
      <4> HIDE DEF r
      <4>1. r \in Entry
        BY <3>1, <3>2
      <4> QED BY <4>1 DEF Entry
    <3>8. h = r.nextHop
      BY <1>13, <2>4
    <3> HIDE DEF r
    <3>4. PICK e \in Entry : e = r
      BY <3>3
    <3>5. In(e, rt[n][c]) \/ SoundRoute(c, s, c, e)'
      BY <1>11, <1>12, <3>2, <3>4 DEF In
    <3>6. CASE In(e, rt[n][c])
      <4>1. SoundRoute(c, s, c, e)
        BY <1>1, <3>6 DEF Sound, SoundTable, In
      <4>2. Heard(c, s, e.nextHop)
        BY <1>13, <4>1 DEF SoundRoute, FromConsumer
      <4>3. h \in Node /\ Heard(c, s, h)
        BY <3>3, <3>4, <3>8, <4>2
      <4> QED BY <1>7, <4>3
    <3>7. CASE SoundRoute(c, s, c, e)'
      <4>1. Heard(c, s, e.nextHop)'
        BY <1>13, <3>7 DEF SoundRoute, FromConsumer, Providers
      <4> QED BY <3>4, <3>8, <4>1
    <3> QED BY <3>5, <3>6, <3>7
  <2> QED BY <2>3, <2>4
<1> HIDE DEF relay, next
<1>14. \A x \in Frame :
          x \in net' => x \in net \/ (x.pkt.type = "Data" /\ (c \notin Providers => Heard(c, s, x.to)'))
  <2> SUFFICES ASSUME NEW x \in Frame, x \in net', x \notin net
               PROVE  x.pkt.type = "Data" /\ (c \notin Providers => Heard(c, s, x.to)')
    OBVIOUS
  <2>1. relay /\ x.to = next /\ x.pkt = RelayedData(n, d)
    BY <1>2 DEF Unicast
  <2> QED BY <1>3, <1>13, <2>1
<1>15. \A m \in Node, w \in Waiting :
          In(w, delay_queue'[m]) => \E v \in Waiting : In(v, delay_queue[m]) /\ v.pkt = w.pkt
    BY <1>2
<1>16. \A m \in Node, u \in Sid, e \in PITentry : In(e, pit'[m][u]) => In(e, pit[m][u])
  <2>1. \A e : ~In(e, <<>>)
    BY DEF In
  <2> QED BY <1>6, <2>1
<1>17. Grows(rt[n], rt'[n]) /\ (c \in Providers \/ Heard(c, s, n)')
    BY <1>1, <1>4, <1>7, <1>10, <1>11
<1> QED BY <1>1, <1>7, <1>11, <1>12, <1>14, <1>15, <1>16, <1>17, SoundStep

(* The first GET goes out into a network that knows nothing. *)
LEMMA SendSound ==
    ASSUME Typed, Typed', NEW c \in Consumer, NEW s \in Sid, Unused, sendGET(c, s)
    PROVE  Sound(c, s)'
<1>1. c \in Node /\ Provider[s] \in Node
    BY ColorAssumption
<1>2. rt' = rt
  <2>1. rt[c] \in Table /\ Alive(rt[c])
    BY <1>1 DEF Typed, Unused, Alive
  <2>2. LookedUp(rt[c], Provider[s]) = rt[c]
    BY <1>1, <2>1, AliveUnexpired
  <2> QED BY <2>2 DEF sendGET, Typed
<1> DEFINE g == GetHead(c, s, Route(rt[c], Provider[s]), gets + 1)
<1>3. /\ \A f \in net' : f.pkt = g
      /\ UNCHANGED <<pit, cache, delay_queue>>
    BY DEF sendGET, Broadcast, Unused
<1>4. g.type = "Get" /\ g.source = c /\ g.sid = s /\ g.ttl = HopLimit /\ g.lastHop = c
    BY DEF GetHead
<1> HIDE DEF g
<1>5. HopLimit \in Nat
    BY ColorAssumption
<1>6. ASSUME NEW f \in net' PROVE SoundGet(c, s, f.pkt)' /\ f.pkt.type = "Get"
  <2>1. f.pkt.source = c /\ f.pkt.sid = s /\ f.pkt.ttl <= HopLimit /\ f.pkt.lastHop = c /\ f.pkt.type = "Get"
    BY <1>3, <1>4, <1>5
  <2> QED BY <2>1 DEF SoundGet, FromConsumer, Heard
<1>7. \A n \in Node : SoundTable(c, s, n)'
  <2>1. \A n, d \in Node : rt'[n][d] = <<>>
    BY <1>2 DEF Unused
  <2> QED BY <1>1, <2>1 DEF SoundTable
<1>8. \A n \in Node : delay_queue'[n] = <<>>
    BY <1>3 DEF Unused
<1>9. \A n \in Node, t \in Sid : pit'[n][t] = <<>>
    BY <1>3 DEF Unused
<1> QED BY <1>6, <1>7, <1>8, <1>9 DEF Sound

LEMMA InitLInv == Init => LInv
BY DEF Init, LInv, Unused

LEMMA CacheDataKeeps ==
    ASSUME Typed, NEW u \in Sid, cacheData(u)
    PROVE  \A m \in Node, s \in Sid : cache[m][s] # <<>> => cache'[m][s] # <<>>
<1> DEFINE p == Provider[u]
           new == FragmentAndStore
<1>1. p \in Node /\ cache[p][u] = <<>>
    BY ColorAssumption DEF cacheData
<1>2. cache' = Put(cache, p, u, new) /\ cache \in TableOf(Seq(Offset))
    BY DEF cacheData, Put, Typed
<1> HIDE DEF p, new
<1>3. \A m \in Node, s \in Sid : m # p \/ s # u => cache'[m][s] = cache[m][s]
    BY <1>1, <1>2 DEF TableOf, Put
<1> QED BY <1>1, <1>3

LEMMA NextLInv ==
    ASSUME ~PitExpires, ~RoutesExpire, Typed, Typed', LInv, [Next]_vars
    PROVE  LInv'
<1>1. ASSUME NEW n \in Consumer, NEW s \in Sid, sendGET(n, s) PROVE LInv'
  <2>1. gets \in Nat /\ gets' = gets + 1 /\ n \in Node
    BY <1>1, ColorAssumption DEF sendGET, Typed
  <2>2. CASE gets = 0
    <3>1. Sound(n, s)'
      BY <1>1, <2>2, SendSound DEF LInv
    <3> QED BY <2>1, <2>2, <3>1 DEF LInv
  <2>3. CASE gets # 0
    BY <2>1, <2>3 DEF LInv
  <2> QED BY <2>2, <2>3
<1>2. ASSUME gets' = gets, Unused => Unused',
             \A c \in Node, s \in Sid : Sound(c, s) => Sound(c, s)'
      PROVE  LInv'
  <2>1. gets' = 0 => Unused'
    BY <1>2 DEF LInv
  <2>2. gets' = 1 => \E c \in Node, s \in Sid : Sound(c, s)'
    BY <1>2 DEF LInv
  <2> QED BY <2>1, <2>2 DEF LInv
<1>3. ASSUME NEW s \in Sid, cacheData(s) PROVE LInv'
  <2>1. /\ UNCHANGED <<rt, pit, delay_queue, net, gets>>
        /\ \A m \in Node, t \in Sid : cache[m][t] # <<>> => cache'[m][t] # <<>>
    BY <1>3, CacheDataKeeps DEF cacheData, counters
  <2>2. \A c \in Node, t \in Sid : Sound(c, t) => Sound(c, t)'
    BY <2>1, QuietSound
  <2> QED BY <1>2, <2>1, <2>2 DEF Unused
<1>4. ASSUME NEW f \in net, Receive(f) PROVE LInv'
  <2>1. ~Unused
    BY DEF Unused
  <2>2. CASE DropGet(f)
    <3>1. UNCHANGED <<rt, pit, delay_queue, cache, gets>> /\ net' \subseteq net
      BY <2>2 DEF DropGet, tables, counters
    <3>2. \A c \in Node, s \in Sid : Sound(c, s) => Sound(c, s)'
      BY <3>1, QuietSound
    <3> QED BY <1>2, <2>1, <3>1, <3>2
  <2>3. CASE MissGet(f)
    BY <1>2, <2>1, <2>3, MissGetSound DEF MissGet
  <2>4. ASSUME NEW recent \in BOOLEAN, AnswerGet(f, recent) PROVE LInv'
    BY <1>2, <2>1, <2>4, AnswerGetSound DEF AnswerGet, counters
  <2>5. CASE handleDataPacket(f)
    BY <1>2, <2>1, <2>5, DataSound DEF handleDataPacket
  <2> QED BY <1>4, <2>2, <2>3, <2>4, <2>5 DEF Receive
<1>5. ASSUME NEW n \in Node, Delayer(n) PROVE LInv'
  <2>1. ~Unused /\ gets' = gets
    BY <1>5 DEF Unused, Delayer, counters
  <2> QED BY <1>2, <1>5, <2>1, DelayerSound
<1>6. ASSUME NEW f \in net, Lose(f) PROVE LInv'
  <2>1. UNCHANGED <<rt, pit, delay_queue, cache, gets>> /\ net' \subseteq net /\ ~Unused
    BY <1>6 DEF Lose, tables, counters, Unused
  <2>2. \A c \in Node, s \in Sid : Sound(c, s) => Sound(c, s)'
    BY <2>1, QuietSound
  <2> QED BY <1>2, <2>1, <2>2
<1>7. CASE UNCHANGED vars
  <2>1. UNCHANGED <<rt, pit, delay_queue, cache, net, gets>>
    BY <1>7 DEF vars, tables, counters
  <2>2. \A c \in Node, s \in Sid : Sound(c, s) => Sound(c, s)'
    BY <2>1, QuietSound
  <2> QED BY <1>2, <2>1, <2>2 DEF Unused
<1>8. ASSUME NEW n \in Node, NEW s \in Sid, PitTimeout(n, s) PROVE FALSE
    BY <1>8 DEF PitTimeout
<1>9. ASSUME NEW n \in Node, NEW d \in Node, RouteExpires(n, d) PROVE FALSE
    BY <1>9 DEF RouteExpires
<1> QED BY <1>1, <1>3, <1>4, <1>5, <1>6, <1>7, <1>8, <1>9 DEF Next, Done

(* While nothing times out, the routes that one request leaves behind never *)
(* form a circle for any destination but a provider, in any network and for *)
(* every order in which the copies of the GET and the Data arrive.          *)
THEOREM RoutesLoopFreeHolds ==
    ASSUME ~PitExpires, ~RoutesExpire
    PROVE  Spec => []RoutesLoopFree
<1>1. Init => Typed /\ LInv
    BY InitTyped, InitLInv
<1>2. Typed /\ LInv /\ [Next]_vars => (Typed /\ LInv)'
    BY NextTyped, NextLInv
<1>3. Typed /\ LInv => RoutesLoopFree
    BY LoopFree
<1> QED BY <1>1, <1>2, <1>3, PTL DEF Spec
============================================================================
