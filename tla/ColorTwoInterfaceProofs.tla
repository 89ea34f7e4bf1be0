---------------------- MODULE ColorTwoInterfaceProofs ----------------------
(***************************************************************************)
(* Proofs about ColorTwoInterface, for any network and any two ranges, any *)
(* number of requests and of faults, and elections at any moment. As in    *)
(* ColorNoClusterProofs the invariant ties PIT and cache together; here it *)
(* also has to survive that a consumer's own entries go before the others. *)
(* The second part proves the types, the third who sends on 2.4 GHz, and   *)
(* the last that the roles may be those of SimpleCluster.                  *)
(***************************************************************************)
EXTENDS ColorTwoInterface, TLAPS, WellFoundedInduction, SequenceTheorems

(* A table that has a member of S for every node and SID. *)
TableOf(S) == [Node -> [Sid -> S]]

(* The tables of the nodes have the right shape, whatever is in them. *)
Shape ==
    /\ \E O : cache \in TableOf(Seq(O))
    /\ \E P : pit \in TableOf(SUBSET P)
    /\ relays \in TableOf(Nat)
    /\ dataRelays \in TableOf([Offset -> Nat])

(* A packet that was relayed is in the cache, *)
RelayedIsCached ==
    \A n \in Node, s \in Sid, o \in Offset :
        dataRelays[n][s][o] > 0 => \E i \in 1 .. Len(cache[n][s]) : cache[n][s][i] = o

(* and a GET that was taken on is in the PIT, as an entry of another node, *)
(* or answered into the cache.                                             *)
TakenOnIsPending ==
    \A n \in Node, s \in Sid :
        relays[n][s] > 0 => (\E e \in pit[n][s] : ~e.consumer) \/ cache[n][s] # <<>>

(* The inductive invariant. *)
IInv == Shape /\ DataRelayedOnce /\ GetsAggregated /\ RelayedIsCached /\ TakenOnIsPending

LEMMA SeqGrows ==
    ASSUME NEW S, NEW T, S \subseteq T, NEW q \in Seq(S)
    PROVE  q \in Seq(T)
OBVIOUS

LEMMA TableGrows ==
    ASSUME NEW S, NEW T, S \subseteq T, NEW tab \in TableOf(Seq(S))
    PROVE  tab \in TableOf(Seq(T))
<1>1. \A n \in Node, s \in Sid : tab[n][s] \in Seq(T)
    BY SeqGrows DEF TableOf
<1> QED BY <1>1 DEF TableOf

LEMMA Appended ==
    ASSUME NEW S, NEW o \in S, NEW q \in Seq(S)
    PROVE  /\ Append(q, o) \in Seq(S)
           /\ Len(q) \in Nat
           /\ Len(Append(q, o)) = Len(q) + 1
           /\ Append(q, o)[Len(q) + 1] = o
           /\ \A i \in 1 .. Len(q) : Append(q, o)[i] = q[i]
OBVIOUS

(* A table with what one node has for one SID replaced. *)
Put(tab, n, s, v) == [tab EXCEPT ![n][s] = v]

(* A table with the sequence of one node and SID replaced has the same     *)
(* shape, and a different value at most there; elsewhere there is nothing  *)
(* to replace.                                                             *)
LEMMA Replaced ==
    ASSUME NEW S, NEW tab \in TableOf(S), NEW n, NEW s, NEW v,
           n \in Node /\ s \in Sid => v \in S
    PROVE  /\ Put(tab, n, s, v) \in TableOf(S)
           /\ \A m \in Node, t \in Sid :
                 Put(tab, n, s, v)[m][t] = IF m = n /\ t = s THEN v ELSE tab[m][t]
<1> DEFINE new == [tab EXCEPT ![n][s] = v]
<1>1. \A m \in Node, t \in Sid : new[m][t] = IF m = n /\ t = s THEN v ELSE tab[m][t]
    BY DEF TableOf
<1>2. \A m \in Node, t \in Sid : new[m][t] \in S
    BY <1>1 DEF TableOf
<1>3. new \in TableOf(S)
  <2>1. \A m \in Node : new[m] = IF m = n THEN [tab[m] EXCEPT ![s] = v] ELSE tab[m]
    BY DEF TableOf
  <2>2. \A m \in Node : new[m] \in [Sid -> S]
    BY <2>1 DEF TableOf
  <2>3. new = [m \in Node |-> new[m]]
    BY DEF TableOf
  <2> QED BY <2>2, <2>3 DEF TableOf
<1> QED BY <1>1, <1>3 DEF Put

(* One counter of several goes up. *)
LEMMA Counted ==
    ASSUME NEW c \in [Offset -> Nat], NEW o
    PROVE  /\ [c EXCEPT ![o] = @ + 1] \in [Offset -> Nat]
           /\ \A x \in Offset : [c EXCEPT ![o] = @ + 1][x] = IF x = o THEN c[x] + 1 ELSE c[x]
<1>1. CASE o \in Offset
    BY <1>1
<1>2. CASE o \notin Offset
  <2>1. [c EXCEPT ![o] = @ + 1] = c
    BY <1>2
  <2> QED BY <1>2, <2>1
<1> QED BY <1>1, <1>2

(* The packets FragmentAndStore makes are a sequence that is not empty. *)
LEMMA SomeFragments ==
    FragmentAndStore \in Seq(Offset) /\ FragmentAndStore # <<>>
<1>1. Fragments \in Nat /\ Fragments > 0
    BY TwoInterfaceAssumption
<1>2. FragmentAndStore \in [1 .. Fragments -> Offset]
    BY DEF FragmentAndStore, Offset
<1>3. FragmentAndStore \in Seq(Offset) /\ Len(FragmentAndStore) = Fragments
    BY <1>1, <1>2 DEF FragmentAndStore, Offset
<1> QED BY <1>1, <1>3

(* Entering a GET keeps the shape of a PIT entry. *)
LEMMA Entered ==
    ASSUME NEW P, NEW entries \in SUBSET P, NEW nic, NEW nonce, NEW own
    PROVE  /\ WithEntry(entries, nic, nonce, own)
                 \in SUBSET (P \cup {[nic |-> nic, nonce |-> nonce, consumer |-> own]})
           /\ entries \subseteq WithEntry(entries, nic, nonce, own)
           /\ entries = {} => [nic |-> nic, nonce |-> nonce, consumer |-> own]
                                 \in WithEntry(entries, nic, nonce, own)
<1> DEFINE e == [nic |-> nic, nonce |-> nonce, consumer |-> own]
<1>1. WithEntry(entries, nic, nonce, own)
          = IF \E x \in entries : x.nonce = nonce THEN entries ELSE entries \cup {e}
    BY DEF WithEntry
<1> HIDE DEF e
<1>2. /\ WithEntry(entries, nic, nonce, own) \in SUBSET (P \cup {e})
      /\ entries \subseteq WithEntry(entries, nic, nonce, own)
      /\ entries = {} => e \in WithEntry(entries, nic, nonce, own)
    BY <1>1
<1> QED BY <1>2 DEF e

----------------------------------------------------------------------------
(* The state the invariant is about. *)
tracked == <<pit, cache, relays, dataRelays>>

LEMMA InitIInv == Init => IInv
<1> SUFFICES ASSUME Init PROVE IInv
    OBVIOUS
<1>1. cache \in TableOf(Seq(Offset))
    BY SomeFragments DEF Init, TableOf
<1>2. pit \in TableOf(SUBSET {})
  <2>1. pit = [n \in Node |-> [s \in Sid |-> {}]]
    BY DEF Init
  <2>2. {} \in SUBSET {}
    OBVIOUS
  <2> QED BY <2>1, <2>2, Zenon DEF TableOf
<1>3. relays \in TableOf(Nat) /\ dataRelays \in TableOf([Offset -> Nat])
    BY DEF Init, TableOf
<1>4. Shape
    BY <1>1, <1>2, <1>3 DEF Shape
<1>5. DataRelayedOnce /\ RelayedIsCached
    BY DEF Init, DataRelayedOnce, RelayedIsCached
<1>6. GetsAggregated /\ TakenOnIsPending
    BY DEF Init, GetsAggregated, TakenOnIsPending
<1> QED BY <1>4, <1>5, <1>6 DEF IInv

LEMMA IdleStep == IInv /\ UNCHANGED tracked => IInv'
<1> SUFFICES ASSUME IInv, UNCHANGED tracked PROVE IInv'
    OBVIOUS
<1>1. pit' = pit /\ cache' = cache /\ relays' = relays /\ dataRelays' = dataRelays
    BY DEF tracked
<1>2. Shape'
    BY <1>1 DEF IInv, Shape
<1>3. DataRelayedOnce' /\ GetsAggregated' /\ RelayedIsCached'
    BY <1>1 DEF IInv, DataRelayedOnce, GetsAggregated, RelayedIsCached
<1>4. TakenOnIsPending'
    BY <1>1 DEF IInv, TakenOnIsPending
<1> QED BY <1>2, <1>3, <1>4 DEF IInv

(* Entering a GET, own or heard, disturbs nothing. *)
LEMMA EnterStep ==
    ASSUME IInv, NEW n, NEW s, NEW nic, NEW nonce, NEW own,
           pit' = Put(pit, n, s, WithEntry(pit[n][s], nic, nonce, own)),
           cache' = cache, dataRelays' = dataRelays, relays' = relays
    PROVE  IInv'
<1> DEFINE e == [nic |-> nic, nonce |-> nonce, consumer |-> own]
           new == WithEntry(pit[n][s], nic, nonce, own)
<1>1. PICK P : pit \in TableOf(SUBSET P)
    BY DEF IInv, Shape
<1> DEFINE Q == SUBSET (P \cup {e})
<1>2. pit \in TableOf(Q)
    BY <1>1 DEF TableOf
<1>3. n \in Node /\ s \in Sid => new \in Q /\ pit[n][s] \subseteq new
  <2>1. n \in Node /\ s \in Sid => pit[n][s] \in SUBSET P
    BY <1>1 DEF TableOf
  <2> QED BY <2>1, Entered
<1> HIDE DEF e, new, Q
<1>4. pit' = Put(pit, n, s, new)
    BY DEF new
<1>5. /\ pit' \in TableOf(Q)
      /\ \A m \in Node, t \in Sid : pit'[m][t] = IF m = n /\ t = s THEN new ELSE pit[m][t]
    BY <1>2, <1>3, <1>4, Replaced
<1>6. Shape'
    BY <1>5 DEF IInv, Shape, Q
<1>7. DataRelayedOnce' /\ GetsAggregated' /\ RelayedIsCached'
    BY DEF IInv, DataRelayedOnce, GetsAggregated, RelayedIsCached
<1>8. \A m \in Node, t \in Sid : pit[m][t] \subseteq pit'[m][t]
    BY <1>3, <1>5
<1>9. TakenOnIsPending'
    BY <1>8 DEF IInv, TakenOnIsPending
<1> QED BY <1>6, <1>7, <1>9 DEF IInv

(* A GET is only taken on where none is pending and nothing is cached, so  *)
(* none was taken on since the last time-out.                              *)
LEMMA TakeOnStep ==
    ASSUME IInv, NEW n, NEW s, NEW nic, NEW nonce,
           pit[n][s] = {}, cache[n][s] = <<>>,
           pit' = Put(pit, n, s, WithEntry(pit[n][s], nic, nonce, FALSE)),
           relays' = Put(relays, n, s, relays[n][s] + 1),
           cache' = cache, dataRelays' = dataRelays
    PROVE  IInv'
<1> DEFINE e == [nic |-> nic, nonce |-> nonce, consumer |-> FALSE]
           new == WithEntry(pit[n][s], nic, nonce, FALSE)
<1>1. PICK P : pit \in TableOf(SUBSET P)
    BY DEF IInv, Shape
<1> DEFINE R == SUBSET (P \cup {e})
<1>2. pit \in TableOf(R)
    BY <1>1 DEF TableOf
<1>3. n \in Node /\ s \in Sid => new \in R /\ e \in new
  <2>1. n \in Node /\ s \in Sid => pit[n][s] \in SUBSET P
    BY <1>1 DEF TableOf
  <2> QED BY <2>1, Entered
<1>4. ~e.consumer
    OBVIOUS
<1> HIDE DEF e, new, R
<1>5. pit' = Put(pit, n, s, new)
    BY DEF new
<1>6. /\ pit' \in TableOf(R)
      /\ \A m \in Node, t \in Sid : pit'[m][t] = IF m = n /\ t = s THEN new ELSE pit[m][t]
  <2>1. n \in Node /\ s \in Sid => new \in R
    BY <1>3
  <2>2. /\ Put(pit, n, s, new) \in TableOf(R)
        /\ \A m \in Node, t \in Sid :
              Put(pit, n, s, new)[m][t] = IF m = n /\ t = s THEN new ELSE pit[m][t]
    BY <1>2, <2>1, Replaced
  <2> QED BY <1>5, <2>2
<1>7. relays \in TableOf(Nat)
    BY DEF IInv, Shape
<1>8. n \in Node /\ s \in Sid => relays[n][s] + 1 = 1 /\ relays[n][s] + 1 \in Nat
  <2>1. n \in Node /\ s \in Sid => relays[n][s] \in Nat
    BY <1>7 DEF TableOf
  <2>2. n \in Node /\ s \in Sid => ~(relays[n][s] > 0)
    BY DEF IInv, TakenOnIsPending
  <2> QED BY <2>1, <2>2
<1>9. /\ relays' \in TableOf(Nat)
      /\ \A m \in Node, t \in Sid :
            relays'[m][t] = IF m = n /\ t = s THEN relays[n][s] + 1 ELSE relays[m][t]
    BY <1>7, <1>8, Replaced
<1>10. Shape'
    BY <1>6, <1>9 DEF IInv, Shape, R
<1>11. DataRelayedOnce' /\ RelayedIsCached'
    BY DEF IInv, DataRelayedOnce, RelayedIsCached
<1>12. GetsAggregated'
    BY <1>8, <1>9 DEF IInv, GetsAggregated
<1>13. TakenOnIsPending'
  <2> SUFFICES ASSUME NEW m \in Node, NEW t \in Sid, relays'[m][t] > 0
               PROVE  (\E x \in pit'[m][t] : ~x.consumer) \/ cache[m][t] # <<>>
    BY DEF TakenOnIsPending
  <2>1. CASE m = n /\ t = s
    BY <1>3, <1>4, <1>6, <2>1
  <2>2. CASE ~(m = n /\ t = s)
    BY <1>6, <1>9, <2>2 DEF IInv, TakenOnIsPending
  <2> QED BY <2>1, <2>2
<1> QED BY <1>10, <1>11, <1>12, <1>13 DEF IInv

(* The consumer's own entries go, those of other nodes stay. *)
LEMMA KeepDataStep ==
    ASSUME IInv, NEW f \in net, KeepData(f)
    PROVE  IInv'
<1> DEFINE n == f.to
           s == f.pkt.sid
           new == Others(f)
<1>1. PICK P : pit \in TableOf(SUBSET P)
    BY DEF IInv, Shape
<1> DEFINE Q == SUBSET P
<1>2. pit \in TableOf(Q)
    BY <1>1
<1>3. n \in Node /\ s \in Sid => new \in Q
  <2>1. n \in Node /\ s \in Sid => pit[n][s] \in SUBSET P
    BY <1>1 DEF TableOf
  <2> QED BY <2>1 DEF Others
<1>4. \A e \in pit[n][s] : ~e.consumer => e \in new
    BY DEF Others, OwnEntries
<1>5. /\ pit' = Put(pit, n, s, new)
      /\ cache' = cache /\ relays' = relays /\ dataRelays' = dataRelays
    BY DEF KeepData, Put, history
<1> HIDE DEF n, s, new, Q
<1>6. /\ pit' \in TableOf(Q)
      /\ \A m \in Node, t \in Sid : pit'[m][t] = IF m = n /\ t = s THEN new ELSE pit[m][t]
    BY <1>2, <1>3, <1>5, Replaced
<1>7. Shape'
    BY <1>5, <1>6 DEF IInv, Shape, Q
<1>8. DataRelayedOnce' /\ GetsAggregated' /\ RelayedIsCached'
    BY <1>5 DEF IInv, DataRelayedOnce, GetsAggregated, RelayedIsCached
<1>9. TakenOnIsPending'
  <2> SUFFICES ASSUME NEW m \in Node, NEW t \in Sid, relays[m][t] > 0, cache[m][t] = <<>>
               PROVE  \E e \in pit'[m][t] : ~e.consumer
    BY <1>5 DEF TakenOnIsPending
  <2>1. PICK e \in pit[m][t] : ~e.consumer
    BY DEF IInv, TakenOnIsPending
  <2>2. e \in pit'[m][t]
    BY <1>4, <1>6, <2>1
  <2> QED BY <2>1, <2>2
<1> QED BY <1>7, <1>8, <1>9 DEF IInv

(* Data is relayed once: what is relayed is cached, and what is cached is  *)
(* not relayed. The entries it removes leave the content in the cache.     *)
LEMMA RelayDataStep ==
    ASSUME IInv, NEW f \in net, RelayData(f)
    PROVE  IInv'
<1> DEFINE n == f.to
           d == f.pkt
           s == f.pkt.sid
           o == f.pkt.offset
           old == cache[n][s]
           new == Append(old, o)
           count == [dataRelays[n][s] EXCEPT ![o] = @ + 1]
           none == {}
<1>1. PICK O : cache \in TableOf(Seq(O))
    BY DEF IInv, Shape
<1>2. PICK P : pit \in TableOf(SUBSET P)
    BY DEF IInv, Shape
<1> DEFINE T == O \cup {o}
           Q == Seq(T)
           R == SUBSET P
<1>3. /\ relays' = relays
      /\ pit' = Put(pit, n, s, none)
      /\ cache' = Put(cache, n, s, new)
      /\ dataRelays' = Put(dataRelays, n, s, count)
    BY DEF RelayData, InsterPacket, Put
<1>4. ~ \E i \in 1 .. Len(old) : old[i] = o
    BY DEF RelayData, hasThisPacket
<1>5. cache \in TableOf(Q)
    BY <1>1, TableGrows
<1>6. n \in Node /\ s \in Sid => old \in Q
    BY <1>5 DEF TableOf
<1>7. n \in Node /\ s \in Sid =>
          /\ new \in Q
          /\ Len(old) \in Nat
          /\ Len(new) = Len(old) + 1
          /\ new[Len(old) + 1] = o
          /\ \A i \in 1 .. Len(old) : new[i] = old[i]
  <2>1. o \in T
    OBVIOUS
  <2> HIDE DEF n, s, o, old, T
  <2> QED BY <1>6, <2>1, Appended
<1>8. n \in Node /\ s \in Sid => dataRelays[n][s] \in [Offset -> Nat]
    BY DEF IInv, Shape, TableOf
<1>9. n \in Node /\ s \in Sid =>
          /\ count \in [Offset -> Nat]
          /\ \A x \in Offset :
                count[x] = IF x = o THEN dataRelays[n][s][x] + 1 ELSE dataRelays[n][s][x]
    BY <1>8, Counted
<1>10. dataRelays \in TableOf([Offset -> Nat])
    BY DEF IInv, Shape
<1>11. old = cache[n][s] /\ pit \in TableOf(R) /\ none \in R
    BY <1>2
<1> HIDE DEF n, d, s, o, old, new, count, none, T, Q, R
<1>12. /\ pit' \in TableOf(R)
       /\ \A m \in Node, t \in Sid : pit'[m][t] = IF m = n /\ t = s THEN none ELSE pit[m][t]
    BY <1>3, <1>11, Replaced
<1>13. /\ cache' \in TableOf(Q)
       /\ \A m \in Node, t \in Sid : cache'[m][t] = IF m = n /\ t = s THEN new ELSE cache[m][t]
  <2>1. n \in Node /\ s \in Sid => new \in Q
    BY <1>7
  <2> QED BY <1>3, <1>5, <2>1, Replaced
<1>14. /\ dataRelays' \in TableOf([Offset -> Nat])
       /\ \A m \in Node, t \in Sid :
             dataRelays'[m][t] = IF m = n /\ t = s THEN count ELSE dataRelays[m][t]
  <2>1. n \in Node /\ s \in Sid => count \in [Offset -> Nat]
    BY <1>9
  <2> QED BY <1>3, <1>10, <2>1, Replaced
<1>15. n \in Node /\ s \in Sid /\ o \in Offset => dataRelays[n][s][o] = 0
  <2>1. n \in Node /\ s \in Sid /\ o \in Offset => dataRelays[n][s][o] \in Nat
    BY <1>8
  <2>2. n \in Node /\ s \in Sid /\ o \in Offset => ~(dataRelays[n][s][o] > 0)
    BY <1>4, <1>11 DEF IInv, RelayedIsCached
  <2> QED BY <2>1, <2>2
<1>16. Shape'
    BY <1>3, <1>12, <1>13, <1>14 DEF IInv, Shape, Q, R
<1>17. DataRelayedOnce'
  <2> SUFFICES ASSUME NEW m \in Node, NEW t \in Sid, NEW x \in Offset
               PROVE  dataRelays'[m][t][x] <= 1
    BY DEF DataRelayedOnce
  <2>1. CASE m = n /\ t = s /\ x = o
    BY <1>9, <1>14, <1>15, <2>1
  <2>2. CASE ~(m = n /\ t = s /\ x = o)
    <3>1. dataRelays'[m][t][x] = dataRelays[m][t][x]
      BY <1>9, <1>14, <2>2
    <3> QED BY <3>1 DEF IInv, DataRelayedOnce
  <2> QED BY <2>1, <2>2
<1>18. RelayedIsCached'
  <2> SUFFICES ASSUME NEW m \in Node, NEW t \in Sid, NEW x \in Offset, dataRelays'[m][t][x] > 0
               PROVE  \E i \in 1 .. Len(cache'[m][t]) : cache'[m][t][i] = x
    BY DEF RelayedIsCached
  <2>1. CASE m = n /\ t = s /\ x = o
    <3>1. cache'[m][t] = new
      BY <1>13, <2>1
    <3>2. Len(old) + 1 \in 1 .. Len(new) /\ new[Len(old) + 1] = o
      BY <1>7, <2>1
    <3> QED BY <2>1, <3>1, <3>2
  <2>2. CASE ~(m = n /\ t = s /\ x = o)
    <3>1. dataRelays'[m][t][x] = dataRelays[m][t][x]
      BY <1>9, <1>14, <2>2
    <3>2. PICK i \in 1 .. Len(cache[m][t]) : cache[m][t][i] = x
      BY <3>1 DEF IInv, RelayedIsCached
    <3>3. CASE m = n /\ t = s
      <4>1. cache'[m][t] = new /\ cache[m][t] = old
        BY <1>11, <1>13, <3>3
      <4>2. i \in 1 .. Len(new) /\ new[i] = x
        BY <1>7, <3>2, <3>3, <4>1
      <4> QED BY <4>1, <4>2
    <3>4. CASE ~(m = n /\ t = s)
      BY <1>13, <3>2, <3>4
    <3> QED BY <3>3, <3>4
  <2> QED BY <2>1, <2>2
<1>19. TakenOnIsPending'
  <2> SUFFICES ASSUME NEW m \in Node, NEW t \in Sid, relays[m][t] > 0
               PROVE  (\E e \in pit'[m][t] : ~e.consumer) \/ cache'[m][t] # <<>>
    BY <1>3 DEF TakenOnIsPending
  <2>1. CASE m = n /\ t = s
    <3>1. cache'[m][t] = new /\ Len(new) = Len(old) + 1 /\ Len(old) \in Nat
      BY <1>7, <1>13, <2>1
    <3> QED BY <3>1
  <2>2. CASE ~(m = n /\ t = s)
    BY <1>12, <1>13, <2>2 DEF IInv, TakenOnIsPending
  <2> QED BY <2>1, <2>2
<1>20. GetsAggregated'
    BY <1>3 DEF IInv, GetsAggregated
<1> QED BY <1>16, <1>17, <1>18, <1>19, <1>20 DEF IInv

(* A time-out empties the PIT entry, and counting starts anew. *)
LEMMA PitTimeoutStep ==
    ASSUME IInv, NEW n \in Node, NEW s \in Sid, PitTimeout(n, s)
    PROVE  IInv'
<1>1. PICK P : pit \in TableOf(SUBSET P)
    BY DEF IInv, Shape
<1> DEFINE none == {}
           R == SUBSET P
<1>2. /\ pit' = Put(pit, n, s, none)
      /\ relays' = Put(relays, n, s, 0)
      /\ cache' = cache /\ dataRelays' = dataRelays
    BY DEF PitTimeout, Put
<1>3. pit \in TableOf(R) /\ none \in R /\ 0 \in Nat
    BY <1>1
<1> HIDE DEF none, R
<1>4. relays \in TableOf(Nat)
    BY DEF IInv, Shape
<1>5. /\ pit' \in TableOf(R)
      /\ \A m \in Node, t \in Sid : pit'[m][t] = IF m = n /\ t = s THEN none ELSE pit[m][t]
    BY <1>2, <1>3, Replaced
<1>6. /\ relays' \in TableOf(Nat)
      /\ \A m \in Node, t \in Sid : relays'[m][t] = IF m = n /\ t = s THEN 0 ELSE relays[m][t]
    BY <1>2, <1>3, <1>4, Replaced
<1>7. Shape'
    BY <1>2, <1>5, <1>6 DEF IInv, Shape, R
<1>8. DataRelayedOnce' /\ RelayedIsCached'
    BY <1>2 DEF IInv, DataRelayedOnce, RelayedIsCached
<1>9. GetsAggregated'
    BY <1>6 DEF IInv, GetsAggregated
<1>10. TakenOnIsPending'
    BY <1>2, <1>5, <1>6 DEF IInv, TakenOnIsPending
<1> QED BY <1>7, <1>8, <1>9, <1>10 DEF IInv

(* Every step preserves the invariant. *)
LEMMA NextIInv == IInv /\ [Next]_vars => IInv'
<1> SUFFICES ASSUME IInv, [Next]_vars PROVE IInv'
    OBVIOUS
<1>1. ASSUME NEW n \in Consumer, NEW s \in Sid, testSend(n, s) PROVE IInv'
    BY <1>1, EnterStep DEF testSend, Put, history
<1>2. ASSUME NEW f \in net, Receive(f) PROVE IInv'
  <2>1. CASE DropGet(f)
    BY <2>1, IdleStep DEF DropGet, tracked, history
  <2>2. CASE IgnoreGet(f)
    BY <2>2, IdleStep DEF IgnoreGet, tracked, history
  <2>3. CASE ForwardGet(f)
    BY <2>3, TakeOnStep DEF ForwardGet, Misses, SendsOn, Put
  <2>4. CASE ProbeGet(f)
    <3>1. CASE pit[f.to][f.pkt.sid] = {}
      BY <2>4, <3>1, TakeOnStep DEF ProbeGet, Misses, Put
    <3>2. CASE pit[f.to][f.pkt.sid] # {}
      BY <2>4, <3>2, EnterStep DEF ProbeGet, Put
    <3> QED BY <3>1, <3>2
  <2>5. CASE AnswerGet(f)
    BY <2>5, EnterStep DEF AnswerGet, Put, history
  <2>6. CASE KeepData(f)
    BY <2>6, KeepDataStep
  <2>7. CASE RelayData(f)
    BY <2>7, RelayDataStep
  <2> QED BY <1>2, <2>1, <2>2, <2>3, <2>4, <2>5, <2>6, <2>7 DEF Receive
<1>3. ASSUME NEW n \in Node, NEW i \in Nic, Delayer(n, i) PROVE IInv'
    BY <1>3, IdleStep DEF Delayer, tracked, history
<1>4. ASSUME NEW n \in Node, NEW s \in Sid, PitTimeout(n, s) PROVE IInv'
    BY <1>4, PitTimeoutStep
<1>5. ASSUME NEW n \in Node, NEW d \in Node, RouteExpires(n, d) PROVE IInv'
    BY <1>5, IdleStep DEF RouteExpires, tracked, history
<1>6. ASSUME NEW f \in net, Lose(f) PROVE IInv'
    BY <1>6, IdleStep DEF Lose, tracked, history
<1>7. ASSUME NEW n \in Electable, Role(n) PROVE IInv'
    BY <1>7, IdleStep DEF Role, becomePrehead, becomeHead, becomeMember, tracked, history
<1>8. CASE Done
    BY <1>8, IdleStep DEF Done, tracked, vars, history
<1>9. CASE UNCHANGED vars
    BY <1>9, IdleStep DEF tracked, vars, history
<1> QED BY <1>1, <1>2, <1>3, <1>4, <1>5, <1>6, <1>7, <1>8, <1>9 DEF Next

----------------------------------------------------------------------------
(* PIT and cache of every node stay in step, although roles change and     *)
(* consumers give up their own entries first: what was relayed is cached,  *)
(* and what was taken on is pending for another node, or cached.           *)
THEOREM TwoInterfaceInvariance == Spec => []IInv
<1>1. Init => IInv
    BY InitIInv
<1>2. IInv /\ [Next]_vars => IInv'
    BY NextIInv
<1> QED BY <1>1, <1>2, PTL DEF Spec

(* handleDataPacket relays a packet at most once per node, on any two      *)
(* ranges and whoever is elected meanwhile.                                *)
THEOREM DataRelayedOnceHolds == Spec => []DataRelayedOnce
<1>1. IInv => DataRelayedOnce
    BY DEF IInv
<1> QED BY <1>1, TwoInterfaceInvariance, PTL

(* handleGetPacket takes on at most one GET for an SID between two         *)
(* time-outs of its PIT entry, over both interfaces together.              *)
THEOREM GetsAggregatedHolds == Spec => []GetsAggregated
<1>1. IInv => GetsAggregated
    BY DEF IInv
<1> QED BY <1>1, TwoInterfaceInvariance, PTL

----------------------------------------------------------------------------
(***************************************************************************)
(* Types. As in ColorNoClusterProofs, a lookup must find an entry of the   *)
(* table, and a GET or Data that is sent on must have hops left.           *)
(***************************************************************************)

(* A next hop, an entry of a routing table, the routing table of a node, a *)
(* frame, and a packet that waits in a delay queue.                        *)
Hop == [node : Node, nic : Nic]
Entry == [nextHop : Hop, lifeTime : {0, 1}, linkQlt : Nat]
Table == [Node -> Seq(Entry)]
Frame == [from : Node, to : Node, nic : Nic, pkt : Get \cup Data]
Waiting == [pkt : Get \cup Data, tc : Int]
Queues == [Nic -> Seq(Waiting)]

(* A set of numbers has a smallest one: what induction is done with. *)
LEMMA Smallest ==
    ASSUME NEW P, P \subseteq Nat, P # {}
    PROVE  \E i \in P : \A j \in P : i <= j
<1> DEFINE R == {ss \in Nat \X Nat : ss[1] < ss[2]}
<1>1. IsWellFoundedOn(R, Nat)
    BY NatLessThanWellFounded, Zenon DEF OpToRel
<1> HIDE DEF R
<1>2. PICK i \in P : \A j \in P : ~ (<<j, i>> \in R)
    BY <1>1, WFMin
<1>3. ASSUME NEW j \in P, j < i PROVE FALSE
  <2>1. i \in Nat /\ j \in Nat
    OBVIOUS
  <2>2. <<j, i>> \in R
    BY <1>3, <2>1 DEF R
  <2> QED BY <1>2, <2>2
<1> QED BY <1>3

LEMMA FirstOfIsFirst ==
    ASSUME NEW P, P \subseteq Nat, P # {}
    PROVE  FirstOf(P) \in P /\ \A j \in P : FirstOf(P) <= j
BY Smallest DEF FirstOf

LEMMA CreateKeepsType ==
    ASSUME NEW range \in Seq(Entry), NEW h \in Hop, NEW q \in Nat
    PROVE  CreateEntryIn(range, 0, h, 1, q) \in Seq(Entry)
<1> DEFINE stops == {i \in 1 .. Len(range) : range[i].nextHop = h \/ range[i].linkQlt >= q}
           k == FirstOf(stops)
<1>1. Croute(h, 0 + 1, q) \in Entry
    BY DEF Croute, Entry
<1>2. Append(range, Croute(h, 0 + 1, q)) \in Seq(Entry)
    BY <1>1
<1>3. ASSUME stops # {} PROVE [range EXCEPT ![k].lifeTime = 0 + 1] \in Seq(Entry)
  <2>1. stops \subseteq Nat
    OBVIOUS
  <2>2. k \in 1 .. Len(range)
    BY <1>3, <2>1, FirstOfIsFirst
  <2> HIDE DEF k
  <2>e. range[k] \in Entry
    BY <2>2
  <2>3. [range[k] EXCEPT !.lifeTime = 0 + 1] \in Entry
    BY <2>e DEF Entry
  <2> QED BY <2>2, <2>3
<1> QED BY <1>2, <1>3 DEF CreateEntryIn

LEMMA FindKeepsType ==
    ASSUME NEW range \in Seq(Entry)
    PROVE  AfterFind(range, 0) \in Seq(Entry)
<1>1. Expired(range, 0) \subseteq 1 .. Len(range)
    BY DEF Expired
<1>2. CASE Expired(range, 0) = {}
    BY <1>2 DEF AfterFind
<1>3. CASE Expired(range, 0) # {}
  <2> DEFINE k == FirstOf(Expired(range, 0))
             a == SubSeq(range, 1, k - 1)
             b == SubSeq(range, k + 1, Len(range))
  <2>1. k \in 1 .. Len(range) /\ Len(range) \in Nat
    BY <1>1, <1>3, FirstOfIsFirst
  <2>2. AfterFind(range, 0) = a \o b
    BY <1>3 DEF AfterFind, Without
  <2> HIDE DEF k
  <2>3. a \in Seq(Entry) /\ b \in Seq(Entry)
    BY <2>1
  <2> HIDE DEF a, b
  <2> QED BY <2>2, <2>3, ConcatProperties
<1> QED BY <1>2, <1>3

(* Among the first n entries there is a first of the best. *)
Best(range, n, i) ==
    /\ \A j \in 1 .. n : range[j].linkQlt <= range[i].linkQlt
    /\ \A j \in 1 .. i - 1 : range[j].linkQlt < range[i].linkQlt

LEMMA BestExists ==
    ASSUME NEW range \in Seq(Entry), NEW n \in 1 .. Len(range)
    PROVE  \E i \in 1 .. n : Best(range, n, i)
<1>1. \A i \in 1 .. Len(range) : range[i].linkQlt \in Int
  <2>1. \A i \in 1 .. Len(range) : range[i] \in Entry
    OBVIOUS
  <2> QED BY <2>1 DEF Entry
<1>2. Len(range) \in Nat
    OBVIOUS
<1> DEFINE None == {k \in 1 .. Len(range) : ~ \E i \in 1 .. k : Best(range, k, i)}
<1>3. ASSUME None # {} PROVE FALSE
  <2>1. None \subseteq Nat
    OBVIOUS
  <2>2. PICK k \in None : \A j \in None : k <= j
    BY <1>3, <2>1, Smallest
  <2>3. k \in 1 .. Len(range) /\ ~ \E i \in 1 .. k : Best(range, k, i)
    BY <2>2
  <2>4. CASE k = 1
    <3>1. Best(range, k, 1) /\ 1 \in 1 .. k
      BY <1>1, <2>3, <2>4 DEF Best
    <3> QED BY <2>3, <3>1
  <2>5. CASE k # 1
    <3>1. k - 1 \in 1 .. Len(range) /\ k - 1 \notin None
      BY <1>2, <2>2, <2>3, <2>5
    <3>2. PICK i \in 1 .. k - 1 : Best(range, k - 1, i)
      BY <3>1
    <3>3. CASE range[k].linkQlt <= range[i].linkQlt
      <4>1. Best(range, k, i) /\ i \in 1 .. k
        BY <1>1, <2>3, <3>1, <3>2, <3>3 DEF Best
      <4> QED BY <2>3, <4>1
    <3>4. CASE range[k].linkQlt > range[i].linkQlt
      <4>0. \A j \in 1 .. k : range[j].linkQlt \in Int
        BY <1>1, <1>2, <2>3
      <4>1. \A j \in 1 .. k - 1 : range[j].linkQlt < range[k].linkQlt
        <5>1. \A j \in 1 .. k - 1 : range[j].linkQlt <= range[i].linkQlt
          BY <3>2 DEF Best
        <5>2. i \in 1 .. k /\ k \in 1 .. k /\ \A j \in 1 .. k - 1 : j \in 1 .. k
          BY <2>3, <3>1
        <5> QED BY <3>4, <4>0, <5>1, <5>2
      <4>2. \A j \in 1 .. k : j = k \/ j \in 1 .. k - 1
        BY <2>3
      <4>4. Best(range, k, k) /\ k \in 1 .. k
        BY <2>3, <4>0, <4>1, <4>2 DEF Best
      <4> QED BY <2>3, <4>4
    <3>5. range[k].linkQlt \in Int /\ range[i].linkQlt \in Int
      BY <1>1, <1>2, <2>3, <3>1
    <3> QED BY <3>3, <3>4, <3>5
  <2> QED BY <2>4, <2>5
<1> QED BY <1>3

(* findRoute returns an entry, if it scans any. *)
LEMMA FoundIsEntry ==
    ASSUME NEW range \in Seq(Entry), Scanned(range, 0) > 0
    PROVE  FoundRoute(range, 0) \in Entry
<1> DEFINE n == Scanned(range, 0)
           i == CHOOSE i \in 1 .. n : Best(range, n, i)
<1>1. n \in 1 .. Len(range)
  <2>1. Expired(range, 0) \subseteq 1 .. Len(range) /\ Len(range) \in Nat
    BY DEF Expired
  <2>2. Expired(range, 0) # {} => FirstOf(Expired(range, 0)) \in 1 .. Len(range)
    BY <2>1, FirstOfIsFirst
  <2> QED BY <2>1, <2>2 DEF Scanned
<1>2. FoundRoute(range, 0) = range[i]
    BY <1>1 DEF FoundRoute, Best
<1>3. \E x \in 1 .. n : Best(range, n, x)
    BY <1>1, BestExists
<1>4. i \in 1 .. n
    BY <1>3
<1> HIDE DEF i
<1>5. i \in 1 .. Len(range)
    BY <1>1, <1>4
<1> QED BY <1>2, <1>5

(* The tables of a node. *)
LEMMA RouteType ==
    ASSUME NEW tab \in Table, NEW dest \in Node, HasRoute(tab, dest)
    PROVE  /\ Route(tab, dest) \in Hop
           /\ Route(tab, dest).node \in Node /\ Route(tab, dest).nic \in Nic
<1>1. tab[dest] \in Seq(Entry)
    BY DEF Table
<1>2. FoundRoute(tab[dest], 0) \in Entry
    BY <1>1, FoundIsEntry DEF HasRoute
<1>3. Route(tab, dest) \in Hop
    BY <1>2 DEF Route, Entry
<1> QED BY <1>3 DEF Hop

LEMMA createRouteType ==
    ASSUME NEW tab \in Table, NEW dest \in Node, NEW hop \in Hop, NEW q \in Nat
    PROVE  createRoute(tab, dest, hop, q) \in Table
<1>1. CreateEntryIn(tab[dest], 0, hop, 1, q) \in Seq(Entry)
    BY CreateKeepsType DEF Table
<1> QED BY <1>1 DEF createRoute, Table

LEMMA LookedUpType ==
    ASSUME NEW tab \in Table, NEW dest \in Node
    PROVE  LookedUp(tab, dest) \in Table
<1>1. AfterFind(tab[dest], 0) \in Seq(Entry)
    BY FindKeepsType DEF Table
<1> QED BY <1>1 DEF LookedUp, Table

----------------------------------------------------------------------------
(* Packets and what is learned from them. *)

LEMMA FrameFields ==
    ASSUME NEW f \in Frame
    PROVE  /\ f.from \in Node /\ f.to \in Node /\ f.nic \in Nic
           /\ f.pkt.sid \in Sid /\ Provider[f.pkt.sid] \in Node
           /\ f.pkt \in Get \cup Data
           /\ f.pkt.type = "Get" => f.pkt \in Get
           /\ f.pkt.type = "Data" => f.pkt \in Data
           /\ [node |-> f.from, nic |-> f.nic] \in Hop
BY TwoInterfaceAssumption DEF Frame, Get, Data, Hop

LEMMA GetFields ==
    ASSUME NEW g \in Get
    PROVE  g.nonce \in 0 .. MaxGets /\ g.nexthop \in Node \cup {Default}
<1>1. g.nonce \in 1 .. MaxGets /\ g.nexthop \in Node \cup {Default}
    BY DEF Get
<1> QED BY <1>1, TwoInterfaceAssumption

LEMMA LearnFromGetType ==
    ASSUME NEW f \in Frame, f.pkt \in Get, rt[f.to] \in Table
    PROVE  LearnFromGet(f.to, f) \in Table
<1> DEFINE hop == [node |-> f.from, nic |-> f.nic]
           source == createRoute(rt[f.to], f.pkt.source, hop, f.pkt.ttl)
<1>1. hop \in Hop /\ f.pkt.source \in Node /\ f.pkt.ttl \in Nat /\ f.from \in Node
    BY FrameFields, TwoInterfaceAssumption DEF Get
<1>2. LearnFromGet(f.to, f) = IF f.nic = 5 THEN source
                              ELSE IF isHead(f.to) THEN createRoute(source, f.from, hop, f.pkt.ttl)
                              ELSE rt[f.to]
    BY DEF LearnFromGet
<1> HIDE DEF hop
<1>3. source \in Table
    BY <1>1, createRouteType
<1> HIDE DEF source
<1> QED BY <1>1, <1>2, <1>3, createRouteType

LEMMA LearnFromDataType ==
    ASSUME NEW f \in Frame, f.pkt \in Data, rt[f.to] \in Table
    PROVE  LearnFromData(f.to, f) \in Table
<1> DEFINE hop == [node |-> f.from, nic |-> f.nic]
           source == createRoute(rt[f.to], Provider[f.pkt.sid], hop, f.pkt.ttl)
<1>1. hop \in Hop /\ Provider[f.pkt.sid] \in Node /\ f.pkt.ttl \in Nat /\ f.from \in Node
    BY FrameFields DEF Data
<1>2. \/ LearnFromData(f.to, f) \in {rt[f.to], source}
      \/ LearnFromData(f.to, f) = createRoute(source, f.from, hop, f.pkt.ttl)
    BY DEF LearnFromData
<1> HIDE DEF hop
<1>3. source \in Table
    BY <1>1, createRouteType
<1> HIDE DEF source
<1> QED BY <1>1, <1>2, <1>3, createRouteType

LEMMA BroadcastType ==
    ASSUME NEW n \in Node, NEW i \in Nic, NEW p \in Get \cup Data
    PROVE  Broadcast(n, i, p) \subseteq Frame
<1>1. InRange[i][n] \subseteq Node
    BY TwoInterfaceAssumption
<1> QED BY <1>1 DEF Broadcast, Frame

LEMMA RelayedType ==
    ASSUME NEW g \in Get, g.ttl >= 1, NEW h \in Node \cup {Default}
    PROVE  Relayed(g, h) \in Get
<1>1. HopLimit \in Nat
    BY TwoInterfaceAssumption
<1>2. g.ttl - 1 \in 0 .. HopLimit
    BY <1>1 DEF Get
<1>3. ASSUME NEW r \in Get, NEW i \in 0 .. HopLimit PROVE [r EXCEPT !.ttl = i] \in Get
    BY DEF Get
<1>4. ASSUME NEW r \in Get PROVE [r EXCEPT !.nexthop = h] \in Get
    BY DEF Get
<1> DEFINE later == [g EXCEPT !.ttl = g.ttl - 1]
<1>5. Relayed(g, h) = [later EXCEPT !.nexthop = h]
    BY DEF Relayed
<1>6. later \in Get
    BY <1>2, <1>3
<1> HIDE DEF later
<1> QED BY <1>4, <1>5, <1>6

LEMMA RelayedDataType ==
    ASSUME NEW d \in Data, d.ttl >= 1
    PROVE  RelayedData(d) \in Data
<1>1. d.ttl - 1 \in Nat
    BY DEF Data
<1>2. ASSUME NEW i \in Nat PROVE [d EXCEPT !.ttl = i] \in Data
    BY DEF Data
<1> QED BY <1>1, <1>2 DEF RelayedData

LEMMA CachedDataType ==
    ASSUME NEW n \in Node, NEW s \in Sid, NEW o \in Offset
    PROVE  CachedData(n, s, o) \in Data
BY TwoInterfaceAssumption DEF CachedData, Data

----------------------------------------------------------------------------
(* The delay queues. *)

LEMMA HeardAgainType ==
    ASSUME NEW q \in Seq(Waiting), NEW p
    PROVE  HeardAgain(q, p) \in Seq(Waiting)
<1>1. CASE have(q, p) = {}
    BY <1>1 DEF HeardAgain
<1>2. CASE have(q, p) # {}
  <2> DEFINE k == FirstOf(have(q, p))
  <2>1. have(q, p) \subseteq 1 .. Len(q) /\ have(q, p) \subseteq Nat
    BY DEF have
  <2>2. k \in 1 .. Len(q)
    BY <1>2, <2>1, FirstOfIsFirst
  <2>3. HeardAgain(q, p) = [q EXCEPT ![k].tc = @ - 1]
    BY <1>2 DEF HeardAgain
  <2> HIDE DEF k
  <2>4. q[k] \in Waiting
    BY <2>2
  <2>5. [q[k] EXCEPT !.tc = @ - 1] \in Waiting
    BY <2>4 DEF Waiting
  <2> QED BY <2>2, <2>3, <2>5
<1> QED BY <1>1, <1>2

LEMMA InsertedType ==
    ASSUME NEW q \in Seq(Waiting), NEW e \in Waiting
    PROVE  /\ InsertedNow(q, e) \in Seq(Waiting)
           /\ InsertedLater(q, e) \subseteq Seq(Waiting)
           /\ Delayed(q, e) \subseteq Seq(Waiting)
<1> DEFINE one == <<e>>
<1>1. one \in Seq(Waiting)
    OBVIOUS
<1>2. InsertedNow(q, e) \in Seq(Waiting)
  <2>1. InsertedNow(q, e) = one \o q
    BY DEF InsertedNow
  <2> HIDE DEF one
  <2> QED BY <1>1, <2>1, ConcatProperties
<1>3. InsertedLater(q, e) \subseteq Seq(Waiting)
  <2>1. ASSUME NEW i \in 1 .. Len(q)
        PROVE  SubSeq(q, 1, i - 1) \o one \o SubSeq(q, i, Len(q)) \in Seq(Waiting)
    <3> DEFINE a == SubSeq(q, 1, i - 1)
               b == SubSeq(q, i, Len(q))
    <3>1. a \in Seq(Waiting) /\ b \in Seq(Waiting)
      OBVIOUS
    <3> HIDE DEF a, b, one
    <3>2. a \o one \in Seq(Waiting)
      BY <1>1, <3>1, ConcatProperties
    <3>3. a \o one \o b \in Seq(Waiting)
      BY <3>1, <3>2, ConcatProperties
    <3> QED BY <3>3 DEF a, b
  <2>2. InsertedLater(q, e) =
            IF q = <<>> THEN {one}
            ELSE {q} \cup {SubSeq(q, 1, i - 1) \o one \o SubSeq(q, i, Len(q)) : i \in 1 .. Len(q)}
    BY DEF InsertedLater
  <2> HIDE DEF one
  <2> QED BY <1>1, <2>1, <2>2
<1>4. Delayed(q, e) \subseteq Seq(Waiting)
    BY <1>3, HeardAgainType DEF Delayed
<1> QED BY <1>2, <1>3, <1>4

(* Both queues of a node with one of them replaced. *)
LEMMA QueuesPut ==
    ASSUME NEW queues \in Queues, NEW a \in Seq(Waiting), NEW b \in Seq(Waiting)
    PROVE  [queues EXCEPT ![24] = a, ![5] = b] \in Queues
<1> DEFINE W == Seq(Waiting)
<1>1. queues \in [Nic -> W] /\ a \in W /\ b \in W
    BY DEF Queues
<1> HIDE DEF W
<1>2. [queues EXCEPT ![24] = a, ![5] = b] \in [Nic -> W]
    BY <1>1
<1> QED BY <1>2 DEF Queues, W

LEMMA QueuedType ==
    ASSUME NEW queues \in Queues, NEW d \in Data, d.ttl >= 1, NEW entries
    PROVE  Queued(queues, entries, d) \subseteq Queues
<1> DEFINE later == pendPkt(RelayedData(d), TC)
           soon == pendPkt(RelayedData(d), 5)
           q24 == IF \E e \in entries : e.nic = 24 THEN Delayed(queues[24], later) ELSE {queues[24]}
           q5 == IF \E e \in entries : e.nic = 5 THEN InsertedNow(queues[5], soon) ELSE queues[5]
<1>1. later \in Waiting /\ soon \in Waiting
    BY RelayedDataType, TwoInterfaceAssumption DEF pendPkt, Waiting
<1>2. Queued(queues, entries, d) = {[queues EXCEPT ![24] = q, ![5] = q5] : q \in q24}
    BY DEF Queued
<1> HIDE DEF later, soon
<1>3. queues[24] \in Seq(Waiting) /\ queues[5] \in Seq(Waiting)
    BY DEF Queues, Nic
<1>4. q24 \subseteq Seq(Waiting) /\ q5 \in Seq(Waiting)
    BY <1>1, <1>3, InsertedType
<1> HIDE DEF q24, q5
<1> QED BY <1>2, <1>4, QueuesPut

----------------------------------------------------------------------------
(* TypeOK, with its sets by their names. *)
Typed ==
    /\ rt \in [Node -> Table]
    /\ pit \in TableOf(SUBSET PITentry)
    /\ cache \in TableOf(Seq(Offset))
    /\ delay_queue \in [Node -> Queues]
    /\ ResemBuffer \in TableOf(SUBSET Offset)
    /\ prehead \subseteq Node \ head /\ head \subseteq Node
    /\ net \subseteq Frame
    /\ gets \in 0 .. MaxGets /\ faults \in 0 .. MaxFaults
    /\ relays \in TableOf(Nat)
    /\ dataRelays \in TableOf([Offset -> Nat])
    /\ received \in [Node -> SUBSET Sid]

LEMMA TypedIsTypeOK == TypeOK <=> Typed
BY DEF TypeOK, Typed, Entry, Hop, Table, TableOf, Queues, Waiting, Frame

LEMMA InitTyped == Init => Typed
<1> SUFFICES ASSUME Init PROVE Typed
    OBVIOUS
<1>1. rt \in [Node -> Table] /\ delay_queue \in [Node -> Queues]
    BY DEF Init, Table, Queues
<1>2. cache \in TableOf(Seq(Offset))
    BY SomeFragments DEF Init, TableOf
<1>3. pit \in TableOf(SUBSET PITentry) /\ ResemBuffer \in TableOf(SUBSET Offset)
    BY DEF Init, TableOf
<1>4. /\ prehead \subseteq Node \ head /\ head \subseteq Node
      /\ net \subseteq Frame
      /\ received \in [Node -> SUBSET Sid]
    BY TwoInterfaceAssumption DEF Init
<1>5. /\ gets \in 0 .. MaxGets /\ faults \in 0 .. MaxFaults
      /\ relays \in TableOf(Nat)
      /\ dataRelays \in TableOf([Offset -> Nat])
    BY TwoInterfaceAssumption DEF Init, TableOf
<1> QED BY <1>1, <1>2, <1>3, <1>4, <1>5 DEF Typed

(* What most steps do to the tables. *)
LEMMA EnteredType ==
    ASSUME Typed, NEW n \in Node, NEW s \in Sid, NEW nic \in Nic, NEW nonce \in 0 .. MaxGets,
           NEW own \in BOOLEAN,
           pit' = Put(pit, n, s, WithEntry(pit[n][s], nic, nonce, own))
    PROVE  pit' \in TableOf(SUBSET PITentry)
<1> DEFINE e == [nic |-> nic, nonce |-> nonce, consumer |-> own]
           new == WithEntry(pit[n][s], nic, nonce, own)
           S == SUBSET PITentry
<1>1. e \in PITentry
    BY DEF PITentry
<1>2. pit[n][s] \in SUBSET PITentry /\ pit \in TableOf(S)
    BY DEF Typed, TableOf
<1>3. new \in S
    BY <1>1, <1>2 DEF WithEntry
<1>4. pit' = Put(pit, n, s, new)
    OBVIOUS
<1> HIDE DEF new, S
<1>5. pit' \in TableOf(S)
    BY <1>2, <1>3, <1>4, Replaced
<1> QED BY <1>5 DEF S

LEMMA RtType ==
    ASSUME Typed, NEW n \in Node, NEW tab \in Table, rt' = [rt EXCEPT ![n] = tab]
    PROVE  rt' \in [Node -> Table]
BY DEF Typed

LEMMA QueueType ==
    ASSUME Typed, NEW n \in Node, NEW i \in Nic, NEW q \in Seq(Waiting),
           delay_queue' = [delay_queue EXCEPT ![n][i] = q]
    PROVE  delay_queue' \in [Node -> Queues]
<1> DEFINE W == Seq(Waiting)
<1>1. delay_queue \in [Node -> [Nic -> W]] /\ q \in W
    BY DEF Typed, Queues
<1> HIDE DEF W
<1>2. [delay_queue[n] EXCEPT ![i] = q] \in [Nic -> W]
    BY <1>1
<1>3. delay_queue' = [delay_queue EXCEPT ![n] = [delay_queue[n] EXCEPT ![i] = q]]
    OBVIOUS
<1>4. delay_queue' \in [Node -> [Nic -> W]]
    BY <1>1, <1>2, <1>3
<1> QED BY <1>4 DEF Queues, W

LEMMA TakenOnType ==
    ASSUME Typed, NEW n \in Node, NEW s \in Sid,
           relays' = Put(relays, n, s, relays[n][s] + 1)
    PROVE  relays' \in TableOf(Nat)
<1>1. relays \in TableOf(Nat) /\ relays[n][s] + 1 \in Nat
    BY DEF Typed, TableOf
<1> QED BY <1>1, Replaced

----------------------------------------------------------------------------
LEMMA SendTyped ==
    ASSUME Typed, NEW n \in Consumer, NEW s \in Sid, testSend(n, s)
    PROVE  Typed'
<1> DEFINE g == GetHead(n, s, gets + 1)
           own == IF isHead(n) THEN 24 ELSE 5
           nics == IF isHead(n) THEN Nic ELSE {5}
<1>1. n \in Node /\ Provider[s] \in Node /\ MaxGets \in Nat /\ HopLimit \in Nat
    BY TwoInterfaceAssumption
<1>2. rt[n] \in Table
    BY <1>1 DEF Typed
<1>3. /\ rt' = [rt EXCEPT ![n] = LookedUp(rt[n], Provider[s])]
      /\ pit' = Put(pit, n, s, WithEntry(pit[n][s], own, 0, TRUE))
      /\ net' = net \cup UNION {Broadcast(n, i, g) : i \in nics}
      /\ UNCHANGED <<cache, delay_queue, upper, roles, faults, history>>
    BY DEF testSend, Put
<1>4. gets' \in 0 .. MaxGets /\ gets + 1 \in 1 .. MaxGets
    BY <1>1 DEF Typed, testSend
<1>5. g \in Get
  <2> DEFINE hop == IF HasRoute(rt[n], Provider[s]) /\ ~Flood THEN Route(rt[n], Provider[s]).node ELSE Default
  <2>1. hop \in Node \cup {Default}
    BY <1>1, <1>2, RouteType
  <2>2. g = [type |-> "Get", sid |-> s, source |-> n, nonce |-> gets + 1, ttl |-> HopLimit, nexthop |-> hop]
    BY DEF GetHead
  <2> HIDE DEF hop, g
  <2> QED BY <1>1, <1>4, <2>1, <2>2 DEF Get
<1>6. own \in Nic /\ nics \subseteq Nic
    BY DEF Nic
<1> HIDE DEF g, own, nics
<1>7. rt' \in [Node -> Table]
    BY <1>1, <1>2, <1>3, LookedUpType, RtType
<1>8. pit' \in TableOf(SUBSET PITentry)
  <2>1. 0 \in 0 .. MaxGets /\ TRUE \in BOOLEAN
    BY <1>1
  <2> QED BY <1>1, <1>3, <1>6, <2>1, EnteredType
<1>9. net' \subseteq Frame
  <2>1. \A i \in nics : Broadcast(n, i, g) \subseteq Frame
    BY <1>1, <1>5, <1>6, BroadcastType
  <2> QED BY <1>3, <2>1 DEF Typed
<1> QED BY <1>3, <1>4, <1>7, <1>8, <1>9 DEF Typed, upper, roles, history

(* What handleGetPacket learns, whatever it does with the GET. *)
LEMMA LearnedType ==
    ASSUME Typed, NEW f \in net, f.pkt.type = "Get", Learned(f)
    PROVE  /\ rt' \in [Node -> Table] /\ net' \subseteq Frame
           /\ LearnFromGet(f.to, f) \in Table
<1>1. f \in Frame /\ f.to \in Node /\ f.pkt \in Get /\ Provider[f.pkt.sid] \in Node
    BY FrameFields DEF Typed
<1>2. rt[f.to] \in Table
    BY <1>1 DEF Typed
<1>3. LearnFromGet(f.to, f) \in Table
    BY <1>1, <1>2, LearnFromGetType
<1>4. LookedUp(LearnFromGet(f.to, f), Provider[f.pkt.sid]) \in Table
    BY <1>1, <1>3, LookedUpType
<1>5. rt' \in [Node -> Table]
    BY <1>1, <1>4, RtType DEF Learned
<1>6. net' \subseteq Frame
    BY DEF Learned, Typed
<1> QED BY <1>3, <1>5, <1>6

LEMMA ForwardGetTyped ==
    ASSUME Typed, NEW f \in net, ForwardGet(f)
    PROVE  Typed'
<1> DEFINE n == f.to
           s == f.pkt.sid
           hop == Route(LearnFromGet(n, f), Provider[s])
           e == pendPkt(Relayed(f.pkt, hop.node), 1)
           q == InsertedNow(delay_queue[n][hop.nic], e)
<1>1. /\ f \in Frame /\ n \in Node /\ s \in Sid /\ f.nic \in Nic /\ f.pkt \in Get
      /\ Provider[s] \in Node /\ f.pkt.nonce \in 0 .. MaxGets
  <2>1. f \in Frame /\ f.pkt.type = "Get"
    BY DEF Typed, ForwardGet, Misses
  <2>2. f.pkt \in Get
    BY <2>1, FrameFields
  <2> QED BY <2>1, <2>2, FrameFields, GetFields
<1>2. /\ rt' \in [Node -> Table] /\ net' \subseteq Frame
      /\ LearnFromGet(n, f) \in Table
    BY LearnedType DEF ForwardGet, Misses
<1>3. f.pkt.ttl >= 1 /\ HasRoute(LearnFromGet(n, f), Provider[s])
    BY DEF ForwardGet, Misses, SendsOn, Knows
<1>4. hop.node \in Node /\ hop.nic \in Nic
    BY <1>1, <1>2, <1>3, RouteType
<1>5. /\ pit' = Put(pit, n, s, WithEntry(pit[n][s], f.nic, f.pkt.nonce, FALSE))
      /\ delay_queue' = [delay_queue EXCEPT ![n][hop.nic] = q]
      /\ relays' = Put(relays, n, s, relays[n][s] + 1)
      /\ UNCHANGED <<cache, upper, roles, counts, dataRelays>>
    BY DEF ForwardGet, Put
<1> HIDE DEF hop
<1>6. e \in Waiting
  <2>1. Relayed(f.pkt, hop.node) \in Get
    BY <1>1, <1>3, <1>4, RelayedType
  <2> QED BY <2>1 DEF pendPkt, Waiting
<1> HIDE DEF e
<1>7. delay_queue[n][hop.nic] \in Seq(Waiting)
    BY <1>1, <1>4 DEF Typed, Queues
<1>8. q \in Seq(Waiting)
    BY <1>6, <1>7, InsertedType
<1> HIDE DEF n, s, q
<1>9. delay_queue' \in [Node -> Queues]
    BY <1>1, <1>4, <1>5, <1>8, QueueType
<1>10. pit' \in TableOf(SUBSET PITentry)
    BY <1>1, <1>5, EnteredType
<1>11. relays' \in TableOf(Nat)
    BY <1>1, <1>5, TakenOnType
<1> QED BY <1>2, <1>5, <1>9, <1>10, <1>11 DEF Typed, upper, roles, counts

LEMMA ProbeGetTyped ==
    ASSUME Typed, NEW f \in net, ProbeGet(f)
    PROVE  Typed'
<1> DEFINE n == f.to
           s == f.pkt.sid
           e == pendPkt(Relayed(f.pkt, f.pkt.nexthop), TC)
           q == HeardAgain(delay_queue[n][24], e.pkt)
<1>1. /\ f \in Frame /\ n \in Node /\ s \in Sid /\ f.nic \in Nic /\ f.pkt \in Get
      /\ f.pkt.nonce \in 0 .. MaxGets /\ f.pkt.nexthop \in Node \cup {Default}
  <2>1. f \in Frame /\ f.pkt.type = "Get"
    BY DEF Typed, ProbeGet, Misses
  <2>2. f.pkt \in Get
    BY <2>1, FrameFields
  <2> QED BY <2>1, <2>2, FrameFields, GetFields
<1>2. rt' \in [Node -> Table] /\ net' \subseteq Frame
    BY LearnedType DEF ProbeGet, Misses
<1>3. f.pkt.ttl >= 1
    BY DEF ProbeGet, Misses
<1>4. /\ pit' = Put(pit, n, s, WithEntry(pit[n][s], f.nic, f.pkt.nonce, FALSE))
      /\ \/ /\ \E q24 \in Delayed(delay_queue[n][24], e), q5 \in InsertedLater(delay_queue[n][5], e) :
                   delay_queue' = [delay_queue EXCEPT ![n][24] = q24, ![n][5] = q5]
            /\ relays' = Put(relays, n, s, relays[n][s] + 1)
         \/ delay_queue' = [delay_queue EXCEPT ![n][24] = q] /\ relays' = relays
      /\ UNCHANGED <<cache, upper, roles, counts, dataRelays>>
    BY DEF ProbeGet, Put
<1>5. e \in Waiting
  <2>1. Relayed(f.pkt, f.pkt.nexthop) \in Get
    BY <1>1, <1>3, RelayedType
  <2> QED BY <2>1, TwoInterfaceAssumption DEF pendPkt, Waiting
<1> HIDE DEF e
<1>6. /\ delay_queue[n] \in Queues
      /\ delay_queue[n][24] \in Seq(Waiting) /\ delay_queue[n][5] \in Seq(Waiting)
    BY <1>1 DEF Typed, Queues, Nic
<1>7. q \in Seq(Waiting)
    BY <1>6, HeardAgainType
<1> HIDE DEF n, s, q
<1>8. delay_queue' \in [Node -> Queues]
  <2>1. ASSUME NEW q24 \in Delayed(delay_queue[n][24], e),
               NEW q5 \in InsertedLater(delay_queue[n][5], e),
               delay_queue' = [delay_queue EXCEPT ![n][24] = q24, ![n][5] = q5]
        PROVE  delay_queue' \in [Node -> Queues]
    <3> DEFINE both == [delay_queue[n] EXCEPT ![24] = q24, ![5] = q5]
    <3>1. q24 \in Seq(Waiting) /\ q5 \in Seq(Waiting)
      BY <1>5, <1>6, InsertedType
    <3>2. both \in Queues
      BY <1>6, <3>1, QueuesPut
    <3>3. delay_queue' = [delay_queue EXCEPT ![n] = both]
      BY <1>1, <2>1 DEF Typed
    <3> HIDE DEF both
    <3> QED BY <3>2, <3>3 DEF Typed
  <2>2. CASE delay_queue' = [delay_queue EXCEPT ![n][24] = q]
    BY <1>1, <1>7, <2>2, QueueType DEF Nic
  <2> QED BY <1>4, <2>1, <2>2
<1>9. pit' \in TableOf(SUBSET PITentry)
    BY <1>1, <1>4, EnteredType
<1>10. relays' \in TableOf(Nat)
    BY <1>1, <1>4, TakenOnType DEF Typed
<1> QED BY <1>2, <1>4, <1>8, <1>9, <1>10 DEF Typed, upper, roles, counts

LEMMA AnswerGetTyped ==
    ASSUME Typed, NEW f \in net, AnswerGet(f)
    PROVE  Typed'
<1> DEFINE n == f.to
           s == f.pkt.sid
           answer(i) == Answer(n, f, CachedData(n, s, cache[n][s][i]))
<1>1. /\ f \in Frame /\ n \in Node /\ s \in Sid /\ f.nic \in Nic /\ f.from \in Node
      /\ f.pkt \in Get /\ f.pkt.nonce \in 0 .. MaxGets
  <2>1. f \in Frame /\ f.pkt.type = "Get"
    BY DEF Typed, AnswerGet
  <2>2. f.pkt \in Get
    BY <2>1, FrameFields
  <2> QED BY <2>1, <2>2, FrameFields, GetFields
<1>2. /\ rt' = [rt EXCEPT ![n] = LearnFromGet(n, f)]
      /\ pit' = Put(pit, n, s, WithEntry(pit[n][s], f.nic, f.pkt.nonce, FALSE))
      /\ net' = (net \ {f}) \cup UNION {answer(i) : i \in 1 .. Len(cache[n][s])}
      /\ UNCHANGED <<cache, delay_queue, upper, roles, counts, history>>
    BY DEF AnswerGet, Put
<1>3. rt' \in [Node -> Table]
  <2>1. rt[n] \in Table
    BY <1>1 DEF Typed
  <2>2. LearnFromGet(n, f) \in Table
    BY <1>1, <2>1, LearnFromGetType
  <2> QED BY <1>1, <1>2, <2>2, RtType
<1>4. ASSUME NEW i \in 1 .. Len(cache[n][s]) PROVE answer(i) \subseteq Frame
  <2> DEFINE p == CachedData(n, s, cache[n][s][i])
  <2>1. cache[n][s] \in Seq(Offset)
    BY <1>1 DEF Typed, TableOf
  <2>2. cache[n][s][i] \in Offset
    BY <2>1
  <2>3. p \in Get \cup Data
    BY <1>1, <2>2, CachedDataType
  <2> HIDE DEF p
  <2>4. \A k \in Nic : Broadcast(n, k, p) \subseteq Frame
    BY <1>1, <2>3, BroadcastType
  <2>5. Unicast(n, f.from, 5, p) \subseteq Frame /\ 5 \in Nic
    BY <1>1, <2>3 DEF Unicast, Frame, Nic
  <2>6. Answer(n, f, p) \subseteq Frame
    BY <1>1, <2>4, <2>5 DEF Answer
  <2> QED BY <2>6 DEF p
<1> HIDE DEF n, s, answer
<1>5. net' \subseteq Frame
    BY <1>2, <1>4 DEF Typed
<1>6. pit' \in TableOf(SUBSET PITentry)
    BY <1>1, <1>2, EnteredType
<1> QED BY <1>2, <1>3, <1>5, <1>6 DEF Typed, upper, roles, counts, history

----------------------------------------------------------------------------
LEMMA addFragmentTyped ==
    ASSUME Typed, NEW n \in Node, NEW d \in Data, addFragment(n, d)
    PROVE  ResemBuffer' \in TableOf(SUBSET Offset) /\ received' \in [Node -> SUBSET Sid]
<1> DEFINE s == d.sid
           got == ResemBuffer[n][s] \cup {d.offset}
           S == SUBSET Offset
           new == IF got = Offset THEN {} ELSE got
<1>1. s \in Sid /\ d.offset \in Offset
    BY DEF Data
<1>2. ResemBuffer \in TableOf(S) /\ ResemBuffer[n][s] \in S
    BY <1>1 DEF Typed, TableOf
<1>3. new \in S
    BY <1>1, <1>2
<1>4. ResemBuffer' = ResemBuffer \/ ResemBuffer' = Put(ResemBuffer, n, s, new)
    BY DEF addFragment, upper, Put
<1>5. received' = received \/ received' = [received EXCEPT ![n] = @ \cup {s}]
    BY DEF addFragment, upper
<1> HIDE DEF s, S, new
<1>6. ResemBuffer' \in TableOf(S)
    BY <1>2, <1>3, <1>4, Replaced
<1>7. received' \in [Node -> SUBSET Sid]
    BY <1>1, <1>5 DEF Typed
<1> QED BY <1>6, <1>7 DEF S

LEMMA KeepDataTyped ==
    ASSUME Typed, NEW f \in net, KeepData(f)
    PROVE  Typed'
<1> DEFINE n == f.to
           s == f.pkt.sid
           new == Others(f)
           S == SUBSET PITentry
<1>1. f \in Frame /\ n \in Node /\ s \in Sid /\ f.pkt \in Data
    BY FrameFields DEF Typed, KeepData
<1>2. /\ addFragment(n, f.pkt)
      /\ rt' = rt \/ rt' = [rt EXCEPT ![n] = LearnFromData(n, f)]
      /\ pit' = Put(pit, n, s, new)
      /\ net' = net \ {f}
      /\ UNCHANGED <<cache, delay_queue, roles, counts, history>>
    BY DEF KeepData, Put
<1>3. rt' \in [Node -> Table]
  <2>1. rt[n] \in Table
    BY <1>1 DEF Typed
  <2>2. LearnFromData(n, f) \in Table
    BY <1>1, <2>1, LearnFromDataType
  <2> QED BY <1>1, <1>2, <2>2, RtType DEF Typed
<1>4. pit \in TableOf(S) /\ new \in S
  <2>1. pit[n][s] \in SUBSET PITentry
    BY <1>1 DEF Typed, TableOf
  <2> QED BY <2>1 DEF Others, Typed
<1> HIDE DEF n, s, new, S
<1>5. pit' \in TableOf(S)
    BY <1>2, <1>4, Replaced
<1>6. ResemBuffer' \in TableOf(SUBSET Offset) /\ received' \in [Node -> SUBSET Sid]
    BY <1>1, <1>2, addFragmentTyped
<1> QED BY <1>2, <1>3, <1>5, <1>6 DEF Typed, roles, counts, history, S

LEMMA RelayDataTyped ==
    ASSUME Typed, NEW f \in net, RelayData(f)
    PROVE  Typed'
<1> DEFINE n == f.to
           d == f.pkt
           s == f.pkt.sid
           o == f.pkt.offset
           S == SUBSET PITentry
           none == {}
           Q == Seq(Offset)
           new == Append(cache[n][s], o)
           count == [dataRelays[n][s] EXCEPT ![o] = @ + 1]
<1>1. f \in Frame /\ n \in Node /\ s \in Sid /\ d \in Data /\ o \in Offset /\ d.ttl >= 1
  <2>1. f \in Frame /\ n \in Node /\ s \in Sid /\ d \in Data /\ d.ttl >= 1
    BY FrameFields DEF Typed, RelayData
  <2> QED BY <2>1 DEF Data
<1>2. /\ addFragment(n, d)
      /\ rt' = [rt EXCEPT ![n] = LearnFromData(n, f)]
      /\ cache' = Put(cache, n, s, new)
      /\ \E queues \in Queued(delay_queue[n], Others(f), d) :
            delay_queue' = [delay_queue EXCEPT ![n] = queues]
      /\ pit' = Put(pit, n, s, none)
      /\ net' = net \ {f}
      /\ dataRelays' = Put(dataRelays, n, s, count)
      /\ UNCHANGED <<roles, counts, relays>>
    BY DEF RelayData, InsterPacket, Put
<1>3. rt' \in [Node -> Table]
  <2>1. rt[n] \in Table
    BY <1>1 DEF Typed
  <2>2. LearnFromData(n, f) \in Table
    BY <1>1, <2>1, LearnFromDataType
  <2> QED BY <1>1, <1>2, <2>2, RtType
<1>4. delay_queue' \in [Node -> Queues]
  <2>1. delay_queue[n] \in Queues
    BY <1>1 DEF Typed
  <2>2. Queued(delay_queue[n], Others(f), d) \subseteq Queues
    BY <1>1, <2>1, QueuedType
  <2> QED BY <1>1, <1>2, <2>2 DEF Typed
<1>5. cache \in TableOf(Q) /\ new \in Q
  <2>1. cache[n][s] \in Seq(Offset)
    BY <1>1 DEF Typed, TableOf
  <2>2. new \in Seq(Offset)
    BY <1>1, <2>1
  <2> QED BY <2>2 DEF Typed
<1>6. pit \in TableOf(S) /\ none \in S
    BY DEF Typed
<1>7. dataRelays \in TableOf([Offset -> Nat]) /\ count \in [Offset -> Nat]
  <2>1. dataRelays[n][s] \in [Offset -> Nat]
    BY <1>1 DEF Typed, TableOf
  <2> QED BY <2>1, Counted DEF Typed
<1>8. ResemBuffer' \in TableOf(SUBSET Offset) /\ received' \in [Node -> SUBSET Sid]
    BY <1>1, <1>2, addFragmentTyped
<1> HIDE DEF n, d, s, o, S, none, Q, new, count
<1>9. cache' \in TableOf(Q)
    BY <1>2, <1>5, Replaced
<1>10. pit' \in TableOf(S)
    BY <1>2, <1>6, Replaced
<1>11. dataRelays' \in TableOf([Offset -> Nat])
    BY <1>2, <1>7, Replaced
<1> QED BY <1>2, <1>3, <1>4, <1>8, <1>9, <1>10, <1>11 DEF Typed, roles, counts, S, Q

----------------------------------------------------------------------------
LEMMA DelayerTyped ==
    ASSUME Typed, NEW n \in Node, NEW i \in Nic, Delayer(n, i)
    PROVE  Typed'
<1> DEFINE q == delay_queue[n][i]
           e == Head(q)
<1>1. q \in Seq(Waiting) /\ q # <<>>
    BY DEF Typed, Queues, Delayer
<1>2. e \in Waiting /\ Tail(q) \in Seq(Waiting)
    BY <1>1
<1>3. /\ delay_queue' = [delay_queue EXCEPT ![n][i] = Tail(q)]
      /\ net' = net \/ net' = net \cup Broadcast(n, i, e.pkt)
      /\ UNCHANGED <<rt, pit, cache, upper, roles, counts, history>>
    BY DEF Delayer
<1> HIDE DEF q, e
<1>4. delay_queue' \in [Node -> Queues]
    BY <1>2, <1>3, QueueType
<1>5. e.pkt \in Get \cup Data
    BY <1>2 DEF Waiting
<1>6. net' \subseteq Frame
    BY <1>3, <1>5, BroadcastType DEF Typed
<1> QED BY <1>3, <1>4, <1>6 DEF Typed, upper, roles, counts, history

LEMMA PitTimeoutTyped ==
    ASSUME Typed, NEW n \in Node, NEW s \in Sid, PitTimeout(n, s), faults' \in 0 .. MaxFaults
    PROVE  Typed'
<1> DEFINE S == SUBSET PITentry
           none == {}
<1>1. /\ pit' = Put(pit, n, s, none)
      /\ relays' = Put(relays, n, s, 0)
      /\ UNCHANGED <<rt, cache, delay_queue, upper, roles, net, gets, dataRelays>>
    BY DEF PitTimeout, Put
<1>2. pit \in TableOf(S) /\ none \in S /\ relays \in TableOf(Nat) /\ 0 \in Nat
    BY DEF Typed
<1> HIDE DEF S, none
<1>3. pit' \in TableOf(S)
    BY <1>1, <1>2, Replaced
<1>4. relays' \in TableOf(Nat)
    BY <1>1, <1>2, Replaced
<1> QED BY <1>1, <1>3, <1>4 DEF Typed, upper, roles, S

LEMMA RouteExpiresTyped ==
    ASSUME Typed, NEW n \in Node, NEW d \in Node, RouteExpires(n, d), faults' \in 0 .. MaxFaults
    PROVE  Typed'
<1>1. PICK i \in 1 .. Len(rt[n][d]) : rt' = [rt EXCEPT ![n][d][i].lifeTime = 0]
    BY DEF RouteExpires
<1> DEFINE old == rt[n][d]
           new == [old EXCEPT ![i].lifeTime = 0]
<1>2. rt[n] \in Table /\ old \in Seq(Entry)
    BY DEF Typed, Table
<1>3. old[i] \in Entry
    BY <1>2
<1>4. [old[i] EXCEPT !.lifeTime = 0] \in Entry
    BY <1>3 DEF Entry
<1>5. new \in Seq(Entry)
    BY <1>2, <1>4
<1>6. rt' = [rt EXCEPT ![n] = [rt[n] EXCEPT ![d] = new]]
    BY <1>1
<1> HIDE DEF old, new
<1>7. [rt[n] EXCEPT ![d] = new] \in Table
    BY <1>2, <1>5 DEF Table
<1>8. rt' \in [Node -> Table]
    BY <1>6, <1>7, RtType
<1> QED BY <1>8 DEF Typed, RouteExpires, upper, roles, history

LEMMA NextTyped == Typed /\ [Next]_vars => Typed'
<1> SUFFICES ASSUME Typed, [Next]_vars PROVE Typed'
    OBVIOUS
<1>0. Fault => faults' \in 0 .. MaxFaults
    BY TwoInterfaceAssumption DEF Fault, Typed
<1>1. ASSUME NEW n \in Consumer, NEW s \in Sid, testSend(n, s) PROVE Typed'
    BY <1>1, SendTyped
<1>2. ASSUME NEW f \in net, Receive(f) PROVE Typed'
  <2>1. CASE DropGet(f)
    BY <2>1 DEF DropGet, Typed, upper, roles, counts, history
  <2>2. CASE IgnoreGet(f)
    <3>1. rt' \in [Node -> Table] /\ net' \subseteq Frame
      BY <2>2, LearnedType DEF IgnoreGet, Misses
    <3> QED BY <2>2, <3>1 DEF IgnoreGet, Typed, upper, roles, counts, history
  <2>3. CASE ForwardGet(f)
    BY <2>3, ForwardGetTyped
  <2>4. CASE ProbeGet(f)
    BY <2>4, ProbeGetTyped
  <2>5. CASE AnswerGet(f)
    BY <2>5, AnswerGetTyped
  <2>6. CASE KeepData(f)
    BY <2>6, KeepDataTyped
  <2>7. CASE RelayData(f)
    BY <2>7, RelayDataTyped
  <2> QED BY <1>2, <2>1, <2>2, <2>3, <2>4, <2>5, <2>6, <2>7 DEF Receive
<1>3. ASSUME NEW n \in Node, NEW i \in Nic, Delayer(n, i) PROVE Typed'
    BY <1>3, DelayerTyped
<1>4. ASSUME NEW n \in Node, NEW s \in Sid, PitTimeout(n, s) PROVE Typed'
    BY <1>0, <1>4, PitTimeoutTyped DEF PitTimeout
<1>5. ASSUME NEW n \in Node, NEW d \in Node, RouteExpires(n, d) PROVE Typed'
    BY <1>0, <1>5, RouteExpiresTyped DEF RouteExpires
<1>6. ASSUME NEW f \in net, Lose(f) PROVE Typed'
    BY <1>0, <1>6 DEF Lose, Typed, upper, roles, history
<1>7. ASSUME NEW n \in Electable, Role(n) PROVE Typed'
  <2>1. n \in Node
    BY TwoInterfaceAssumption
  <2>2. prehead' \subseteq Node \ head' /\ head' \subseteq Node
    BY <1>7, <2>1 DEF Role, becomePrehead, becomeHead, becomeMember, isHead, Typed
  <2>3. UNCHANGED <<rt, pit, cache, delay_queue, upper, net, counts, history>>
    BY <1>7 DEF Role, becomePrehead, becomeHead, becomeMember
  <2> QED BY <2>2, <2>3 DEF Typed, upper, counts, history
<1>8. CASE UNCHANGED vars
    BY <1>8 DEF Typed, vars, upper, roles, counts, history
<1> QED BY <1>1, <1>2, <1>3, <1>4, <1>5, <1>6, <1>7, <1>8 DEF Next, Done

(* All tables, queues and frames keep their types, on any two ranges and   *)
(* whoever is elected: no GET or Data goes on without hops left, a lookup  *)
(* finds an entry, and no node is head and prehead at once.                *)
THEOREM TwoInterfaceTypes == Spec => []TypeOK
<1>1. Init => Typed
    BY InitTyped
<1>2. Typed /\ [Next]_vars => Typed'
    BY NextTyped
<1>3. Typed => TypeOK
    BY TypedIsTypeOK
<1> QED BY <1>1, <1>2, <1>3, PTL DEF Spec

----------------------------------------------------------------------------
(***************************************************************************)
(* Who sends on 2.4 GHz. The run that checks MembersListenOnly finds a     *)
(* prehead that yields while a packet waits in its queue; this is the only *)
(* way in which a member comes to send there.                              *)
(***************************************************************************)

(* A packet waits for 2.4 GHz only at a head, or at a node whose role has  *)
(* changed.                                                                *)
QueuedByHeads ==
    \A n \in Node : delay_queue[n][24] # <<>> => isHead(n) \/ n \in Electable

(* A member's frame on 2.4 GHz is one that waited in the queue of a node   *)
(* that may have been a prehead: none is sent at once.                     *)
OnlyLeftovers ==
    [][\A f \in net' \ net :
          f.nic = 24 => \/ isHead(f.from)
                        \/ f.from \in Electable /\ Delayer(f.from, 24)]_vars

LEMMA QueuedByHeadsStep ==
    Typed /\ QueuedByHeads /\ [Next]_vars => QueuedByHeads'
<1> SUFFICES ASSUME Typed, QueuedByHeads, [Next]_vars PROVE QueuedByHeads'
    OBVIOUS
<1>1. ASSUME UNCHANGED roles,
             NEW n \in Node, isHead(n),
             \A m \in Node : m # n => delay_queue'[m] = delay_queue[m]
      PROVE  QueuedByHeads'
    BY <1>1 DEF QueuedByHeads, isHead, roles
<1>2. ASSUME UNCHANGED <<roles, delay_queue>> PROVE QueuedByHeads'
    BY <1>2 DEF QueuedByHeads, isHead, roles
<1>3. ASSUME NEW n \in Consumer, NEW s \in Sid, testSend(n, s) PROVE QueuedByHeads'
    BY <1>2, <1>3 DEF testSend
<1>4. ASSUME NEW f \in net, Receive(f) PROVE QueuedByHeads'
  <2>1. f.to \in Node
    BY FrameFields DEF Typed
  <2>2. CASE DropGet(f) \/ IgnoreGet(f) \/ AnswerGet(f) \/ KeepData(f)
    BY <1>2, <2>2 DEF DropGet, IgnoreGet, AnswerGet, KeepData
  <2>3. CASE ForwardGet(f) \/ ProbeGet(f) \/ RelayData(f)
    <3>1. UNCHANGED roles /\ isHead(f.to)
      BY <2>3 DEF ForwardGet, ProbeGet, RelayData, SendsOn, Probes
    <3>2. \A m \in Node : m # f.to => delay_queue'[m] = delay_queue[m]
      BY <2>1, <2>3 DEF ForwardGet, ProbeGet, RelayData, Typed
    <3> QED BY <1>1, <2>1, <3>1, <3>2
  <2> QED BY <1>4, <2>2, <2>3 DEF Receive
<1>5. ASSUME NEW n \in Node, NEW i \in Nic, Delayer(n, i) PROVE QueuedByHeads'
  <2>1. UNCHANGED roles /\ delay_queue[n][i] # <<>>
    BY <1>5 DEF Delayer
  <2>2. delay_queue' = [delay_queue EXCEPT ![n][i] = Tail(delay_queue[n][i])]
    BY <1>5 DEF Delayer
  <2>3. ASSUME NEW m \in Node, delay_queue[m][24] = <<>> PROVE delay_queue'[m][24] = <<>>
    <3> DEFINE W == Seq(Waiting)
               new == Tail(delay_queue[n][i])
    <3>1. delay_queue \in [Node -> [Nic -> W]] /\ delay_queue' = [delay_queue EXCEPT ![n][i] = new]
      BY <2>2 DEF Typed, Queues
    <3>2. m # n \/ i # 24
      BY <2>1, <2>3
    <3> HIDE DEF W, new
    <3>3. 24 \in Nic
      BY DEF Nic
    <3>4. delay_queue'[m][24] = delay_queue[m][24]
      BY <3>1, <3>2, <3>3
    <3> QED BY <2>3, <3>4
  <2> QED BY <2>1, <2>3 DEF QueuedByHeads, isHead, roles
<1>6. ASSUME NEW n \in Node, NEW s \in Sid, PitTimeout(n, s) PROVE QueuedByHeads'
    BY <1>2, <1>6 DEF PitTimeout
<1>7. ASSUME NEW n \in Node, NEW d \in Node, RouteExpires(n, d) PROVE QueuedByHeads'
    BY <1>2, <1>7 DEF RouteExpires
<1>8. ASSUME NEW f \in net, Lose(f) PROVE QueuedByHeads'
    BY <1>2, <1>8 DEF Lose
<1>9. ASSUME NEW n \in Electable, Role(n) PROVE QueuedByHeads'
  <2>1. delay_queue' = delay_queue /\ \A m : m # n /\ isHead(m) => isHead(m)'
    BY <1>9 DEF Role, becomePrehead, becomeHead, becomeMember, isHead
  <2> QED BY <2>1 DEF QueuedByHeads
<1>10. CASE UNCHANGED vars
    BY <1>2, <1>10 DEF vars
<1> QED BY <1>3, <1>4, <1>5, <1>6, <1>7, <1>8, <1>9, <1>10 DEF Next, Done

LEMMA SentByHeads ==
    ASSUME Typed, QueuedByHeads, Next, NEW f \in net' \ net, f.nic = 24
    PROVE  isHead(f.from) \/ (f.from \in Electable /\ Delayer(f.from, 24))
<1>1. ASSUME NEW n \in Consumer, NEW s \in Sid, testSend(n, s) PROVE isHead(f.from)
  <2> DEFINE g == GetHead(n, s, gets + 1)
             nics == IF isHead(n) THEN Nic ELSE {5}
  <2>1. net' = net \cup UNION {Broadcast(n, i, g) : i \in nics}
    BY <1>1 DEF testSend
  <2> HIDE DEF g, nics
  <2>2. PICK i \in nics : f \in Broadcast(n, i, g)
    BY <2>1
  <2>3. f.from = n /\ f.nic = i
    BY <2>2 DEF Broadcast
  <2> QED BY <2>2, <2>3 DEF nics
<1>2. ASSUME NEW x \in net, Receive(x) PROVE isHead(f.from)
  <2>1. AnswerGet(x)
    BY <1>2 DEF Receive, DropGet, IgnoreGet, ForwardGet, ProbeGet, KeepData, RelayData, Learned
  <2> DEFINE n == x.to
             s == x.pkt.sid
             answer(i) == Answer(n, x, CachedData(n, s, cache[n][s][i]))
  <2>2. net' = (net \ {x}) \cup UNION {answer(i) : i \in 1 .. Len(cache[n][s])}
    BY <2>1 DEF AnswerGet
  <2>3. PICK i \in 1 .. Len(cache[n][s]) : f \in answer(i)
    <3> HIDE DEF n, s, answer
    <3> QED BY <2>2
  <2> DEFINE p == CachedData(n, s, cache[n][s][i])
  <2> HIDE DEF p
  <2>4. f \in Answer(n, x, p)
    BY <2>3 DEF p
  <2>5. ASSUME ~isHead(n) PROVE FALSE
    <3>1. f \in Broadcast(n, 5, p) \/ f \in Unicast(n, x.from, 5, p)
      BY <2>4, <2>5 DEF Answer
    <3>2. f.nic = 5
      BY <3>1 DEF Broadcast, Unicast
    <3> QED BY <3>2
  <2>6. f.from = n
    BY <2>4, <2>5 DEF Answer, Broadcast
  <2> QED BY <2>5, <2>6
<1>3. ASSUME NEW n \in Node, NEW i \in Nic, Delayer(n, i)
      PROVE  isHead(f.from) \/ (f.from \in Electable /\ Delayer(f.from, 24))
  <2>1. PICK p : f \in Broadcast(n, i, p)
    BY <1>3 DEF Delayer
  <2>2. f.from = n /\ i = 24
    BY <2>1 DEF Broadcast
  <2>3. delay_queue[n][24] # <<>>
    BY <1>3, <2>2 DEF Delayer
  <2> QED BY <1>3, <2>2, <2>3 DEF QueuedByHeads
<1>4. ASSUME NEW n \in Node, NEW s \in Sid, PitTimeout(n, s) PROVE FALSE
    BY <1>4 DEF PitTimeout
<1>5. ASSUME NEW n \in Node, NEW d \in Node, RouteExpires(n, d) PROVE FALSE
    BY <1>5 DEF RouteExpires
<1>6. ASSUME NEW x \in net, Lose(x) PROVE FALSE
    BY <1>6 DEF Lose
<1>7. ASSUME NEW n \in Electable, Role(n) PROVE FALSE
    BY <1>7 DEF Role, becomePrehead, becomeHead, becomeMember
<1>8. CASE Done
    BY <1>8 DEF Done, vars
<1> QED BY <1>1, <1>2, <1>3, <1>4, <1>5, <1>6, <1>7, <1>8 DEF Next

LEMMA QueuedByHeadsHolds == Spec => [](Typed /\ QueuedByHeads)
<1>1. Init => Typed /\ QueuedByHeads
  <2>1. Init => QueuedByHeads
    BY DEF Init, QueuedByHeads, Nic
  <2> QED BY <2>1, InitTyped
<1>2. Typed /\ QueuedByHeads /\ [Next]_vars => (Typed /\ QueuedByHeads)'
    BY NextTyped, QueuedByHeadsStep
<1> QED BY <1>1, <1>2, PTL DEF Spec

(* handleGetPacket, testSend and handleDataPacket never make a member send *)
(* on 2.4 GHz; what a member sends there was queued when it was a prehead. *)
THEOREM OnlyLeftoversHolds == Spec => OnlyLeftovers
<1>1. Typed /\ QueuedByHeads /\ [Next]_vars =>
          [\A f \in net' \ net :
              f.nic = 24 => \/ isHead(f.from)
                            \/ f.from \in Electable /\ Delayer(f.from, 24)]_vars
    BY SentByHeads
<1> QED BY <1>1, QueuedByHeadsHolds, PTL DEF Spec, OnlyLeftovers

(* If no role changes, members only listen, as the comment in              *)
(* handleGetPacket says.                                                   *)
THEOREM MembersListenOnlyWithoutElections ==
    ASSUME Electable = {}
    PROVE  Spec => MembersListenOnly
<1>1. Typed /\ QueuedByHeads /\ [Next]_vars =>
          [\A f \in net' \ net : f.nic = 24 => isHead(f.from)]_vars
    BY SentByHeads
<1> QED BY <1>1, QueuedByHeadsHolds, PTL DEF Spec, MembersListenOnly
----------------------------------------------------------------------------
(* The election beside the forwarding. SimpleCluster is shown to implement *)
(* ClusterRoles; all that ClusterRoles may do to the roles is among the    *)
(* steps of this module, which lets candidates yield more freely.          *)
Roles == INSTANCE ClusterRoles

(* So what holds for every behaviour of this module with all nodes         *)
(* electable holds with SimpleCluster deciding the roles.                  *)
THEOREM RolesAdmitted ==
    ASSUME Electable = Node
    PROVE  /\ [Roles!Next]_(Roles!roleVars)
           /\ UNCHANGED <<rt, pit, cache, delay_queue, upper, net, counts, history>>
           => [Next]_vars
<1> SUFFICES ASSUME [Roles!Next]_(Roles!roleVars),
                    UNCHANGED <<rt, pit, cache, delay_queue, upper, net, counts, history>>
             PROVE  [Next]_vars
    OBVIOUS
<1>1. CASE UNCHANGED Roles!roleVars
    BY <1>1 DEF Roles!roleVars, vars, roles
<1>2. ASSUME NEW n \in Node,
             Roles!becomePrehead(n) \/ Roles!becomeHead(n) \/ Roles!becomeMember(n)
      PROVE  Role(n)
    <2>1. CASE Roles!becomePrehead(n)
        BY <2>1 DEF Roles!becomePrehead, Roles!elected, Role, becomePrehead, isHead
    <2>2. CASE Roles!becomeHead(n)
        BY <2>2 DEF Roles!becomeHead, Role, becomeHead
    <2>3. CASE Roles!becomeMember(n)
        BY <2>3 DEF Roles!becomeMember, Role, becomeMember
    <2> QED BY <1>2, <2>1, <2>2, <2>3
<1> QED BY <1>1, <1>2 DEF Roles!Next, Next

============================================================================
