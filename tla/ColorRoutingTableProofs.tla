---------------------- MODULE ColorRoutingTableProofs ----------------------
(***************************************************************************)
(* For any destinations, neighbours, qualities and lifetimes: the entries  *)
(* of a destination stay ordered by quality with distinct next hops, and   *)
(* what a lookup returns is live and, unless it erased something, best.    *)
(***************************************************************************)
EXTENDS ColorRoutingTable, TLAPS, WellFoundedInduction, SequenceTheorems

(* A scan over a non-empty set of positions stops at its smallest one.     *)
LEMMA FirstOfIsFirst ==
    ASSUME NEW P, P \subseteq Nat, P # {}
    PROVE  FirstOf(P) \in P /\ \A j \in P : FirstOf(P) <= j
<1> DEFINE R == {ss \in Nat \X Nat : ss[1] < ss[2]}
<1>1. IsWellFoundedOn(R, Nat)
  BY NatLessThanWellFounded, Zenon DEF OpToRel
<1> HIDE DEF R
<1>2. PICK i \in P : \A j \in P : ~ (<<j, i>> \in R)
  BY <1>1, WFMin
<1>3. ASSUME NEW j \in P, j < i PROVE FALSE
  <2>1. i \in Nat /\ j \in Nat
    OBVIOUS
  <2>2. <<j, i>> \in R
    BY <1>3, <2>1 DEF R
  <2> QED
    BY <1>2, <2>2
<1>4. \A j \in P : i <= j
  BY <1>3
<1> QED
  BY <1>4 DEF FirstOf

(* BetterAndBetter of one destination.                                     *)
Ordered(range) ==
    \A i, j \in 1 .. Len(range) :
        i < j => range[i].linkQlt < range[j].linkQlt /\ range[i].nextHop # range[j].nextHop

(* RoutesOnlyExtended of one destination.                                  *)
Extended(old, new) ==
    \A i \in 1 .. Len(old) : \A j \in 1 .. Len(new) :
        old[i].nextHop = new[j].nextHop
            => new[j].lifeTime >= old[i].lifeTime /\ new[j].linkQlt = old[i].linkQlt

(* CreateEntry keeps the order: it extends one lifetime, or appends a      *)
(* route that is better than all and whose next hop is new.                *)
LEMMA CreateKeepsOrder ==
    ASSUME NEW range \in Seq(Entry), Ordered(range), NEW t \in Nat,
           NEW h \in Neighbour, NEW ttl \in Ttl, NEW q \in Quality
    PROVE  LET new == CreateEntryIn(range, t, h, ttl, q)
           IN  new \in Seq(Entry) /\ Ordered(new) /\ Extended(range, new)
<1> DEFINE new == CreateEntryIn(range, t, h, ttl, q)
           stops == {i \in 1 .. Len(range) : range[i].nextHop = h \/ range[i].linkQlt >= q}
           k == FirstOf(stops)
<1> SUFFICES new \in Seq(Entry) /\ Ordered(new) /\ Extended(range, new)
  OBVIOUS
<1>0. /\ Len(range) \in Nat
      /\ \A i \in 1 .. Len(range) : range[i] \in Entry
      /\ t + ttl \in Nat /\ Quality \subseteq Int
  BY RoutingAssumption
<1>u. /\ stops = {} => new = Append(range, Croute(h, t + ttl, q))
      /\ stops # {} /\ range[k].nextHop = h /\ t + ttl > range[k].lifeTime
           => new = [range EXCEPT ![k].lifeTime = t + ttl]
      /\ stops # {} /\ ~(range[k].nextHop = h /\ t + ttl > range[k].lifeTime) => new = range
  BY DEF CreateEntryIn
<1>t. \A i \in 1 .. Len(range) : range[i].lifeTime \in Nat /\ range[i].linkQlt \in Int
  BY <1>0 DEF Entry
<1> HIDE DEF new
<1>1. CASE stops = {}
  <2>1. new = Append(range, Croute(h, t + ttl, q))
    BY <1>1, <1>u
  <2>2. Croute(h, t + ttl, q) \in Entry
    BY <1>0 DEF Croute, Entry
  <2>3. /\ new \in Seq(Entry) /\ Len(new) = Len(range) + 1
        /\ \A i \in 1 .. Len(range) : new[i] = range[i]
        /\ new[Len(range) + 1] = Croute(h, t + ttl, q)
    BY <2>1, <2>2
  <2>4. \A i \in 1 .. Len(range) : range[i].nextHop # h /\ range[i].linkQlt < q
    BY <1>0, <1>1, <1>t
  <2>5. /\ new[Len(range) + 1].linkQlt = q
        /\ new[Len(range) + 1].nextHop = h
    BY <2>3 DEF Croute
  <2>6. Ordered(new)
    BY <1>0, <2>3, <2>4, <2>5 DEF Ordered
  <2>7. Extended(range, new)
    <3> SUFFICES ASSUME NEW i \in 1 .. Len(range), NEW j \in 1 .. Len(new),
                        range[i].nextHop = new[j].nextHop
                 PROVE  new[j].lifeTime >= range[i].lifeTime /\ new[j].linkQlt = range[i].linkQlt
      BY DEF Extended
    <3>1. j # Len(range) + 1
      BY <2>4, <2>5
    <3>2. j \in 1 .. Len(range) /\ new[j] = range[j]
      BY <1>0, <2>3, <3>1
    <3>3. i = j
      BY <1>0, <3>2 DEF Ordered
    <3> QED
      BY <1>t, <3>2, <3>3
  <2> QED
    BY <2>3, <2>6, <2>7
<1>2. CASE stops # {} /\ range[k].nextHop = h /\ t + ttl > range[k].lifeTime
  <2>1. k \in 1 .. Len(range)
    <3>1. stops \subseteq Nat
      OBVIOUS
    <3> QED
      BY <1>2, <3>1, FirstOfIsFirst
  <2>2. new = [range EXCEPT ![k].lifeTime = t + ttl]
    BY <1>2, <1>u
  <2> HIDE DEF stops, k
  <2>3. /\ new \in Seq(Entry) /\ Len(new) = Len(range)
        /\ \A i \in 1 .. Len(range) : i # k => new[i] = range[i]
        /\ new[k] = [range[k] EXCEPT !.lifeTime = t + ttl]
    <3>1. [range[k] EXCEPT !.lifeTime = t + ttl] \in Entry
      BY <1>0, <2>1 DEF Entry
    <3> QED
      BY <2>1, <2>2, <3>1
  <2>4. \A i \in 1 .. Len(range) : /\ new[i].linkQlt = range[i].linkQlt
                                   /\ new[i].nextHop = range[i].nextHop
                                   /\ new[i].lifeTime >= range[i].lifeTime
    <3>1. /\ new[k].linkQlt = range[k].linkQlt /\ new[k].nextHop = range[k].nextHop
          /\ new[k].lifeTime = t + ttl
      BY <1>0, <2>1, <2>3 DEF Entry
    <3>2. new[k].lifeTime >= range[k].lifeTime
      BY <1>0, <1>2, <1>t, <2>1, <3>1
    <3>3. \A i \in 1 .. Len(range) : range[i].lifeTime >= range[i].lifeTime
      BY <1>t
    <3> QED
      BY <2>3, <3>1, <3>2, <3>3
  <2>5. Ordered(new)
    BY <2>3, <2>4 DEF Ordered
  <2>6. Extended(range, new)
    BY <1>0, <2>3, <2>4 DEF Ordered, Extended
  <2> QED
    BY <2>3, <2>5, <2>6
<1>3. CASE stops # {} /\ ~(range[k].nextHop = h /\ t + ttl > range[k].lifeTime)
  <2>1. new = range
    BY <1>3, <1>u
  <2>2. Extended(range, range)
    BY <1>0, <1>t DEF Extended, Ordered
  <2> QED
    BY <2>1, <2>2
<1> QED
  BY <1>1, <1>2, <1>3

(* Erasing one entry keeps the others as they are, in their order.         *)
LEMMA WithoutKeepsOrder ==
    ASSUME NEW range \in Seq(Entry), Ordered(range), NEW k \in 1 .. Len(range)
    PROVE  LET new == Without(range, k)
           IN  /\ new \in Seq(Entry) /\ Len(new) = Len(range) - 1
               /\ \A i \in 1 .. Len(new) : new[i] = range[IF i < k THEN i ELSE i + 1]
               /\ Ordered(new) /\ Extended(range, new)
<1> DEFINE new == Without(range, k)
<1> SUFFICES /\ new \in Seq(Entry) /\ Len(new) = Len(range) - 1
             /\ \A i \in 1 .. Len(new) : new[i] = range[IF i < k THEN i ELSE i + 1]
             /\ Ordered(new) /\ Extended(range, new)
  OBVIOUS
<1>0. /\ Len(range) \in Nat
      /\ \A i \in 1 .. Len(range) : range[i] \in Entry
  OBVIOUS
<1>t. \A i \in 1 .. Len(range) : range[i].lifeTime \in Nat /\ range[i].linkQlt \in Int
  BY <1>0, RoutingAssumption DEF Entry
<1> DEFINE a == SubSeq(range, 1, k - 1)
           b == SubSeq(range, k + 1, Len(range))
<1>1. /\ a \in Seq(Entry) /\ Len(a) = k - 1
      /\ \A i \in 1 .. k - 1 : a[i] = range[i]
  BY <1>0
<1>2. /\ b \in Seq(Entry) /\ Len(b) = Len(range) - k
      /\ \A i \in 1 .. Len(range) - k : b[i] = range[i + k]
  BY <1>0
<1>3. new = a \o b
  BY DEF Without
<1> HIDE DEF a, b, new
<1>c. /\ new \in Seq(Entry) /\ Len(new) = Len(a) + Len(b)
      /\ \A i \in 1 .. Len(a) + Len(b) :
             new[i] = IF i <= Len(a) THEN a[i] ELSE b[i - Len(a)]
  BY <1>1, <1>2, <1>3, ConcatProperties
<1>4. new \in Seq(Entry) /\ Len(new) = Len(range) - 1
  BY <1>0, <1>1, <1>2, <1>c
<1>5. \A i \in 1 .. Len(new) : new[i] = range[IF i < k THEN i ELSE i + 1]
  <2> SUFFICES ASSUME NEW i \in 1 .. Len(new)
               PROVE  new[i] = range[IF i < k THEN i ELSE i + 1]
    OBVIOUS
  <2>1. CASE i < k
    BY <1>0, <1>1, <1>2, <1>c, <2>1
  <2>2. CASE ~(i < k)
    <3>1. new[i] = b[i - (k - 1)] /\ i - (k - 1) \in 1 .. Len(range) - k
      BY <1>0, <1>1, <1>2, <1>c, <2>2
    <3>2. b[i - (k - 1)] = range[(i - (k - 1)) + k]
      BY <1>2, <3>1
    <3>3. (i - (k - 1)) + k = i + 1
      BY <1>0, <1>4
    <3> QED
      BY <2>2, <3>1, <3>2, <3>3
  <2> QED
    BY <2>1, <2>2
<1> DEFINE at(i) == IF i < k THEN i ELSE i + 1
<1>6. \A i \in 1 .. Len(new) : at(i) \in 1 .. Len(range) /\ new[i] = range[at(i)]
  <2>1. \A i \in 1 .. Len(new) : at(i) \in 1 .. Len(range)
    BY <1>0, <1>4
  <2> QED
    BY <1>5, <2>1
<1>7. \A i, j \in 1 .. Len(new) : i < j => at(i) < at(j)
  BY <1>0, <1>4
<1> HIDE DEF at
<1>8. Ordered(new)
  BY <1>6, <1>7 DEF Ordered
<1>9. Extended(range, new)
  <2> SUFFICES ASSUME NEW i \in 1 .. Len(range), NEW j \in 1 .. Len(new),
                      range[i].nextHop = new[j].nextHop
               PROVE  new[j].lifeTime >= range[i].lifeTime /\ new[j].linkQlt = range[i].linkQlt
    BY DEF Extended
  <2>1. at(j) \in 1 .. Len(range) /\ new[j] = range[at(j)]
    BY <1>6
  <2>2. i = at(j)
    BY <1>0, <2>1 DEF Ordered
  <2> QED
    BY <1>t, <2>1, <2>2
<1> QED
  BY <1>4, <1>5, <1>8, <1>9

(* A lookup keeps the order: it erases at most one entry.                  *)
LEMMA FindKeepsOrder ==
    ASSUME NEW range \in Seq(Entry), Ordered(range), NEW t \in Nat
    PROVE  LET new == AfterFind(range, t)
           IN  new \in Seq(Entry) /\ Ordered(new) /\ Extended(range, new)
<1>0. /\ Len(range) \in Nat
      /\ \A i \in 1 .. Len(range) : range[i] \in Entry
  OBVIOUS
<1>t. \A i \in 1 .. Len(range) : range[i].lifeTime \in Nat /\ range[i].linkQlt \in Int
  BY <1>0, RoutingAssumption DEF Entry
<1>1. CASE Expired(range, t) = {}
  <2>1. AfterFind(range, t) = range
    BY <1>1 DEF AfterFind
  <2>2. Extended(range, range)
    BY <1>0, <1>t DEF Extended, Ordered
  <2> QED
    BY <2>1, <2>2
<1>2. CASE Expired(range, t) # {}
  <2>1. FirstOf(Expired(range, t)) \in 1 .. Len(range)
    <3>1. Expired(range, t) \subseteq 1 .. Len(range)
      BY DEF Expired
    <3> QED
      BY <1>2, <3>1, FirstOfIsFirst
  <2>2. AfterFind(range, t) = Without(range, FirstOf(Expired(range, t)))
    BY <1>2 DEF AfterFind
  <2> QED
    BY <2>1, <2>2, WithoutKeepsOrder
<1> QED
  BY <1>1, <1>2

(* A lookup scans live entries only and returns the last of them, which is *)
(* the best, as the entries are ordered.                                   *)
LEMMA FoundIsLastScanned ==
    ASSUME NEW range \in Seq(Entry), Ordered(range), NEW t \in Nat
    PROVE  LET n == Scanned(range, t)
           IN  /\ n \in 0 .. Len(range)
               /\ \A i \in 1 .. n : range[i].lifeTime > t
               /\ n # Len(range) => FirstOf(Expired(range, t)) = n + 1
               /\ (n = Len(range)) <=> (Expired(range, t) = {})
               /\ n = 0 => FoundRoute(range, t) = NoRoute
               /\ n # 0 => FoundRoute(range, t) = range[n]
<1> DEFINE n == Scanned(range, t)
<1> SUFFICES /\ n \in 0 .. Len(range)
             /\ \A i \in 1 .. n : range[i].lifeTime > t
             /\ n # Len(range) => FirstOf(Expired(range, t)) = n + 1
             /\ (n = Len(range)) <=> (Expired(range, t) = {})
             /\ n = 0 => FoundRoute(range, t) = NoRoute
             /\ n # 0 => FoundRoute(range, t) = range[n]
  OBVIOUS
<1>0. /\ Len(range) \in Nat
      /\ \A i \in 1 .. Len(range) : range[i] \in Entry
  OBVIOUS
<1>t. \A i \in 1 .. Len(range) : range[i].lifeTime \in Nat /\ range[i].linkQlt \in Int
  BY <1>0, RoutingAssumption DEF Entry
<1>1. /\ n \in 0 .. Len(range)
      /\ \A i \in 1 .. n : range[i].lifeTime > t
      /\ n # Len(range) => FirstOf(Expired(range, t)) = n + 1
      /\ (n = Len(range)) <=> (Expired(range, t) = {})
  <2>1. CASE Expired(range, t) = {}
    <3>1. n = Len(range)
      BY <2>1 DEF Scanned
    <3>2. \A i \in 1 .. Len(range) : ~(range[i].lifeTime <= t)
      BY <2>1 DEF Expired
    <3> QED
      BY <1>0, <1>t, <2>1, <3>1, <3>2
  <2>2. CASE Expired(range, t) # {}
    <3> DEFINE f == FirstOf(Expired(range, t))
    <3>1. Expired(range, t) \subseteq 1 .. Len(range)
      BY DEF Expired
    <3>2. f \in Expired(range, t) /\ \A j \in Expired(range, t) : f <= j
      BY <2>2, <3>1, FirstOfIsFirst
    <3>3. n = f - 1
      BY <2>2 DEF Scanned
    <3> HIDE DEF f, n
    <3>4. f \in 1 .. Len(range)
      BY <3>1, <3>2
    <3>5. \A i \in 1 .. n : i \in 1 .. Len(range) /\ i \notin Expired(range, t)
      BY <1>0, <3>1, <3>2, <3>3, <3>4
    <3>6. \A i \in 1 .. n : range[i].lifeTime > t
      BY <1>t, <3>5 DEF Expired
    <3> QED
      BY <1>0, <2>2, <3>3, <3>4, <3>6 DEF f
  <2> QED
    BY <2>1, <2>2
<1>2. n = 0 => FoundRoute(range, t) = NoRoute
  BY DEF FoundRoute
<1>3. ASSUME n # 0 PROVE FoundRoute(range, t) = range[n]
  <2> DEFINE First(i) == /\ \A j \in 1 .. n : range[j].linkQlt <= range[i].linkQlt
                         /\ \A j \in 1 .. i - 1 : range[j].linkQlt < range[i].linkQlt
  <2>1. FoundRoute(range, t) = range[CHOOSE i \in 1 .. n : First(i)]
    BY <1>3 DEF FoundRoute
  <2> HIDE DEF n
  <2>2. n \in 1 .. n /\ First(n)
    <3>1. n \in 1 .. Len(range)
      BY <1>0, <1>1, <1>3
    <3>2. \A j \in 1 .. n : j \in 1 .. Len(range) /\ (j = n \/ j < n)
      BY <1>0, <3>1
    <3>3. \A j \in 1 .. n : j < n => range[j].linkQlt < range[n].linkQlt
      BY <3>1, <3>2 DEF Ordered
    <3>4. \A j \in 1 .. n : range[j].linkQlt \in Int /\ range[n].linkQlt \in Int
      BY <1>t, <3>1, <3>2
    <3>5. \A j \in 1 .. n : range[j].linkQlt <= range[n].linkQlt
      BY <3>2, <3>3, <3>4
    <3>6. \A j \in 1 .. n - 1 : j \in 1 .. n /\ j < n
      BY <3>1
    <3>7. n \in 1 .. n
      BY <3>1
    <3> QED
      BY <3>3, <3>5, <3>6, <3>7
  <2>3. \A i \in 1 .. n : First(i) => i = n
    <3> SUFFICES ASSUME NEW i \in 1 .. n, First(i), i # n PROVE FALSE
      OBVIOUS
    <3>1. i \in 1 .. Len(range) /\ n \in 1 .. Len(range) /\ i < n
      BY <1>0, <1>1, <2>2
    <3>2. range[i].linkQlt < range[n].linkQlt
      BY <3>1 DEF Ordered
    <3>3. range[n].linkQlt <= range[i].linkQlt
      BY <2>2
    <3> QED
      BY <1>t, <3>1, <3>2, <3>3
  <2> HIDE DEF First
  <2>4. (CHOOSE i \in 1 .. n : First(i)) = n
    BY <2>2, <2>3
  <2> QED
    BY <2>1, <2>4
<1> QED
  BY <1>1, <1>2, <1>3

----------------------------------------------------------------------------
(* The order is inductive by itself, given the types.                      *)
IInv == TypeOK /\ BetterAndBetter

(* What one step does to the entries of one destination: they stay typed   *)
(* and ordered, and what stays of them is only extended.                   *)
LEMMA StepKeepsRange ==
    ASSUME IInv, [Next]_vars, NEW d \in Dest
    PROVE  /\ routingTable' \in [Dest -> Seq(Entry)] /\ now' \in Nat
           /\ Ordered(routingTable'[d])
           /\ Extended(routingTable[d], routingTable'[d])
<1>0. /\ routingTable \in [Dest -> Seq(Entry)] /\ now \in Nat
      /\ \A e \in Dest : Ordered(routingTable[e])
  BY DEF IInv, TypeOK, BetterAndBetter, Ordered
<1>s. \A e \in Dest : Extended(routingTable[e], routingTable[e])
  <2> SUFFICES ASSUME NEW e \in Dest PROVE Extended(routingTable[e], routingTable[e])
    OBVIOUS
  <2>1. \A i \in 1 .. Len(routingTable[e]) : routingTable[e][i] \in Entry
    BY <1>0
  <2>2. \A i \in 1 .. Len(routingTable[e]) : routingTable[e][i].lifeTime \in Nat
    BY <2>1 DEF Entry
  <2>3. Len(routingTable[e]) \in Nat /\ Ordered(routingTable[e])
    BY <1>0
  <2> QED
    BY <2>2, <2>3 DEF Extended, Ordered
<1>1. ASSUME NEW e \in Dest, NEW h \in Neighbour, NEW ttl \in Ttl, NEW q \in Quality,
             CreateEntry(e, h, ttl, q)
      PROVE  /\ routingTable' \in [Dest -> Seq(Entry)] /\ now' \in Nat
             /\ Ordered(routingTable'[d])
             /\ Extended(routingTable[d], routingTable'[d])
  <2> DEFINE new == CreateEntryIn(routingTable[e], now, h, ttl, q)
  <2>1. routingTable' = [routingTable EXCEPT ![e] = new] /\ now' = now
    BY <1>1 DEF CreateEntry
  <2>2. routingTable[e] \in Seq(Entry) /\ Ordered(routingTable[e])
    BY <1>0
  <2>3. new \in Seq(Entry) /\ Ordered(new) /\ Extended(routingTable[e], new)
    BY <1>0, <2>2, CreateKeepsOrder
  <2> HIDE DEF new
  <2> QED
    BY <1>0, <1>s, <2>1, <2>3
<1>2. ASSUME NEW e \in Dest, findRoute(e)
      PROVE  /\ routingTable' \in [Dest -> Seq(Entry)] /\ now' \in Nat
             /\ Ordered(routingTable'[d])
             /\ Extended(routingTable[d], routingTable'[d])
  <2> DEFINE new == AfterFind(routingTable[e], now)
  <2>1. routingTable' = [routingTable EXCEPT ![e] = new] /\ now' = now
    BY <1>2 DEF findRoute
  <2>2. routingTable[e] \in Seq(Entry) /\ Ordered(routingTable[e])
    BY <1>0
  <2>3. new \in Seq(Entry) /\ Ordered(new) /\ Extended(routingTable[e], new)
    BY <1>0, <2>2, FindKeepsOrder
  <2> HIDE DEF new
  <2> QED
    BY <1>0, <1>s, <2>1, <2>3
<1>3. ASSUME NEW e \in Dest, removeEntry(e)
      PROVE  /\ routingTable' \in [Dest -> Seq(Entry)] /\ now' \in Nat
             /\ Ordered(routingTable'[d])
             /\ Extended(routingTable[d], routingTable'[d])
  <2>1. routingTable' = [routingTable EXCEPT ![e] = <<>>] /\ now' = now
    BY <1>3 DEF removeEntry
  <2>2. <<>> \in Seq(Entry) /\ Ordered(<<>>) /\ Extended(routingTable[e], <<>>)
    BY DEF Ordered, Extended
  <2> QED
    BY <1>0, <1>s, <2>1, <2>2
<1>4. CASE Tick
  BY <1>0, <1>s, <1>4 DEF Tick
<1>5. CASE UNCHANGED vars
  BY <1>0, <1>s, <1>5 DEF vars
<1> QED
  BY <1>1, <1>2, <1>3, <1>4, <1>5 DEF Next

(* Types and order hold in every state ColorRoutingTable reaches.          *)
THEOREM RoutingInvariance == Spec => []IInv
<1>1. Init => IInv
  BY DEF Init, IInv, TypeOK, BetterAndBetter
<1>2. IInv /\ [Next]_vars => IInv'
  <2> SUFFICES ASSUME IInv, [Next]_vars PROVE IInv'
    OBVIOUS
  <2>1. routingTable \in [Dest -> Seq(Entry)] /\ now \in Nat
    BY DEF IInv, TypeOK
  <2>2. TypeOK'
    <3>1. CASE Dest = {}
      <4>1. \A S, f : f \in [Dest -> S] <=> f = [x \in Dest |-> x]
        BY <3>1
      <4> QED
        BY <2>1, <3>1, <4>1 DEF TypeOK, Next, Tick, vars
    <3>2. CASE Dest # {}
      BY <3>2, StepKeepsRange DEF TypeOK
    <3> QED
      BY <3>1, <3>2
  <2>3. \A d \in Dest : Ordered(routingTable'[d])
    BY StepKeepsRange
  <2>4. BetterAndBetter'
    BY <2>3 DEF BetterAndBetter, Ordered
  <2> QED
    BY <2>2, <2>4 DEF IInv
<1> QED
  BY <1>1, <1>2, PTL DEF Spec

(* The entries of a destination get better and better, with distinct next  *)
(* hops, in whatever order packets arrive and routes expire.               *)
THEOREM RoutesOrdered == Spec => []BetterAndBetter
<1>1. IInv => BetterAndBetter
  BY DEF IInv
<1> QED
  BY <1>1, RoutingInvariance, PTL

(* No step shortens the life of an entry that stays, or changes its        *)
(* quality.                                                                *)
THEOREM NoRouteShortened == Spec => RoutesOnlyExtended
<1>1. ASSUME IInv, [Next]_vars
      PROVE  \A d \in Dest : \A i \in 1 .. Len(routingTable[d]) :
                \A j \in 1 .. Len(routingTable'[d]) :
                    routingTable[d][i].nextHop = routingTable'[d][j].nextHop
                        => /\ routingTable'[d][j].lifeTime >= routingTable[d][i].lifeTime
                           /\ routingTable'[d][j].linkQlt = routingTable[d][i].linkQlt
  <2>1. \A d \in Dest : Extended(routingTable[d], routingTable'[d])
    BY <1>1, StepKeepsRange
  <2> QED
    BY <2>1 DEF Extended
<1> QED
  BY <1>1, RoutingInvariance, PTL DEF Spec, RoutesOnlyExtended

(* Whatever is expired, a lookup never returns an expired route, and what  *)
(* it returns stays in the table.                                          *)
THEOREM LookupsAreSound == Spec => []NoStaleRoute
<1>1. ASSUME IInv PROVE NoStaleRoute
  <2> SUFFICES ASSUME NEW d \in Dest, FoundRoute(routingTable[d], now) # NoRoute
               PROVE  /\ FoundRoute(routingTable[d], now).lifeTime > now
                      /\ \E i \in 1 .. Len(AfterFind(routingTable[d], now)) :
                            AfterFind(routingTable[d], now)[i] = FoundRoute(routingTable[d], now)
    BY DEF NoStaleRoute
  <2> DEFINE range == routingTable[d]
             n == Scanned(range, now)
             new == AfterFind(range, now)
  <2>1. range \in Seq(Entry) /\ Ordered(range) /\ now \in Nat /\ Len(range) \in Nat
    BY <1>1 DEF IInv, TypeOK, BetterAndBetter, Ordered
  <2>2. /\ n \in 0 .. Len(range)
        /\ \A i \in 1 .. n : range[i].lifeTime > now
        /\ n # Len(range) => FirstOf(Expired(range, now)) = n + 1
        /\ (n = Len(range)) <=> (Expired(range, now) = {})
        /\ n = 0 => FoundRoute(range, now) = NoRoute
        /\ n # 0 => FoundRoute(range, now) = range[n]
    BY <2>1, FoundIsLastScanned
  <2>3. n \in 1 .. n /\ n # 0 /\ FoundRoute(range, now) = range[n]
    BY <2>1, <2>2
  <2>4. FoundRoute(range, now).lifeTime > now
    BY <2>2, <2>3
  <2>5. \E i \in 1 .. Len(new) : new[i] = range[n]
    <3>1. CASE n = Len(range)
      <4>1. new = range
        BY <2>2, <3>1 DEF AfterFind
      <4> QED
        BY <2>1, <2>3, <3>1, <4>1
    <3>2. CASE n # Len(range)
      <4>1. n + 1 \in 1 .. Len(range) /\ new = Without(range, n + 1)
        BY <2>1, <2>2, <3>2 DEF AfterFind
      <4>2. /\ Len(new) = Len(range) - 1
            /\ \A i \in 1 .. Len(new) : new[i] = range[IF i < n + 1 THEN i ELSE i + 1]
        BY <2>1, <4>1, WithoutKeepsOrder
      <4> HIDE DEF n, new, range
      <4>3. n \in 1 .. Len(new) /\ n < n + 1
        BY <2>1, <2>2, <2>3, <3>2, <4>2
      <4> QED
        BY <4>2, <4>3
    <3> QED
      BY <3>1, <3>2
  <2> QED
    BY <2>3, <2>4, <2>5
<1> QED
  BY <1>1, RoutingInvariance, PTL

(* A lookup returns the best live route or makes the table shorter.        *)
THEOREM LookupsProgress == Spec => []LookupProgress
<1>1. ASSUME IInv PROVE LookupProgress
  <2> DEFINE range(d) == routingTable[d]
             live(d) == LiveIn(range(d), now)
             Goal(d) == \/ Len(AfterFind(range(d), now)) < Len(range(d))
                        \/ live(d) = {} /\ FoundRoute(range(d), now) = NoRoute
                        \/ \E i \in live(d) :
                              /\ FoundRoute(range(d), now) = range(d)[i]
                              /\ \A j \in live(d) : range(d)[j].linkQlt <= range(d)[i].linkQlt
  <2> SUFFICES ASSUME NEW d \in Dest PROVE Goal(d)
    BY DEF LookupProgress
  <2> DEFINE r == routingTable[d]
             n == Scanned(r, now)
  <2>1. r \in Seq(Entry) /\ Ordered(r) /\ now \in Nat /\ Len(r) \in Nat
    BY <1>1 DEF IInv, TypeOK, BetterAndBetter, Ordered
  <2>2. /\ n \in 0 .. Len(r)
        /\ \A i \in 1 .. n : r[i].lifeTime > now
        /\ n # Len(r) => FirstOf(Expired(r, now)) = n + 1
        /\ (n = Len(r)) <=> (Expired(r, now) = {})
        /\ n = 0 => FoundRoute(r, now) = NoRoute
        /\ n # 0 => FoundRoute(r, now) = r[n]
    BY <2>1, FoundIsLastScanned
  <2>3. CASE n # Len(r)
    <3>1. n + 1 \in 1 .. Len(r) /\ AfterFind(r, now) = Without(r, n + 1)
      BY <2>1, <2>2, <2>3 DEF AfterFind
    <3>2. Len(AfterFind(r, now)) = Len(r) - 1
      BY <2>1, <3>1, WithoutKeepsOrder
    <3> QED
      BY <2>1, <3>2
  <2>4. CASE n = Len(r) /\ n = 0
    <3>1. LiveIn(r, now) = {}
      BY <2>1, <2>4 DEF LiveIn
    <3> QED
      BY <2>2, <2>4, <3>1
  <2>5. CASE n = Len(r) /\ n # 0
    <3>1. n \in 1 .. Len(r) /\ n \in LiveIn(r, now)
      BY <2>1, <2>2, <2>5 DEF LiveIn
    <3>2. \A j \in LiveIn(r, now) : j \in 1 .. Len(r) /\ (j = n \/ j < n)
      BY <2>1, <2>5, <3>1 DEF LiveIn
    <3>3. \A j \in 1 .. Len(r) : r[j].linkQlt \in Int
      <4>1. \A j \in 1 .. Len(r) : r[j] \in Entry
        BY <2>1
      <4> QED
        BY <4>1, RoutingAssumption DEF Entry
    <3>4. \A j \in LiveIn(r, now) : j < n => r[j].linkQlt < r[n].linkQlt
      BY <3>1, <3>2, <2>1 DEF Ordered
    <3>5. \A j \in LiveIn(r, now) : r[j].linkQlt <= r[n].linkQlt
      BY <3>1, <3>2, <3>3, <3>4
    <3> QED
      BY <2>2, <2>5, <3>1, <3>5
  <2> QED
    BY <2>3, <2>4, <2>5
<1> QED
  BY <1>1, RoutingInvariance, PTL

(* CreateEntry, findRoute and removeEntry keep the table well formed: a    *)
(* lifetime is a time and a quality is one some packet carried.            *)
THEOREM RoutingTypes == Spec => []TypeOK
<1>1. IInv => TypeOK
  BY DEF IInv
<1> QED
  BY <1>1, RoutingInvariance, PTL
============================================================================
