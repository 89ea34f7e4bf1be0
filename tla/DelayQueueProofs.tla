------------------------- MODULE DelayQueueProofs -------------------------
(***************************************************************************)
(* For any packets, delays and TC: the timer of the delay queue stands at  *)
(* the head, the queue is in order, a GET waits at most once and is not    *)
(* sent in vain.                                                           *)
(***************************************************************************)
EXTENDS DelayQueue, TLAPS, SequenceTheorems

(* The counter of a waiting packet is what the copies heard left of TC;    *)
(* NotSentInVain is not inductive without it.                              *)
CounterIsWhatIsLeft ==
    /\ \A i \in 1 .. Len(priQueue) : priQueue[i].tc = TC - heard[priQueue[i].pkt]
    /\ \A p \in Packet : have(p) = {} => heard[p] = 0

IInv == TypeOK /\ TimerAtHead /\ InOrder /\ QueuedOnce /\ CounterIsWhatIsLeft /\ NotSentInVain

(* The entries of the list after an insertion in the middle.               *)
LEMMA InsertAtAnySet ==
    ASSUME NEW S, NEW q \in Seq(S), NEW i \in 1 .. Len(q), NEW e \in S
    PROVE  LET new == InsertAt(q, i, e)
           IN  /\ new \in Seq(S) /\ Len(new) = Len(q) + 1
               /\ \A j \in 1 .. i - 1 : new[j] = q[j]
               /\ new[i] = e
               /\ \A j \in i + 1 .. Len(q) + 1 : new[j] = q[j - 1]
<1> DEFINE a == SubSeq(q, 1, i - 1)
           b == SubSeq(q, i, Len(q))
           ae == a \o <<e>>
           new == InsertAt(q, i, e)
<1> SUFFICES /\ new \in Seq(S) /\ Len(new) = Len(q) + 1
             /\ \A j \in 1 .. i - 1 : new[j] = q[j]
             /\ new[i] = e
             /\ \A j \in i + 1 .. Len(q) + 1 : new[j] = q[j - 1]
  OBVIOUS
<1>0. Len(q) \in Nat /\ i \in Nat /\ i >= 1 /\ i <= Len(q)
  OBVIOUS
<1>1. /\ a \in Seq(S) /\ Len(a) = i - 1
      /\ \A j \in 1 .. i - 1 : a[j] = q[j]
  BY <1>0
<1>2. /\ b \in Seq(S) /\ Len(b) = Len(q) - i + 1
      /\ \A j \in 1 .. Len(q) - i + 1 : b[j] = q[j + i - 1]
  BY <1>0
<1>3. <<e>> \in Seq(S) /\ Len(<<e>>) = 1 /\ <<e>>[1] = e
  OBVIOUS
<1>4. new = ae \o b
  BY DEF InsertAt
<1> HIDE DEF a, b, new
<1>5. /\ ae \in Seq(S) /\ Len(ae) = i
      /\ \A j \in 1 .. i - 1 : ae[j] = q[j]
      /\ ae[i] = e
  <2>1. /\ ae \in Seq(S) /\ Len(ae) = Len(a) + Len(<<e>>)
        /\ \A j \in 1 .. Len(a) + Len(<<e>>) : ae[j] = IF j <= Len(a) THEN a[j] ELSE <<e>>[j - Len(a)]
    BY <1>1, <1>3, ConcatProperties
  <2> HIDE DEF ae
  <2>2. Len(ae) = i
    BY <1>0, <1>1, <1>3, <2>1
  <2>3. \A j \in 1 .. i - 1 : ae[j] = q[j]
    BY <1>0, <1>1, <1>3, <2>1
  <2>4. ae[i] = <<e>>[i - (i - 1)]
    BY <1>0, <1>1, <1>3, <2>1
  <2>5. i - (i - 1) = 1
    BY <1>0
  <2> QED
    BY <1>3, <2>1, <2>2, <2>3, <2>4, <2>5
<1> HIDE DEF ae
<1>6. /\ new \in Seq(S) /\ Len(new) = Len(ae) + Len(b)
      /\ \A j \in 1 .. Len(ae) + Len(b) : new[j] = IF j <= Len(ae) THEN ae[j] ELSE b[j - Len(ae)]
  BY <1>2, <1>4, <1>5, ConcatProperties
<1>7. Len(new) = Len(q) + 1
  BY <1>0, <1>2, <1>5, <1>6
<1>8. \A j \in 1 .. i : new[j] = ae[j]
  BY <1>0, <1>2, <1>5, <1>6
<1>9. \A j \in i + 1 .. Len(q) + 1 : new[j] = q[j - 1]
  <2> SUFFICES ASSUME NEW j \in i + 1 .. Len(q) + 1 PROVE new[j] = q[j - 1]
    OBVIOUS
  <2>1. new[j] = b[j - i] /\ j - i \in 1 .. Len(q) - i + 1
    BY <1>0, <1>2, <1>5, <1>6
  <2>2. (j - i) + i - 1 = j - 1
    BY <1>0
  <2> QED
    BY <1>2, <2>1, <2>2
<1> QED
  BY <1>0, <1>5, <1>6, <1>7, <1>8, <1>9

LEMMA InsertAtProperties ==
    ASSUME NEW q \in Seq(PendPkt), NEW i \in 1 .. Len(q), NEW e \in PendPkt
    PROVE  LET new == InsertAt(q, i, e)
           IN  /\ new \in Seq(PendPkt) /\ Len(new) = Len(q) + 1
               /\ \A j \in 1 .. i - 1 : new[j] = q[j]
               /\ new[i] = e
               /\ \A j \in i + 1 .. Len(q) + 1 : new[j] = q[j - 1]
BY InsertAtAnySet

(* What every entry of the queue is known to be.                           *)
LEMMA EntryFacts ==
    ASSUME IInv
    PROVE  /\ Len(priQueue) \in Nat /\ now \in Nat
           /\ \A i \in 1 .. Len(priQueue) :
                 /\ priQueue[i] \in PendPkt
                 /\ priQueue[i].pkt \in Packet
                 /\ priQueue[i].sendtime \in Nat
                 /\ priQueue[i].sendtime >= now
                 /\ priQueue[i].tc = TC - heard[priQueue[i].pkt]
<1>1. priQueue \in Seq(PendPkt) /\ Len(priQueue) \in Nat /\ now \in Nat
  BY DEF IInv, TypeOK
<1>2. \A i \in 1 .. Len(priQueue) : priQueue[i] \in PendPkt
  BY <1>1
<1>3. \A i \in 1 .. Len(priQueue) : priQueue[i].pkt \in Packet /\ priQueue[i].sendtime \in Nat
  BY <1>2 DEF PendPkt
<1> QED
  BY <1>1, <1>2, <1>3 DEF IInv, InOrder, CounterIsWhatIsLeft

(* A GET that is queued, at whatever place or nowhere, keeps the invariant. *)
LEMMA DelayedKeeps ==
    ASSUME IInv, NEW p \in Packet, NEW delay \in Delay, Delayed(p, delay)
    PROVE  IInv'
<1> DEFINE t == now + delay
           e == pendPkt(p, t, TC)
<1>0. /\ priQueue \in Seq(PendPkt) /\ Len(priQueue) \in Nat /\ now \in Nat
      /\ \A i \in 1 .. Len(priQueue) :
            /\ priQueue[i].sendtime \in Nat /\ priQueue[i].sendtime >= now
            /\ priQueue[i].tc = TC - heard[priQueue[i].pkt]
  BY EntryFacts DEF IInv, TypeOK
<1>1. /\ now' = now /\ heard' = heard /\ sent' = sent
      /\ \A i \in 1 .. Len(priQueue) : priQueue[i].pkt # p
      /\ heard[p] = 0
  BY DEF Delayed, have, IInv, CounterIsWhatIsLeft
<1>2. t \in Nat /\ t >= now /\ TC \in Nat /\ timer \in Nat \cup {NoTimer}
  BY <1>0, DelayQueueAssumption DEF IInv, TypeOK
<1>3. e \in PendPkt /\ e.pkt = p /\ e.sendtime = t /\ e.tc = TC
  BY <1>2 DEF pendPkt, PendPkt
<1>4. TC = TC - heard[p]
  BY <1>1, <1>2
<1>5. insert(p, t, TC)
  BY DEF Delayed
<1> HIDE DEF t, e
<1>a. CASE priQueue = <<>> /\ priQueue' = <<e>> /\ timer' = t
  <2>1. /\ priQueue' \in Seq(PendPkt) /\ Len(priQueue') = 1 /\ priQueue'[1] = e /\ priQueue' # <<>>
    BY <1>3, <1>a
  <2>2. TypeOK' /\ TimerAtHead' /\ NotSentInVain'
    BY <1>1, <1>2, <1>3, <1>a, <2>1 DEF IInv, TypeOK, TimerAtHead, NotSentInVain
  <2>3. \A i \in 1 .. Len(priQueue') : i = 1
    BY <2>1
  <2>4. InOrder' /\ QueuedOnce'
    BY <1>1, <1>2, <1>3, <2>1, <2>3 DEF InOrder, QueuedOnce
  <2>5. CounterIsWhatIsLeft'
    <3>1. \A i \in 1 .. Len(priQueue') : priQueue'[i].tc = TC - heard'[priQueue'[i].pkt]
      BY <1>1, <1>3, <1>4, <2>1, <2>3
    <3>2. \A r \in Packet : {i \in 1 .. Len(priQueue) : priQueue[i].pkt = r} = {}
      BY <1>a
    <3>3. \A r \in Packet : heard'[r] = 0
      BY <1>1, <3>2 DEF IInv, CounterIsWhatIsLeft, have
    <3> QED
      BY <3>1, <3>3 DEF CounterIsWhatIsLeft
  <2> QED
    BY <2>2, <2>4, <2>5 DEF IInv
<1>b. ASSUME NEW i \in Place(priQueue, t), priQueue # <<>>,
             priQueue' = InsertAt(priQueue, i, e), timer' = IF i = 1 THEN t ELSE timer
      PROVE  IInv'
  <2>1. /\ i \in 1 .. Len(priQueue) /\ priQueue[i].sendtime >= t
        /\ \A j \in 1 .. i - 1 : priQueue[j].sendtime < t
    BY <1>b DEF Place
  <2>2. /\ priQueue' \in Seq(PendPkt) /\ Len(priQueue') = Len(priQueue) + 1
        /\ \A j \in 1 .. i - 1 : priQueue'[j] = priQueue[j]
        /\ priQueue'[i] = e
        /\ \A j \in i + 1 .. Len(priQueue) + 1 : priQueue'[j] = priQueue[j - 1]
    BY <1>0, <1>3, <1>b, <2>1, InsertAtProperties
  <2> DEFINE L == Len(priQueue)
             q2 == priQueue'
             at(j) == IF j < i THEN j ELSE j - 1
  <2>3. \A j \in 1 .. L + 1 : j # i => at(j) \in 1 .. L /\ q2[j] = priQueue[at(j)]
    <3> SUFFICES ASSUME NEW j \in 1 .. L + 1, j # i
                 PROVE  at(j) \in 1 .. L /\ q2[j] = priQueue[at(j)]
      OBVIOUS
    <3>1. CASE j < i
      BY <1>0, <2>1, <2>2, <3>1
    <3>2. CASE ~(j < i)
      BY <1>0, <2>1, <2>2, <3>2
    <3> QED
      BY <3>1, <3>2
  <2>4. \A j, k \in 1 .. L + 1 : j # i /\ k # i =>
            /\ (j < k => at(j) < at(k))
            /\ (at(j) = at(k) => j = k)
    BY <1>0, <2>1
  <2>5. \A j \in 1 .. L + 1 : /\ (j < i => at(j) < i)
                              /\ (i < j => at(j) >= i)
    BY <1>0, <2>1
  <2>o. \A j, k \in 1 .. L : j <= k => priQueue[j].sendtime <= priQueue[k].sendtime
    BY <1>0 DEF IInv, InOrder
  <2>n. Len(q2) = L + 1 /\ L \in Nat /\ i \in 1 .. L + 1
    BY <1>0, <2>1, <2>2
  <2>h. priQueue # <<>> /\ priQueue' # <<>>
    BY <1>b, <2>n
  <2> HIDE DEF at
  <2>6. InOrder'
    <3>1. ASSUME NEW j \in 1 .. L + 1, NEW k \in 1 .. L + 1, j < k
          PROVE  q2[j].sendtime <= q2[k].sendtime
      <4>1. CASE j # i /\ k # i
        BY <2>3, <2>4, <2>o, <3>1, <4>1
      <4>2. CASE j = i
        <5>1. k # i /\ at(k) \in 1 .. L /\ at(k) >= i /\ q2[k] = priQueue[at(k)]
          BY <2>3, <2>5, <3>1, <4>2
        <5>2. priQueue[i].sendtime <= priQueue[at(k)].sendtime
          BY <2>1, <2>o, <5>1
        <5> QED
          BY <1>0, <1>2, <1>3, <2>1, <2>2, <4>2, <5>1, <5>2
      <4>3. CASE k = i
        <5>1. j # i /\ at(j) \in 1 .. L /\ at(j) < i /\ q2[j] = priQueue[at(j)]
          BY <2>3, <2>5, <3>1, <4>3
        <5>2. at(j) \in 1 .. i - 1
          BY <2>n, <5>1
        <5>3. priQueue[at(j)].sendtime < t
          BY <2>1, <5>2
        <5> QED
          BY <1>0, <1>2, <1>3, <2>2, <4>3, <5>1, <5>3
      <4> QED
        BY <4>1, <4>2, <4>3
    <3>2. \A j \in 1 .. L + 1 : q2[j].sendtime >= now'
      BY <1>0, <1>1, <1>2, <1>3, <2>2, <2>3
    <3> QED
      BY <2>n, <3>1, <3>2 DEF InOrder
  <2>7. QueuedOnce'
    <3>1. \A j, k \in 1 .. L : priQueue[j].pkt = priQueue[k].pkt => j = k
      BY DEF IInv, QueuedOnce
    <3>2. \A j \in 1 .. L + 1 : j # i => q2[j].pkt # p
      BY <1>1, <2>3
    <3>3. q2[i].pkt = p
      BY <1>3, <2>2
    <3>4. \A j, k \in 1 .. L + 1 : q2[j].pkt = q2[k].pkt => j = k
      <4> SUFFICES ASSUME NEW j \in 1 .. L + 1, NEW k \in 1 .. L + 1, q2[j].pkt = q2[k].pkt
                   PROVE  j = k
        OBVIOUS
      <4>1. CASE j # i /\ k # i
        BY <2>3, <2>4, <3>1, <4>1
      <4>2. CASE j = i \/ k = i
        BY <3>2, <3>3, <4>2
      <4> QED
        BY <4>1, <4>2
    <3> QED
      BY <2>n, <3>4 DEF QueuedOnce
  <2>8. CounterIsWhatIsLeft'
    <3>1. \A j \in 1 .. L + 1 : q2[j].tc = TC - heard[q2[j].pkt]
      BY <1>0, <1>3, <1>4, <2>2, <2>3
    <3>2. ASSUME NEW r \in Packet, have(r)' = {} PROVE heard[r] = 0
      <4>1. \A j \in 1 .. L + 1 : q2[j].pkt # r
        BY <2>n, <3>2 DEF have
      <4>2. \A j \in 1 .. L : \E k \in 1 .. L + 1 : q2[k] = priQueue[j]
        <5> SUFFICES ASSUME NEW j \in 1 .. L PROVE \E k \in 1 .. L + 1 : q2[k] = priQueue[j]
          OBVIOUS
        <5>1. CASE j < i
          BY <2>1, <2>2, <2>n, <5>1
        <5>2. CASE ~(j < i)
          <6>1. j + 1 \in i + 1 .. L + 1 /\ j + 1 \in 1 .. L + 1 /\ (j + 1) - 1 = j
            BY <2>1, <2>n, <5>2
          <6> QED
            BY <2>2, <6>1
        <5> QED
          BY <5>1, <5>2
      <4>3. \A j \in 1 .. L : priQueue[j].pkt # r
        BY <4>1, <4>2
      <4> QED
        BY <4>3 DEF IInv, CounterIsWhatIsLeft, have
    <3> QED
      BY <1>1, <2>n, <3>1, <3>2 DEF CounterIsWhatIsLeft
  <2>9. TimerAtHead'
    <3>1. timer = priQueue[1].sendtime
      BY <2>h DEF IInv, TimerAtHead
    <3>2. CASE i = 1
      BY <1>3, <1>b, <2>2, <2>h, <3>2 DEF TimerAtHead
    <3>3. CASE i # 1
      <4>1. priQueue'[1] = priQueue[1]
        BY <2>1, <2>2, <3>3
      <4> QED
        BY <1>b, <2>h, <3>1, <3>3, <4>1 DEF TimerAtHead
    <3> QED
      BY <3>2, <3>3
  <2>10. TypeOK' /\ NotSentInVain'
    BY <1>1, <1>2, <1>b, <2>2 DEF IInv, TypeOK, NotSentInVain
  <2> QED
    BY <2>6, <2>7, <2>8, <2>9, <2>10 DEF IInv
<1>c. CASE UNCHANGED <<priQueue, timer>>
  BY <1>1, <1>c DEF IInv, TypeOK, TimerAtHead, InOrder, QueuedOnce, CounterIsWhatIsLeft,
                    NotSentInVain, have
<1> QED
  BY <1>5, <1>a, <1>b, <1>c DEF insert, e

(* A copy that is heard takes one off the counter of the one entry.        *)
LEMMA HeardAgainKeeps ==
    ASSUME IInv, NEW p \in Packet, HeardAgain(p)
    PROVE  IInv'
<1>1. PICK i \in have(p) : priQueue' = [priQueue EXCEPT ![i].tc = @ - 1]
  BY DEF HeardAgain
<1>2. /\ i \in 1 .. Len(priQueue) /\ priQueue[i].pkt = p
      /\ timer' = timer /\ now' = now /\ sent' = sent
      /\ heard \in [Packet -> Nat] /\ heard' = [heard EXCEPT ![p] = @ + 1]
  BY DEF have, HeardAgain, IInv, TypeOK
<1>3. /\ priQueue \in Seq(PendPkt) /\ Len(priQueue) \in Nat /\ now \in Nat
      /\ \A j \in 1 .. Len(priQueue) :
            /\ priQueue[j] \in PendPkt /\ priQueue[j].pkt \in Packet
            /\ priQueue[j].sendtime \in Nat /\ priQueue[j].sendtime >= now
            /\ priQueue[j].tc = TC - heard[priQueue[j].pkt]
  BY EntryFacts DEF IInv, TypeOK
<1>4. priQueue[i].tc \in Int
  BY <1>2, <1>3 DEF PendPkt
<1>5. /\ priQueue' \in Seq(PendPkt) /\ Len(priQueue') = Len(priQueue)
      /\ priQueue'[i] = [priQueue[i] EXCEPT !.tc = @ - 1]
      /\ \A j \in 1 .. Len(priQueue) : j # i => priQueue'[j] = priQueue[j]
  <2> DEFINE e == [priQueue[i] EXCEPT !.tc = @ - 1]
  <2>1. e \in PendPkt
    <3>1. priQueue[i] \in PendPkt /\ priQueue[i].tc - 1 \in Int
      BY <1>2, <1>3, <1>4
    <3>2. \A x \in PendPkt, c \in Int : [x EXCEPT !.tc = c] \in PendPkt
      BY DEF PendPkt
    <3> QED
      BY <3>1, <3>2
  <2>2. priQueue' = [priQueue EXCEPT ![i] = e]
    BY <1>1
  <2> HIDE DEF e
  <2>3. /\ priQueue' \in Seq(PendPkt) /\ Len(priQueue') = Len(priQueue)
        /\ priQueue'[i] = e
        /\ \A j \in 1 .. Len(priQueue) : j # i => priQueue'[j] = priQueue[j]
    BY <1>2, <1>3, <2>1, <2>2
  <2> QED
    BY <2>3 DEF e
<1>6. /\ priQueue'[i].pkt = p /\ priQueue'[i].sendtime = priQueue[i].sendtime
      /\ priQueue'[i].tc = priQueue[i].tc - 1
  BY <1>2, <1>3, <1>5 DEF PendPkt
<1>7. \A j \in 1 .. Len(priQueue) : /\ priQueue'[j].pkt = priQueue[j].pkt
                                   /\ priQueue'[j].sendtime = priQueue[j].sendtime
  BY <1>2, <1>5, <1>6
<1>8. TypeOK' /\ NotSentInVain'
  <2>1. heard' \in [Packet -> Nat]
    BY <1>2
  <2> QED
    BY <1>2, <1>5, <2>1 DEF IInv, TypeOK, NotSentInVain
<1>9. InOrder' /\ QueuedOnce'
  BY <1>2, <1>5, <1>7 DEF IInv, InOrder, QueuedOnce
<1>10. TimerAtHead'
  <2>1. priQueue # <<>> /\ priQueue' # <<>> /\ 1 \in 1 .. Len(priQueue)
    BY <1>2, <1>3, <1>5
  <2> QED
    BY <1>2, <1>7, <2>1 DEF IInv, TimerAtHead
<1>11. CounterIsWhatIsLeft'
  <2>1. ASSUME NEW j \in 1 .. Len(priQueue) PROVE priQueue'[j].tc = TC - heard'[priQueue'[j].pkt]
    <3>1. CASE j = i
      <4>1. heard'[p] = heard[p] + 1 /\ heard[p] \in Nat /\ TC \in Nat
        BY <1>2, DelayQueueAssumption
      <4>2. priQueue[i].tc = TC - heard[p]
        BY <1>2, <1>3
      <4> QED
        BY <1>6, <3>1, <4>1, <4>2
    <3>2. CASE j # i
      <4>1. priQueue[j].pkt # p
        BY <1>2, <3>2 DEF IInv, QueuedOnce
      <4>2. heard'[priQueue[j].pkt] = heard[priQueue[j].pkt]
        BY <1>2, <1>3, <4>1
      <4> QED
        BY <1>3, <1>5, <3>2, <4>2
    <3> QED
      BY <3>1, <3>2
  <2>2. ASSUME NEW r \in Packet, have(r)' = {} PROVE heard'[r] = 0
    <3>1. \A j \in 1 .. Len(priQueue) : priQueue[j].pkt # r
      BY <1>5, <1>7, <2>2 DEF have
    <3>2. r # p /\ heard[r] = 0
      BY <1>2, <3>1 DEF IInv, CounterIsWhatIsLeft, have
    <3> QED
      BY <1>2, <3>2
  <2> QED
    BY <1>5, <2>1, <2>2 DEF CounterIsWhatIsLeft
<1> QED
  BY <1>8, <1>9, <1>10, <1>11 DEF IInv

(* The head is popped, and sent only if its counter is not used up.        *)
LEMMA DelayerKeeps ==
    ASSUME IInv, Delayer
    PROVE  IInv'
<1> DEFINE hd == Head(priQueue)
           L == Len(priQueue)
<1>1. /\ priQueue # <<>> /\ timer = now /\ now' = now
      /\ priQueue' = Tail(priQueue) /\ timer' = Restarted(Tail(priQueue))
      /\ sent' = IF hd.tc < 1 THEN sent ELSE sent \cup {<<hd.pkt, heard[hd.pkt]>>}
      /\ heard' = [heard EXCEPT ![hd.pkt] = 0]
  BY DEF Delayer
<1>2. /\ priQueue \in Seq(PendPkt) /\ L \in Nat /\ now \in Nat
      /\ \A j \in 1 .. L :
            /\ priQueue[j].pkt \in Packet
            /\ priQueue[j].sendtime \in Nat /\ priQueue[j].sendtime >= now
            /\ priQueue[j].tc = TC - heard[priQueue[j].pkt]
  BY EntryFacts DEF IInv, TypeOK
<1>3. /\ hd = priQueue[1] /\ 1 \in 1 .. L
      /\ priQueue' \in Seq(PendPkt) /\ Len(priQueue') = L - 1
      /\ \A j \in 1 .. L - 1 : j + 1 \in 1 .. L /\ priQueue'[j] = priQueue[j + 1]
  BY <1>1, <1>2
<1>4. heard \in [Packet -> Nat] /\ hd.pkt \in Packet /\ hd.tc = TC - heard[hd.pkt]
  BY <1>2, <1>3 DEF IInv, TypeOK
<1> HIDE DEF hd, L
<1>5. timer' \in Nat \cup {NoTimer} /\ TimerAtHead'
  <2>1. CASE priQueue' = <<>>
    BY <1>1, <2>1 DEF Restarted, TimerAtHead
  <2>2. CASE priQueue' # <<>>
    <3>1. timer' = priQueue'[1].sendtime
      BY <1>1, <1>3, <2>2 DEF Restarted
    <3>2. 1 \in 1 .. L - 1
      BY <1>2, <1>3, <2>2
    <3>3. priQueue'[1].sendtime \in Nat
      BY <1>2, <1>3, <3>2
    <3> QED
      BY <2>2, <3>1, <3>3 DEF TimerAtHead
  <2> QED
    BY <2>1, <2>2
<1>6. heard' \in [Packet -> Nat] /\ sent' \in SUBSET (Packet \X Nat)
  <2>1. sent \in SUBSET (Packet \X Nat) /\ heard[hd.pkt] \in Nat
    BY <1>4 DEF IInv, TypeOK
  <2> QED
    BY <1>1, <1>4, <2>1
<1>7. TypeOK'
  BY <1>1, <1>2, <1>3, <1>5, <1>6 DEF TypeOK
<1>8. NotSentInVain'
  <2>1. \A s \in sent : s[2] < TC
    BY DEF IInv, NotSentInVain
  <2>2. CASE hd.tc < 1
    BY <1>1, <2>1, <2>2 DEF NotSentInVain
  <2>3. CASE ~(hd.tc < 1)
    <3>1. heard[hd.pkt] \in Nat /\ TC \in Nat
      BY <1>4, DelayQueueAssumption
    <3>2. heard[hd.pkt] < TC
      BY <1>4, <2>3, <3>1
    <3> QED
      BY <1>1, <2>1, <2>3, <3>2 DEF NotSentInVain
  <2> QED
    BY <2>2, <2>3
<1>9. InOrder' /\ QueuedOnce'
  <2>1. \A j, k \in 1 .. L : /\ (j < k => priQueue[j].sendtime <= priQueue[k].sendtime)
                             /\ (priQueue[j].pkt = priQueue[k].pkt => j = k)
    BY DEF IInv, InOrder, QueuedOnce, L
  <2>2. \A j, k \in 1 .. L - 1 : (j < k => j + 1 < k + 1) /\ (j + 1 = k + 1 => j = k)
    BY <1>2
  <2> QED
    BY <1>1, <1>2, <1>3, <2>1, <2>2 DEF InOrder, QueuedOnce
<1>10. CounterIsWhatIsLeft'
  <2>1. ASSUME NEW j \in 1 .. L - 1 PROVE priQueue'[j].tc = TC - heard'[priQueue'[j].pkt]
    <3>1. j + 1 \in 1 .. L /\ j + 1 # 1 /\ priQueue'[j] = priQueue[j + 1]
      BY <1>2, <1>3
    <3>2. priQueue[j + 1].pkt # hd.pkt
      BY <1>3, <3>1 DEF IInv, QueuedOnce, L
    <3>3. heard'[priQueue[j + 1].pkt] = heard[priQueue[j + 1].pkt]
      BY <1>1, <1>2, <1>4, <3>1, <3>2
    <3> QED
      BY <1>2, <3>1, <3>3
  <2>2. ASSUME NEW r \in Packet, have(r)' = {} PROVE heard'[r] = 0
    <3>1. CASE r = hd.pkt
      BY <1>1, <1>4, <3>1
    <3>2. CASE r # hd.pkt
      <4>1. \A j \in 1 .. L - 1 : priQueue[j + 1].pkt # r
        BY <1>3, <2>2 DEF have
      <4>2. ASSUME NEW k \in 1 .. L PROVE priQueue[k].pkt # r
        <5>1. CASE k = 1
          BY <1>3, <3>2, <5>1
        <5>2. CASE k # 1
          <6>1. k - 1 \in 1 .. L - 1 /\ (k - 1) + 1 = k
            BY <1>2, <5>2
          <6> QED
            BY <4>1, <6>1
        <5> QED
          BY <5>1, <5>2
      <4>3. heard[r] = 0
        BY <4>2 DEF IInv, CounterIsWhatIsLeft, have, L
      <4> QED
        BY <1>1, <1>4, <3>2, <4>3
    <3> QED
      BY <3>1, <3>2
  <2> QED
    BY <1>3, <2>1, <2>2 DEF CounterIsWhatIsLeft
<1> QED
  BY <1>5, <1>7, <1>8, <1>9, <1>10 DEF IInv

(* Time passes only up to the timer, so no packet becomes overdue.         *)
LEMMA TickKeeps ==
    ASSUME IInv, Tick
    PROVE  IInv'
<1>1. /\ timer # now /\ now' = now + 1
      /\ UNCHANGED <<priQueue, timer, heard, sent>>
  BY DEF Tick
<1>2. /\ Len(priQueue) \in Nat /\ now \in Nat
      /\ \A j \in 1 .. Len(priQueue) : priQueue[j].sendtime \in Nat /\ priQueue[j].sendtime >= now
  BY EntryFacts
<1>3. \A j \in 1 .. Len(priQueue) : priQueue[j].sendtime >= now + 1
  <2> SUFFICES ASSUME NEW j \in 1 .. Len(priQueue) PROVE priQueue[j].sendtime >= now + 1
    OBVIOUS
  <2>1. priQueue # <<>> /\ 1 \in 1 .. Len(priQueue)
    BY <1>2
  <2>2. timer = priQueue[1].sendtime
    BY <2>1 DEF IInv, TimerAtHead
  <2>3. priQueue[1].sendtime <= priQueue[j].sendtime
    BY <1>2, <2>1 DEF IInv, InOrder
  <2> QED
    BY <1>1, <1>2, <2>1, <2>2, <2>3
<1>4. InOrder' /\ TypeOK'
  BY <1>1, <1>2, <1>3 DEF IInv, InOrder, TypeOK
<1> QED
  BY <1>1, <1>4 DEF IInv, TimerAtHead, QueuedOnce, CounterIsWhatIsLeft, NotSentInVain, have

(* Everything the delay queue relies on holds in every state it reaches.   *)
THEOREM DelayQueueInvariance == Spec => []IInv
<1>1. Init => IInv
  <2> SUFFICES ASSUME Init PROVE IInv
    OBVIOUS
  <2>1. priQueue = <<>> /\ Len(priQueue) = 0 /\ timer = NoTimer /\ now = 0 /\ sent = {}
        /\ heard = [p \in Packet |-> 0]
    BY DEF Init
  <2>2. TypeOK /\ TimerAtHead /\ NotSentInVain
    BY <2>1 DEF TypeOK, TimerAtHead, NotSentInVain
  <2>3. InOrder /\ QueuedOnce /\ CounterIsWhatIsLeft
    BY <2>1 DEF InOrder, QueuedOnce, CounterIsWhatIsLeft
  <2> QED
    BY <2>2, <2>3 DEF IInv
<1>2. IInv /\ [Next]_vars => IInv'
  <2> SUFFICES ASSUME IInv, [Next]_vars PROVE IInv'
    OBVIOUS
  <2>1. CASE UNCHANGED vars
    BY <2>1 DEF vars, IInv, TypeOK, TimerAtHead, InOrder, QueuedOnce, CounterIsWhatIsLeft,
                NotSentInVain, have
  <2> QED
    BY <2>1, DelayedKeeps, HeardAgainKeeps, DelayerKeeps, TickKeeps DEF Next, EndOfSimulation
<1> QED
  BY <1>1, <1>2, PTL DEF Spec

(* The timer stands at the head: nothing is sent early or late.            *)
THEOREM TimerStandsAtHead == Spec => []TimerAtHead
<1>1. IInv => TimerAtHead
  BY DEF IInv
<1> QED
  BY <1>1, DelayQueueInvariance, PTL

(* The queue is in order and nothing in it is overdue.                     *)
THEOREM QueueInOrder == Spec => []InOrder
<1>1. IInv => InOrder
  BY DEF IInv
<1> QED
  BY <1>1, DelayQueueInvariance, PTL

(* A GET waits at most once.                                               *)
THEOREM NoPacketTwice == Spec => []QueuedOnce
<1>1. IInv => QueuedOnce
  BY DEF IInv
<1> QED
  BY <1>1, DelayQueueInvariance, PTL

(* No GET is sent of which TC copies were heard while it waited.           *)
THEOREM NothingSentInVain == Spec => []NotSentInVain
<1>1. IInv => NotSentInVain
  BY DEF IInv
<1> QED
  BY <1>1, DelayQueueInvariance, PTL

(* insert, check_and_decrease and popAtFront keep the list well formed.    *)
THEOREM DelayQueueTypes == Spec => []TypeOK
<1>1. IInv => TypeOK
  BY DEF IInv
<1> QED
  BY <1>1, DelayQueueInvariance, PTL

----------------------------------------------------------------------------
(***************************************************************************)
(* The queue without time.                                                 *)
(***************************************************************************)
Counted == [pkt : Packet, tc : Int]

LEMMA UntimedQueue ==
    ASSUME NEW q \in Seq(PendPkt)
    PROVE  /\ Untimed(q) \in Seq(Counted) /\ Len(Untimed(q)) = Len(q) /\ Len(q) \in Nat
           /\ \A i \in 1 .. Len(q) : Untimed(q)[i] = [pkt |-> q[i].pkt, tc |-> q[i].tc]
           /\ Untimed(q) = <<>> <=> q = <<>>
<1>1. Len(q) \in Nat /\ \A i \in 1 .. Len(q) : q[i] \in PendPkt
    BY ElementOfSeq
<1>2. Untimed(q) \in [1 .. Len(q) -> Counted]
    BY <1>1 DEF Untimed, Counted, PendPkt
<1>3. Untimed(q) \in Seq(Counted)
    BY <1>1, <1>2, IsASeq
<1>4. Len(Untimed(q)) = Len(q)
    BY <1>1, <1>2, <1>3, LenProperties
<1>5. \A i \in 1 .. Len(q) : Untimed(q)[i] = [pkt |-> q[i].pkt, tc |-> q[i].tc]
    BY DEF Untimed
<1> QED BY <1>1, <1>3, <1>4, <1>5, EmptySeq

LEMMA UntimedInsert ==
    ASSUME NEW q \in Seq(PendPkt), NEW i \in 1 .. Len(q), NEW e \in PendPkt
    PROVE  Untimed(InsertAt(q, i, e)) =
              SubSeq(Untimed(q), 1, i - 1) \o <<[pkt |-> e.pkt, tc |-> e.tc]>>
                 \o SubSeq(Untimed(q), i, Len(Untimed(q)))
<1>1. PICK u \in Seq(Counted) : u = Untimed(q)
    BY UntimedQueue
<1>2. /\ Len(u) = Len(q) /\ Len(q) \in Nat /\ i \in Nat
      /\ \A j \in 1 .. Len(q) : u[j] = [pkt |-> q[j].pkt, tc |-> q[j].tc]
    BY <1>1, UntimedQueue
<1>3. PICK c \in Counted : c = [pkt |-> e.pkt, tc |-> e.tc]
    BY DEF PendPkt, Counted
<1>4. PICK new \in Seq(PendPkt) :
          /\ new = InsertAt(q, i, e) /\ Len(new) = Len(q) + 1
          /\ \A j \in 1 .. i - 1 : new[j] = q[j]
          /\ new[i] = e
          /\ \A j \in i + 1 .. Len(q) + 1 : new[j] = q[j - 1]
    BY InsertAtProperties
<1>5. PICK v \in Seq(Counted) : v = Untimed(new)
    BY UntimedQueue
<1>6. /\ Len(v) = Len(q) + 1
      /\ \A j \in 1 .. Len(q) + 1 : v[j] = [pkt |-> new[j].pkt, tc |-> new[j].tc]
    BY <1>4, <1>5, UntimedQueue
<1>7. PICK w \in Seq(Counted) :
          /\ w = InsertAt(u, i, c) /\ Len(w) = Len(u) + 1
          /\ \A j \in 1 .. i - 1 : w[j] = u[j]
          /\ w[i] = c
          /\ \A j \in i + 1 .. Len(u) + 1 : w[j] = u[j - 1]
    <2>1. i \in 1 .. Len(u)
        BY <1>2
    <2> DEFINE w == InsertAt(u, i, c)
    <2>2. /\ w \in Seq(Counted) /\ Len(w) = Len(u) + 1
          /\ \A j \in 1 .. i - 1 : w[j] = u[j]
          /\ w[i] = c
          /\ \A j \in i + 1 .. Len(u) + 1 : w[j] = u[j - 1]
        BY <2>1, InsertAtAnySet
    <2> HIDE DEF w
    <2> QED BY <2>2 DEF w
<1>8. ASSUME NEW j \in 1 .. Len(q) + 1 PROVE v[j] = w[j]
    <2>1. CASE j \in 1 .. i - 1
        <3>1. new[j] = q[j] /\ w[j] = u[j] /\ j \in 1 .. Len(q)
            BY <1>2, <1>4, <1>7, <2>1
        <3> QED BY <1>2, <1>6, <3>1
    <2>2. CASE j = i
        BY <1>2, <1>3, <1>4, <1>6, <1>7, <2>2
    <2>3. CASE j \in i + 1 .. Len(q) + 1
        <3>1. new[j] = q[j - 1] /\ w[j] = u[j - 1] /\ j - 1 \in 1 .. Len(q)
            BY <1>2, <1>4, <1>7, <2>3
        <3> QED BY <1>2, <1>6, <3>1
    <2> QED BY <1>2, <2>1, <2>2, <2>3
<1>9. v = w
    BY <1>2, <1>6, <1>7, <1>8, SeqEqual
<1> QED BY <1>1, <1>3, <1>4, <1>5, <1>7, <1>9 DEF InsertAt

LEMMA UntimedHeard ==
    ASSUME NEW q \in Seq(PendPkt), NEW i \in 1 .. Len(q)
    PROVE  Untimed([q EXCEPT ![i].tc = @ - 1]) = [Untimed(q) EXCEPT ![i].tc = @ - 1]
<1>1. /\ Len(q) \in Nat /\ q \in [1 .. Len(q) -> PendPkt]
      /\ \A j \in 1 .. Len(q) : q[j] \in PendPkt
    BY ElementOfSeq, LenProperties
<1>2. PICK r : r = [q EXCEPT ![i].tc = @ - 1]
    OBVIOUS
<1>3. r \in [1 .. Len(q) -> PendPkt]
    <2>1. PICK e \in PendPkt : e = [q[i] EXCEPT !.tc = @ - 1]
        <3>1. PICK x \in PendPkt : x = q[i]
            BY <1>1
        <3>2. x.tc - 1 \in Int
            BY DEF PendPkt
        <3>3. [x EXCEPT !.tc = @ - 1] \in PendPkt
            BY <3>2 DEF PendPkt
        <3> QED BY <3>1, <3>3
    <2>2. r = [q EXCEPT ![i] = e]
        BY <1>1, <1>2, <2>1
    <2> QED BY <1>1, <2>2
<1>4. r \in Seq(PendPkt) /\ Len(r) = Len(q)
    BY <1>1, <1>3, IsASeq, LenProperties
<1>5. \A j \in 1 .. Len(q) : r[j] = IF j = i THEN [q[i] EXCEPT !.tc = @ - 1] ELSE q[j]
    BY <1>1, <1>2
<1>6. \A j \in 1 .. Len(q) : [pkt |-> r[j].pkt, tc |-> r[j].tc] =
          IF j = i THEN [pkt |-> q[j].pkt, tc |-> q[j].tc - 1] ELSE [pkt |-> q[j].pkt, tc |-> q[j].tc]
    BY <1>1, <1>5 DEF PendPkt
<1>7. Untimed(r) = [j \in 1 .. Len(q) |->
          IF j = i THEN [pkt |-> q[j].pkt, tc |-> q[j].tc - 1] ELSE [pkt |-> q[j].pkt, tc |-> q[j].tc]]
    BY <1>4, <1>6 DEF Untimed
<1>8. [Untimed(q) EXCEPT ![i].tc = @ - 1] = [j \in 1 .. Len(q) |->
          IF j = i THEN [pkt |-> q[j].pkt, tc |-> q[j].tc - 1] ELSE [pkt |-> q[j].pkt, tc |-> q[j].tc]]
    <2>1. PICK u : u = Untimed(q)
        OBVIOUS
    <2>2. PICK e : e = [u[i] EXCEPT !.tc = @ - 1]
        OBVIOUS
    <2>3. u[i] = [pkt |-> q[i].pkt, tc |-> q[i].tc]
        BY <2>1 DEF Untimed
    <2>4. e = [pkt |-> q[i].pkt, tc |-> q[i].tc - 1]
        BY <2>2, <2>3
    <2>5. [u EXCEPT ![i].tc = @ - 1] = [u EXCEPT ![i] = e]
        BY <2>2
    <2>6. [u EXCEPT ![i] = e] = [j \in 1 .. Len(q) |->
              IF j = i THEN e ELSE [pkt |-> q[j].pkt, tc |-> q[j].tc]]
        BY <2>1 DEF Untimed
    <2> QED BY <2>1, <2>4, <2>5, <2>6
<1> QED BY <1>2, <1>7, <1>8

LEMMA UntimedTail ==
    ASSUME NEW q \in Seq(PendPkt), q # <<>>
    PROVE  Untimed(Tail(q)) = Tail(Untimed(q))
<1>1. /\ Len(q) \in Nat /\ Len(q) > 0 /\ Tail(q) \in Seq(PendPkt) /\ Len(Tail(q)) = Len(q) - 1
      /\ \A j \in 1 .. Len(q) - 1 : Tail(q)[j] = q[j + 1]
    BY HeadTailProperties, EmptySeq
<1>2. PICK u \in Seq(Counted) :
          /\ u = Untimed(q) /\ u # <<>> /\ Len(u) = Len(q)
          /\ \A j \in 1 .. Len(q) : u[j] = [pkt |-> q[j].pkt, tc |-> q[j].tc]
    BY UntimedQueue
<1>3. /\ Tail(u) \in Seq(Counted) /\ Len(Tail(u)) = Len(q) - 1
      /\ \A j \in 1 .. Len(q) - 1 : Tail(u)[j] = u[j + 1]
    BY <1>2, HeadTailProperties
<1>4. /\ Untimed(Tail(q)) \in Seq(Counted) /\ Len(Untimed(Tail(q))) = Len(q) - 1
      /\ \A j \in 1 .. Len(q) - 1 : Untimed(Tail(q))[j] = [pkt |-> Tail(q)[j].pkt, tc |-> Tail(q)[j].tc]
    BY <1>1, UntimedQueue
<1>5. ASSUME NEW j \in 1 .. Len(q) - 1 PROVE Untimed(Tail(q))[j] = Tail(u)[j]
    <2>1. j + 1 \in 1 .. Len(q)
        BY <1>1
    <2>2. Tail(u)[j] = [pkt |-> q[j + 1].pkt, tc |-> q[j + 1].tc]
        BY <1>2, <1>3, <2>1
    <2>3. Tail(q)[j] = q[j + 1]
        BY <1>1
    <2> QED BY <1>4, <2>2, <2>3
<1>6. Untimed(Tail(q)) = Tail(u)
    BY <1>3, <1>4, <1>5, SeqEqual
<1> QED BY <1>2, <1>6

LEMMA WaitingStep ==
    ASSUME IInv, [Next]_vars
    PROVE  [Waiting!Next]_(Untimed(priQueue))
<1>1. priQueue \in Seq(PendPkt)
    BY DEF IInv, TypeOK
<1>2. /\ Len(Untimed(priQueue)) = Len(priQueue) /\ (Untimed(priQueue) = <<>> <=> priQueue = <<>>)
      /\ \A i \in 1 .. Len(priQueue) :
            Untimed(priQueue)[i] = [pkt |-> priQueue[i].pkt, tc |-> priQueue[i].tc]
    BY <1>1, UntimedQueue
<1>3. ASSUME NEW p PROVE Waiting!have(p) = have(p)
    <2>1. ASSUME NEW i \in 1 .. Len(priQueue) PROVE Untimed(priQueue)[i].pkt = priQueue[i].pkt
        BY DEF Untimed
    <2> QED BY <1>2, <2>1 DEF Waiting!have, have
<1>4. ASSUME NEW p \in Packet, NEW delay \in Delay, Delayed(p, delay)
      PROVE  [Waiting!Next]_(Untimed(priQueue))
    <2>1. PICK e \in PendPkt : e = pendPkt(p, now + delay, TC)
        <3>1. now + delay \in Nat /\ TC \in Int
            BY DelayQueueAssumption DEF IInv, TypeOK
        <3> QED BY <3>1 DEF pendPkt, PendPkt
    <2>2. PICK c : c = [pkt |-> p, tc |-> TC] /\ c = [pkt |-> e.pkt, tc |-> e.tc]
        BY <2>1 DEF pendPkt
    <2>3. Waiting!have(p) = {}
        BY <1>3, <1>4 DEF Delayed
    <2>4. CASE priQueue = <<>> /\ priQueue' = <<e>>
        <3>1. Untimed(<<e>>) = <<c>>
            BY <2>2 DEF Untimed
        <3>2. Untimed(priQueue') \in Waiting!InsertedLater(Untimed(priQueue), c)
            BY <1>2, <2>4, <3>1 DEF Waiting!InsertedLater
        <3> QED BY <2>2, <2>3, <3>2 DEF Waiting!Next, Waiting!insert
    <2>5. ASSUME priQueue # <<>>, NEW i \in 1 .. Len(priQueue), priQueue' = InsertAt(priQueue, i, e)
          PROVE  [Waiting!Next]_(Untimed(priQueue))
        <3>1. PICK u : u = Untimed(priQueue) /\ u # <<>> /\ i \in 1 .. Len(u)
            BY <1>2, <2>5
        <3>2. Untimed(priQueue') = SubSeq(u, 1, i - 1) \o <<c>> \o SubSeq(u, i, Len(u))
            BY <1>1, <2>2, <2>5, <3>1, UntimedInsert
        <3>3. Untimed(priQueue') \in Waiting!InsertedLater(u, c)
            BY <3>1, <3>2 DEF Waiting!InsertedLater
        <3> QED BY <2>2, <2>3, <3>1, <3>3 DEF Waiting!Next, Waiting!insert
    <2>6. CASE UNCHANGED priQueue
        BY <2>6
    <2> QED BY <1>4, <2>1, <2>4, <2>5, <2>6 DEF Delayed, insert, Place
<1>5. ASSUME NEW p \in Packet, HeardAgain(p)
      PROVE  [Waiting!Next]_(Untimed(priQueue))
    <2>1. PICK i \in have(p) : priQueue' = [priQueue EXCEPT ![i].tc = @ - 1]
        BY <1>5 DEF HeardAgain
    <2>2. Untimed(priQueue') = [Untimed(priQueue) EXCEPT ![i].tc = @ - 1]
        BY <1>1, <2>1, UntimedHeard DEF have
    <2>3. Waiting!check_and_decrease(p)
        BY <1>3, <2>2 DEF Waiting!check_and_decrease
    <2> QED BY <2>3 DEF Waiting!Next
<1>6. CASE Delayer
    <2>1. priQueue # <<>> /\ priQueue' = Tail(priQueue)
        BY <1>6 DEF Delayer
    <2>2. Untimed(priQueue') = Tail(Untimed(priQueue)) /\ Untimed(priQueue) # <<>>
        BY <1>1, <1>2, <2>1, UntimedTail
    <2> QED BY <2>2 DEF Waiting!Next, Waiting!popAtFront
<1>7. CASE UNCHANGED priQueue
    BY <1>7
<1> QED BY <1>4, <1>5, <1>6, <1>7 DEF Next, vars, Tick, EndOfSimulation

(* delayQueue with its send times and its one timer is the list without    *)
(* times that the networks of nodes use in its place.                      *)
THEOREM WaitingImplemented == Spec => ImplementsWaiting
<1>1. Init => Waiting!Init
    BY DEF Init, Waiting!Init, Untimed
<1>2. IInv /\ [Next]_vars => [Waiting!Next]_(Untimed(priQueue))
    BY WaitingStep
<1> QED BY <1>1, <1>2, DelayQueueInvariance, PTL DEF Spec, ImplementsWaiting, Waiting!Spec
============================================================================
