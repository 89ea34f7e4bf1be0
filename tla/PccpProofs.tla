---------------------------- MODULE PccpProofs ----------------------------
(***************************************************************************)
(* Proofs about Pccp for every number of requests, initial window, limit   *)
(* on retransmissions and resolution of the window, and, in the second     *)
(* part, about PccpTimed for all bounds of the RTO and every horizon of    *)
(* the clock as well.                                                      *)
(***************************************************************************)
EXTENDS PccpTimed, FiniteSetTheorems, TLAPS

(* OnePlace, as a predicate of the three containers. *)
Apart(sent, rq, uq) ==
    /\ Distinct(uq)
    /\ Distinct(rq)
    /\ RangeOf(uq) \cap RangeOf(rq) = {}
    /\ sent \cap (RangeOf(uq) \cup RangeOf(rq)) = {}

(* A request has been issued by the app. *)
Issued(s) == appTimer # "start" /\ s <= content

(* A request kept nowhere, never sent and never timed out. *)
Untouched(s) ==
    /\ s \notin sidToTimerMap
    /\ s \notin RangeOf(unsentSidQueue)
    /\ s \notin RangeOf(rexmitQueue)
    /\ s \notin aborted
    /\ getsSent[s] = 0
    /\ sidRexmitCount[s] = 0

(* Requests not issued yet are untouched. *)
FreshRequests == \A s \in SID : ~Issued(s) => Untouched(s)

(* GetsMatchTimeouts with what makes it inductive: new requests have no    *)
(* GETs and no time-outs yet, a request that is kept has not exceeded the  *)
(* limit, an aborted one is kept nowhere.                                  *)
Accounting ==
    /\ GetsMatchTimeouts
    /\ \A s \in SID :
        /\ s \in RangeOf(unsentSidQueue) => getsSent[s] = 0 /\ sidRexmitCount[s] = 0
        /\ s \in sidToTimerMap \cup RangeOf(rexmitQueue) => sidRexmitCount[s] <= MaxRexmitLimit
        /\ s \in aborted => /\ s \notin sidToTimerMap
                            /\ s \notin RangeOf(unsentSidQueue)
                            /\ s \notin RangeOf(rexmitQueue)

(* The inductive invariant. *)
IInv ==
    /\ TypeOK
    /\ OnePlace
    /\ TimerForEveryRequestInWindow
    /\ NoIdleWindow
    /\ FreshRequests
    /\ Accounting
    /\ KarnMeasurement

----------------------------------------------------------------------------
(* The first n elements of a queue without repetitions are n elements. *)
LEMMA FrontCardinality ==
    ASSUME NEW q \in Seq(SID), Distinct(q), NEW n \in 0 .. Len(q)
    PROVE  /\ IsFiniteSet(Front(q, n))
           /\ Cardinality(Front(q, n)) = n
           /\ Front(q, n) \in SUBSET SID
<1> DEFINE f == [i \in 1 .. n |-> q[i]]
<1>1. f \in Bijection(1 .. n, Front(q, n))
    BY SMT DEF Bijection, Injection, Surjection, IsInjective, Front, Distinct
<1>2. ExistsBijection(1 .. n, Front(q, n))
    BY <1>1 DEF ExistsBijection
<1>3. IsFiniteSet(1 .. n) /\ Cardinality(1 .. n) = n
    BY FS_Interval
<1>4. Front(q, n) \in SUBSET SID
    BY DEF Front
<1> QED BY <1>2, <1>3, <1>4, FS_Bijection

(* The queue split after n elements. *)
LEMMA RestOfQueue ==
    ASSUME NEW q \in Seq(SID), Distinct(q), NEW n \in 0 .. Len(q)
    PROVE  /\ Rest(q, n) \in Seq(SID)
           /\ Distinct(Rest(q, n))
           /\ Rest(q, n) # <<>> => n < Len(q)
           /\ RangeOf(Rest(q, n)) \subseteq RangeOf(q)
           /\ Front(q, n) \subseteq RangeOf(q)
           /\ Front(q, n) \cap RangeOf(Rest(q, n)) = {}
<1> DEFINE r == Rest(q, n)
<1>1. r \in Seq(SID) /\ Len(r) = Len(q) - n
    BY DEF Rest
<1>2. \A i \in 1 .. Len(r) : r[i] = q[n + i]
    BY <1>1 DEF Rest
<1>3. Distinct(r)
    BY <1>1, <1>2 DEF Distinct
<1>4. r # <<>> => n < Len(q)
    BY <1>1
<1>5. \A x : x \in RangeOf(r) <=> \E i \in 1 .. Len(q) - n : x = q[n + i]
    BY <1>1, <1>2 DEF RangeOf
<1>6. \A x : x \in RangeOf(q) <=> \E i \in 1 .. Len(q) : x = q[i]
    BY DEF RangeOf
<1>7. \A x : x \in Front(q, n) <=> \E i \in 1 .. n : x = q[i]
    BY DEF Front
<1>8. RangeOf(r) \subseteq RangeOf(q) /\ Front(q, n) \subseteq RangeOf(q)
    BY <1>5, <1>6, <1>7
<1>9. Front(q, n) \cap RangeOf(r) = {}
    <2> SUFFICES ASSUME NEW x \in Front(q, n), x \in RangeOf(r) PROVE FALSE
        OBVIOUS
    <2>1. PICK i \in 1 .. n : x = q[i]
        BY <1>7
    <2>2. PICK j \in 1 .. Len(q) - n : x = q[n + j]
        BY <1>5
    <2>3. i \in 1 .. Len(q) /\ n + j \in 1 .. Len(q) /\ i # n + j
        BY <1>1
    <2> QED BY <2>1, <2>2, <2>3 DEF Distinct
<1> HIDE DEF r
<1> QED BY <1>1, <1>3, <1>4, <1>8, <1>9 DEF r

(* Requests are numbers below RequestNum, so sets of them are finite. *)
LEMMA SidSetsFinite ==
    ASSUME NEW S \in SUBSET SID
    PROVE  IsFiniteSet(S) /\ Cardinality(S) \in Nat
<1>1. IsFiniteSet(SID)
    BY PccpAssumption, FS_Interval DEF SID
<1>2. IsFiniteSet(S)
    BY <1>1, FS_Subset
<1> QED BY <1>2, FS_CardinalityType

(* How many requests sendRequestsToSocket takes from each queue, and which. *)
FromRexmit(sent, rq, win) == Popped(EffectiveWindow(win, sent), rq)
FromUnsent(sent, rq, uq, win) ==
    Popped(EffectiveWindow(win, sent) - FromRexmit(sent, rq, win), uq)
Sending(sent, rq, uq, win) ==
    Front(rq, FromRexmit(sent, rq, win)) \cup Front(uq, FromUnsent(sent, rq, uq, win))

(* The arithmetic of the two loops. *)
LEMMA PoppedBounds ==
    ASSUME NEW sent \in SUBSET SID, NEW rq \in Seq(SID), NEW uq \in Seq(SID), NEW win \in Nat
    PROVE  LET eff == EffectiveWindow(win, sent)
               k   == FromRexmit(sent, rq, win)
               j   == FromUnsent(sent, rq, uq, win)
           IN  /\ eff \in Int
               /\ win \div Scale \in Nat
               /\ Cardinality(sent) \in Nat
               /\ eff = (win \div Scale) - Cardinality(sent)
               /\ k \in 0 .. Len(rq)
               /\ j \in 0 .. Len(uq)
               /\ (k < Len(rq) \/ j < Len(uq)) => (eff <= k + j)
               /\ k + j > 0 => k + j <= eff
<1>1. Cardinality(sent) \in Nat
    BY SidSetsFinite
<1>2. win \div Scale \in Nat
    BY PccpAssumption
<1> DEFINE eff == EffectiveWindow(win, sent)
<1>3. eff \in Int /\ eff = (win \div Scale) - Cardinality(sent)
    BY <1>1, <1>2 DEF EffectiveWindow
<1>4. Len(rq) \in Nat /\ Len(uq) \in Nat
    OBVIOUS
<1> HIDE DEF eff
<1> DEFINE k == Popped(eff, rq)
<1>5. k \in 0 .. Len(rq) /\ (k < Len(rq) => eff <= k) /\ (k > 0 => k <= eff)
    BY <1>3, <1>4 DEF Popped
<1> HIDE DEF k
<1> DEFINE j == Popped(eff - k, uq)
<1>6. j \in 0 .. Len(uq) /\ (j < Len(uq) => eff - k <= j) /\ (j > 0 => j <= eff - k)
    BY <1>3, <1>4, <1>5 DEF Popped
<1> HIDE DEF j
<1>7. (k < Len(rq) \/ j < Len(uq)) => (eff <= k + j)
    BY <1>3, <1>4, <1>5, <1>6
<1>8. k + j > 0 => k + j <= eff
    BY <1>3, <1>4, <1>5, <1>6
<1> QED BY <1>1, <1>2, <1>3, <1>5, <1>6, <1>7, <1>8 DEF eff, k, j, FromRexmit, FromUnsent

(* What sendRequestsToSocket makes of three containers that are apart. *)
LEMMA FillWindow ==
    ASSUME NEW sent \in SUBSET SID, NEW rq \in Seq(SID), NEW uq \in Seq(SID), NEW win \in Nat,
           Apart(sent, rq, uq)
    PROVE  LET k   == FromRexmit(sent, rq, win)
               j   == FromUnsent(sent, rq, uq, win)
               out == Sending(sent, rq, uq, win)
           IN  /\ out \in SUBSET SID
               /\ Rest(rq, k) \in Seq(SID)
               /\ Rest(uq, j) \in Seq(SID)
               /\ Apart(sent \cup out, Rest(rq, k), Rest(uq, j))
               /\ RangeOf(Rest(rq, k)) \subseteq RangeOf(rq)
               /\ RangeOf(Rest(uq, j)) \subseteq RangeOf(uq)
               /\ out \subseteq RangeOf(rq) \cup RangeOf(uq)
               /\ out \cap sent = {}
               /\ j > 0 => uq[1] \in out /\ uq[1] \in RangeOf(uq)
               /\ (Rest(rq, k) # <<>> \/ Rest(uq, j) # <<>>)
                      => Cardinality(sent \cup out) >= win \div Scale
               /\ Cardinality(sent \cup out) > Cardinality(sent)
                      => Cardinality(sent \cup out) <= win \div Scale
<1> DEFINE eff == EffectiveWindow(win, sent)
           k   == FromRexmit(sent, rq, win)
           j   == FromUnsent(sent, rq, uq, win)
           fr  == Front(rq, k)
           fu  == Front(uq, j)
           out == Sending(sent, rq, uq, win)
<1>1. /\ eff \in Int
      /\ win \div Scale \in Nat
      /\ Cardinality(sent) \in Nat
      /\ eff = (win \div Scale) - Cardinality(sent)
      /\ k \in 0 .. Len(rq)
      /\ j \in 0 .. Len(uq)
      /\ (k < Len(rq) \/ j < Len(uq)) => (eff <= k + j)
      /\ k + j > 0 => k + j <= eff
    BY PoppedBounds
<1>2. out = fr \cup fu
    BY DEF Sending
<1> HIDE DEF eff, k, j, out
<1>3. /\ IsFiniteSet(fr) /\ Cardinality(fr) = k /\ fr \in SUBSET SID
      /\ IsFiniteSet(fu) /\ Cardinality(fu) = j /\ fu \in SUBSET SID
    BY <1>1, FrontCardinality DEF Apart
<1>4. /\ Rest(rq, k) \in Seq(SID)
      /\ Distinct(Rest(rq, k))
      /\ Rest(rq, k) # <<>> => k < Len(rq)
      /\ RangeOf(Rest(rq, k)) \subseteq RangeOf(rq)
      /\ fr \subseteq RangeOf(rq)
      /\ fr \cap RangeOf(Rest(rq, k)) = {}
    BY <1>1, RestOfQueue DEF Apart
<1>5. /\ Rest(uq, j) \in Seq(SID)
      /\ Distinct(Rest(uq, j))
      /\ Rest(uq, j) # <<>> => j < Len(uq)
      /\ RangeOf(Rest(uq, j)) \subseteq RangeOf(uq)
      /\ fu \subseteq RangeOf(uq)
      /\ fu \cap RangeOf(Rest(uq, j)) = {}
    BY <1>1, RestOfQueue DEF Apart
<1>6. j > 0 => uq[1] \in fu
    BY <1>1 DEF Front
<1> HIDE DEF fr, fu
<1>7. fr \cap fu = {} /\ out \cap sent = {}
    BY <1>2, <1>4, <1>5 DEF Apart
<1>8. Apart(sent \cup out, Rest(rq, k), Rest(uq, j))
    BY <1>2, <1>4, <1>5 DEF Apart
<1>9. IsFiniteSet(out) /\ Cardinality(out) = k + j
    <2>1. Cardinality(fr \cap fu) = 0
        BY <1>7, FS_EmptySet
    <2>2. IsFiniteSet(fr \cup fu)
          /\ Cardinality(fr \cup fu) = Cardinality(fr) + Cardinality(fu) - Cardinality(fr \cap fu)
        BY <1>3, FS_Union
    <2> QED BY <2>1, <2>2, <1>1, <1>2, <1>3
<1>10. Cardinality(sent \cup out) = Cardinality(sent) + k + j
    <2>1. IsFiniteSet(sent)
        BY SidSetsFinite
    <2>2. sent \cap out = {}
        BY <1>7
    <2>3. Cardinality(sent \cap out) = 0
        BY <2>2, FS_EmptySet
    <2>4. Cardinality(sent \cup out) = Cardinality(sent) + Cardinality(out) - Cardinality(sent \cap out)
        BY <2>1, <1>9, FS_Union
    <2> QED BY <2>3, <2>4, <1>1, <1>9
<1>11. (Rest(rq, k) # <<>> \/ Rest(uq, j) # <<>>)
           => Cardinality(sent \cup out) >= win \div Scale
    BY <1>1, <1>4, <1>5, <1>10
<1>12. Cardinality(sent \cup out) > Cardinality(sent)
           => Cardinality(sent \cup out) <= win \div Scale
    BY <1>1, <1>10
<1>13. out \in SUBSET SID /\ out \subseteq RangeOf(rq) \cup RangeOf(uq)
    BY <1>2, <1>3, <1>4, <1>5
<1>14. j > 0 => uq[1] \in out /\ uq[1] \in RangeOf(uq)
    BY <1>2, <1>5, <1>6
<1> QED BY <1>4, <1>5, <1>7, <1>8, <1>11, <1>12, <1>13, <1>14 DEF k, j, out

----------------------------------------------------------------------------
(***************************************************************************)
(* The books PccpAlg keeps, as a predicate of the containers, the counters *)
(* and the measurement: a handler first makes a change that keeps them in  *)
(* order, and sendRequestsToSocket, called last, keeps them in order too.  *)
(***************************************************************************)
Books(sent, rq, uq, cnt, gets, abt, rt) ==
    /\ Apart(sent, rq, uq)
    /\ \A s \in SID :
        /\ s \in sent => gets[s] = cnt[s] + 1
        /\ s \in RangeOf(rq) => gets[s] = cnt[s]
        /\ s \in RangeOf(uq) => gets[s] = 0 /\ cnt[s] = 0
        /\ s \in sent \cup RangeOf(rq) => cnt[s] <= MaxRexmitLimit
        /\ s \in abt => gets[s] = MaxRexmitLimit + 1
        /\ s \in abt => s \notin sent \cup RangeOf(rq) \cup RangeOf(uq)
    /\ rt # NoMeasurement => rt \in sent /\ gets[rt] = 1

LEMMA BooksEquivalence ==
    (OnePlace /\ Accounting /\ KarnMeasurement)
        <=> Books(sidToTimerMap, rexmitQueue, unsentSidQueue, sidRexmitCount,
                  getsSent, aborted, rtsid)
BY DEF OnePlace, Accounting, GetsMatchTimeouts, KarnMeasurement, Books, Apart

(* Appending a request that is not in a queue. *)
LEMMA AppendToQueue ==
    ASSUME NEW q \in Seq(SID), Distinct(q), NEW s \in SID, s \notin RangeOf(q)
    PROVE  /\ Append(q, s) \in Seq(SID)
           /\ Distinct(Append(q, s))
           /\ RangeOf(Append(q, s)) = RangeOf(q) \cup {s}
           /\ Append(q, s) # <<>>
<1> DEFINE r == Append(q, s)
<1>1. /\ r \in Seq(SID) /\ Len(r) = Len(q) + 1
      /\ \A i \in 1 .. Len(q) : r[i] = q[i]
      /\ r[Len(q) + 1] = s
      /\ r # <<>>
    OBVIOUS
<1>2. Len(q) \in Nat
    OBVIOUS
<1> HIDE DEF r
<1>3. \A i \in 1 .. Len(q) : q[i] # s
    BY DEF RangeOf
<1>4. Distinct(r)
    BY <1>1, <1>2, <1>3 DEF Distinct
<1>5. \A x : x \in RangeOf(r) <=> x \in RangeOf(q) \/ x = s
    <2>1. \A x : x \in RangeOf(r) <=> \E i \in 1 .. Len(q) + 1 : x = r[i]
        BY <1>1 DEF RangeOf
    <2>2. \A x : x \in RangeOf(q) <=> \E i \in 1 .. Len(q) : x = q[i]
        BY DEF RangeOf
    <2> QED BY <1>1, <1>2, <2>1, <2>2
<1>6. RangeOf(r) = RangeOf(q) \cup {s}
    BY <1>5
<1> QED BY <1>1, <1>4, <1>6 DEF r

(* sendRequestsToSocket keeps the books in order. *)
LEMMA FillKeepsBooks ==
    ASSUME NEW sent \in SUBSET SID, NEW rq \in Seq(SID), NEW uq \in Seq(SID), NEW win \in Nat,
           NEW cnt \in [SID -> Nat], NEW gets \in [SID -> Nat], NEW abt \in SUBSET SID,
           NEW rt \in SID \cup {NoMeasurement},
           NEW rt2 \in MeasurementAfter(rt, uq, FromUnsent(sent, rq, uq, win)),
           Books(sent, rq, uq, cnt, gets, abt, rt)
    PROVE  LET k     == FromRexmit(sent, rq, win)
               j     == FromUnsent(sent, rq, uq, win)
               out   == Sending(sent, rq, uq, win)
               gets2 == [s \in SID |-> IF s \in out THEN gets[s] + 1 ELSE gets[s]]
           IN  /\ Books(sent \cup out, Rest(rq, k), Rest(uq, j), cnt, gets2, abt, rt2)
               /\ gets2 \in [SID -> Nat]
               /\ rt2 \in SID \cup {NoMeasurement}
<1> DEFINE k     == FromRexmit(sent, rq, win)
           j     == FromUnsent(sent, rq, uq, win)
           out   == Sending(sent, rq, uq, win)
           gets2 == [s \in SID |-> IF s \in out THEN gets[s] + 1 ELSE gets[s]]
<1>0. Apart(sent, rq, uq)
    BY DEF Books
<1>1. /\ out \in SUBSET SID
      /\ Apart(sent \cup out, Rest(rq, k), Rest(uq, j))
      /\ RangeOf(Rest(rq, k)) \subseteq RangeOf(rq)
      /\ RangeOf(Rest(uq, j)) \subseteq RangeOf(uq)
      /\ out \subseteq RangeOf(rq) \cup RangeOf(uq)
      /\ out \cap sent = {}
      /\ j > 0 => uq[1] \in out /\ uq[1] \in RangeOf(uq)
    BY <1>0, FillWindow
<1>r. rt2 = rt \/ (rt = NoMeasurement /\ j > 0 /\ rt2 \in {uq[1], NoMeasurement})
    BY DEF MeasurementAfter
<1> HIDE DEF k, j, out
<1>2. gets2 \in [SID -> Nat] /\ \A s \in SID : gets2[s] = IF s \in out THEN gets[s] + 1 ELSE gets[s]
    OBVIOUS
<1> HIDE DEF gets2
<1>3. /\ out \cap RangeOf(Rest(rq, k)) = {}
      /\ out \cap RangeOf(Rest(uq, j)) = {}
    BY <1>1 DEF Apart
<1>4. ASSUME NEW s \in SID
      PROVE  /\ s \in sent \cup out => gets2[s] = cnt[s] + 1
             /\ s \in RangeOf(Rest(rq, k)) => gets2[s] = cnt[s]
             /\ s \in RangeOf(Rest(uq, j)) => gets2[s] = 0 /\ cnt[s] = 0
             /\ s \in (sent \cup out) \cup RangeOf(Rest(rq, k)) => cnt[s] <= MaxRexmitLimit
             /\ s \in abt => gets2[s] = MaxRexmitLimit + 1
             /\ s \in abt => s \notin (sent \cup out) \cup RangeOf(Rest(rq, k)) \cup RangeOf(Rest(uq, j))
    BY <1>1, <1>2, <1>3, <1>4, PccpAssumption DEF Books
<1>5. rt2 # NoMeasurement => rt2 \in sent \cup out /\ gets2[rt2] = 1
    <2>1. CASE rt = NoMeasurement /\ j > 0 /\ rt2 \in {uq[1], NoMeasurement}
        BY <2>1, <1>1, <1>2 DEF Books
    <2>2. CASE rt2 = rt
        BY <2>2, <1>1, <1>2 DEF Books
    <2> QED BY <1>r, <2>1, <2>2
<1>6. rt2 \in SID \cup {NoMeasurement}
    BY <1>1, <1>r
<1>7. Books(sent \cup out, Rest(rq, k), Rest(uq, j), cnt, gets2, abt, rt2)
    BY <1>1, <1>4, <1>5 DEF Books
<1> QED BY <1>2, <1>6, <1>7 DEF k, j, out, gets2

----------------------------------------------------------------------------
(* The part of the invariant sendRequestsToSocket is responsible for. *)
SendInv ==
    /\ unsentSidQueue \in Seq(SID)
    /\ rexmitQueue \in Seq(SID)
    /\ sidToTimerMap \in SUBSET SID
    /\ rexmitTimers \in SUBSET SID
    /\ rtsid \in SID \cup {NoMeasurement}
    /\ getsSent \in [SID -> Nat]
    /\ SIDtoSockets \in SUBSET SID
    /\ TimerForEveryRequestInWindow
    /\ NoIdleWindow
    /\ OnePlace
    /\ Accounting
    /\ KarnMeasurement

(* What sendRequestsToSocket, called on containers whose books are in      *)
(* order, leaves.                                                          *)
LEMMA FillStep ==
    ASSUME NEW sent \in SUBSET SID, NEW rq \in Seq(SID), NEW uq \in Seq(SID), NEW win \in Nat,
           NEW rt \in SID \cup {NoMeasurement},
           getsSent \in [SID -> Nat], SIDtoSockets \in SUBSET SID,
           sidRexmitCount' \in [SID -> Nat], aborted' \in SUBSET SID, window' = win,
           Books(sent, rq, uq, sidRexmitCount', getsSent, aborted', rt),
           rexmitQueue' = Rest(rq, FromRexmit(sent, rq, win)),
           unsentSidQueue' = Rest(uq, FromUnsent(sent, rq, uq, win)),
           sidToTimerMap' = sent \cup Sending(sent, rq, uq, win),
           rexmitTimers' = sent \cup Sending(sent, rq, uq, win),
           rtsid' \in MeasurementAfter(rt, uq, FromUnsent(sent, rq, uq, win)),
           SIDtoSockets' = SIDtoSockets \cup Sending(sent, rq, uq, win),
           getsSent' = [s \in SID |-> IF s \in Sending(sent, rq, uq, win)
                                        THEN getsSent[s] + 1 ELSE getsSent[s]]
    PROVE  /\ SendInv'
           /\ Cardinality(sidToTimerMap') > Cardinality(sent)
                  => Cardinality(sidToTimerMap') <= window' \div Scale
           /\ \A t \in SID : /\ t \notin sent \cup RangeOf(rq) \cup RangeOf(uq) \cup aborted'
                             /\ getsSent[t] = 0
                             /\ sidRexmitCount'[t] = 0
                             => Untouched(t)'
<1> DEFINE k == FromRexmit(sent, rq, win)
           j == FromUnsent(sent, rq, uq, win)
           out == Sending(sent, rq, uq, win)
           gets2 == [s \in SID |-> IF s \in out THEN getsSent[s] + 1 ELSE getsSent[s]]
<1>1. /\ Books(sent \cup out, Rest(rq, k), Rest(uq, j), sidRexmitCount', gets2, aborted', rtsid')
      /\ gets2 \in [SID -> Nat]
      /\ rtsid' \in SID \cup {NoMeasurement}
    BY FillKeepsBooks
<1>2. OnePlace' /\ Accounting' /\ KarnMeasurement'
    BY <1>1 DEF Books, Apart, OnePlace, Accounting, GetsMatchTimeouts, KarnMeasurement
<1>3. Apart(sent, rq, uq)
    BY DEF Books
<1>4. /\ out \in SUBSET SID
      /\ Rest(rq, k) \in Seq(SID)
      /\ Rest(uq, j) \in Seq(SID)
      /\ RangeOf(Rest(rq, k)) \subseteq RangeOf(rq)
      /\ RangeOf(Rest(uq, j)) \subseteq RangeOf(uq)
      /\ out \subseteq RangeOf(rq) \cup RangeOf(uq)
      /\ (Rest(rq, k) # <<>> \/ Rest(uq, j) # <<>>)
             => Cardinality(sent \cup out) >= win \div Scale
      /\ Cardinality(sent \cup out) > Cardinality(sent)
             => Cardinality(sent \cup out) <= win \div Scale
    BY <1>3, FillWindow
<1> HIDE DEF k, j, out
<1>5. TimerForEveryRequestInWindow' /\ NoIdleWindow'
    BY <1>4 DEF TimerForEveryRequestInWindow, NoIdleWindow, k, j, out
<1>6. ASSUME NEW t \in SID, t \notin sent \cup RangeOf(rq) \cup RangeOf(uq) \cup aborted',
             getsSent[t] = 0, sidRexmitCount'[t] = 0
      PROVE  Untouched(t)'
    BY <1>4, <1>6 DEF Untouched, k, j, out
<1>7. /\ unsentSidQueue' \in Seq(SID) /\ rexmitQueue' \in Seq(SID)
      /\ sidToTimerMap' \in SUBSET SID /\ rexmitTimers' \in SUBSET SID
      /\ SIDtoSockets' \in SUBSET SID
      /\ rtsid' \in SID \cup {NoMeasurement} /\ getsSent' \in [SID -> Nat]
    BY <1>1, <1>4 DEF k, j, out
<1> QED BY <1>2, <1>4, <1>5, <1>6, <1>7 DEF SendInv, out

(* PccpAlg::sendRequest of a request not issued before. *)
LEMMA SendRequestStep ==
    ASSUME IInv, NEW c \in SID, Untouched(c), sendRequest(c)
    PROVE  /\ SendInv'
           /\ Cardinality(sidToTimerMap') > Cardinality(sidToTimerMap)
                  => Cardinality(sidToTimerMap') <= window' \div Scale
           /\ \A t \in SID \ {c} : Untouched(t) => Untouched(t)'
<1> DEFINE uq == Append(unsentSidQueue, c)
<1> USE DEF IInv
<1>1. Books(sidToTimerMap, rexmitQueue, unsentSidQueue, sidRexmitCount, getsSent, aborted, rtsid)
    BY BooksEquivalence
<1>2. uq \in Seq(SID) /\ Distinct(uq) /\ RangeOf(uq) = RangeOf(unsentSidQueue) \cup {c}
    BY AppendToQueue DEF TypeOK, OnePlace, Untouched
<1>3. UNCHANGED <<sidRexmitCount, window, aborted>> /\ TypeOK /\ rexmitTimers = sidToTimerMap
    BY DEF sendRequest, TimerForEveryRequestInWindow
<1> DEFINE out == Sending(sidToTimerMap, rexmitQueue, uq, window)
<1>4. /\ rexmitQueue' = Rest(rexmitQueue, FromRexmit(sidToTimerMap, rexmitQueue, window))
      /\ unsentSidQueue' = Rest(uq, FromUnsent(sidToTimerMap, rexmitQueue, uq, window))
      /\ sidToTimerMap' = sidToTimerMap \cup out
      /\ rexmitTimers' = sidToTimerMap \cup out
      /\ rtsid' \in MeasurementAfter(rtsid, uq, FromUnsent(sidToTimerMap, rexmitQueue, uq, window))
      /\ SIDtoSockets' = SIDtoSockets \cup out
      /\ getsSent' = [s \in SID |-> IF s \in out THEN getsSent[s] + 1 ELSE getsSent[s]]
    BY <1>3 DEF sendRequest, sendRequestsToSocket, FromRexmit, FromUnsent, Sending
<1> HIDE DEF uq
<1>5. Books(sidToTimerMap, rexmitQueue, uq, sidRexmitCount', getsSent, aborted', rtsid)
    BY <1>1, <1>2, <1>3 DEF Books, Apart, Untouched
<1>6. /\ SendInv'
      /\ Cardinality(sidToTimerMap') > Cardinality(sidToTimerMap)
             => Cardinality(sidToTimerMap') <= window' \div Scale
      /\ \A t \in SID : /\ t \notin sidToTimerMap \cup RangeOf(rexmitQueue) \cup RangeOf(uq) \cup aborted'
                        /\ getsSent[t] = 0
                        /\ sidRexmitCount'[t] = 0
                        => Untouched(t)'
    <2>1. /\ sidToTimerMap \in SUBSET SID /\ rexmitQueue \in Seq(SID) /\ uq \in Seq(SID)
          /\ window \in Nat /\ rtsid \in SID \cup {NoMeasurement}
          /\ getsSent \in [SID -> Nat] /\ SIDtoSockets \in SUBSET SID
          /\ sidRexmitCount' \in [SID -> Nat] /\ aborted' \in SUBSET SID /\ window' = window
        BY <1>2, <1>3 DEF TypeOK
    <2> HIDE DEF IInv
    <2> QED BY <2>1, <1>4, <1>5, FillStep
<1>7. ASSUME NEW t \in SID \ {c}, Untouched(t) PROVE Untouched(t)'
    BY <1>2, <1>3, <1>6, <1>7 DEF Untouched
<1> QED BY <1>6, <1>7

(* The adjusted window is a window of at least one request. *)
LEMMA WindowAtLeastOne ==
    ASSUME NEW w \in Nat, w >= Scale, NEW cl \in PccpClCode, NEW halve \in BOOLEAN
    PROVE  AdjustWindow(w, cl, halve) \in Nat /\ AdjustWindow(w, cl, halve) >= Scale
<1>1. Scale \in Nat /\ Scale > 0 /\ w > 0
    BY PccpAssumption
<1>2. /\ (Scale * Scale) \div w \in Int /\ (Scale * Scale) \div (2 * w) \in Int
      /\ w \div 2 \in Int
    <2>1. Scale * Scale \in Int /\ 2 * w \in Int /\ 2 * w > 0
        BY <1>1
    <2> DEFINE a == Scale * Scale
    <2>2. a \in Int
        BY <2>1
    <2> HIDE DEF a
    <2>3. a \div w \in Int /\ a \div (2 * w) \in Int
        BY <2>1, <2>2, <1>1
    <2> QED BY <2>3 DEF a
<1> DEFINE adjusted == AdjustWindowUnclamped(w, cl, halve)
<1>3. adjusted \in Int
    BY <1>2 DEF AdjustWindowUnclamped, PccpClCode
<1> HIDE DEF adjusted
<1>4. VeryLargeWindow * Scale \in Nat /\ VeryLargeWindow * Scale >= Scale
    BY PccpAssumption
<1>5. AdjustWindow(w, cl, halve) = IF ~CongestionControlEnabled THEN VeryLargeWindow * Scale
                                   ELSE IF adjusted < Scale THEN Scale ELSE adjusted
    BY DEF AdjustWindow, adjusted
<1> QED BY <1>1, <1>3, <1>4, <1>5

(* processRexmitTimer beyond the limit. *)
LEMMA AbortStep ==
    ASSUME IInv, NEW s \in SID, s \in rexmitTimers,
           increaseRexmitCount(s)[s] > MaxRexmitLimit, AbortRequest(s)
    PROVE  /\ SendInv'
           /\ Cardinality(sidToTimerMap') > Cardinality(sidToTimerMap \ {s})
                  => Cardinality(sidToTimerMap') <= window' \div Scale
           /\ \A t \in SID : Untouched(t) => Untouched(t)'
<1> DEFINE sent == sidToTimerMap \ {s}
           rt == CancelMeasurement(s)
           out == Sending(sent, rexmitQueue, unsentSidQueue, window)
<1> USE DEF IInv
<1>1. Books(sidToTimerMap, rexmitQueue, unsentSidQueue, sidRexmitCount, getsSent, aborted, rtsid)
    BY BooksEquivalence
<1>2. /\ TypeOK /\ rexmitTimers = sidToTimerMap /\ s \in sidToTimerMap
      /\ sidRexmitCount' = [sidRexmitCount EXCEPT ![s] = @ + 1]
      /\ sidRexmitCount[s] + 1 > MaxRexmitLimit
      /\ aborted' = aborted \cup {s} /\ window' = window
    BY DEF AbortRequest, TimerForEveryRequestInWindow, increaseRexmitCount, TypeOK
<1>3. /\ rexmitQueue' = Rest(rexmitQueue, FromRexmit(sent, rexmitQueue, window))
      /\ unsentSidQueue' = Rest(unsentSidQueue, FromUnsent(sent, rexmitQueue, unsentSidQueue, window))
      /\ sidToTimerMap' = sent \cup out
      /\ rexmitTimers' = sent \cup out
      /\ rtsid' \in MeasurementAfter(rt, unsentSidQueue,
                                   FromUnsent(sent, rexmitQueue, unsentSidQueue, window))
      /\ SIDtoSockets' = SIDtoSockets \cup out
      /\ getsSent' = [t \in SID |-> IF t \in out THEN getsSent[t] + 1 ELSE getsSent[t]]
    BY <1>2 DEF AbortRequest, sendRequestsToSocket, FromRexmit, FromUnsent, Sending
<1>4. rt \in SID \cup {NoMeasurement} /\ (rt # NoMeasurement => rt = rtsid /\ rt # s)
    BY <1>2 DEF CancelMeasurement, TypeOK
<1> HIDE DEF rt
<1>5. Books(sent, rexmitQueue, unsentSidQueue, sidRexmitCount', getsSent, aborted', rt)
    BY <1>1, <1>2, <1>4, PccpAssumption DEF Books, Apart, TypeOK
<1>6. /\ sent \in SUBSET SID /\ rexmitQueue \in Seq(SID) /\ unsentSidQueue \in Seq(SID)
      /\ window \in Nat /\ rt \in SID \cup {NoMeasurement}
      /\ getsSent \in [SID -> Nat] /\ SIDtoSockets \in SUBSET SID
      /\ sidRexmitCount' \in [SID -> Nat] /\ aborted' \in SUBSET SID /\ window' = window
    BY <1>2, <1>4 DEF TypeOK
<1> HIDE DEF sent, IInv
<1>7. /\ SendInv'
      /\ Cardinality(sidToTimerMap') > Cardinality(sent)
             => Cardinality(sidToTimerMap') <= window' \div Scale
      /\ \A t \in SID :
            /\ t \notin sent \cup RangeOf(rexmitQueue) \cup RangeOf(unsentSidQueue) \cup aborted'
            /\ getsSent[t] = 0
            /\ sidRexmitCount'[t] = 0
            => Untouched(t)'
    BY <1>3, <1>5, <1>6, FillStep
<1>8. ASSUME NEW t \in SID, Untouched(t) PROVE Untouched(t)'
    BY <1>2, <1>6, <1>7, <1>8 DEF Untouched, TypeOK, sent
<1> QED BY <1>7, <1>8 DEF sent

(* dataReceived, for a request in the window or not. *)
LEMMA DataStep ==
    ASSUME IInv, NEW s \in SID, NEW cl \in PccpClCode, NEW halve \in BOOLEAN,
           DataReceived(s, cl, halve)
    PROVE  /\ SendInv'
           /\ window' \in Nat /\ window' >= Scale
           /\ Cardinality(sidToTimerMap') > Cardinality(sidToTimerMap \ {s})
                  => Cardinality(sidToTimerMap') <= window' \div Scale
           /\ \A t \in SID : Untouched(t) => Untouched(t)'
<1> DEFINE sent == sidToTimerMap \ {s}
           rt == CancelMeasurement(s)
           win == window'
           out == Sending(sent, rexmitQueue, unsentSidQueue, win)
<1> USE DEF IInv
<1>1. Books(sidToTimerMap, rexmitQueue, unsentSidQueue, sidRexmitCount, getsSent, aborted, rtsid)
    BY BooksEquivalence
<1>2. /\ TypeOK /\ rexmitTimers = sidToTimerMap
      /\ sidRexmitCount' = sidRexmitCount
      /\ aborted' = aborted
      /\ win = AdjustWindow(window, cl, halve)
    BY DEF DataReceived, TimerForEveryRequestInWindow
<1>3. /\ rexmitQueue' = Rest(rexmitQueue, FromRexmit(sent, rexmitQueue, win))
      /\ unsentSidQueue' = Rest(unsentSidQueue, FromUnsent(sent, rexmitQueue, unsentSidQueue, win))
      /\ sidToTimerMap' = sent \cup out
      /\ rexmitTimers' = sent \cup out
      /\ rtsid' \in MeasurementAfter(rt, unsentSidQueue,
                                   FromUnsent(sent, rexmitQueue, unsentSidQueue, win))
      /\ SIDtoSockets' = SIDtoSockets \cup out
      /\ getsSent' = [t \in SID |-> IF t \in out THEN getsSent[t] + 1 ELSE getsSent[t]]
    BY <1>2 DEF DataReceived, sendRequestsToSocket, FromRexmit, FromUnsent, Sending
<1>4. rt \in SID \cup {NoMeasurement} /\ (rt # NoMeasurement => rt = rtsid /\ rt # s)
    BY <1>2 DEF CancelMeasurement, TypeOK
<1>w. win \in Nat /\ win >= Scale
    BY <1>2, WindowAtLeastOne DEF TypeOK
<1> HIDE DEF rt
<1>5. Books(sent, rexmitQueue, unsentSidQueue, sidRexmitCount', getsSent, aborted', rt)
    BY <1>1, <1>2, <1>4 DEF Books, Apart, TypeOK
<1>6. /\ sent \in SUBSET SID /\ rexmitQueue \in Seq(SID) /\ unsentSidQueue \in Seq(SID)
      /\ win \in Nat /\ rt \in SID \cup {NoMeasurement}
      /\ getsSent \in [SID -> Nat] /\ SIDtoSockets \in SUBSET SID
      /\ sidRexmitCount' \in [SID -> Nat] /\ aborted' \in SUBSET SID /\ window' = win
    BY <1>2, <1>4, <1>w DEF TypeOK
<1> HIDE DEF sent, IInv
<1>7. /\ SendInv'
      /\ Cardinality(sidToTimerMap') > Cardinality(sent)
             => Cardinality(sidToTimerMap') <= window' \div Scale
      /\ \A t \in SID :
            /\ t \notin sent \cup RangeOf(rexmitQueue) \cup RangeOf(unsentSidQueue) \cup aborted'
            /\ getsSent[t] = 0
            /\ sidRexmitCount'[t] = 0
            => Untouched(t)'
    BY <1>3, <1>5, <1>6, FillStep
<1>8. ASSUME NEW t \in SID, Untouched(t) PROVE Untouched(t)'
    BY <1>2, <1>6, <1>7, <1>8 DEF Untouched, TypeOK, sent
<1> QED BY <1>7, <1>8, <1>w DEF sent

(* retransmitRequest when the window has shrunk. *)
LEMMA PostponeStep ==
    ASSUME IInv, NEW s \in SID, s \in rexmitTimers,
           increaseRexmitCount(s)[s] <= MaxRexmitLimit,
           EffectiveWindow(window, sidToTimerMap) < 0,
           PostponeRetransmission(s)
    PROVE  /\ SendInv'
           /\ \A t \in SID : Untouched(t) => Untouched(t)'
<1> DEFINE rq == Append(rexmitQueue, s)
<1> USE DEF IInv
<1>1. Books(sidToTimerMap, rexmitQueue, unsentSidQueue, sidRexmitCount, getsSent, aborted, rtsid)
    BY BooksEquivalence
<1>2. /\ TypeOK /\ rexmitTimers = sidToTimerMap /\ s \in sidToTimerMap
      /\ sidRexmitCount' = [sidRexmitCount EXCEPT ![s] = @ + 1]
      /\ sidRexmitCount[s] + 1 <= MaxRexmitLimit
      /\ sidToTimerMap' = sidToTimerMap \ {s}
      /\ rexmitTimers' = sidToTimerMap \ {s}
      /\ rexmitQueue' = rq
      /\ rtsid' = IF rtsid = s THEN NoMeasurement ELSE rtsid
      /\ UNCHANGED <<unsentSidQueue, window, SIDtoSockets, getsSent, aborted>>
    BY DEF PostponeRetransmission, sendNothing, TimerForEveryRequestInWindow,
           increaseRexmitCount, TypeOK, CancelMeasurement
<1>3. rq \in Seq(SID) /\ Distinct(rq) /\ RangeOf(rq) = RangeOf(rexmitQueue) \cup {s}
    BY <1>1, <1>2, AppendToQueue DEF TypeOK, Books, Apart
<1> HIDE DEF rq
<1>4. Books(sidToTimerMap', rexmitQueue', unsentSidQueue', sidRexmitCount', getsSent', aborted', rtsid')
    BY <1>1, <1>2, <1>3 DEF Books, Apart, TypeOK
<1>5. OnePlace' /\ Accounting' /\ KarnMeasurement'
    BY <1>4 DEF Books, Apart, OnePlace, Accounting, GetsMatchTimeouts, KarnMeasurement
<1>6. NoIdleWindow'
    <2>1. IsFiniteSet(sidToTimerMap) /\ Cardinality(sidToTimerMap) \in Nat
        BY <1>2, SidSetsFinite DEF TypeOK
    <2>2. Cardinality(sidToTimerMap \ {s}) = Cardinality(sidToTimerMap) - 1
        BY <1>2, <2>1, FS_RemoveElement
    <2>3. window \div Scale \in Nat
        <3>1. window \in Nat /\ Scale \in Nat /\ Scale > 0
            BY <1>2, PccpAssumption DEF TypeOK
        <3> QED BY <3>1
    <2>4. window \div Scale - Cardinality(sidToTimerMap) < 0
        BY DEF EffectiveWindow
    <2>5. Cardinality(sidToTimerMap') >= window' \div Scale
        BY <1>2, <2>1, <2>2, <2>3, <2>4
    <2> QED BY <2>5 DEF NoIdleWindow
<1>7. TimerForEveryRequestInWindow'
    BY <1>2 DEF TimerForEveryRequestInWindow
<1>8. ASSUME NEW t \in SID, Untouched(t) PROVE Untouched(t)'
    BY <1>2, <1>3, <1>8 DEF Untouched, TypeOK
<1> QED BY <1>2, <1>3, <1>5, <1>6, <1>7, <1>8 DEF SendInv, TypeOK

(* retransmitRequest when it sends. *)
LEMMA RetransmitStep ==
    ASSUME IInv, NEW s \in SID, s \in rexmitTimers,
           increaseRexmitCount(s)[s] <= MaxRexmitLimit, Retransmit(s)
    PROVE  /\ SendInv'
           /\ \A t \in SID : Untouched(t) => Untouched(t)'
<1> USE DEF IInv
<1>1. Books(sidToTimerMap, rexmitQueue, unsentSidQueue, sidRexmitCount, getsSent, aborted, rtsid)
    BY BooksEquivalence
<1>2. /\ TypeOK /\ rexmitTimers = sidToTimerMap /\ s \in sidToTimerMap
      /\ sidRexmitCount' = [sidRexmitCount EXCEPT ![s] = @ + 1]
      /\ getsSent' = [getsSent EXCEPT ![s] = @ + 1]
      /\ sidRexmitCount[s] + 1 <= MaxRexmitLimit
      /\ SIDtoSockets' = SIDtoSockets \cup {s}
      /\ rtsid' = IF rtsid = s THEN NoMeasurement ELSE rtsid
      /\ UNCHANGED <<unsentSidQueue, rexmitQueue, sidToTimerMap, rexmitTimers, window, aborted>>
    BY DEF Retransmit, TimerForEveryRequestInWindow, increaseRexmitCount, TypeOK, CancelMeasurement
<1>4. Books(sidToTimerMap', rexmitQueue', unsentSidQueue', sidRexmitCount', getsSent', aborted', rtsid')
    BY <1>1, <1>2 DEF Books, Apart, TypeOK
<1>5. OnePlace' /\ Accounting' /\ KarnMeasurement'
    BY <1>4 DEF Books, Apart, OnePlace, Accounting, GetsMatchTimeouts, KarnMeasurement
<1>6. NoIdleWindow' /\ TimerForEveryRequestInWindow'
    BY <1>2 DEF NoIdleWindow, TimerForEveryRequestInWindow
<1>8. ASSUME NEW t \in SID, Untouched(t) PROVE Untouched(t)'
    BY <1>2, <1>8 DEF Untouched, TypeOK
<1> QED BY <1>2, <1>5, <1>6, <1>8 DEF SendInv, TypeOK

----------------------------------------------------------------------------
LEMMA InitEstablishes == Init => IInv
<1> SUFFICES ASSUME Init PROVE IInv
    OBVIOUS
<1> USE DEF Init
<1>1. TypeOK
    <2>1. window \in Nat /\ window >= Scale
        BY PccpAssumption
    <2>2. content \in SID
        BY PccpAssumption DEF SID
    <2> QED BY <2>1, <2>2 DEF TypeOK
<1>2. RangeOf(<<>>) = {} /\ Distinct(<<>>)
    BY DEF RangeOf, Distinct
<1>3. OnePlace /\ TimerForEveryRequestInWindow /\ NoIdleWindow /\ KarnMeasurement
    BY <1>2 DEF OnePlace, TimerForEveryRequestInWindow, NoIdleWindow, KarnMeasurement
<1>4. FreshRequests
    BY <1>2 DEF FreshRequests, Untouched
<1>5. Accounting
    BY <1>2 DEF Accounting, GetsMatchTimeouts
<1> QED BY <1>1, <1>3, <1>4, <1>5 DEF IInv

LEMMA StepPreserves == IInv /\ [Next]_vars => IInv'
<1> SUFFICES ASSUME IInv, [Next]_vars PROVE IInv'
    OBVIOUS
<1> USE DEF IInv
<1>1. CASE StartMessage
    <2>1. content \in SID /\ ~Issued(content) /\ Untouched(content)
        BY <1>1 DEF StartMessage, TypeOK, Issued, FreshRequests
    <2>2. sendRequest(content) /\ appTimer' = "sendGET" /\ content' = content
        BY <1>1 DEF StartMessage
    <2>3. SendInv' /\ \A t \in SID \ {content} : Untouched(t) => Untouched(t)'
        BY <2>1, <2>2, SendRequestStep
    <2>4. FreshRequests'
        BY <1>1, <2>2, <2>3 DEF FreshRequests, Issued, StartMessage, SID, TypeOK
    <2>5. TypeOK'
        BY <2>2, <2>3 DEF TypeOK, SendInv, sendRequest
    <2> QED BY <2>3, <2>4, <2>5 DEF SendInv
<1>2. CASE SendTimer
    <2>1. /\ appTimer = "sendGET" /\ content + 1 \in SID /\ content \in SID
          /\ ~Issued(content + 1) /\ Untouched(content + 1)
        <3>1. appTimer = "sendGET" /\ content + 1 \in SID /\ content \in SID
            BY <1>2, PccpAssumption DEF SendTimer, TypeOK, SID
        <3>2. ~Issued(content + 1)
            BY <3>1 DEF Issued, SID
        <3> QED BY <3>1, <3>2 DEF FreshRequests
    <2>2. sendRequest(content + 1) /\ appTimer' = "sendGET" /\ content' = content + 1
        BY <1>2 DEF SendTimer
    <2>3. SendInv' /\ \A t \in SID \ {content + 1} : Untouched(t) => Untouched(t)'
        BY <2>1, <2>2, SendRequestStep
    <2>4. FreshRequests'
        <3> SUFFICES ASSUME NEW t \in SID, ~Issued(t)' PROVE Untouched(t)'
            BY DEF FreshRequests
        <3>1. ~Issued(t) /\ t # content + 1
            BY <2>1, <2>2 DEF Issued, SID
        <3> QED BY <2>3, <3>1 DEF FreshRequests
    <2>5. TypeOK'
        BY <2>1, <2>2, <2>3 DEF TypeOK, SendInv, sendRequest
    <2> QED BY <2>3, <2>4, <2>5 DEF SendInv
<1>3. CASE LastSendTimer
    BY <1>3 DEF LastSendTimer, net, TypeOK, OnePlace, TimerForEveryRequestInWindow, NoIdleWindow,
                FreshRequests, Untouched, Issued, Accounting, GetsMatchTimeouts, KarnMeasurement
<1>4. ASSUME NEW s \in SID, RexmitTimer(s) PROVE IInv'
    <2>0. increaseRexmitCount(s) \in [SID -> Nat]
        BY <1>4 DEF increaseRexmitCount, TypeOK
    <2>1. CASE increaseRexmitCount(s)[s] > MaxRexmitLimit /\ AbortRequest(s)
        <3>1. SendInv' /\ \A t \in SID : Untouched(t) => Untouched(t)'
            BY <1>4, <2>1, AbortStep DEF RexmitTimer
        <3>2. TypeOK'
            <4>1. /\ sidRexmitCount' = increaseRexmitCount(s) /\ aborted' \subseteq aborted \cup {s}
                  /\ UNCHANGED <<content, appTimer, window, transportOut, delivered>>
                BY <2>1 DEF AbortRequest, app
            <4> QED BY <2>0, <3>1, <4>1 DEF TypeOK, SendInv
        <3>3. FreshRequests'
            BY <2>1, <3>1 DEF FreshRequests, Issued, AbortRequest, app
        <3> QED BY <3>1, <3>2, <3>3 DEF SendInv
    <2>2. CASE /\ increaseRexmitCount(s)[s] <= MaxRexmitLimit
               /\ EffectiveWindow(window, sidToTimerMap) < 0
               /\ PostponeRetransmission(s)
        <3>1. SendInv' /\ \A t \in SID : Untouched(t) => Untouched(t)'
            BY <1>4, <2>2, PostponeStep DEF RexmitTimer
        <3>2. TypeOK'
            <4>1. /\ sidRexmitCount' = increaseRexmitCount(s) /\ aborted' \subseteq aborted \cup {s}
                  /\ UNCHANGED <<content, appTimer, window, transportOut, delivered>>
                BY <2>2 DEF PostponeRetransmission, app
            <4> QED BY <2>0, <3>1, <4>1 DEF TypeOK, SendInv
        <3>3. FreshRequests'
            BY <2>2, <3>1 DEF FreshRequests, Issued, PostponeRetransmission, app
        <3> QED BY <3>1, <3>2, <3>3 DEF SendInv
    <2>3. CASE increaseRexmitCount(s)[s] <= MaxRexmitLimit /\ Retransmit(s)
        <3>1. SendInv' /\ \A t \in SID : Untouched(t) => Untouched(t)'
            BY <1>4, <2>3, RetransmitStep DEF RexmitTimer
        <3>2. TypeOK'
            <4>1. /\ sidRexmitCount' = increaseRexmitCount(s) /\ aborted' \subseteq aborted \cup {s}
                  /\ UNCHANGED <<content, appTimer, window, transportOut, delivered>>
                BY <2>3 DEF Retransmit, app
            <4> QED BY <2>0, <3>1, <4>1 DEF TypeOK, SendInv
        <3>3. FreshRequests'
            BY <2>3, <3>1 DEF FreshRequests, Issued, Retransmit, app
        <3> QED BY <3>1, <3>2, <3>3 DEF SendInv
    <2> QED BY <1>4, <2>1, <2>2, <2>3 DEF RexmitTimer
<1>5. ASSUME NEW s \in SID, DeliverUp(s) PROVE IInv'
    BY <1>5 DEF DeliverUp, app, TypeOK, OnePlace, TimerForEveryRequestInWindow, NoIdleWindow,
                FreshRequests, Untouched, Issued, Accounting, GetsMatchTimeouts, KarnMeasurement
<1>6. ASSUME NEW s \in SID, NEW cl \in PccpClCode, NEW halve \in BOOLEAN,
             DataReceived(s, cl, halve)
      PROVE  IInv'
    <2>1. /\ SendInv' /\ window' \in Nat /\ window' >= Scale
          /\ \A t \in SID : Untouched(t) => Untouched(t)'
        BY <1>6, DataStep
    <2>2. TypeOK'
        BY <1>6, <2>1 DEF TypeOK, SendInv, DataReceived, app
    <2>3. FreshRequests'
        BY <1>6, <2>1 DEF FreshRequests, Issued, DataReceived, app
    <2> QED BY <2>1, <2>2, <2>3 DEF SendInv
<1>7. CASE UNCHANGED vars
    BY <1>7 DEF vars, TypeOK, OnePlace, TimerForEveryRequestInWindow, NoIdleWindow,
                FreshRequests, Untouched, Issued, Accounting, GetsMatchTimeouts, KarnMeasurement
<1>8. CASE Done
    BY <1>7, <1>8 DEF Done
<1> QED BY <1>1, <1>2, <1>3, <1>4, <1>5, <1>6, <1>7, <1>8 DEF Next

----------------------------------------------------------------------------
(* IInv holds in every reachable state. *)
THEOREM Invariance == Spec => []IInv
<1>1. Init => IInv
    BY InitEstablishes
<1>2. IInv /\ [Next]_vars => IInv'
    BY StepPreserves
<1> QED BY <1>1, <1>2, PTL DEF Spec

(* Types, and a window of at least one request, whatever the congestion    *)
(* levels received (PccpAlg::dataReceived).                                *)
THEOREM TypeCorrect == Spec => []TypeOK
<1>1. IInv => TypeOK
    BY DEF IInv
<1> QED BY <1>1, Invariance, PTL

(* PccpSendQueue keeps a request in at most one container. *)
THEOREM OnePlaceHolds == Spec => []OnePlace
<1>1. IInv => OnePlace
    BY DEF IInv
<1> QED BY <1>1, Invariance, PTL

(* The requests in the window are the ones with a timer scheduled. *)
THEOREM TimersHold == Spec => []TimerForEveryRequestInWindow
<1>1. IInv => TimerForEveryRequestInWindow
    BY DEF IInv
<1> QED BY <1>1, Invariance, PTL

(* sendRequestsToSocket is called wherever the window may have got room:   *)
(* requests wait only behind a full window.                                *)
THEOREM NoStall == Spec => []NoIdleWindow
<1>1. IInv => NoIdleWindow
    BY DEF IInv
<1> QED BY <1>1, Invariance, PTL

(* maxRexmit is reported after exactly maxRexmitLimit retransmissions.     *)
THEOREM GetsAccounted == Spec => []GetsMatchTimeouts
<1>1. IInv => GetsMatchTimeouts
    BY DEF IInv, Accounting
<1> QED BY <1>1, Invariance, PTL

(* Round trips are measured on requests sent once only. *)
THEOREM KarnHolds == Spec => []KarnMeasurement
<1>1. IInv => KarnMeasurement
    BY DEF IInv
<1> QED BY <1>1, Invariance, PTL

----------------------------------------------------------------------------
(* A step that puts more requests into the window fills it at most.        *)
LEMMA StepRespectsWindow ==
    ASSUME IInv, Next
    PROVE  Cardinality(sidToTimerMap') > Cardinality(sidToTimerMap)
               => Cardinality(sidToTimerMap') <= window' \div Scale
<1> DEFINE Goal == Cardinality(sidToTimerMap') > Cardinality(sidToTimerMap)
                       => Cardinality(sidToTimerMap') <= window' \div Scale
<1>1. Cardinality(sidToTimerMap) \in Nat
    BY SidSetsFinite DEF IInv, TypeOK
<1>2. ASSUME NEW s PROVE Cardinality(sidToTimerMap \ {s}) \in Nat
                         /\ Cardinality(sidToTimerMap \ {s}) <= Cardinality(sidToTimerMap)
    <2>1. sidToTimerMap \ {s} \in SUBSET SID /\ sidToTimerMap \ {s} \in SUBSET sidToTimerMap
        BY DEF IInv, TypeOK
    <2>2. IsFiniteSet(sidToTimerMap)
        BY SidSetsFinite DEF IInv, TypeOK
    <2> QED BY <2>1, <2>2, SidSetsFinite, FS_Subset
<1>3. Cardinality(sidToTimerMap') \in Nat
    <2>1. sidToTimerMap' \in SUBSET SID
        BY StepPreserves DEF IInv, TypeOK
    <2> QED BY <2>1, SidSetsFinite
<1>4. ASSUME sidToTimerMap' = sidToTimerMap PROVE Goal
    BY <1>1, <1>3, <1>4
<1>5. CASE StartMessage
    BY <1>5, SendRequestStep DEF StartMessage, IInv, TypeOK, Issued, FreshRequests
<1>6. CASE SendTimer
    <2>1. content + 1 \in SID /\ Untouched(content + 1)
        <3>1. appTimer = "sendGET" /\ content + 1 \in SID /\ content \in SID
            BY <1>6, PccpAssumption DEF SendTimer, IInv, TypeOK, SID
        <3>2. ~Issued(content + 1)
            BY <3>1 DEF Issued, SID
        <3> QED BY <3>1, <3>2 DEF FreshRequests, IInv
    <2> QED BY <1>6, <2>1, SendRequestStep DEF SendTimer
<1>7. CASE LastSendTimer
    BY <1>4, <1>7 DEF LastSendTimer
<1>8. ASSUME NEW s \in SID, RexmitTimer(s) PROVE Goal
    <2>1. CASE increaseRexmitCount(s)[s] > MaxRexmitLimit /\ AbortRequest(s)
        <3>1. Cardinality(sidToTimerMap') > Cardinality(sidToTimerMap \ {s})
                  => Cardinality(sidToTimerMap') <= window' \div Scale
            BY <1>8, <2>1, AbortStep DEF RexmitTimer
        <3> QED BY <1>1, <1>2, <1>3, <3>1
    <2>2. CASE PostponeRetransmission(s)
        <3>1. sidToTimerMap' = sidToTimerMap \ {s}
            BY <2>2 DEF PostponeRetransmission, sendNothing
        <3> QED BY <1>1, <1>2, <1>3, <3>1
    <2>3. CASE Retransmit(s)
        BY <1>4, <2>3 DEF Retransmit
    <2> QED BY <1>8, <2>1, <2>2, <2>3 DEF RexmitTimer
<1>9. ASSUME NEW s \in SID, DeliverUp(s) PROVE Goal
    BY <1>4, <1>9 DEF DeliverUp
<1>10. ASSUME NEW s \in SID, NEW cl \in PccpClCode, NEW halve \in BOOLEAN,
              DataReceived(s, cl, halve)
       PROVE  Goal
    <2>1. Cardinality(sidToTimerMap') > Cardinality(sidToTimerMap \ {s})
              => Cardinality(sidToTimerMap') <= window' \div Scale
        BY <1>10, DataStep
    <2>2. Cardinality(sidToTimerMap \ {s}) \in Nat
          /\ Cardinality(sidToTimerMap \ {s}) <= Cardinality(sidToTimerMap)
        BY <1>2
    <2> QED BY <1>1, <1>3, <2>1, <2>2
<1>11. CASE Done
    BY <1>4, <1>11 DEF Done, vars
<1> QED BY <1>5, <1>6, <1>7, <1>8, <1>9, <1>10, <1>11 DEF Next

(* PccpAlg never has more requests in flight than the window it adjusts    *)
(* allows, except for those that were there when the window shrank.        *)
THEOREM WindowRespectedHolds == Spec => WindowRespected
<1>1. IInv /\ [Next]_vars =>
          [Cardinality(sidToTimerMap') > Cardinality(sidToTimerMap)
               => Cardinality(sidToTimerMap') <= window' \div Scale]_vars
    BY StepRespectsWindow
<1> QED BY <1>1, Invariance, PTL DEF Spec, WindowRespected

----------------------------------------------------------------------------
(* Consumers wait, and Data is on its way up, only for requests that were  *)
(* sent.                                                                   *)
OnlySentAwaited == \A s \in SIDtoSockets \cup transportOut : getsSent[s] > 0

(* The first request is number 0. *)
StartsAtZero == appTimer = "start" => content = 0

(* What sendRequestsToSocket sends, whatever window its caller left: each  *)
(* request out of the queues of time-outs and new requests, once.          *)
LEMMA SentFromQueues ==
    ASSUME TypeOK, NEW sent, NEW timers, NEW rq \in Seq(SID), NEW uq \in Seq(SID),
           NEW win, NEW measured, EffectiveWindow(win, sent) \in Int,
           sendRequestsToSocket(sent, timers, rq, uq, win, measured)
    PROVE  \E out \in SUBSET (RangeOf(rq) \cup RangeOf(uq)) :
              /\ getsSent' = [s \in SID |-> IF s \in out THEN getsSent[s] + 1 ELSE getsSent[s]]
              /\ SIDtoSockets' = SIDtoSockets \cup out
<1> DEFINE eff == EffectiveWindow(win, sent)
           k == Popped(eff, rq)
           j == Popped(eff - k, uq)
           out == Front(rq, k) \cup Front(uq, j)
<1>1. /\ getsSent' = [s \in SID |-> IF s \in out THEN getsSent[s] + 1 ELSE getsSent[s]]
      /\ SIDtoSockets' = SIDtoSockets \cup out
    BY DEF sendRequestsToSocket
<1>2. k \in 0 .. Len(rq)
    BY DEF Popped
<1>3. j \in 0 .. Len(uq)
    BY <1>2 DEF Popped
<1>4. Front(rq, k) \subseteq RangeOf(rq)
    BY <1>2 DEF Front, RangeOf
<1>5. Front(uq, j) \subseteq RangeOf(uq)
    BY <1>3 DEF Front, RangeOf
<1> QED BY <1>1, <1>4, <1>5

(* The size of the window minus what is in it is a number. *)
LEMMA EffectiveWindowType ==
    ASSUME NEW win \in Nat, NEW sent \in SUBSET SID
    PROVE  EffectiveWindow(win, sent) \in Int
<1>1. win \div Scale \in Int
    BY PccpAssumption
<1>2. Cardinality(sent) \in Int
    BY SidSetsFinite
<1> QED BY <1>1, <1>2 DEF EffectiveWindow

(* A request kept in one of the queues may be asked for. *)
LEMMA QueuedMayBeAsked ==
    ASSUME IInv, NEW s \in RangeOf(rexmitQueue) \cup RangeOf(unsentSidQueue)
    PROVE  /\ s \in SID /\ Issued(s) /\ s \notin aborted /\ s \notin sidToTimerMap
           /\ getsSent[s] < MaxRexmitLimit + 1
<1>1. s \in SID
    BY DEF IInv, TypeOK, RangeOf
<1>2. Issued(s)
    BY <1>1 DEF IInv, FreshRequests, Untouched
<1>3. s \notin aborted /\ s \notin sidToTimerMap
    BY <1>1 DEF IInv, Accounting, OnePlace
<1>4. s \in RangeOf(rexmitQueue) => getsSent[s] = sidRexmitCount[s] /\ sidRexmitCount[s] <= MaxRexmitLimit
    BY <1>1 DEF IInv, Accounting, GetsMatchTimeouts
<1>5. s \in RangeOf(unsentSidQueue) => getsSent[s] = 0
    BY <1>1 DEF IInv, Accounting
<1>6. getsSent[s] \in Nat /\ sidRexmitCount[s] \in Nat /\ MaxRexmitLimit \in Nat
    BY <1>1, PccpAssumption DEF IInv, TypeOK
<1> QED BY <1>1, <1>2, <1>3, <1>4, <1>5, <1>6

(* A step that fills the window asks for requests that may be asked for,   *)
(* and registers consumers for them only.                                  *)
LEMMA FillAsks ==
    ASSUME TypeOK, OnlySentAwaited, NEW sent, NEW timers, NEW rq \in Seq(SID), NEW uq \in Seq(SID),
           NEW win, NEW measured, EffectiveWindow(win, sent) \in Int,
           sendRequestsToSocket(sent, timers, rq, uq, win, measured),
           \A s \in RangeOf(rq) \cup RangeOf(uq) :
               /\ s \in SID /\ Issued(s)' /\ s \notin aborted'
               /\ getsSent[s] < MaxRexmitLimit + 1,
           transportOut' \subseteq transportOut
    PROVE  Service!Ask /\ OnlySentAwaited'
<1>1. PICK out \in SUBSET (RangeOf(rq) \cup RangeOf(uq)) :
          /\ getsSent' = [s \in SID |-> IF s \in out THEN getsSent[s] + 1 ELSE getsSent[s]]
          /\ SIDtoSockets' = SIDtoSockets \cup out
    BY SentFromQueues
<1>2. out \subseteq {s \in {r \in SID : appTimer' # "start" /\ r <= content'} \ aborted' :
                        getsSent[s] < MaxRexmitLimit + 1}
    BY <1>1 DEF Issued
<1>3. Service!Ask
    BY <1>1, <1>2 DEF Service!Ask
<1>4. \A s \in SID : getsSent'[s] >= getsSent[s] /\ (s \in out => getsSent'[s] > 0)
    BY <1>1 DEF TypeOK
<1>5. SIDtoSockets' \cup transportOut' \subseteq SIDtoSockets \cup transportOut \cup out
    BY <1>1
<1>6. SIDtoSockets \cup transportOut \cup out \subseteq SID
    BY <1>1 DEF TypeOK
<1>7. OnlySentAwaited'
    <2> SUFFICES ASSUME NEW s \in SIDtoSockets' \cup transportOut' PROVE getsSent'[s] > 0
        BY DEF OnlySentAwaited
    <2>1. s \in SID /\ getsSent[s] \in Nat /\ getsSent'[s] \in Nat
        BY <1>1, <1>5, <1>6 DEF TypeOK
    <2> QED BY <1>4, <1>5, <2>1 DEF OnlySentAwaited
<1> QED BY <1>3, <1>7

(* Steps that send nothing and leave the app, answers and aborts alone.    *)
LEMMA SilentStep ==
    ASSUME OnlySentAwaited, UNCHANGED <<getsSent, delivered, aborted>>,
           \A s \in SID : Issued(s)' <=> Issued(s),
           SIDtoSockets' \cup transportOut' \subseteq SIDtoSockets \cup transportOut
    PROVE  UNCHANGED Service!serviceVars /\ OnlySentAwaited'
<1>1. {s \in SID : appTimer # "start" /\ s <= content}'
          = {s \in SID : appTimer # "start" /\ s <= content}
    BY DEF Issued
<1>2. UNCHANGED Service!serviceVars
    BY <1>1 DEF Service!serviceVars
<1>3. OnlySentAwaited'
    BY DEF OnlySentAwaited
<1> QED BY <1>2, <1>3

(* The next request: it is asked for now or later, others may be too.      *)
LEMMA IssueStep ==
    ASSUME IInv, OnlySentAwaited, NEW s \in SID, ~Issued(s), sendRequest(s),
           content' = s, appTimer' = "sendGET", \A r \in SID : r < s => Issued(r)
    PROVE  Service!Issue(s) /\ OnlySentAwaited'
<1>1. /\ TypeOK /\ Untouched(s)
      /\ sendRequestsToSocket(sidToTimerMap, rexmitTimers, rexmitQueue,
                              Append(unsentSidQueue, s), window, rtsid)
      /\ UNCHANGED <<transportOut, delivered, aborted>>
    BY DEF IInv, FreshRequests, sendRequest
<1>2. \A r \in SID : Issued(r)' <=> (Issued(r) \/ r = s)
    <2>1. \A r \in SID : Issued(r) => r < s
        BY DEF Issued, IInv, TypeOK, SID
    <2>2. \A r \in SID : Issued(r)' <=> r <= s
        BY DEF Issued
    <2> QED BY <2>1, <2>2 DEF SID
<1>3. {r \in SID : appTimer # "start" /\ r <= content}'
          = {r \in SID : appTimer # "start" /\ r <= content} \cup {s}
    BY <1>2 DEF Issued
<1>4. Append(unsentSidQueue, s) \in Seq(SID)
      /\ RangeOf(Append(unsentSidQueue, s)) = RangeOf(unsentSidQueue) \cup {s}
    <2>1. unsentSidQueue \in Seq(SID)
        BY <1>1 DEF TypeOK
    <2>2. /\ Append(unsentSidQueue, s) \in Seq(SID)
          /\ Len(Append(unsentSidQueue, s)) = Len(unsentSidQueue) + 1
          /\ \A i \in 1 .. Len(unsentSidQueue) + 1 : Append(unsentSidQueue, s)[i] =
                 IF i = Len(unsentSidQueue) + 1 THEN s ELSE unsentSidQueue[i]
        BY <2>1
    <2>3. Len(unsentSidQueue) \in Nat
        BY <2>1
    <2> QED BY <2>2, <2>3 DEF RangeOf
<1>5. \A r \in RangeOf(rexmitQueue) \cup RangeOf(Append(unsentSidQueue, s)) :
          r \in SID /\ Issued(r)' /\ r \notin aborted' /\ getsSent[r] < MaxRexmitLimit + 1
    <2> SUFFICES ASSUME NEW r \in RangeOf(rexmitQueue) \cup RangeOf(unsentSidQueue) \cup {s}
                 PROVE  r \in SID /\ Issued(r)' /\ r \notin aborted' /\ getsSent[r] < MaxRexmitLimit + 1
        BY <1>4
    <2>1. CASE r = s
        BY <1>1, <1>2, <2>1, PccpAssumption DEF Untouched
    <2>2. CASE r # s
        BY <1>1, <1>2, <2>2, QueuedMayBeAsked
    <2> QED BY <2>1, <2>2
<1>6. EffectiveWindow(window, sidToTimerMap) \in Int /\ rexmitQueue \in Seq(SID)
    BY <1>1, EffectiveWindowType DEF TypeOK
<1>7. Service!Ask /\ OnlySentAwaited'
    BY <1>1, <1>4, <1>5, <1>6, FillAsks
<1> QED BY <1>1, <1>3, <1>7 DEF Service!Issue, Issued

(* Every step of the consumer is a step of the service, or none of it.     *)
LEMMA ServiceStep ==
    ASSUME IInv, OnlySentAwaited, StartsAtZero, [Next]_vars
    PROVE  [Service!Next]_(Service!serviceVars) /\ OnlySentAwaited'
<1> DEFINE Goal == [Service!Next]_(Service!serviceVars) /\ OnlySentAwaited'
<1>0. /\ TypeOK /\ window \in Nat /\ rexmitQueue \in Seq(SID) /\ unsentSidQueue \in Seq(SID)
      /\ rexmitTimers = sidToTimerMap /\ sidToTimerMap \in SUBSET SID
      /\ MaxRexmitLimit \in Nat
    BY PccpAssumption DEF IInv, TypeOK, TimerForEveryRequestInWindow
<1>1. CASE StartMessage
    <2>1. /\ content \in SID /\ ~Issued(content) /\ sendRequest(content)
          /\ content' = content /\ appTimer' = "sendGET" /\ appTimer = "start"
        BY <1>0, <1>1 DEF StartMessage, Issued, TypeOK
    <2>2. content = 0
        BY <2>1 DEF StartsAtZero
    <2>3. \A r \in SID : r < content => Issued(r)
        BY <2>2 DEF SID
    <2>4. PICK s \in SID : s = content
        BY <2>1
    <2>5. ~Issued(s) /\ sendRequest(s) /\ content' = s /\ \A r \in SID : r < s => Issued(r)
        BY <2>1, <2>3, <2>4
    <2>6. Service!Issue(s) /\ OnlySentAwaited'
        BY <2>1, <2>5, IssueStep
    <2> QED BY <2>6 DEF Service!Next
<1>2. CASE SendTimer
    <2>1. /\ content + 1 \in SID /\ content \in SID /\ appTimer = "sendGET" /\ appTimer' = "sendGET"
          /\ sendRequest(content + 1) /\ content' = content + 1
        BY <1>0, <1>2, PccpAssumption DEF SendTimer, TypeOK, SID
    <2>2. ~Issued(content + 1) /\ \A r \in SID : r < content + 1 => Issued(r)
        BY <2>1 DEF Issued, SID
    <2>3. PICK s \in SID : s = content + 1
        BY <2>1
    <2>4. ~Issued(s) /\ sendRequest(s) /\ content' = s /\ \A r \in SID : r < s => Issued(r)
        BY <2>1, <2>2, <2>3
    <2>5. Service!Issue(s) /\ OnlySentAwaited'
        BY <2>1, <2>4, IssueStep
    <2> QED BY <2>5 DEF Service!Next
<1>3. CASE LastSendTimer
    <2>1. UNCHANGED <<getsSent, delivered, aborted, SIDtoSockets, transportOut, content>>
          /\ appTimer = "sendGET" /\ appTimer' = "off"
        BY <1>3 DEF LastSendTimer, net
    <2>2. \A s \in SID : Issued(s)' <=> Issued(s)
        BY <2>1 DEF Issued
    <2> QED BY <2>1, <2>2, SilentStep
<1>4. ASSUME NEW s \in SID, RexmitTimer(s) PROVE Goal
    <2>0. /\ s \in sidToTimerMap /\ Issued(s) /\ s \notin aborted
          /\ s \notin RangeOf(rexmitQueue) \cup RangeOf(unsentSidQueue)
          /\ getsSent[s] = sidRexmitCount[s] + 1 /\ sidRexmitCount[s] <= MaxRexmitLimit
          /\ sidRexmitCount[s] \in Nat /\ getsSent[s] \in Nat
          /\ increaseRexmitCount(s)[s] = sidRexmitCount[s] + 1
        BY <1>0, <1>4 DEF RexmitTimer, IInv, FreshRequests, Untouched, Accounting, OnePlace,
                          GetsMatchTimeouts, TypeOK, increaseRexmitCount
    <2>1. CASE increaseRexmitCount(s)[s] > MaxRexmitLimit /\ AbortRequest(s)
        <3>1. /\ aborted' = aborted \cup {s}
              /\ sendRequestsToSocket(sidToTimerMap \ {s}, rexmitTimers \ {s}, rexmitQueue,
                                      unsentSidQueue, window, CancelMeasurement(s))
              /\ UNCHANGED <<content, appTimer, transportOut, delivered>>
            BY <2>1 DEF AbortRequest, app
        <3>2. \A r \in RangeOf(rexmitQueue) \cup RangeOf(unsentSidQueue) :
                  r \in SID /\ Issued(r)' /\ r \notin aborted' /\ getsSent[r] < MaxRexmitLimit + 1
            BY <2>0, <3>1, QueuedMayBeAsked DEF Issued
        <3>3. EffectiveWindow(window, sidToTimerMap \ {s}) \in Int
            BY <1>0, EffectiveWindowType
        <3>4. Service!Ask /\ OnlySentAwaited'
            BY <1>0, <3>1, <3>2, <3>3, FillAsks
        <3>5. getsSent[s] = MaxRexmitLimit + 1
            BY <1>0, <2>0, <2>1
        <3>6. Service!GiveUp(s)
            BY <2>0, <3>1, <3>4, <3>5 DEF Service!GiveUp, Issued
        <3> QED BY <3>4, <3>6 DEF Service!Next
    <2>2. CASE PostponeRetransmission(s)
        <3>1. UNCHANGED <<getsSent, delivered, aborted, SIDtoSockets, transportOut, content, appTimer>>
            BY <2>2 DEF PostponeRetransmission, sendNothing, app
        <3> QED BY <3>1, SilentStep DEF Issued
    <2>3. CASE increaseRexmitCount(s)[s] <= MaxRexmitLimit /\ Retransmit(s)
        <3>1. /\ getsSent' = [r \in SID |-> IF r \in {s} THEN getsSent[r] + 1 ELSE getsSent[r]]
              /\ SIDtoSockets' = SIDtoSockets \cup {s}
              /\ UNCHANGED <<delivered, aborted, transportOut, content, appTimer>>
            BY <1>0, <2>3 DEF Retransmit, app, TypeOK
        <3>2. getsSent[s] < MaxRexmitLimit + 1
            BY <1>0, <2>0, <2>3
        <3>3. {s} \subseteq {r \in {q \in SID : appTimer' # "start" /\ q <= content'} \ aborted' :
                                getsSent[r] < MaxRexmitLimit + 1}
            BY <2>0, <3>1, <3>2 DEF Issued
        <3>4. Service!Ask
            BY <3>1, <3>3 DEF Service!Ask
        <3>5. Service!Retry
            BY <3>1, <3>4 DEF Service!Retry
        <3>6. OnlySentAwaited'
            <4> SUFFICES ASSUME NEW r \in SIDtoSockets \cup transportOut \cup {s}
                         PROVE  getsSent'[r] > 0
                BY <3>1 DEF OnlySentAwaited
            <4>1. r \in SID /\ getsSent[r] \in Nat
                BY <1>0 DEF TypeOK
            <4> QED BY <3>1, <4>1 DEF OnlySentAwaited
        <3> QED BY <3>5, <3>6 DEF Service!Next
    <2> QED BY <1>4, <2>1, <2>2, <2>3 DEF RexmitTimer
<1>5. ASSUME NEW s \in SID, DeliverUp(s) PROVE Goal
    <2>1. /\ UNCHANGED <<getsSent, delivered, aborted, content, appTimer>>
          /\ SIDtoSockets' \cup transportOut' = SIDtoSockets \cup transportOut
        BY <1>5 DEF DeliverUp, app
    <2> QED BY <2>1, SilentStep DEF Issued
<1>6. ASSUME NEW s \in SID, NEW cl \in PccpClCode, NEW halve \in BOOLEAN,
             DataReceived(s, cl, halve)
      PROVE  Goal
    <2>1. /\ s \in transportOut /\ transportOut' \subseteq transportOut
          /\ sendRequestsToSocket(sidToTimerMap \ {s}, rexmitTimers \ {s}, rexmitQueue,
                                  unsentSidQueue, window', CancelMeasurement(s))
          /\ delivered' = delivered \cup {s}
          /\ UNCHANGED <<content, appTimer, aborted>>
        BY <1>6 DEF DataReceived, app
    <2>2. window' \in Nat
        BY <1>6, DataStep
    <2>3. EffectiveWindow(window', sidToTimerMap \ {s}) \in Int
        BY <1>0, <2>2, EffectiveWindowType
    <2>4. \A r \in RangeOf(rexmitQueue) \cup RangeOf(unsentSidQueue) :
              r \in SID /\ Issued(r)' /\ r \notin aborted' /\ getsSent[r] < MaxRexmitLimit + 1
        BY <2>1, QueuedMayBeAsked DEF Issued
    <2>5. Service!Ask /\ OnlySentAwaited'
        BY <1>0, <2>1, <2>3, <2>4, FillAsks
    <2>6. getsSent[s] > 0
        BY <2>1 DEF OnlySentAwaited
    <2>7. Service!Answer(s)
        BY <2>1, <2>5, <2>6 DEF Service!Answer
    <2> QED BY <2>5, <2>7 DEF Service!Next
<1>7. CASE UNCHANGED vars
    BY <1>7, SilentStep DEF vars, Issued
<1>8. CASE Done
    BY <1>7, <1>8 DEF Done
<1> QED BY <1>1, <1>2, <1>3, <1>4, <1>5, <1>6, <1>7, <1>8 DEF Next

(* PccpApp, PccpAlg and PccpSendQueue implement RequestService: beneath    *)
(* the window and the three queues, at most maxRexmitLimit + 1 GETs go out *)
(* for a request, a request is given up once, when all of them were sent,  *)
(* and nothing is asked for after that.                                    *)
THEOREM ServiceImplemented == Spec => ImplementsService
<1>1. Init => Service!Init /\ OnlySentAwaited /\ StartsAtZero
    BY DEF Init, Service!Init, OnlySentAwaited, StartsAtZero
<1>2. IInv /\ OnlySentAwaited /\ StartsAtZero /\ [Next]_vars
          => [Service!Next]_(Service!serviceVars) /\ OnlySentAwaited'
    BY ServiceStep
<1>3. StartsAtZero /\ [Next]_vars => StartsAtZero'
    BY DEF StartsAtZero, Next, vars, app, StartMessage, SendTimer, LastSendTimer, RexmitTimer,
           AbortRequest, PostponeRetransmission, Retransmit, DeliverUp, DataReceived, Done
<1> QED BY <1>1, <1>2, <1>3, Invariance, PTL DEF Spec, ImplementsService, Service!Spec

----------------------------------------------------------------------------
(***************************************************************************)
(* PccpTimed. A timed step is a step of Pccp, so the invariant above holds *)
(* along every timed behaviour; what is added relates the times kept for a *)
(* request to the number of its time-outs.                                 *)
(***************************************************************************)
(* c time-outs of length t, as an operator so that the provers need no     *)
(* multiplication.                                                         *)
Times(c, t) == c * t

LEMMA TimesStep ==
    ASSUME NEW c \in Nat, NEW t \in Nat
    PROVE  Times(c, t) \in Nat /\ Times(c + 1, t) = Times(c, t) + t
BY DEF Times

LEMMA TimesOne ==
    ASSUME NEW t \in Nat
    PROVE  Times(0, t) = 0 /\ Times(1, t) = t
BY DEF Times

(* A request in the window: its timer is ahead, and the time since its     *)
(* first GET is made up of one RTO for each GET.                           *)
WindowTimes ==
    \A s \in sidToTimerMap :
        /\ firstTransTime[s] <= now
        /\ now <= expiry[s]
        /\ firstTransTime[s] + Times(sidRexmitCount[s] + 1, MinRexmitTimeout) <= expiry[s]
        /\ s \notin postponed =>
               expiry[s] <= firstTransTime[s] + Times(sidRexmitCount[s] + 1, MaxRexmitTimeout)

(* A request that waits for the window has timed out before. *)
QueueTimes ==
    \A s \in RangeOf(rexmitQueue) :
        /\ s \in postponed
        /\ firstTransTime[s] + Times(sidRexmitCount[s], MinRexmitTimeout) <= now

PostponedTimedOut == \A s \in postponed : sidRexmitCount[s] >= 1

MeasurementTimes ==
    rtsid # NoMeasurement => rtsid_sendtime > 0 /\ rtsid_sendtime = firstTransTime[rtsid]

(* The inductive invariant, on top of IInv. *)
TInv ==
    /\ TimedTypeOK
    /\ EstimatesBounded
    /\ WindowTimes
    /\ QueueTimes
    /\ PostponedTimedOut
    /\ MeasurementTimes

----------------------------------------------------------------------------
(* The measured round trip of a request lies within the maximal RTO. *)
LEMMA MeasuredRoundTrip ==
    ASSUME IInv, TInv, rtsid # NoMeasurement
    PROVE  /\ rtsid \in SID
           /\ now - rtsid_sendtime \in 0 .. MaxRexmitTimeout
<1>1. /\ rtsid \in SID /\ rtsid \in sidToTimerMap /\ getsSent[rtsid] = 1
      /\ getsSent[rtsid] = sidRexmitCount[rtsid] + 1 /\ sidRexmitCount[rtsid] \in Nat
    BY DEF IInv, TypeOK, KarnMeasurement, Accounting, GetsMatchTimeouts
<1>2. sidRexmitCount[rtsid] = 0
    BY <1>1
<1>3. rtsid \notin postponed
    BY <1>2 DEF TInv, PostponedTimedOut
<1>4. /\ firstTransTime[rtsid] <= now /\ now <= expiry[rtsid]
      /\ expiry[rtsid] <= firstTransTime[rtsid] + Times(0 + 1, MaxRexmitTimeout)
    BY <1>1, <1>2, <1>3 DEF TInv, WindowTimes
<1>5. Times(0 + 1, MaxRexmitTimeout) = MaxRexmitTimeout /\ MaxRexmitTimeout \in Nat
    BY TimesOne, TimedAssumption
<1>6. rtsid_sendtime = firstTransTime[rtsid]
    BY DEF TInv, MeasurementTimes
<1>7. now \in Nat /\ expiry[rtsid] \in Nat /\ firstTransTime[rtsid] \in Nat
    BY <1>1 DEF TInv, TimedTypeOK
<1> QED BY <1>1, <1>4, <1>5, <1>6, <1>7

(* rttMeasurementComplete keeps the estimates in the range of round trips. *)
LEMMA EstimateStep ==
    ASSUME EstimatesBounded, NEW rtt \in 0 .. MaxRexmitTimeout, rttMeasurementComplete(rtt)
    PROVE  EstimatesBounded'
<1> USE TimedAssumption
<1>1. PICK e \in Eighth(rtt - srtt) : srtt' = srtt + e
    BY DEF rttMeasurementComplete
<1>2. PICK d \in Eighth(Abs(rtt - srtt) - rttvar) : rttvar' = rttvar + d
    BY DEF rttMeasurementComplete
<1>3. srtt \in 0 .. MaxRexmitTimeout /\ rttvar \in 0 .. MaxRexmitTimeout
    BY DEF EstimatesBounded
<1>4. Abs(rtt - srtt) \in 0 .. MaxRexmitTimeout
    BY <1>3 DEF Abs
<1>5. ASSUME NEW x \in 0 .. MaxRexmitTimeout, NEW y \in 0 .. MaxRexmitTimeout, NEW z \in Eighth(y - x)
      PROVE  x + z \in 0 .. MaxRexmitTimeout
    <2>1. \A k \in Int : k \div 8 \in Int /\ 8 * (k \div 8) <= k /\ k < 8 * (k \div 8) + 8
        OBVIOUS
    <2>2. x \in Int /\ y \in Int /\ MaxRexmitTimeout \in Nat
        OBVIOUS
    <2>3. PICK k \in Int : z = k \div 8 /\ (k = y - x \/ k = y - x + 7)
        BY <2>2 DEF Eighth
    <2>4. z \in Int /\ 8 * z <= k /\ k < 8 * z + 8
        BY <2>1, <2>3
    <2> QED BY <2>2, <2>3, <2>4
<1>6. srtt' \in 0 .. MaxRexmitTimeout
    BY <1>1, <1>3, <1>5
<1>7. rttvar' \in 0 .. MaxRexmitTimeout
    BY <1>2, <1>3, <1>4, <1>5
<1>8. rexmit_timeout' = Clamp(srtt' + 4 * rttvar')
    BY DEF rttMeasurementComplete
<1>9. rexmit_timeout' \in MinRexmitTimeout .. MaxRexmitTimeout
    <2>1. \A v \in Int : Clamp(v) \in MinRexmitTimeout .. MaxRexmitTimeout
        BY DEF Clamp, ClampAbove
    <2>2. srtt' + 4 * rttvar' \in Int
        BY <1>6, <1>7
    <2> QED BY <1>8, <2>1, <2>2
<1> QED BY <1>6, <1>7, <1>9 DEF EstimatesBounded

(* The back-off keeps the RTO between its bounds. *)
LEMMA BackOffStep ==
    ASSUME EstimatesBounded, BackOff, UNCHANGED estimate
    PROVE  EstimatesBounded'
BY TimedAssumption DEF EstimatesBounded, BackOff, ClampAbove, estimate

----------------------------------------------------------------------------
(* How a request can have come to be in the window after a step: it stayed *)
(* there, was sent for the first time, was taken from the queue of         *)
(* time-outs, or was sent again when its timer was due.                    *)
Kept(s) ==
    /\ s \in sidToTimerMap
    /\ getsSent'[s] = getsSent[s]
    /\ sidRexmitCount'[s] = sidRexmitCount[s]
New(s) == getsSent[s] = 0 /\ getsSent'[s] = 1
Resumed(s) ==
    /\ s \in RangeOf(rexmitQueue)
    /\ getsSent'[s] = getsSent[s] + 1
    /\ sidRexmitCount'[s] = sidRexmitCount[s]
Due(s) ==
    /\ s \in sidToTimerMap
    /\ expiry[s] = now
    /\ sidRexmitCount'[s] = sidRexmitCount[s] + 1
Again(s) == Due(s) /\ getsSent'[s] = getsSent[s] + 1

(* What a handler does to the requests, as far as times are concerned. *)
Moves ==
    /\ \A s \in sidToTimerMap' : Kept(s) \/ New(s) \/ Resumed(s) \/ Again(s)
    /\ \A s \in RangeOf(rexmitQueue') :
          \/ s \in RangeOf(rexmitQueue) /\ sidRexmitCount'[s] = sidRexmitCount[s]
          \/ Due(s) /\ s \in postponed'
    /\ \A s \in SID : sidRexmitCount'[s] >= sidRexmitCount[s]
    /\ postponed \subseteq postponed'
    /\ postponed' \subseteq postponed \cup RangeOf(rexmitQueue')
    /\ rtsid' \in {rtsid, NoMeasurement} \/ getsSent[rtsid'] = 0

(* Requests in the window after a step that stamps its GETs. *)
LEMMA StampedWindow ==
    ASSUME IInv, IInv', TInv, TimedTypeOK', EstimatesBounded', PostponedTimedOut', Stamp, Moves
    PROVE  WindowTimes'
<1> SUFFICES ASSUME NEW s \in sidToTimerMap'
             PROVE  /\ firstTransTime'[s] <= now'
                    /\ now' <= expiry'[s]
                    /\ firstTransTime'[s] + Times(sidRexmitCount'[s] + 1, MinRexmitTimeout) <= expiry'[s]
                    /\ s \notin postponed' =>
                           expiry'[s] <= firstTransTime'[s] + Times(sidRexmitCount'[s] + 1, MaxRexmitTimeout)
    BY DEF WindowTimes
<1>1. /\ s \in SID /\ getsSent'[s] = sidRexmitCount'[s] + 1
      /\ getsSent[s] \in Nat /\ getsSent'[s] \in Nat
      /\ sidRexmitCount[s] \in Nat /\ sidRexmitCount'[s] \in Nat
    BY DEF IInv, TypeOK, Accounting, GetsMatchTimeouts
<1>2. /\ now \in Nat /\ now' = now /\ expiry[s] \in Nat /\ firstTransTime[s] \in Nat
      /\ rexmit_timeout' \in MinRexmitTimeout .. MaxRexmitTimeout
      /\ MinRexmitTimeout \in Nat /\ MaxRexmitTimeout \in Nat
    BY <1>1, TimedAssumption DEF TInv, TimedTypeOK, Stamp, EstimatesBounded
<1>n. now \in Int /\ MinRexmitTimeout \in Int /\ MaxRexmitTimeout \in Int
    BY <1>2
<1>3. /\ expiry'[s] = IF getsSent'[s] > getsSent[s] THEN now + rexmit_timeout' ELSE expiry[s]
      /\ firstTransTime'[s] = IF getsSent[s] = 0 /\ getsSent'[s] > 0 THEN now ELSE firstTransTime[s]
    BY <1>1 DEF Stamp, scheduleTimeout, FirstSent
<1>4. ASSUME NEW c \in Nat
      PROVE  /\ Times(c, MinRexmitTimeout) \in Nat /\ Times(c, MaxRexmitTimeout) \in Nat
             /\ Times(c + 1, MinRexmitTimeout) = Times(c, MinRexmitTimeout) + MinRexmitTimeout
             /\ Times(c + 1, MaxRexmitTimeout) = Times(c, MaxRexmitTimeout) + MaxRexmitTimeout
    BY <1>2, TimesStep
<1>5. postponed \subseteq postponed'
    BY DEF Moves
<1>rto. PICK rto \in Nat : /\ rto = rexmit_timeout'
                            /\ MinRexmitTimeout <= rto /\ rto <= MaxRexmitTimeout
    BY <1>2
<1>r. MinRexmitTimeout <= rto /\ rto <= MaxRexmitTimeout
    BY <1>rto
<1>lo. PICK lo \in Nat : lo = Times(sidRexmitCount'[s] + 1, MinRexmitTimeout)
    BY <1>1, <1>4
<1>hi. PICK hi \in Nat : hi = Times(sidRexmitCount'[s] + 1, MaxRexmitTimeout)
    BY <1>1, <1>4
<1>g. PICK first \in Nat, due \in Nat : first = firstTransTime'[s] /\ due = expiry'[s]
    BY <1>1 DEF TimedTypeOK
<1> SUFFICES /\ first <= now /\ now <= due /\ first + lo <= due
             /\ s \notin postponed' => due <= first + hi
    BY <1>2, <1>lo, <1>hi, <1>g
<1>6. CASE Kept(s)
    <2>1. expiry'[s] = expiry[s] /\ firstTransTime'[s] = firstTransTime[s] /\ s \in sidToTimerMap
        BY <1>1, <1>3, <1>6 DEF Kept
    <2> QED BY <1>2, <1>5, <1>6, <1>lo, <1>hi, <1>g, <2>1 DEF Kept, TInv, WindowTimes
<1>7. CASE New(s)
    <2>1. sidRexmitCount'[s] = 0 /\ expiry'[s] = now + rexmit_timeout' /\ firstTransTime'[s] = now
        BY <1>1, <1>3, <1>7 DEF New
    <2>2. lo = MinRexmitTimeout /\ hi = MaxRexmitTimeout
        BY <1>2, <1>lo, <1>hi, <2>1, TimesOne
    <2>3. first = now /\ due = now + rto
        BY <1>rto, <1>g, <2>1
    <2>4. first <= now /\ now <= due /\ first + lo <= due /\ due <= first + hi
        BY <1>n, <1>r, <2>2, <2>3
    <2> QED BY <2>4
<1>8. CASE Resumed(s)
    <2>1. /\ s \in postponed /\ sidRexmitCount[s] >= 1 /\ getsSent[s] = sidRexmitCount[s]
          /\ firstTransTime[s] + Times(sidRexmitCount[s], MinRexmitTimeout) <= now
        BY <1>1, <1>8 DEF Resumed, TInv, QueueTimes, PostponedTimedOut, IInv, Accounting, GetsMatchTimeouts
    <2>2. expiry'[s] = now + rexmit_timeout' /\ firstTransTime'[s] = firstTransTime[s] /\ s \in postponed'
        BY <1>1, <1>3, <1>5, <1>8, <2>1 DEF Resumed
    <2>3. PICK lo0 \in Nat : lo0 = Times(sidRexmitCount[s], MinRexmitTimeout)
        BY <1>1, <1>4
    <2>4. lo = lo0 + MinRexmitTimeout
        BY <1>1, <1>4, <1>8, <1>lo, <2>3 DEF Resumed
    <2>5. first + lo0 <= now /\ due = now + rto
        BY <1>rto, <1>g, <2>1, <2>2, <2>3
    <2>6. first <= now /\ now <= due /\ first + lo <= due
        BY <1>n, <1>r, <2>4, <2>5
    <2> QED BY <2>2, <2>6
<1>9. CASE Again(s)
    <2>1. /\ s \in sidToTimerMap /\ expiry[s] = now /\ getsSent[s] = sidRexmitCount[s] + 1
          /\ sidRexmitCount'[s] = sidRexmitCount[s] + 1
        BY <1>1, <1>9 DEF Again, Due, IInv, Accounting, GetsMatchTimeouts
    <2>2. expiry'[s] = now + rexmit_timeout' /\ firstTransTime'[s] = firstTransTime[s]
        BY <1>1, <1>3, <1>9, <2>1 DEF Again
    <2>3. /\ firstTransTime[s] <= now
          /\ firstTransTime[s] + Times(sidRexmitCount[s] + 1, MinRexmitTimeout) <= now
          /\ s \notin postponed' =>
                 now <= firstTransTime[s] + Times(sidRexmitCount[s] + 1, MaxRexmitTimeout)
        BY <1>5, <2>1 DEF TInv, WindowTimes
    <2>5. sidRexmitCount[s] + 1 \in Nat
        BY <1>1
    <2>4. PICK lo0 \in Nat, hi0 \in Nat :
              /\ lo0 = Times(sidRexmitCount[s] + 1, MinRexmitTimeout)
              /\ hi0 = Times(sidRexmitCount[s] + 1, MaxRexmitTimeout)
        BY <1>4, <2>5
    <2>6. lo = lo0 + MinRexmitTimeout /\ hi = hi0 + MaxRexmitTimeout
        BY <1>4, <1>lo, <1>hi, <2>1, <2>4, <2>5
    <2>7. /\ first <= now /\ first + lo0 <= now /\ due = now + rto
          /\ s \notin postponed' => now <= first + hi0
        BY <1>rto, <1>g, <2>2, <2>3, <2>4
    <2> QED BY <1>2, <1>rto, <2>6, <2>7
<1> QED BY <1>6, <1>7, <1>8, <1>9 DEF Moves

(* Postponed requests have timed out. *)
LEMMA StampedPostponed ==
    ASSUME IInv, IInv', TInv, postponed' \in SUBSET SID, Moves
    PROVE  PostponedTimedOut'
<1> SUFFICES ASSUME NEW s \in postponed' PROVE sidRexmitCount'[s] >= 1
    BY DEF PostponedTimedOut
<1>1. s \in SID /\ sidRexmitCount[s] \in Nat /\ sidRexmitCount'[s] \in Nat
    BY DEF IInv, TypeOK
<1>2. CASE s \in postponed
    BY <1>1, <1>2 DEF TInv, PostponedTimedOut, Moves
<1>3. CASE s \in RangeOf(rexmitQueue')
    <2>1. CASE s \in RangeOf(rexmitQueue)
        BY <1>2, <2>1 DEF TInv, QueueTimes
    <2>2. CASE Due(s)
        BY <1>1, <2>2 DEF Due
    <2> QED BY <1>3, <2>1, <2>2 DEF Moves
<1> QED BY <1>2, <1>3 DEF Moves

(* Requests in the queue of time-outs after a step that stamps its GETs. *)
LEMMA StampedQueue ==
    ASSUME IInv, IInv', TInv, Stamp, Moves
    PROVE  QueueTimes'
<1> SUFFICES ASSUME NEW s \in RangeOf(rexmitQueue')
             PROVE  /\ s \in postponed'
                    /\ firstTransTime'[s] + Times(sidRexmitCount'[s], MinRexmitTimeout) <= now
    BY DEF QueueTimes, Stamp
<1>0. s \in SID
  <2>1. rexmitQueue' \in Seq(SID)
    BY DEF IInv, TypeOK
  <2> QED BY <2>1 DEF RangeOf
<1>1. /\ s \in SID /\ getsSent[s] \in Nat /\ sidRexmitCount[s] \in Nat
    BY <1>0 DEF IInv, TypeOK
<1>2. firstTransTime'[s] = IF getsSent[s] = 0 /\ getsSent'[s] > 0 THEN now ELSE firstTransTime[s]
    BY <1>1 DEF Stamp, FirstSent
<1>3. CASE s \in RangeOf(rexmitQueue) /\ sidRexmitCount'[s] = sidRexmitCount[s]
    <2>1. /\ s \in postponed /\ sidRexmitCount[s] >= 1 /\ getsSent[s] = sidRexmitCount[s]
          /\ firstTransTime[s] + Times(sidRexmitCount[s], MinRexmitTimeout) <= now
        BY <1>1, <1>3 DEF TInv, QueueTimes, PostponedTimedOut, IInv, Accounting, GetsMatchTimeouts
    <2>2. firstTransTime'[s] = firstTransTime[s]
        BY <1>1, <1>2, <2>1
    <2> QED BY <1>3, <2>1, <2>2 DEF Moves
<1>4. CASE Due(s) /\ s \in postponed'
    <2>1. /\ s \in sidToTimerMap /\ getsSent[s] = sidRexmitCount[s] + 1
          /\ sidRexmitCount'[s] = sidRexmitCount[s] + 1 /\ expiry[s] = now
        BY <1>1, <1>4 DEF Due, IInv, Accounting, GetsMatchTimeouts
    <2>2. firstTransTime'[s] = firstTransTime[s]
        BY <1>1, <1>2, <2>1
    <2>3. firstTransTime[s] + Times(sidRexmitCount[s] + 1, MinRexmitTimeout) <= now
        BY <2>1 DEF TInv, WindowTimes
    <2> QED BY <1>4, <2>1, <2>2, <2>3
<1> QED BY <1>3, <1>4 DEF Moves

(* The measurement after a step that stamps its GETs. *)
LEMMA StampedMeasurement ==
    ASSUME IInv, IInv', TInv, Stamp, Moves
    PROVE  MeasurementTimes'
<1> SUFFICES ASSUME rtsid' # NoMeasurement
             PROVE  rtsid_sendtime' > 0 /\ rtsid_sendtime' = firstTransTime'[rtsid']
    BY DEF MeasurementTimes
<1>0. PICK s \in SID : s = rtsid' /\ getsSent'[s] = 1
    BY DEF IInv, TypeOK, KarnMeasurement
<1>1. /\ now \in Nat /\ now # 0
      /\ rtsid_sendtime' = IF s = rtsid THEN rtsid_sendtime ELSE now
      /\ firstTransTime'[s] = IF getsSent[s] = 0 /\ getsSent'[s] > 0 THEN now ELSE firstTransTime[s]
    BY <1>0 DEF Stamp, StartMeasurement, FirstSent, TInv, TimedTypeOK
<1>2. CASE s = rtsid
    <2>1. s # NoMeasurement
        BY <1>0
    <2>2. getsSent[s] = 1 /\ rtsid_sendtime > 0 /\ rtsid_sendtime = firstTransTime[s]
        BY <1>2, <2>1 DEF IInv, KarnMeasurement, TInv, MeasurementTimes
    <2> QED BY <1>0, <1>1, <1>2, <2>2
<1>3. CASE s # rtsid
    <2>1. getsSent[s] = 0
        BY <1>0, <1>3 DEF Moves
    <2> QED BY <1>0, <1>1, <1>3, <2>1
<1> QED BY <1>2, <1>3

(* Types after a step that stamps its GETs. *)
LEMMA StampedTypes ==
    ASSUME TInv, Stamp, EstimatesBounded', postponed' \in SUBSET SID,
           last_timeout_doubled_time' \in Nat, last_cong_rcvd' \in Nat
    PROVE  TimedTypeOK'
<1>1. now \in Nat /\ now' = now /\ expiry \in [SID -> Nat] /\ firstTransTime \in [SID -> Nat]
      /\ rtsid_sendtime \in Nat
    BY DEF TInv, TimedTypeOK, Stamp
<1>2. srtt' \in Int /\ rttvar' \in Int /\ rexmit_timeout' \in Nat
    <2>1. \A r \in MinRexmitTimeout .. MaxRexmitTimeout : r \in Nat
        BY TimedAssumption
    <2>2. \A r \in 0 .. MaxRexmitTimeout : r \in Int
        BY TimedAssumption
    <2> QED BY <2>1, <2>2 DEF EstimatesBounded
<1>3. now + rexmit_timeout' \in Nat
    <2>1. \A a, b \in Nat : a + b \in Nat
        OBVIOUS
    <2> QED BY <1>1, <1>2, <2>1
<1>4. expiry' \in [SID -> Nat]
    BY <1>1, <1>3 DEF Stamp, scheduleTimeout
<1>5. firstTransTime' \in [SID -> Nat]
    BY <1>1 DEF Stamp
<1>6. rtsid_sendtime' \in Nat
    BY <1>1 DEF Stamp, StartMeasurement
<1> QED BY <1>1, <1>2, <1>4, <1>5, <1>6 DEF TimedTypeOK

LEMMA StampStep ==
    ASSUME IInv, IInv', TInv, Stamp, Moves, EstimatesBounded', postponed' \in SUBSET SID,
           last_timeout_doubled_time' \in Nat, last_cong_rcvd' \in Nat
    PROVE  TInv'
BY StampedTypes, StampedPostponed, StampedQueue, StampedMeasurement, StampedWindow DEF TInv

----------------------------------------------------------------------------
(* What sendRequestsToSocket does to the requests. *)
LEMMA FillMoves ==
    ASSUME TypeOK, NEW sent \in SUBSET SID, NEW timers, NEW rq \in Seq(SID), NEW uq \in Seq(SID),
           NEW win \in Nat, NEW measured,
           sendRequestsToSocket(sent, timers, rq, uq, win, measured)
    PROVE  /\ \E out \in SUBSET (RangeOf(rq) \cup RangeOf(uq)) :
                 /\ sidToTimerMap' = sent \cup out
                 /\ getsSent' = [s \in SID |-> IF s \in out THEN getsSent[s] + 1 ELSE getsSent[s]]
           /\ RangeOf(rexmitQueue') \subseteq RangeOf(rq)
           /\ rtsid' \in {measured, NoMeasurement} \cup RangeOf(uq)
<1> DEFINE eff == EffectiveWindow(win, sent)
           k == Popped(eff, rq)
           j == Popped(eff - k, uq)
           out == Front(rq, k) \cup Front(uq, j)
<1>0. eff \in Int
    BY EffectiveWindowType
<1>1. k \in 0 .. Len(rq)
    BY <1>0 DEF Popped
<1>2. j \in 0 .. Len(uq)
    BY <1>0, <1>1 DEF Popped
<1>3. Front(rq, k) \subseteq RangeOf(rq)
    BY <1>1 DEF Front, RangeOf
<1>4. Front(uq, j) \subseteq RangeOf(uq)
    BY <1>2 DEF Front, RangeOf
<1>5. /\ sidToTimerMap' = sent \cup out
      /\ getsSent' = [s \in SID |-> IF s \in out THEN getsSent[s] + 1 ELSE getsSent[s]]
      /\ rexmitQueue' = Rest(rq, k)
      /\ rtsid' \in MeasurementAfter(measured, uq, j)
    BY DEF sendRequestsToSocket
<1> HIDE DEF k, j
<1>6. RangeOf(Rest(rq, k)) \subseteq RangeOf(rq)
    <2>1. /\ Len(Rest(rq, k)) = Len(rq) - k
          /\ \A i \in 1 .. Len(rq) - k : Rest(rq, k)[i] = rq[k + i] /\ k + i \in 1 .. Len(rq)
        BY <1>1 DEF Rest
    <2> QED BY <2>1 DEF RangeOf
<1>7. rtsid' \in {measured, NoMeasurement} \cup RangeOf(uq)
    <2>1. j > 0 => uq[1] \in RangeOf(uq)
        BY <1>2 DEF RangeOf
    <2> QED BY <1>5, <2>1 DEF MeasurementAfter
<1> QED BY <1>3, <1>4, <1>5, <1>6, <1>7

(* A handler that fills the window after taking out no request, or one     *)
(* that was answered or given up.                                          *)
LEMMA FilledMoves ==
    ASSUME IInv, TInv, NEW sent \in SUBSET sidToTimerMap, NEW timers, NEW uq \in Seq(SID),
           NEW win \in Nat, NEW measured \in {rtsid, NoMeasurement},
           sendRequestsToSocket(sent, timers, rexmitQueue, uq, win, measured),
           \A s \in RangeOf(uq) : s \in SID /\ getsSent[s] = 0,
           sent \cap (RangeOf(rexmitQueue) \cup RangeOf(uq)) = {},
           \A s \in SID : \/ sidRexmitCount'[s] = sidRexmitCount[s]
                          \/ /\ sidRexmitCount'[s] = sidRexmitCount[s] + 1
                             /\ s \in sidToTimerMap /\ s \notin sent,
           UNCHANGED postponed
    PROVE  Moves
<1>0. /\ TypeOK /\ rexmitQueue \in Seq(SID) /\ sent \in SUBSET SID
      /\ \A s \in SID : getsSent[s] \in Nat /\ sidRexmitCount[s] \in Nat
      /\ RangeOf(rexmitQueue) \subseteq SID /\ sidToTimerMap \cap RangeOf(rexmitQueue) = {}
    BY DEF IInv, TypeOK, RangeOf, OnePlace
<1>1. PICK out \in SUBSET (RangeOf(rexmitQueue) \cup RangeOf(uq)) :
          /\ sidToTimerMap' = sent \cup out
          /\ getsSent' = [s \in SID |-> IF s \in out THEN getsSent[s] + 1 ELSE getsSent[s]]
    BY <1>0, FillMoves
<1>2. /\ RangeOf(rexmitQueue') \subseteq RangeOf(rexmitQueue)
      /\ rtsid' \in {measured, NoMeasurement} \cup RangeOf(uq)
    BY <1>0, FillMoves
<1>3. ASSUME NEW s \in sidToTimerMap' PROVE Kept(s) \/ New(s) \/ Resumed(s) \/ Again(s)
    <2>1. CASE s \in out /\ s \in RangeOf(uq)
        BY <1>0, <1>1, <2>1 DEF New
    <2>2. CASE s \in out /\ s \in RangeOf(rexmitQueue)
        BY <1>0, <1>1, <2>2 DEF Resumed
    <2>3. CASE s \in sent
        BY <1>0, <1>1, <2>3 DEF Kept
    <2> QED BY <1>1, <1>3, <2>1, <2>2, <2>3
<1>4. ASSUME NEW s \in RangeOf(rexmitQueue')
      PROVE  s \in RangeOf(rexmitQueue) /\ sidRexmitCount'[s] = sidRexmitCount[s]
    BY <1>0, <1>2
<1>5. \A s \in SID : sidRexmitCount'[s] >= sidRexmitCount[s]
    BY <1>0
<1>6. rtsid' \in {rtsid, NoMeasurement} \/ getsSent[rtsid'] = 0
    BY <1>2
<1> QED BY <1>3, <1>4, <1>5, <1>6 DEF Moves

(* A handler that sends nothing, or not even runs. *)
LEMMA SilentMoves ==
    ASSUME UNCHANGED <<sidToTimerMap, rexmitQueue, sidRexmitCount, getsSent, postponed>>, IInv,
           rtsid' \in {rtsid, NoMeasurement}
    PROVE  Moves
BY DEF Moves, Kept, IInv, TypeOK

----------------------------------------------------------------------------
(* A timed step is a step of Pccp, or none of it. *)
LEMMA TimedStepIsStep ==
    ASSUME [TimedNext]_timedVars
    PROVE  [Next]_vars
BY DEF TimedNext, timedVars, Next, TimedSend, TimedRexmit, TimedDeliverUp, TimedData, Tick,
       TimeIsUp, PccpClCode, vars

LEMMA TimedInitEstablishes == TimedInit => IInv /\ TInv
<1> SUFFICES ASSUME TimedInit PROVE IInv /\ TInv
    OBVIOUS
<1>1. IInv
    BY InitEstablishes DEF TimedInit
<1>2. TimedTypeOK
    BY TimedAssumption DEF TimedInit, TimedTypeOK
<1>3. EstimatesBounded
    BY TimedAssumption DEF TimedInit, EstimatesBounded
<1>4. RangeOf(rexmitQueue) = {} /\ sidToTimerMap = {} /\ rtsid = NoMeasurement /\ postponed = {}
    BY DEF TimedInit, Init, RangeOf
<1> QED BY <1>1, <1>2, <1>3, <1>4 DEF TInv, WindowTimes, QueueTimes, PostponedTimedOut, MeasurementTimes

(* New requests enter at the end of the queue of requests never sent. *)
LEMMA SendRequestMoves ==
    ASSUME IInv, TInv, NEW s \in SID, Untouched(s), sendRequest(s), UNCHANGED postponed
    PROVE  Moves
<1>1. /\ unsentSidQueue \in Seq(SID) /\ Distinct(unsentSidQueue) /\ s \notin RangeOf(unsentSidQueue)
      /\ window \in Nat /\ sidToTimerMap \in SUBSET SID
      /\ sidToTimerMap \cap (RangeOf(unsentSidQueue) \cup RangeOf(rexmitQueue)) = {}
    BY DEF IInv, TypeOK, OnePlace, Untouched
<1>2. PICK uq \in Seq(SID) : /\ uq = Append(unsentSidQueue, s)
                             /\ RangeOf(uq) = RangeOf(unsentSidQueue) \cup {s}
    BY <1>1, AppendToQueue
<1>3. \A r \in RangeOf(uq) : r \in SID /\ getsSent[r] = 0
    <2>1. RangeOf(unsentSidQueue) \subseteq SID
        BY <1>1 DEF RangeOf
    <2> QED BY <1>2, <2>1 DEF IInv, Accounting, Untouched
<1>4. sidToTimerMap \cap (RangeOf(rexmitQueue) \cup RangeOf(uq)) = {}
    BY <1>1, <1>2 DEF Untouched
<1>5. /\ sendRequestsToSocket(sidToTimerMap, rexmitTimers, rexmitQueue, uq, window, rtsid)
      /\ UNCHANGED sidRexmitCount
    BY <1>2 DEF sendRequest
<1> QED BY <1>1, <1>3, <1>4, <1>5, FilledMoves

LEMMA TimedSendStep ==
    ASSUME IInv, IInv', TInv, TimedSend
    PROVE  TInv'
<1>1. /\ Stamp /\ UNCHANGED postponed /\ UNCHANGED <<srtt, rttvar, rexmit_timeout,
                                                      last_timeout_doubled_time, last_cong_rcvd>>
    BY DEF TimedSend, estimate
<1>2. /\ EstimatesBounded' /\ postponed' \in SUBSET SID
      /\ last_timeout_doubled_time' \in Nat /\ last_cong_rcvd' \in Nat
    BY <1>1 DEF TInv, EstimatesBounded, TimedTypeOK
<1>3. CASE StartMessage
    <2>1. PICK s \in SID : s = content
        BY DEF IInv, TypeOK
    <2>2. sendRequest(s) /\ Untouched(s)
        BY <1>3, <2>1 DEF StartMessage, IInv, FreshRequests, Issued
    <2>3. Moves
        BY <1>1, <2>2, SendRequestMoves
    <2> QED BY <1>1, <1>2, <2>3, StampStep
<1>4. CASE SendTimer
    <2>1. content + 1 \in SID /\ content \in SID
        BY <1>4, PccpAssumption DEF SendTimer, IInv, TypeOK, SID
    <2>2. PICK s \in SID : s = content + 1
        BY <2>1
    <2>3. ~Issued(s)
        BY <2>1, <2>2 DEF Issued, SID
    <2>4. sendRequest(s) /\ Untouched(s)
        BY <1>4, <2>2, <2>3 DEF SendTimer, IInv, FreshRequests
    <2>5. Moves
        BY <1>1, <2>4, SendRequestMoves
    <2> QED BY <1>1, <1>2, <2>5, StampStep
<1>5. CASE LastSendTimer
    <2>1. Moves
        BY <1>1, <1>5, SilentMoves DEF LastSendTimer
    <2> QED BY <1>1, <1>2, <2>1, StampStep
<1> QED BY <1>3, <1>4, <1>5 DEF TimedSend

LEMMA TimedDataStep ==
    ASSUME IInv, IInv', TInv, NEW s \in SID, NEW cl \in PccpClCode, TimedData(s, cl)
    PROVE  TInv'
<1> DEFINE halve == cl = "CONGESTED" /\ now > last_cong_rcvd + srtt'
<1>1. /\ Stamp /\ UNCHANGED <<postponed, last_timeout_doubled_time>>
      /\ last_cong_rcvd' \in {now, last_cong_rcvd}
      /\ DataReceived(s, cl, halve)
      /\ IF rtsid = s THEN rttMeasurementComplete(now - rtsid_sendtime)
         ELSE UNCHANGED <<srtt, rttvar, rexmit_timeout>>
    BY DEF TimedData, estimate
<1>2. /\ postponed' \in SUBSET SID /\ last_timeout_doubled_time' \in Nat /\ last_cong_rcvd' \in Nat
    BY <1>1 DEF TInv, TimedTypeOK
<1>3. EstimatesBounded'
    <2>1. CASE rtsid = s
        <3>1. rtsid # NoMeasurement
            BY <2>1 DEF SID, NoMeasurement
        <3>2. PICK rtt \in 0 .. MaxRexmitTimeout : rtt = now - rtsid_sendtime
            BY <3>1, MeasuredRoundTrip
        <3> QED BY <1>1, <2>1, <3>2, EstimateStep DEF TInv
    <2>2. CASE rtsid # s
        BY <1>1, <2>2 DEF TInv, EstimatesBounded
    <2> QED BY <2>1, <2>2
<1>4. /\ sendRequestsToSocket(sidToTimerMap \ {s}, rexmitTimers \ {s}, rexmitQueue,
                              unsentSidQueue, window', CancelMeasurement(s))
      /\ UNCHANGED sidRexmitCount
    BY <1>1 DEF DataReceived
<1>5. PICK win \in Nat : win = window'
    BY DEF IInv, TypeOK
<1>6. PICK measured \in {rtsid, NoMeasurement} : measured = CancelMeasurement(s)
    BY DEF CancelMeasurement
<1>7. /\ unsentSidQueue \in Seq(SID)
      /\ \A r \in RangeOf(unsentSidQueue) : r \in SID /\ getsSent[r] = 0
      /\ (sidToTimerMap \ {s}) \cap (RangeOf(rexmitQueue) \cup RangeOf(unsentSidQueue)) = {}
    <2>1. unsentSidQueue \in Seq(SID)
        BY DEF IInv, TypeOK
    <2>2. RangeOf(unsentSidQueue) \subseteq SID
        BY <2>1 DEF RangeOf
    <2> QED BY <2>1, <2>2 DEF IInv, Accounting, OnePlace
<1>8. PICK sent \in SUBSET sidToTimerMap, timers \in SUBSET SID :
          sent = sidToTimerMap \ {s} /\ timers = rexmitTimers \ {s}
    BY DEF IInv, TypeOK
<1>9. sendRequestsToSocket(sent, timers, rexmitQueue, unsentSidQueue, win, measured)
    BY <1>4, <1>5, <1>6, <1>8
<1>10. Moves
    BY <1>1, <1>4, <1>7, <1>8, <1>9, FilledMoves
<1> QED BY <1>1, <1>2, <1>3, <1>10, StampStep

LEMMA TimedRexmitStep ==
    ASSUME IInv, IInv', TInv, NEW s \in SID, TimedRexmit(s)
    PROVE  TInv'
<1>1. /\ Stamp /\ expiry[s] = now /\ RexmitTimer(s) /\ UNCHANGED <<srtt, rttvar, last_cong_rcvd>>
      /\ postponed' = postponed \cup ({s} \cap RangeOf(rexmitQueue'))
    BY DEF TimedRexmit, estimate
<1>2. /\ s \in sidToTimerMap /\ s \notin RangeOf(rexmitQueue) /\ rexmitTimers = sidToTimerMap
      /\ sidRexmitCount \in [SID -> Nat] /\ getsSent \in [SID -> Nat] /\ postponed \in SUBSET SID
      /\ sidToTimerMap \in SUBSET SID /\ rexmitQueue \in Seq(SID) /\ unsentSidQueue \in Seq(SID)
      /\ window \in Nat /\ TypeOK
    BY <1>1 DEF IInv, TInv, TypeOK, TimedTypeOK, RexmitTimer, OnePlace, TimerForEveryRequestInWindow
<1>3. EstimatesBounded' /\ last_timeout_doubled_time' \in Nat
    <2>1. CASE BackOff
        BY <1>1, <2>1, BackOffStep DEF TInv, BackOff, TimedTypeOK, estimate
    <2>2. CASE UNCHANGED <<rexmit_timeout, last_timeout_doubled_time>>
        BY <1>1, <2>2 DEF TInv, EstimatesBounded, TimedTypeOK
    <2> QED BY <2>1, <2>2 DEF TimedRexmit
<1>4. postponed' \in SUBSET SID /\ last_cong_rcvd' \in Nat
    BY <1>1, <1>2 DEF TInv, TimedTypeOK
<1>5. \A r \in SID : increaseRexmitCount(s)[r] = IF r = s THEN sidRexmitCount[r] + 1 ELSE sidRexmitCount[r]
    BY <1>2 DEF increaseRexmitCount
<1>6. CASE AbortRequest(s)
    <2>1. /\ s \in aborted' /\ sidRexmitCount' = increaseRexmitCount(s)
          /\ sendRequestsToSocket(sidToTimerMap \ {s}, rexmitTimers \ {s}, rexmitQueue,
                                  unsentSidQueue, window, CancelMeasurement(s))
        BY <1>6 DEF AbortRequest
    <2>2. UNCHANGED postponed
        BY <1>1, <2>1 DEF IInv, Accounting
    <2>3. PICK measured \in {rtsid, NoMeasurement} : measured = CancelMeasurement(s)
        BY DEF CancelMeasurement
    <2>4. /\ \A r \in RangeOf(unsentSidQueue) : r \in SID /\ getsSent[r] = 0
          /\ (sidToTimerMap \ {s}) \cap (RangeOf(rexmitQueue) \cup RangeOf(unsentSidQueue)) = {}
        <3>1. RangeOf(unsentSidQueue) \subseteq SID
            BY <1>2 DEF RangeOf
        <3> QED BY <3>1 DEF IInv, Accounting, OnePlace
    <2>5. PICK sent \in SUBSET sidToTimerMap, timers \in SUBSET SID :
              sent = sidToTimerMap \ {s} /\ timers = rexmitTimers \ {s}
        BY <1>2
    <2>6. sendRequestsToSocket(sent, timers, rexmitQueue, unsentSidQueue, window, measured)
        BY <2>1, <2>3, <2>5
    <2>7. \A r \in SID : \/ sidRexmitCount'[r] = sidRexmitCount[r]
                         \/ /\ sidRexmitCount'[r] = sidRexmitCount[r] + 1
                            /\ r \in sidToTimerMap /\ r \notin sent
        BY <1>2, <1>5, <2>1, <2>5
    <2>8. sent \cap (RangeOf(rexmitQueue) \cup RangeOf(unsentSidQueue)) = {}
        BY <2>4, <2>5
    <2>9. PICK uq \in Seq(SID), win \in Nat : uq = unsentSidQueue /\ win = window
        BY <1>2
    <2>10. /\ sendRequestsToSocket(sent, timers, rexmitQueue, uq, win, measured)
           /\ \A r \in RangeOf(uq) : r \in SID /\ getsSent[r] = 0
           /\ sent \cap (RangeOf(rexmitQueue) \cup RangeOf(uq)) = {}
        BY <2>4, <2>6, <2>8, <2>9
    <2>11. Moves
        BY <2>2, <2>3, <2>5, <2>7, <2>9, <2>10, FilledMoves
    <2> QED BY <1>1, <1>3, <1>4, <2>11, StampStep
<1>7. CASE PostponeRetransmission(s)
    <2>1. /\ sidRexmitCount' = increaseRexmitCount(s) /\ sidToTimerMap' = sidToTimerMap \ {s}
          /\ rexmitQueue' = Append(rexmitQueue, s) /\ UNCHANGED getsSent
          /\ rtsid' \in {rtsid, NoMeasurement}
        BY <1>7 DEF PostponeRetransmission, sendNothing, CancelMeasurement
    <2>2. RangeOf(rexmitQueue') = RangeOf(rexmitQueue) \cup {s} /\ RangeOf(rexmitQueue) \subseteq SID
        <3>1. Distinct(rexmitQueue)
            BY DEF IInv, OnePlace
        <3>2. RangeOf(rexmitQueue) \subseteq SID
            BY <1>2 DEF RangeOf
        <3> QED BY <1>2, <2>1, <3>1, <3>2, AppendToQueue
    <2>3. Due(s) /\ postponed' = postponed \cup {s}
        BY <1>1, <1>2, <1>5, <2>1, <2>2 DEF Due
    <2>4. \A r \in sidToTimerMap' : Kept(r)
        BY <1>2, <1>5, <2>1 DEF Kept
    <2>5. \A r \in RangeOf(rexmitQueue') :
              \/ r \in RangeOf(rexmitQueue) /\ sidRexmitCount'[r] = sidRexmitCount[r]
              \/ Due(r) /\ r \in postponed'
        BY <1>2, <1>5, <2>1, <2>2, <2>3
    <2>6. \A r \in SID : sidRexmitCount'[r] >= sidRexmitCount[r]
        <3>1. \A c \in Nat : c + 1 >= c /\ c >= c
            OBVIOUS
        <3> QED BY <1>2, <1>5, <2>1, <3>1
    <2>7. Moves
        BY <2>1, <2>2, <2>3, <2>4, <2>5, <2>6 DEF Moves
    <2> QED BY <1>1, <1>3, <1>4, <2>7, StampStep
<1>8. CASE Retransmit(s)
    <2>1. /\ sidRexmitCount' = increaseRexmitCount(s) /\ getsSent' = [getsSent EXCEPT ![s] = @ + 1]
          /\ UNCHANGED <<sidToTimerMap, rexmitQueue>> /\ rtsid' \in {rtsid, NoMeasurement}
        BY <1>8 DEF Retransmit, CancelMeasurement
    <2>2. Again(s) /\ UNCHANGED postponed
        BY <1>1, <1>2, <1>5, <2>1 DEF Again, Due
    <2>3. \A r \in sidToTimerMap' : Kept(r) \/ Again(r)
        BY <1>2, <1>5, <2>1, <2>2 DEF Kept
    <2>4. RangeOf(rexmitQueue) \subseteq SID
        BY <1>2 DEF RangeOf
    <2>5. \A r \in RangeOf(rexmitQueue') : r \in RangeOf(rexmitQueue) /\ sidRexmitCount'[r] = sidRexmitCount[r]
        BY <1>2, <1>5, <2>1, <2>4
    <2>6. \A r \in SID : sidRexmitCount'[r] >= sidRexmitCount[r]
        <3>1. \A c \in Nat : c + 1 >= c /\ c >= c
            OBVIOUS
        <3> QED BY <1>2, <1>5, <2>1, <3>1
    <2>7. Moves
        BY <2>1, <2>2, <2>3, <2>5, <2>6 DEF Moves
    <2> QED BY <1>1, <1>3, <1>4, <2>7, StampStep
<1> QED BY <1>1, <1>6, <1>7, <1>8 DEF RexmitTimer

(* Time passes no timer that is due. *)
LEMMA TickStep ==
    ASSUME IInv, TInv, Tick
    PROVE  TInv'
<1>1. /\ now' = now + 1 /\ now \in Nat /\ rexmitTimers = sidToTimerMap /\ sidToTimerMap \subseteq SID
      /\ \A s \in sidToTimerMap : expiry[s] > now
      /\ UNCHANGED <<vars, expiry, firstTransTime, rtsid_sendtime, srtt, rttvar, rexmit_timeout,
                     last_timeout_doubled_time, last_cong_rcvd, postponed>>
    BY DEF Tick, TInv, TimedTypeOK, IInv, TypeOK, TimerForEveryRequestInWindow, estimate
<1>2. TimedTypeOK' /\ EstimatesBounded' /\ PostponedTimedOut' /\ MeasurementTimes'
    BY <1>1 DEF TInv, TimedTypeOK, EstimatesBounded, PostponedTimedOut, MeasurementTimes, vars
<1>3. \A s \in SID : expiry[s] \in Nat /\ firstTransTime[s] \in Nat
    BY DEF TInv, TimedTypeOK
<1>4. WindowTimes'
    BY <1>1, <1>3 DEF TInv, WindowTimes, vars
<1>5. QueueTimes'
    <2> SUFFICES ASSUME NEW s \in RangeOf(rexmitQueue)
                 PROVE  s \in postponed
                        /\ firstTransTime[s] + Times(sidRexmitCount[s], MinRexmitTimeout) <= now + 1
        BY <1>1 DEF QueueTimes, vars
    <2>1. s \in SID /\ sidRexmitCount[s] \in Nat
        BY DEF IInv, TypeOK, RangeOf
    <2>2. PICK lo \in Nat : lo = Times(sidRexmitCount[s], MinRexmitTimeout)
        BY <2>1, TimesStep, TimedAssumption
    <2>3. s \in postponed /\ firstTransTime[s] + lo <= now
        BY <2>2 DEF TInv, QueueTimes
    <2>4. firstTransTime[s] + lo <= now + 1
        BY <1>1, <1>3, <2>1, <2>2, <2>3
    <2> QED BY <2>2, <2>3, <2>4
<1> QED BY <1>2, <1>4, <1>5 DEF TInv

LEMMA TimedStepPreserves == IInv /\ TInv /\ [TimedNext]_timedVars => IInv' /\ TInv'
<1> SUFFICES ASSUME IInv, TInv, [TimedNext]_timedVars PROVE IInv' /\ TInv'
    OBVIOUS
<1>1. IInv'
    BY TimedStepIsStep, StepPreserves
<1>2. CASE UNCHANGED timedVars
    BY <1>1, <1>2 DEF timedVars, vars, clocks, TInv, TimedTypeOK, EstimatesBounded, WindowTimes, QueueTimes,
                PostponedTimedOut, MeasurementTimes
<1>3. ASSUME NEW s \in SID, TimedDeliverUp(s) PROVE TInv'
    BY <1>3 DEF TimedDeliverUp, DeliverUp, clocks, TInv, TimedTypeOK, EstimatesBounded, WindowTimes,
                QueueTimes, PostponedTimedOut, MeasurementTimes
<1>4. CASE TimedSend
    BY <1>1, <1>4, TimedSendStep
<1>5. ASSUME NEW s \in SID, TimedRexmit(s) PROVE TInv'
    BY <1>1, <1>5, TimedRexmitStep
<1>6. ASSUME NEW s \in SID, NEW cl \in PccpClCode, TimedData(s, cl) PROVE TInv'
    BY <1>1, <1>6, TimedDataStep
<1>7. CASE Tick
    BY <1>1, <1>7, TickStep
<1>8. CASE TimeIsUp
    BY <1>1, <1>2, <1>8 DEF TimeIsUp
<1> QED BY <1>1, <1>2, <1>3, <1>4, <1>5, <1>6, <1>7, <1>8 DEF TimedNext

----------------------------------------------------------------------------
(* The clock, the RTO and the estimates only restrict what Pccp allows:    *)
(* every behaviour of PccpAlg with its times is a behaviour of Pccp, so    *)
(* whatever is proved of Pccp holds of it.                                 *)
THEOREM TimedRefinesPccp == TimedSpec => Spec
<1>1. TimedInit => Init
    BY DEF TimedInit
<1>2. [TimedNext]_timedVars => [Next]_vars
    BY TimedStepIsStep
<1> QED BY <1>1, <1>2, PTL DEF TimedSpec, Spec

(* The invariant of Pccp and what relates the times kept for a request to  *)
(* the number of its time-outs, at every moment.                           *)
THEOREM TimedInvariance == TimedSpec => [](IInv /\ TInv)
<1>1. TimedInit => IInv /\ TInv
    BY TimedInitEstablishes
<1> QED BY <1>1, TimedStepPreserves, PTL DEF TimedSpec

(* The variables that hold times keep their types. *)
THEOREM TimedTypeCorrect == TimedSpec => []TimedTypeOK
<1>1. IInv /\ TInv => TimedTypeOK
    BY DEF TInv
<1> QED BY <1>1, TimedInvariance, PTL

(* srtt and rttvar stay in the range of round trips and the RTO between    *)
(* its bounds, whatever the network delays.                                *)
THEOREM EstimatesBoundedHolds == TimedSpec => []EstimatesBounded
<1>1. IInv /\ TInv => EstimatesBounded
    BY DEF TInv
<1> QED BY <1>1, TimedInvariance, PTL

(* A measured round trip starts at the only GET of its request and is      *)
(* never older than the maximal RTO, although 0 is both a simulation time  *)
(* and the mark for "no measurement".                                      *)
THEOREM MeasuredFromItsGetHolds == TimedSpec => []MeasuredFromItsGet
<1>1. IInv /\ TInv => MeasuredFromItsGet
    BY MeasuredRoundTrip, TimedAssumption DEF MeasuredFromItsGet, TInv, MeasurementTimes
<1> QED BY <1>1, TimedInvariance, PTL

(* A request that never waited for the window is in it no longer than one  *)
(* maximal RTO for each of its GETs.                                       *)
THEOREM SettledInTimeHolds == TimedSpec => []SettledInTime
<1>1. ASSUME IInv, TInv, NEW s \in sidToTimerMap \ postponed
      PROVE  now - firstTransTime[s] <= (sidRexmitCount[s] + 1) * MaxRexmitTimeout
    <2>1. s \in SID /\ sidRexmitCount[s] \in Nat
        BY <1>1 DEF IInv, TypeOK
    <2>2. now \in Nat /\ expiry[s] \in Nat /\ firstTransTime[s] \in Nat
        BY <1>1, <2>1 DEF TInv, TimedTypeOK
    <2>3. now <= expiry[s] /\ expiry[s] <= firstTransTime[s] + Times(sidRexmitCount[s] + 1, MaxRexmitTimeout)
        BY <1>1 DEF TInv, WindowTimes
    <2>4. PICK hi \in Nat : hi = Times(sidRexmitCount[s] + 1, MaxRexmitTimeout)
        <3>1. sidRexmitCount[s] + 1 \in Nat
            BY <2>1
        <3> QED BY <3>1, TimesStep, TimedAssumption
    <2>5. now - firstTransTime[s] <= hi
        BY <2>2, <2>3, <2>4
    <2> QED BY <2>4, <2>5 DEF Times
<1>2. IInv /\ TInv => SettledInTime
    BY <1>1 DEF SettledInTime
<1> QED BY <1>2, TimedInvariance, PTL

(* A step that gives a request up is the one of its timer, at its expiry,  *)
(* with the count at the limit.                                            *)
LEMMA GivenUpAtExpiry ==
    ASSUME IInv, TInv, [TimedNext]_timedVars, NEW s \in aborted' \ aborted
    PROVE  /\ s \in sidToTimerMap /\ expiry[s] = now
           /\ sidRexmitCount[s] + 1 > MaxRexmitLimit
<1>1. PICK r \in SID : TimedRexmit(r) /\ s = r
    <2>1. CASE UNCHANGED timedVars
        BY <2>1 DEF timedVars, vars
    <2>2. CASE TimedSend
        BY <2>2 DEF TimedSend, StartMessage, SendTimer, LastSendTimer, sendRequest
    <2>3. ASSUME NEW r \in SID, TimedRexmit(r) PROVE s = r
        BY <2>3 DEF TimedRexmit, RexmitTimer, AbortRequest, PostponeRetransmission, Retransmit
    <2>4. ASSUME NEW r \in SID, TimedDeliverUp(r) PROVE FALSE
        BY <2>4 DEF TimedDeliverUp, DeliverUp
    <2>5. ASSUME NEW r \in SID, NEW cl \in PccpClCode, TimedData(r, cl) PROVE FALSE
        BY <2>5 DEF TimedData, DataReceived
    <2>6. CASE Tick \/ TimeIsUp
        BY <2>6 DEF Tick, TimeIsUp, timedVars, vars
    <2> QED BY <2>1, <2>2, <2>3, <2>4, <2>5, <2>6 DEF TimedNext
<1>2. s \in rexmitTimers /\ expiry[s] = now /\ RexmitTimer(s) /\ s \in SID
    BY <1>1 DEF TimedRexmit, RexmitTimer
<1>3. increaseRexmitCount(s)[s] > MaxRexmitLimit
    BY <1>2 DEF RexmitTimer, PostponeRetransmission, Retransmit
<1>4. increaseRexmitCount(s)[s] = sidRexmitCount[s] + 1
    BY <1>2 DEF increaseRexmitCount, IInv, TypeOK
<1> QED BY <1>2, <1>3, <1>4 DEF IInv, TimerForEveryRequestInWindow

(* No request is given up sooner than maxRexmitLimit + 1 minimal RTOs      *)
(* after its first GET.                                                    *)
THEOREM NotGivenUpEarlyHolds == TimedSpec => NotGivenUpEarly
<1>1. ASSUME IInv, TInv, [TimedNext]_timedVars, NEW s \in aborted' \ aborted
      PROVE  now - firstTransTime[s] >= (MaxRexmitLimit + 1) * MinRexmitTimeout
    <2>1. s \in SID /\ sidRexmitCount[s] \in Nat /\ s \in sidToTimerMap /\ expiry[s] = now
        BY <1>1, GivenUpAtExpiry DEF IInv, TypeOK
    <2>2. sidRexmitCount[s] + 1 > MaxRexmitLimit
        BY <1>1, GivenUpAtExpiry
    <2>3. sidRexmitCount[s] <= MaxRexmitLimit
        BY <1>1, <2>1 DEF IInv, Accounting
    <2>4. sidRexmitCount[s] = MaxRexmitLimit
        BY <2>1, <2>2, <2>3, PccpAssumption
    <2>5. now \in Nat /\ firstTransTime[s] \in Nat
        BY <1>1, <2>1 DEF TInv, TimedTypeOK
    <2>6. firstTransTime[s] + Times(MaxRexmitLimit + 1, MinRexmitTimeout) <= now
        BY <1>1, <2>1, <2>4 DEF TInv, WindowTimes
    <2>7. PICK lo \in Nat : lo = Times(MaxRexmitLimit + 1, MinRexmitTimeout)
        <3>1. MaxRexmitLimit + 1 \in Nat /\ MinRexmitTimeout \in Nat
            BY PccpAssumption, TimedAssumption
        <3> QED BY <3>1, TimesStep
    <2>8. now - firstTransTime[s] >= lo
        BY <2>5, <2>6, <2>7
    <2> QED BY <2>7, <2>8 DEF Times
<1>2. IInv /\ TInv /\ [TimedNext]_timedVars =>
          [\A s \in aborted' \ aborted :
              now - firstTransTime[s] >= (MaxRexmitLimit + 1) * MinRexmitTimeout]_timedVars
    BY <1>1
<1> QED BY <1>2, TimedInvariance, PTL DEF TimedSpec, NotGivenUpEarly
============================================================================
