----------------------- MODULE PendingGetTableProofs -----------------------
(***************************************************************************)
(* For any nodes, SIDs, nonces and lifetimes (with that of a forwarded GET *)
(* not above that of an own request): an SID with entries has a timer      *)
(* ahead, no forwarded GET is forgotten before its time, and without its   *)
(* times the table is PendingGets.                                         *)
(***************************************************************************)
EXTENDS PendingGetTable, TLAPS

(* Entries were made in the past, and those of other nodes all with the    *)
(* same lifetime: this is why a timer moved by a later entry is never too  *)
(* early for an older one.                                                 *)
MadeBefore ==
    \A s \in Sid : \A e \in table[s] :
        e.since <= now /\ (~e.isConsumer => e.TTL = ForwardTtl)

IInv == TypeOK /\ TimerForEverySid /\ ForwardedLiveTheirTime /\ MadeBefore

(* What one insertion does: a new entry, and the timer started for its     *)
(* lifetime, keep the invariant. The entries that were there may be marked *)
(* as served on the way (old).                                             *)
LEMMA InsertionKeeps ==
    ASSUME IInv, NEW s \in Sid,
           NEW old \in SUBSET Entry,
           \A e \in old : \E f \in table[s] :
               e.since = f.since /\ e.TTL = f.TTL /\ e.isConsumer = f.isConsumer,
           NEW t \in Nat, t >= ForwardTtl,
           NEW new \in Entry,
           new.since = now, new.TTL = t,
           ~new.isConsumer => t = ForwardTtl,
           table' = [table EXCEPT ![s] = old \cup {new}],
           timer' = [timer EXCEPT ![s] = now + t],
           now' = now
    PROVE  IInv'
<1> USE PitAssumption
<1>1. now \in Nat /\ now + t \in Nat /\ now + t # NoTimer /\ ForwardTtl \in Nat
  BY DEF IInv, TypeOK, NoTimer
<1>2. TypeOK'
  BY <1>1 DEF IInv, TypeOK
<1>3. \A u \in Sid : /\ table'[u] = IF u = s THEN old \cup {new} ELSE table[u]
                     /\ timer'[u] = IF u = s THEN now + t ELSE timer[u]
  BY DEF IInv, TypeOK
<1>4. TimerForEverySid'
  BY <1>1, <1>3 DEF IInv, TimerForEverySid, haveSID
<1>6. MadeBefore'
  <2> SUFFICES ASSUME NEW u \in Sid, NEW e \in table'[u]
               PROVE  e.since <= now /\ (~e.isConsumer => e.TTL = ForwardTtl)
    BY DEF MadeBefore
  <2>1. CASE u # s
    BY <1>3, <2>1 DEF IInv, MadeBefore
  <2>2. CASE u = s /\ e \in old
    BY <2>2 DEF IInv, MadeBefore
  <2>3. CASE u = s /\ e = new
    BY <1>1, <2>3
  <2> QED
    BY <1>3, <2>1, <2>2, <2>3
<1>7. ForwardedLiveTheirTime'
  <2> SUFFICES ASSUME NEW u \in Sid, NEW e \in table'[u], ~e.isConsumer
               PROVE  timer'[u] >= e.since + e.TTL
    BY DEF ForwardedLiveTheirTime
  <2>1. CASE u # s
    BY <1>3, <2>1 DEF IInv, ForwardedLiveTheirTime
  <2>2. CASE u = s
    <3>1. e \in Entry /\ e.since \in Nat
      BY <1>3, <2>2 DEF Entry
    <3>2. e.since <= now /\ e.TTL = ForwardTtl
      BY <1>6, <2>2 DEF MadeBefore
    <3>3. timer'[u] = now + t
      BY <1>3, <2>2
    <3> QED
      BY <1>1, <3>1, <3>2, <3>3
  <2> QED
    BY <2>1, <2>2
<1> QED
  BY <1>2, <1>4, <1>6, <1>7 DEF IInv

(* Erasing entries of an SID, with its timer if no entry is left.          *)
LEMMA ErasureKeeps ==
    ASSUME IInv, NEW s \in Sid, NEW kept \in SUBSET table[s],
           NEW tm \in {timer[s], NoTimer}, tm = NoTimer => kept = {},
           table' = [table EXCEPT ![s] = kept],
           timer' = [timer EXCEPT ![s] = tm],
           now' = now
    PROVE  IInv'
<1> USE PitAssumption
<1>1. /\ table \in [Sid -> SUBSET Entry] /\ timer \in [Sid -> Nat \cup {NoTimer}]
      /\ now \in Nat
  BY DEF IInv, TypeOK
<1>2. TypeOK'
  BY <1>1 DEF TypeOK
<1>3. \A u \in Sid : /\ table'[u] \subseteq table[u]
                     /\ table'[u] # {} => timer'[u] = timer[u]
  BY <1>1
<1>4. TimerForEverySid'
  BY <1>3 DEF IInv, TimerForEverySid, haveSID
<1>6. MadeBefore'
  BY <1>3 DEF IInv, MadeBefore
<1>7. ForwardedLiveTheirTime'
  BY <1>3 DEF IInv, ForwardedLiveTheirTime
<1> QED
  BY <1>2, <1>4, <1>6, <1>7 DEF IInv

(* createEntry, whichever node's GET is entered. *)
LEMMA CreateKeeps ==
    ASSUME IInv, NEW s \in Sid, NEW n \in Nid \cup {Self}, NEW t \in Nat, t >= ForwardTtl,
           NEW nonce \in Nonce \cup {OwnNonce}, NEW consumer \in BOOLEAN,
           ~consumer => t = ForwardTtl,
           createEntry(s, n, t, nonce, consumer), now' = now
    PROVE  IInv'
<1>1. CASE haveNonce(s, nonce)
  <2>1. table' = table /\ timer' = timer
    BY <1>1 DEF createEntry
  <2> QED
    BY <2>1 DEF IInv, TypeOK, TimerForEverySid, haveSID, ForwardedLiveTheirTime, MadeBefore
<1>2. CASE ~haveNonce(s, nonce)
  <2> DEFINE new == PITentry(n, t, nonce, consumer)
  <2>1. /\ table \in [Sid -> SUBSET Entry] /\ now \in Nat
    BY DEF IInv, TypeOK
  <2>2. /\ new \in Entry /\ new.since = now /\ new.TTL = t
        /\ ~new.isConsumer => t = ForwardTtl
    BY <2>1 DEF PITentry, Entry
  <2>4. /\ table' = [table EXCEPT ![s] = table[s] \cup {new}]
        /\ timer' = [timer EXCEPT ![s] = now + t]
    BY <1>2 DEF createEntry, timerStarted
  <2> HIDE DEF new
  <2>5. table[s] \in SUBSET Entry
    BY <2>1
  <2> QED
    BY <2>1, <2>2, <2>4, <2>5, InsertionKeeps
<1> QED
  BY <1>1, <1>2

(* Marking entries as served, and entering the GET that was answered. *)
LEMMA ServeKeeps ==
    ASSUME IInv, NEW s \in Sid, NEW n \in Nid, NEW nonce \in Nonce, NEW several \in BOOLEAN,
           ServeFromCache(s, n, nonce, several)
    PROVE  IInv'
<1> USE PitAssumption
<1> DEFINE old == {[e EXCEPT !.served = TRUE] : e \in table[s]}
           new == [PITentry(n, ForwardTtl, nonce, FALSE) EXCEPT !.served = several]
<1>1. /\ table \in [Sid -> SUBSET Entry] /\ timer \in [Sid -> Nat \cup {NoTimer}] /\ now \in Nat
  BY DEF IInv, TypeOK
<1>2. /\ old \in SUBSET Entry
      /\ \A e \in old : \E f \in table[s] :
             e.since = f.since /\ e.TTL = f.TTL /\ e.isConsumer = f.isConsumer
  <2>1. ASSUME NEW f \in Entry, NEW e, e = [f EXCEPT !.served = TRUE]
        PROVE  /\ e \in Entry
               /\ e.since = f.since
               /\ e.TTL = f.TTL /\ e.isConsumer = f.isConsumer
    <3>1. e = [nid |-> f.nid, TTL |-> f.TTL, nonce |-> f.nonce, served |-> TRUE,
               isConsumer |-> f.isConsumer, since |-> f.since]
      BY <2>1 DEF Entry
    <3> QED
      BY <3>1 DEF Entry
  <2> QED
    BY <1>1, <2>1
<1>4. now' = now
  BY DEF ServeFromCache
<1>5. CASE haveNonce(s, nonce)
  <2>1. /\ table' = [table EXCEPT ![s] = old]
        /\ timer' = timer
    BY <1>5 DEF ServeFromCache
  <2> HIDE DEF old
  <2>2. \A u \in Sid : table'[u] = IF u = s THEN old ELSE table[u]
    BY <1>1, <2>1
  <2>3. TypeOK'
    BY <1>1, <1>2, <1>4, <2>1 DEF TypeOK
  <2>4. TimerForEverySid'
    BY <1>2, <1>4, <2>1, <2>2 DEF IInv, TimerForEverySid, haveSID
  <2>6. MadeBefore'
    BY <1>2, <1>4, <2>2 DEF IInv, MadeBefore
  <2>7. ForwardedLiveTheirTime'
    BY <1>2, <2>1, <2>2 DEF IInv, ForwardedLiveTheirTime
  <2> QED
    BY <2>3, <2>4, <2>6, <2>7 DEF IInv
<1>6. CASE ~haveNonce(s, nonce)
  <2>1. /\ new \in Entry /\ new.since = now /\ new.TTL = ForwardTtl
        /\ ~new.isConsumer
    BY <1>1 DEF PITentry, Entry
  <2>2. /\ table' = [table EXCEPT ![s] = old \cup {new}]
        /\ timer' = [timer EXCEPT ![s] = now + ForwardTtl]
    BY <1>6 DEF ServeFromCache, timerStarted
  <2>4. ForwardTtl \in Nat /\ ForwardTtl >= ForwardTtl
    OBVIOUS
  <2> HIDE DEF old, new
  <2> QED
    BY <1>2, <1>4, <2>1, <2>2, <2>4, InsertionKeeps
<1> QED
  BY <1>5, <1>6

(* The inductive invariant holds in every state of every instance.         *)
THEOREM PitInvariance == Spec => []IInv
<1> USE PitAssumption
<1>1. Init => IInv
  BY DEF Init, IInv, TypeOK, TimerForEverySid, haveSID, ForwardedLiveTheirTime,
         MadeBefore, NoTimer
<1>2. IInv /\ [Next]_vars => IInv'
  <2> SUFFICES ASSUME IInv, [Next]_vars PROVE IInv'
    OBVIOUS
  <2>0. /\ table \in [Sid -> SUBSET Entry] /\ timer \in [Sid -> Nat \cup {NoTimer}]
        /\ now \in Nat
    BY DEF IInv, TypeOK
  <2>1. ASSUME NEW s \in Sid, NEW n \in Nid, NEW nonce \in Nonce, ForwardGet(s, n, nonce)
        PROVE  IInv'
    <3>1. createEntry(s, n, ForwardTtl, nonce, FALSE) /\ now' = now
      BY <2>1 DEF ForwardGet
    <3>2. ForwardTtl \in Nat /\ ForwardTtl >= ForwardTtl
      OBVIOUS
    <3> QED
      BY <2>1, <3>1, <3>2, CreateKeeps
  <2>2. ASSUME NEW s \in Sid, OwnRequest(s) PROVE IInv'
    <3>1. createEntry(s, Self, ConsumerTtl, OwnNonce, TRUE) /\ now' = now
      BY <2>2 DEF OwnRequest
    <3>2. ConsumerTtl \in Nat /\ ConsumerTtl >= ForwardTtl
      OBVIOUS
    <3> QED
      BY <2>2, <3>1, <3>2, CreateKeeps
  <2>3. ASSUME NEW s \in Sid, RemoveEntry(s) PROVE IInv'
    BY <2>0, <2>3, ErasureKeeps DEF RemoveEntry
  <2>4. ASSUME NEW s \in Sid, RemoveConsumer(s) PROVE IInv'
    <3> DEFINE kept == {e \in table[s] : ~e.isConsumer}
    <3>1. table' = [table EXCEPT ![s] = kept] /\ timer' = timer /\ now' = now
      BY <2>4 DEF RemoveConsumer
    <3>2. timer[s] # NoTimer
      BY <2>4 DEF RemoveConsumer, isConsumer, IInv, TimerForEverySid, haveSID
    <3>3. timer' = [timer EXCEPT ![s] = timer[s]] /\ kept \in SUBSET table[s]
      BY <2>0, <3>1
    <3> HIDE DEF kept
    <3> QED
      BY <3>1, <3>2, <3>3, ErasureKeeps
  <2>5. ASSUME NEW s \in Sid, handleMessage(s) PROVE IInv'
    BY <2>0, <2>5, ErasureKeeps DEF handleMessage
  <2>6. CASE Tick
    <3>1. now' = now + 1 /\ table' = table /\ timer' = timer /\ \A s \in Sid : timer[s] # now
      BY <2>6 DEF Tick
    <3>2. TypeOK'
      BY <2>0, <3>1 DEF TypeOK
    <3>3. TimerForEverySid'
      BY <2>0, <3>1 DEF IInv, TimerForEverySid, haveSID
    <3>4. ForwardedLiveTheirTime'
      BY <3>1 DEF IInv, ForwardedLiveTheirTime
    <3>5. MadeBefore'
      BY <2>0, <3>1 DEF IInv, MadeBefore, Entry
    <3> QED
      BY <3>2, <3>3, <3>4, <3>5 DEF IInv
  <2>7. CASE UNCHANGED vars
    BY <2>7 DEF vars, IInv, TypeOK, TimerForEverySid, haveSID, ForwardedLiveTheirTime,
               MadeBefore
  <2> QED
    BY <2>1, <2>2, <2>3, <2>4, <2>5, <2>6, <2>7, ServeKeeps DEF Next, Enter, EndOfSimulation
<1> QED
  BY <1>1, <1>2, PTL DEF Spec

(* TypeOK for every instance. *)
COROLLARY PitTypes == Spec => []TypeOK
<1>1. IInv => TypeOK
  BY DEF IInv
<1> QED
  BY <1>1, PitInvariance, PTL

(* colorPendingGetTable: entries never outlive their timer (TimerForEverySid). *)
THEOREM EntriesAreTimed == Spec => []TimerForEverySid
<1>1. IInv => TimerForEverySid
  BY DEF IInv
<1> QED
  BY <1>1, PitInvariance, PTL

(* The shared timer of an SID never fires before a forwarded GET has had   *)
(* its time (ForwardedLiveTheirTime).                                      *)
THEOREM ForwardedNotCutShort == Spec => []ForwardedLiveTheirTime
<1>1. IInv => ForwardedLiveTheirTime
  BY DEF IInv
<1> QED
  BY <1>1, PitInvariance, PTL

----------------------------------------------------------------------------
(***************************************************************************)
(* The table without time.                                                 *)
(***************************************************************************)
LEMMA UntimedMembers ==
    ASSUME NEW E
    PROVE  /\ \A e \in E : [nonce |-> e.nonce, consumer |-> e.isConsumer] \in Untimed(E)
           /\ \A x \in Untimed(E) : \E e \in E : x = [nonce |-> e.nonce, consumer |-> e.isConsumer]
BY DEF Untimed

LEMMA Projection ==
    ASSUME NEW c, NEW b
    PROVE  /\ [nonce |-> c, consumer |-> b].nonce = c
           /\ [nonce |-> c, consumer |-> b].consumer = b
OBVIOUS

LEMMA PendingChange ==
    ASSUME TypeOK, NEW s \in Sid, NEW E, table' = [table EXCEPT ![s] = E]
    PROVE  [t \in Sid |-> Untimed(table'[t])] =
               [[t \in Sid |-> Untimed(table[t])] EXCEPT ![s] = Untimed(E)]
<1> DEFINE f == [t \in Sid |-> Untimed(table[t])]
           g == [t \in Sid |-> Untimed(table'[t])]
<1>1. \A t \in Sid : table'[t] = IF t = s THEN E ELSE table[t]
    BY DEF TypeOK
<1>2. \A t \in Sid : Untimed(table'[t]) = IF t = s THEN Untimed(E) ELSE Untimed(table[t])
    BY <1>1
<1>3. \A t \in Sid : f[t] = Untimed(table[t]) /\ g[t] = Untimed(table'[t])
    OBVIOUS
<1>4. f = [t \in Sid |-> f[t]] /\ g = [t \in Sid |-> g[t]]
    OBVIOUS
<1> HIDE DEF f, g
<1>5. \A t \in Sid : g[t] = [f EXCEPT ![s] = Untimed(E)][t]
    BY <1>2, <1>3, <1>4
<1>6. g = [f EXCEPT ![s] = Untimed(E)]
    BY <1>4, <1>5
<1> QED BY <1>6 DEF f, g

LEMMA PendingStep ==
    ASSUME IInv, [Next]_vars
    PROVE  [Pending!Next]_([s \in Sid |-> Untimed(table[s])])
<1> DEFINE map == [s \in Sid |-> Untimed(table[s])]
<1>1. TypeOK /\ \A s \in Sid : map[s] = Untimed(table[s])
    BY DEF IInv
<1>2. \A s \in Sid : \A c : (\A e \in Untimed(table[s]) : e.nonce # c) <=> ~haveNonce(s, c)
    <2> TAKE s \in Sid
    <2> TAKE c
    <2>1. ASSUME NEW e \in table[s], e.nonce = c
          PROVE  \E x \in Untimed(table[s]) : x.nonce = c
        <3>1. [nonce |-> e.nonce, consumer |-> e.isConsumer] \in Untimed(table[s])
            BY UntimedMembers
        <3> QED BY <2>1, <3>1, Projection
    <2>2. ASSUME NEW x \in Untimed(table[s]), x.nonce = c
          PROVE  \E e \in table[s] : e.nonce = c
        <3>1. PICK e \in table[s] : x = [nonce |-> e.nonce, consumer |-> e.isConsumer]
            BY UntimedMembers
        <3> QED BY <2>2, <3>1, Projection
    <2> QED BY <2>1, <2>2 DEF haveNonce
<1>3. ASSUME NEW s \in Sid, NEW c \in Nonce \cup {OwnNonce}, NEW b \in BOOLEAN, NEW E,
             ~haveNonce(s, c), table' = [table EXCEPT ![s] = E],
             Untimed(E) = Untimed(table[s]) \cup {[nonce |-> c, consumer |-> b]}
      PROVE  [Pending!Next]_map
    <2>1. map' = [map EXCEPT ![s] = Untimed(table[s]) \cup {[nonce |-> c, consumer |-> b]}]
        BY <1>1, <1>3, PendingChange
    <2>2. Pending!createEntry(s, c, b)
        BY <1>1, <1>2, <1>3, <2>1 DEF Pending!createEntry
    <2> QED BY <2>2 DEF Pending!Next
<1>4. ASSUME NEW s \in Sid, NEW n, NEW t, NEW c \in Nonce \cup {OwnNonce}, NEW b \in BOOLEAN,
             createEntry(s, n, t, c, b)
      PROVE  [Pending!Next]_map
    <2>1. CASE haveNonce(s, c)
        BY <1>4, <2>1 DEF createEntry
    <2>2. CASE ~haveNonce(s, c)
        <3>0. PICK e : e = PITentry(n, t, c, b)
            OBVIOUS
        <3>1. e.nonce = c /\ e.isConsumer = b
            BY <3>0 DEF PITentry
        <3>2. table' = [table EXCEPT ![s] = table[s] \cup {e}]
            BY <1>4, <2>2, <3>0 DEF createEntry
        <3>3. Untimed(table[s] \cup {e}) = Untimed(table[s]) \cup {[nonce |-> c, consumer |-> b]}
            BY <3>1 DEF Untimed
        <3> QED BY <1>3, <2>2, <3>2, <3>3
    <2> QED BY <2>1, <2>2
<1>5. ASSUME NEW s \in Sid, NEW n \in Nid, NEW c \in Nonce, NEW several \in BOOLEAN,
             ServeFromCache(s, n, c, several)
      PROVE  [Pending!Next]_map
    <2>1. PICK served : served = {[e EXCEPT !.served = TRUE] : e \in table[s]}
        OBVIOUS
    <2>2. \A e \in table[s] : e \in Entry
        BY <1>1 DEF TypeOK
    <2>3. Untimed(served) = Untimed(table[s])
        <3>1. \A e \in table[s] : /\ [e EXCEPT !.served = TRUE].nonce = e.nonce
                                  /\ [e EXCEPT !.served = TRUE].isConsumer = e.isConsumer
            BY <2>2 DEF Entry
        <3>2. Untimed(served) \subseteq Untimed(table[s])
            <4> SUFFICES ASSUME NEW x \in Untimed(served)
                         PROVE  x \in Untimed(table[s])
                OBVIOUS
            <4>1. PICK d \in served : x = [nonce |-> d.nonce, consumer |-> d.isConsumer]
                BY UntimedMembers
            <4>2. PICK e \in table[s] : d = [e EXCEPT !.served = TRUE]
                BY <2>1
            <4> QED BY <3>1, <4>1, <4>2, UntimedMembers
        <3>3. Untimed(table[s]) \subseteq Untimed(served)
            <4> SUFFICES ASSUME NEW x \in Untimed(table[s])
                         PROVE  x \in Untimed(served)
                OBVIOUS
            <4>1. PICK e \in table[s] : x = [nonce |-> e.nonce, consumer |-> e.isConsumer]
                BY UntimedMembers
            <4>2. PICK d \in served : d = [e EXCEPT !.served = TRUE]
                BY <2>1
            <4> QED BY <3>1, <4>1, <4>2, UntimedMembers
        <3> QED BY <3>2, <3>3
    <2>0. PICK new : new = [PITentry(n, ForwardTtl, c, FALSE) EXCEPT !.served = several]
        OBVIOUS
    <2>4. new.nonce = c /\ new.isConsumer = FALSE
        BY <2>0 DEF PITentry
    <2>5. table' = [table EXCEPT ![s] = served \cup (IF haveNonce(s, c) THEN {} ELSE {new})]
        BY <1>5, <2>1, <2>0 DEF ServeFromCache
    <2>6. CASE haveNonce(s, c)
        <3>1. map' = [map EXCEPT ![s] = Untimed(table[s])]
            BY <1>1, <2>3, <2>5, <2>6, PendingChange
        <3> QED BY <1>1, <3>1
    <2>7. CASE ~haveNonce(s, c)
        <3>1. Untimed(served \cup {new}) = Untimed(served) \cup {[nonce |-> c, consumer |-> FALSE]}
            BY <2>4 DEF Untimed
        <3> QED BY <1>3, <2>3, <2>5, <2>7, <3>1
    <2> QED BY <2>6, <2>7
<1>6. ASSUME NEW s \in Sid, table' = [table EXCEPT ![s] = {}]
      PROVE  [Pending!Next]_map
    <2>0. Untimed({}) = {}
        BY DEF Untimed
    <2>1. map' = [map EXCEPT ![s] = {}]
        BY <1>1, <1>6, <2>0, PendingChange
    <2>2. CASE map[s] = {}
        BY <2>1, <2>2
    <2>3. CASE map[s] # {}
        BY <2>1, <2>3 DEF Pending!Next, Pending!RemoveEntry
    <2> QED BY <2>2, <2>3
<1>7. ASSUME NEW s \in Sid, RemoveConsumer(s)
      PROVE  [Pending!Next]_map
    <2>1. PICK rest : rest = {e \in table[s] : ~e.isConsumer} /\ table' = [table EXCEPT ![s] = rest]
        BY <1>7 DEF RemoveConsumer
    <2>2. Untimed(rest) = {e \in Untimed(table[s]) : ~e.consumer}
        BY <2>1 DEF Untimed
    <2>3. \E e \in Untimed(table[s]) : e.consumer
        <3>1. PICK e \in table[s] : e.isConsumer
            BY <1>7 DEF RemoveConsumer, isConsumer
        <3>2. [nonce |-> e.nonce, consumer |-> e.isConsumer] \in Untimed(table[s])
            BY UntimedMembers
        <3> QED BY <3>1, <3>2, Projection
    <2>4. map' = [map EXCEPT ![s] = {e \in Untimed(table[s]) : ~e.consumer}]
        BY <1>1, <2>1, <2>2, PendingChange
    <2> QED BY <1>1, <2>3, <2>4 DEF Pending!Next, Pending!RemoveConsumer
<1>8. CASE UNCHANGED table
    BY <1>8
<1> QED BY <1>4, <1>5, <1>6, <1>7, <1>8
        DEF Next, vars, Enter, ForwardGet, OwnRequest, RemoveEntry, handleMessage, Tick, EndOfSimulation

(* colorPendingGetTable with its lifetimes and shared timers is the table  *)
(* without times that the networks of nodes use in its place.              *)
THEOREM PendingImplemented == Spec => ImplementsPending
<1>1. Init => Pending!Init
    BY DEF Init, Pending!Init, Untimed
<1>2. IInv /\ [Next]_vars => [Pending!Next]_([s \in Sid |-> Untimed(table[s])])
    BY PendingStep
<1> QED BY <1>1, <1>2, PitInvariance, PTL DEF Spec, ImplementsPending, Pending!Spec
============================================================================
