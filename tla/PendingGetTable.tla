-------------------------- MODULE PendingGetTable --------------------------
(***************************************************************************)
(* colorPendingGetTable (the PIT): per SID the GETs that passed and wait   *)
(* for Data, and one timer for all of them. colorNoCluster enters the GETs *)
(* it forwards; colorTwoInterface also enters its own requests, takes      *)
(* those out alone when Data comes, and marks entries as served when it    *)
(* answers from its cache.                                                 *)
(***************************************************************************)
EXTENDS Integers

CONSTANTS
    Sid,
    Nid,            \* the nodes GETs come from
    Nonce,          \* the nonces of their GETs
    OwnNonce,       \* 0, the nonce of the node's own requests
    Self,           \* the node's own NID
    ForwardTtl,     \* lifetime of a forwarded GET (1 s in the code)
    ConsumerTtl,    \* lifetime of an own request (5 s in the code)
    MaxTime         \* bound on the clock: the simulation's time limit

ASSUME PitAssumption ==
    /\ OwnNonce \notin Nonce
    /\ ForwardTtl \in Nat \ {0}
    /\ ConsumerTtl \in Nat /\ ForwardTtl <= ConsumerTtl
    /\ MaxTime \in Nat

VARIABLES
    table,      \* per SID the set of its entries (no two are equal)
    timer,      \* per SID when its timer fires, or NoTimer (sids and timers)
    now         \* simTime()

vars == <<table, timer, now>>

NoTimer == -1

(* A PITentry; since is when it was entered (history). *)
PITentry(n, t, nonce, consumer) ==
    [nid |-> n, TTL |-> t, nonce |-> nonce, served |-> FALSE,
     isConsumer |-> consumer, since |-> now]

haveSID(s) == table[s] # {}

haveNonce(s, nonce) == \E e \in table[s] : e.nonce = nonce

isConsumer(s) == \E e \in table[s] : e.isConsumer

----------------------------------------------------------------------------
Init ==
    /\ table = [s \in Sid |-> {}]
    /\ timer = [s \in Sid |-> NoTimer]
    /\ now = 0

(* Faulty variant: the timer of an SID that has one is not started again. *)
timerStartedOnce(s, t) == [timer EXCEPT ![s] = IF @ = NoTimer THEN now + t ELSE @]

(* The timer of the SID, new or old, is (re)scheduled. *)
timerStarted(s, t) == [timer EXCEPT ![s] = now + t]

(* createEntry: nothing if the nonce is there already (and the timer is    *)
(* left alone), else a new entry and the timer.                            *)
createEntry(s, n, t, nonce, consumer) ==
    IF haveNonce(s, nonce) THEN UNCHANGED <<table, timer>>
    ELSE /\ table' = [table EXCEPT ![s] = @ \cup {PITentry(n, t, nonce, consumer)}]
         /\ timer' = timerStarted(s, t)

(* A GET of another node is forwarded. *)
ForwardGet(s, n, nonce) ==
    /\ now + ForwardTtl <= MaxTime
    /\ createEntry(s, n, ForwardTtl, nonce, FALSE)
    /\ UNCHANGED now

(* colorTwoInterface::testSend: the node's own request. *)
OwnRequest(s) ==
    /\ now + ConsumerTtl <= MaxTime
    /\ createEntry(s, Self, ConsumerTtl, OwnNonce, TRUE)
    /\ UNCHANGED now

(* colorTwoInterface answers a GET from its cache: for every cached packet *)
(* SetServed, then createEntry. From the second packet on the new entry is *)
(* served as well.                                                         *)
ServeFromCache(s, n, nonce, several) ==
    LET SetServed(es) == {[e EXCEPT !.served = TRUE] : e \in es}
        new == [PITentry(n, ForwardTtl, nonce, FALSE) EXCEPT !.served = several]
    IN  /\ now + ForwardTtl <= MaxTime
        /\ table' = [table EXCEPT ![s] =
              SetServed(@) \cup (IF haveNonce(s, nonce) THEN {} ELSE {new})]
        /\ timer' = IF haveNonce(s, nonce) THEN timer ELSE timerStarted(s, ForwardTtl)
        /\ UNCHANGED now

(* RemoveEntry(sid): entries and timer, when Data comes that is waited for. *)
RemoveEntry(s) ==
    /\ haveSID(s)
    /\ table' = [table EXCEPT ![s] = {}]
    /\ timer' = [timer EXCEPT ![s] = NoTimer]
    /\ UNCHANGED now

(* RemoveEntry(iter) for every own request; the timer stays.               *)
RemoveConsumer(s) ==
    /\ isConsumer(s)
    /\ table' = [table EXCEPT ![s] = {e \in @ : ~e.isConsumer}]
    /\ UNCHANGED <<timer, now>>

(* Faulty variant: the timer that fires erases one entry only. *)
handleMessageOneOnly(s) ==
    /\ timer[s] = now
    /\ \E e \in table[s] : table' = [table EXCEPT ![s] = @ \ {e}]
    /\ timer' = [timer EXCEPT ![s] = NoTimer]
    /\ UNCHANGED now

(* handleMessage: the timer of the SID fires, and removes all its entries. *)
handleMessage(s) ==
    /\ timer[s] = now
    /\ table' = [table EXCEPT ![s] = {}]
    /\ timer' = [timer EXCEPT ![s] = NoTimer]
    /\ UNCHANGED now

Tick ==
    /\ now < MaxTime
    /\ \A s \in Sid : timer[s] # now
    /\ now' = now + 1
    /\ UNCHANGED <<table, timer>>

(* The time limit is reached and nothing is due any more. *)
EndOfSimulation == now = MaxTime /\ (\A s \in Sid : timer[s] # now) /\ UNCHANGED vars

Enter(s) ==
    \/ \E n \in Nid, nonce \in Nonce : ForwardGet(s, n, nonce)
    \/ OwnRequest(s)
    \/ \E n \in Nid, nonce \in Nonce, several \in BOOLEAN : ServeFromCache(s, n, nonce, several)

Next ==
    \/ \E s \in Sid : Enter(s) \/ RemoveEntry(s) \/ RemoveConsumer(s) \/ handleMessage(s)
    \/ Tick
    \/ EndOfSimulation

Spec == Init /\ [][Next]_vars

(* Time goes on and scheduled timers fire. *)
FairSpec == Spec /\ WF_vars(Tick) /\ \A s \in Sid : WF_vars(handleMessage(s))

----------------------------------------------------------------------------
Entry == [nid : Nid \cup {Self}, TTL : Nat, nonce : Nonce \cup {OwnNonce},
          served : BOOLEAN, isConsumer : BOOLEAN, since : Nat]

TypeOK ==
    /\ table \in [Sid -> SUBSET Entry]
    /\ timer \in [Sid -> Nat \cup {NoTimer}]
    /\ now \in Nat

(* An SID that has entries has a timer ahead of it, whichever of the       *)
(* operations last touched either: entries cannot stay for ever, and       *)
(* RemoveEntry, which looks the timer up unchecked, always finds one.      *)
TimerForEverySid ==
    \A s \in Sid : haveSID(s) => timer[s] # NoTimer /\ timer[s] >= now

(* The timer an SID's entries share never cuts short the time of a GET     *)
(* that was forwarded, though every later entry moves the timer.           *)
ForwardedLiveTheirTime ==
    \A s \in Sid : \A e \in table[s] : ~e.isConsumer => timer[s] >= e.since + e.TTL

(* Once nobody asks for an SID any more its entries go away.               *)
EntriesGoAway ==
    \A s \in Sid : <>[][~Enter(s)]_vars => <>[](table[s] = {} /\ timer[s] = NoTimer)

----------------------------------------------------------------------------
(* The entries without times, requesters and marks. *)
Untimed(entries) == {[nonce |-> e.nonce, consumer |-> e.isConsumer] : e \in entries}

Pending == INSTANCE PendingGets
    WITH AnyNonce <- Nonce \cup {OwnNonce},
         pending <- [s \in Sid |-> Untimed(table[s])]

(* What the networks assume of the PIT, whose times they leave out, is     *)
(* what it does: a GET is pending until Data comes or all the GETs for its *)
(* SID time out together, and never only some of them, although they were  *)
(* entered at different times with different lifetimes, some are marked as *)
(* served, and own requests are taken out alone.                           *)
ImplementsPending == Pending!Spec
============================================================================
