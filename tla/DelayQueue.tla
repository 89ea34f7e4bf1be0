---------------------------- MODULE DelayQueue ----------------------------
(***************************************************************************)
(* delayQueue for GETs, as colorNoCluster has one and colorTwoInterface    *)
(* one for 2.4 GHz: a GET that is to be flooded waits a random time; each  *)
(* copy heard meanwhile takes one off its counter tc; when the one timer   *)
(* of the queue (delayer) fires the head is sent, or dropped if its        *)
(* counter is used up. Only colorTwoInterface counts copies of a GET that  *)
(* waits: in colorNoCluster the PIT entry made with it comes first.        *)
(*                                                                         *)
(* A packet is identified by what have() compares (SID, source and nonce). *)
(* check_and_delete and cancelDelayeForwarding have no caller and are left *)
(* out; without them no entry has a null packet.                           *)
(***************************************************************************)
EXTENDS Integers, Sequences

CONSTANTS
    Packet,     \* the GETs that may be delayed
    Delay,      \* the values of uniform(0, getDelayTime)
    TC,         \* par TC: how many copies may be heard before sending is in vain
    MaxHeard,   \* bound on the copies of a packet that are heard
    MaxTime     \* bound on the clock: the simulation's time limit

ASSUME DelayQueueAssumption ==
    /\ Delay \subseteq Nat
    /\ TC \in Nat
    /\ MaxHeard \in Nat
    /\ MaxTime \in Nat

VARIABLES
    priQueue,   \* the list of pendPkt
    timer,      \* when delayer fires, or NoTimer if it is not scheduled
    now,        \* simTime()
    heard,      \* history: copies heard while the packet waits
    sent        \* history: the packets sent and the copies heard by then

vars == <<priQueue, timer, now, heard, sent>>

NoTimer == -1

pendPkt(p, t, tc) == [pkt |-> p, sendtime |-> t, tc |-> tc]

----------------------------------------------------------------------------
(* Where insert puts a packet: in front of the first that is not earlier.  *)
(* There is no such place if all are earlier.                              *)
Place(q, t) == {i \in 1 .. Len(q) : q[i].sendtime >= t /\ \A j \in 1 .. i - 1 : q[j].sendtime < t}

InsertAt(q, i, e) == SubSeq(q, 1, i - 1) \o <<e>> \o SubSeq(q, i, Len(q))

(* Faulty variant: new packets go to the front of the list. *)
insertInFront(p, t, tc) ==
    /\ priQueue' = <<pendPkt(p, t, tc)>> \o priQueue
    /\ timer' = t

(* insert: into an empty queue, in front of a later packet (the timer is   *)
(* moved if that is the head), or, behind all the others, not at all.      *)
insert(p, t, tc) ==
    \/ /\ priQueue = <<>>
       /\ priQueue' = <<pendPkt(p, t, tc)>>
       /\ timer' = t
    \/ /\ priQueue # <<>>
       /\ \E i \in Place(priQueue, t) :
             /\ priQueue' = InsertAt(priQueue, i, pendPkt(p, t, tc))
             /\ timer' = IF i = 1 THEN t ELSE timer
    \/ /\ priQueue # <<>>
       /\ Place(priQueue, t) = {}
       /\ UNCHANGED <<priQueue, timer>>

(* have: the places of the packet in the queue *)
have(p) == {i \in 1 .. Len(priQueue) : priQueue[i].pkt = p}

Init ==
    /\ priQueue = <<>>
    /\ timer = NoTimer
    /\ now = 0
    /\ heard = [p \in Packet |-> 0]
    /\ sent = {}

(* A GET is to be flooded and is not waiting: insert. *)
Delayed(p, delay) ==
    /\ now + delay <= MaxTime
    /\ have(p) = {}
    /\ insert(p, now + delay, TC)
    /\ UNCHANGED <<now, heard, sent>>

(* Faulty variant: the copy is noticed but not counted. *)
HeardUncounted(p) ==
    /\ have(p) # {}
    /\ heard[p] < MaxHeard
    /\ heard' = [heard EXCEPT ![p] = @ + 1]
    /\ UNCHANGED <<priQueue, timer, now, sent>>

(* It is waiting: check_and_decrease. *)
HeardAgain(p) ==
    /\ heard[p] < MaxHeard
    /\ \E i \in have(p) : priQueue' = [priQueue EXCEPT ![i].tc = @ - 1]
    /\ heard' = [heard EXCEPT ![p] = @ + 1]
    /\ UNCHANGED <<timer, now, sent>>

(* Faulty variant: the timer is not started again after a pop. *)
NoRestart(q) == NoTimer

(* popAtFront starts the timer again for the next packet. *)
Restarted(q) == IF q = <<>> THEN NoTimer ELSE Head(q).sendtime

(* delayer fires: popAtFront, and the packet is sent unless tc < 1. *)
Delayer ==
    /\ timer = now
    /\ priQueue # <<>>
    /\ LET head == Head(priQueue) IN
          sent' = IF head.tc < 1 THEN sent ELSE sent \cup {<<head.pkt, heard[head.pkt]>>}
    /\ priQueue' = Tail(priQueue)
    /\ timer' = Restarted(Tail(priQueue))
    /\ heard' = [heard EXCEPT ![Head(priQueue).pkt] = 0]
    /\ UNCHANGED now

(* Time passes; the simulator executes an event when its time has come. *)
Tick ==
    /\ now < MaxTime
    /\ timer # now
    /\ now' = now + 1
    /\ UNCHANGED <<priQueue, timer, heard, sent>>

(* The time limit is reached and nothing is due any more. *)
EndOfSimulation == now = MaxTime /\ timer # now /\ UNCHANGED vars

Next ==
    \/ \E p \in Packet, delay \in Delay : Delayed(p, delay)
    \/ \E p \in Packet : HeardAgain(p)
    \/ Delayer
    \/ Tick
    \/ EndOfSimulation

Spec == Init /\ [][Next]_vars

(* Time goes on and scheduled events are executed. *)
FairSpec == Spec /\ WF_vars(Delayer) /\ WF_vars(Tick)

----------------------------------------------------------------------------
PendPkt == [pkt : Packet, sendtime : Nat, tc : Int]

TypeOK ==
    /\ priQueue \in Seq(PendPkt)
    /\ timer \in Nat \cup {NoTimer}
    /\ now \in Nat
    /\ heard \in [Packet -> Nat]
    /\ sent \in SUBSET (Packet \X Nat)

(* The one timer always stands at the send time of the head, and is off    *)
(* when the queue is empty: no packet is sent early or late, and           *)
(* popAtFront is never called on an empty list (which would be undefined). *)
TimerAtHead == timer = IF priQueue = <<>> THEN NoTimer ELSE priQueue[1].sendtime

(* Packets wait in the order of their send times and none is overdue, so   *)
(* setting the timer for the head is enough for all of them.               *)
InOrder ==
    /\ \A i, j \in 1 .. Len(priQueue) : i < j => priQueue[i].sendtime <= priQueue[j].sendtime
    /\ \A i \in 1 .. Len(priQueue) : priQueue[i].sendtime >= now

(* A GET waits at most once, however often its copies come by.             *)
QueuedOnce ==
    \A i, j \in 1 .. Len(priQueue) : priQueue[i].pkt = priQueue[j].pkt => i = j

(* A GET of which TC copies were heard while it waited is never sent.      *)
NotSentInVain ==
    \A s \in sent : s[2] < TC

(* Every packet that waits is popped in the end, although other packets    *)
(* keep being inserted in front of it (each with a delay above zero).      *)
EveryPacketPopped == \A p \in Packet : (have(p) # {}) ~> (have(p) = {})

----------------------------------------------------------------------------
(* The queue without the send times. *)
Untimed(q) == [i \in 1 .. Len(q) |-> [pkt |-> q[i].pkt, tc |-> q[i].tc]]

Waiting == INSTANCE WaitingGets WITH queue <- Untimed(priQueue)

(* What the network of ColorNoCluster assumes of the delay queue, whose    *)
(* times it leaves out, is what it does: a new GET comes to stand          *)
(* somewhere or is dropped, and the packets go one by one from the front.  *)
ImplementsWaiting == Waiting!Spec
============================================================================
