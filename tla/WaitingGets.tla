----------------------------- MODULE WaitingGets -----------------------------
(***************************************************************************)
(* The delay queue without time, as the network of ColorNoCluster uses it: *)
(* a packet that does not wait is put somewhere, or dropped; a copy of one *)
(* that does takes one off its counter; and the first one goes at any      *)
(* moment.                                                                 *)
(***************************************************************************)
EXTENDS QueueOps

CONSTANTS
    Packet,     \* the GETs that may be delayed
    TC          \* how many copies may be heard before sending is in vain

VARIABLE queue  \* the packets that wait with their counters

have(p) == {i \in 1 .. Len(queue) : queue[i].pkt = p}

Init == queue = <<>>

insert(p) ==
    /\ have(p) = {}
    /\ queue' \in InsertedLater(queue, [pkt |-> p, tc |-> TC])

check_and_decrease(p) ==
    \E i \in have(p) : queue' = [queue EXCEPT ![i].tc = @ - 1]

popAtFront ==
    /\ queue # <<>>
    /\ queue' = Tail(queue)

Next ==
    \/ \E p \in Packet : insert(p) \/ check_and_decrease(p)
    \/ popAtFront

Spec == Init /\ [][Next]_queue
============================================================================
