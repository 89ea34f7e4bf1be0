----------------------------- MODULE PendingGets -----------------------------
(***************************************************************************)
(* The pending GET table without time, as the networks of ColorNoCluster   *)
(* and ColorTwoInterface use it: a GET is entered unless its nonce is      *)
(* there, the entries of an SID go all at once, when Data comes or by a    *)
(* time-out at any moment, or the node's own among them go first.          *)
(***************************************************************************)
CONSTANTS
    Sid,
    AnyNonce    \* the nonces of GETs and of the node's own requests

VARIABLE pending    \* per SID, the nonces entered and whether as a consumer

Init == pending = [s \in Sid |-> {}]

createEntry(s, nonce, consumer) ==
    /\ \A e \in pending[s] : e.nonce # nonce
    /\ pending' = [pending EXCEPT ![s] = @ \cup {[nonce |-> nonce, consumer |-> consumer]}]

RemoveEntry(s) ==
    /\ pending[s] # {}
    /\ pending' = [pending EXCEPT ![s] = {}]

RemoveConsumer(s) ==
    /\ \E e \in pending[s] : e.consumer
    /\ pending' = [pending EXCEPT ![s] = {e \in @ : ~e.consumer}]

Next ==
    \E s \in Sid :
        \/ \E nonce \in AnyNonce, consumer \in BOOLEAN : createEntry(s, nonce, consumer)
        \/ RemoveEntry(s)
        \/ RemoveConsumer(s)

Spec == Init /\ [][Next]_pending
============================================================================
