---------------------------- MODULE ClusterRoles ----------------------------
(***************************************************************************)
(* What the election of SimpleCluster promises those who ask it for a      *)
(* node's role, without packets, timers or NIDs: a node becomes a candidate *)
(* (PREHEAD) or a head at any time, a head stays a head, and a candidate   *)
(* gives up only while a node with a larger index is a candidate or a head. *)
(***************************************************************************)
EXTENDS Naturals

CONSTANT Node   \* the node indices

VARIABLES prehead, head

roleVars == <<prehead, head>>

elected == prehead \cup head

Init == prehead = {} /\ head = {}

becomePrehead(n) ==
    /\ n \notin elected
    /\ prehead' = prehead \cup {n}
    /\ UNCHANGED head

becomeHead(n) ==
    /\ n \notin head
    /\ head' = head \cup {n}
    /\ prehead' = prehead \ {n}

becomeMember(n) ==
    /\ n \in prehead
    /\ \E h \in elected : n < h
    /\ prehead' = prehead \ {n}
    /\ UNCHANGED head

Next == \E n \in Node : becomePrehead(n) \/ becomeHead(n) \/ becomeMember(n)

Spec == Init /\ [][Next]_roleVars

(* The largest index among candidates and heads never decreases; so, once  *)
(* there is one of them, there always is.                                  *)
LargestStays == [][\A n \in elected : \E h \in elected' : n <= h]_roleVars
============================================================================
