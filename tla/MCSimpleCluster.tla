-------------------------- MODULE MCSimpleCluster --------------------------
EXTENDS SimpleCluster

(* Three nodes in a row. *)
MCLink == {<<1, 2>>, <<2, 1>>, <<2, 3>>, <<3, 2>>}

(* Node 3 has the largest NID and is elected, node 2 hears it, node 1 has  *)
(* nobody to serve it; with packets lost, any of them may be a candidate.  *)
MCNid == [n \in 1 .. 3 |-> 10 * n]
============================================================================
