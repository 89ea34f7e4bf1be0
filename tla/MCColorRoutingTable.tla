------------------------ MODULE MCColorRoutingTable ------------------------
(***************************************************************************)
(* Small instances of ColorRoutingTable. Three neighbours and three        *)
(* qualities let a destination have three entries, with an expired one in  *)
(* any place among them; two lifetimes let a refresh come out shorter or   *)
(* longer than what is there.                                              *)
(***************************************************************************)
EXTENDS ColorRoutingTable

CONSTANTS n1, n2, n3, d1

Neighbours == {n1, n2, n3}
============================================================================
