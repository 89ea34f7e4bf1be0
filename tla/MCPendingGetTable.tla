------------------------- MODULE MCPendingGetTable -------------------------
(* Small instances of PendingGetTable: two nodes whose GETs meet an own     *)
(* request, with lifetimes 1 and 2 for the code's 1 s and 5 s.              *)
EXTENDS PendingGetTable, TLC

CONSTANTS n1, n2, self, c1, c2, c0, s1
============================================================================
