---------------------------- MODULE MCPccpTimed ----------------------------
(***************************************************************************)
(* Small instances of PccpTimed: a second is MaxRexmitTimeout units. With  *)
(* InitialRttvar = 1 it starts where a consumer is that has measured some  *)
(* round trips, so that the estimates move in both directions and the      *)
(* bounds of the RTO are met within few requests.                          *)
(***************************************************************************)
EXTENDS PccpTimed
============================================================================
