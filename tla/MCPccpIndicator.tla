-------------------------- MODULE MCPccpIndicator --------------------------
(***************************************************************************)
(* A small instance of PccpIndicator: a queue of two packets, an average   *)
(* that gives a new length the weight 1/8, and indices in twentieths. A    *)
(* PIT of eight is longer than the capacity it is measured against, so     *)
(* that the limit matters. All four levels are reached, and two units of   *)
(* time bound the decay of one step; longer times are several steps.       *)
(***************************************************************************)
EXTENDS PccpIndicator
============================================================================
