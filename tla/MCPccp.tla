------------------------------ MODULE MCPccp ------------------------------
(***************************************************************************)
(* A small instance of Pccp. The window is kept in halves (Scale = 2) and  *)
(* starts with room for all three requests; halving and the -1/w steps     *)
(* bring it below the number of requests in flight, which is what makes    *)
(* time-outs wait.                                                         *)
(***************************************************************************)
EXTENDS Pccp
============================================================================
