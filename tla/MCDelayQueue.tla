---------------------------- MODULE MCDelayQueue ----------------------------
(* Small instances of DelayQueue: three packets, so that there is a middle. *)
EXTENDS DelayQueue

CONSTANTS p1, p2, p3

Packets == {p1, p2, p3}
============================================================================
