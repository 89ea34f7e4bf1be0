------------------------------ MODULE QueueOps ------------------------------
(***************************************************************************)
(* What insert of delayQueue may do to the list of packets that wait, for  *)
(* those who do not know the send times.                                   *)
(***************************************************************************)
EXTENDS Integers, Sequences

(* insert of a packet with a random delay: in front of one that is due     *)
(* later; behind all the others it is dropped.                             *)
InsertedLater(q, e) ==
    IF q = <<>> THEN {<<e>>}
    ELSE {q} \cup {SubSeq(q, 1, i - 1) \o <<e>> \o SubSeq(q, i, Len(q)) : i \in 1 .. Len(q)}
============================================================================
