--------------------------- MODULE RequestService ---------------------------
(***************************************************************************)
(* What a PCCP consumer promises the application and the network, without  *)
(* window, queues, timers or measurements: requests are asked for with at  *)
(* most Attempts GETs each, an answer comes only to a request that was     *)
(* asked for, and a request is given up exactly when all its attempts are  *)
(* used up, once, and is never asked for again. A step of the consumer may *)
(* ask for any number of requests along with what it does.                 *)
(*                                                                         *)
(* An answered request may still be asked for: an answer that meets its    *)
(* request in the queue of time-outs does not take it out of there.        *)
(***************************************************************************)
EXTENDS Naturals

CONSTANTS
    Request,
    Attempts    \* the original GET and its retransmissions

VARIABLES
    issued,     \* requests made by the application
    gets,       \* GETs sent for a request
    answered,
    givenUp

serviceVars == <<issued, gets, answered, givenUp>>

Init ==
    /\ issued = {}
    /\ gets = [s \in Request |-> 0]
    /\ answered = {}
    /\ givenUp = {}

(* One GET for each of some requests that are waiting for an answer. *)
Ask ==
    \E S \in SUBSET {s \in issued' \ givenUp' : gets[s] < Attempts} :
        gets' = [s \in Request |-> IF s \in S THEN gets[s] + 1 ELSE gets[s]]

Issue(s) ==
    /\ s \notin issued
    /\ issued' = issued \cup {s}
    /\ UNCHANGED <<answered, givenUp>>
    /\ Ask

Answer(s) ==
    /\ gets[s] > 0
    /\ answered' = answered \cup {s}
    /\ UNCHANGED <<issued, givenUp>>
    /\ Ask

GiveUp(s) ==
    /\ s \in issued \ givenUp
    /\ gets[s] = Attempts
    /\ givenUp' = givenUp \cup {s}
    /\ UNCHANGED <<issued, answered>>
    /\ Ask

Retry ==
    /\ UNCHANGED <<issued, answered, givenUp>>
    /\ Ask

Next ==
    \/ \E s \in Request : Issue(s) \/ Answer(s) \/ GiveUp(s)
    \/ Retry

Spec == Init /\ [][Next]_serviceVars
============================================================================
