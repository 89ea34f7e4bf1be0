------------------------ MODULE MCColorTwoInterface ------------------------
(***************************************************************************)
(* A cluster with head h, a consumer m and a provider p, which do not hear *)
(* each other. On 2.4 GHz h and p hear each other; m hears nothing there,  *)
(* as a member ignores a GET it has no content for, and Data it has not    *)
(* asked for.                                                              *)
(* In the passing instance p, which is a member at first, may be elected   *)
(* and may yield: it holds the content, so it never has a packet waiting.  *)
(* In the other one h may, which relays.                                   *)
(***************************************************************************)
EXTENDS ColorTwoInterface, TLC

CONSTANTS m, h, p, s1

OneCluster ==
    (5  :> ((m :> {h}) @@ (h :> {m, p}) @@ (p :> {h}))) @@
    (24 :> ((m :> {}) @@ (h :> {p}) @@ (p :> {h})))

FromP == s1 :> p
============================================================================
