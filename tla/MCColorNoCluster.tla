------------------------- MODULE MCColorNoCluster -------------------------
(***************************************************************************)
(* Small networks of colorNoCluster nodes: consumers c (and x), a relay r, *)
(* a provider p.                                                           *)
(***************************************************************************)
EXTENDS ColorNoCluster, TLC

CONSTANTS c, r, x, p, s1

(* c - p, each of which relays what the other sends. *)
Pair == (c :> {p}) @@ (p :> {c})

(* Two ways from c to p, over r and x, which hear each other. *)
Diamond == (c :> {r, x}) @@ (r :> {c, p, x}) @@ (x :> {c, p, r}) @@ (p :> {r, x})

(* Two consumers c and x behind the relay. *)
Star == (c :> {r}) @@ (x :> {r}) @@ (r :> {c, x, p}) @@ (p :> {r})

FromP == (s1 :> p)
============================================================================
