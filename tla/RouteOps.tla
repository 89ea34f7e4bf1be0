----------------------------- MODULE RouteOps -----------------------------
(***************************************************************************)
(* What ColorRoutingTable does to the entries of ONE destination. The      *)
(* multimap keeps them in the order of their insertion, so they are a      *)
(* sequence (the equal_range of the destination). An entry is a Croute:    *)
(* nextHop and nextMac always come from the same transmitter and are one   *)
(* value, the interface is always 24 and left out.                         *)
(***************************************************************************)
EXTENDS Integers, Sequences

Croute(h, life, q) == [nextHop |-> h, lifeTime |-> life, linkQlt |-> q]

NoRoute == [nextHop |-> "nullptr", lifeTime |-> 0, linkQlt |-> -1]

(* Where a scan that stops at the positions P stops: at the first of them. *)
FirstOf(P) == CHOOSE i \in P : \A j \in P : i <= j

Without(range, i) == SubSeq(range, 1, i - 1) \o SubSeq(range, i + 1, Len(range))

(* Faulty variant: entries of worse quality are inserted as well. *)
CreateAnyQuality(range, now, h, ttl, q) ==
    LET same == {i \in 1 .. Len(range) : range[i].nextHop = h}
    IN  IF same = {} THEN Append(range, Croute(h, now + ttl, q)) ELSE range

(* Faulty variant: the lifetime is overwritten, not extended. *)
CreateAndOverwrite(range, now, h, ttl, q) ==
    LET stops == {i \in 1 .. Len(range) : range[i].nextHop = h \/ range[i].linkQlt >= q}
        i     == FirstOf(stops)
    IN  IF stops = {} THEN Append(range, Croute(h, now + ttl, q))
        ELSE IF range[i].nextHop = h THEN [range EXCEPT ![i].lifeTime = now + ttl]
        ELSE range

(***************************************************************************)
(* CreateEntry: the scan ends at the first entry that goes to the same     *)
(* next hop, whose lifetime is extended, or that is at least as good,      *)
(* which leaves the table alone. Otherwise the route is new and better     *)
(* than all the others, expired ones included.                             *)
(***************************************************************************)
CreateEntryIn(range, now, h, ttl, q) ==
    LET stops == {i \in 1 .. Len(range) : range[i].nextHop = h \/ range[i].linkQlt >= q}
        i     == FirstOf(stops)
    IN  IF stops = {} THEN Append(range, Croute(h, now + ttl, q))
        ELSE IF range[i].nextHop = h /\ now + ttl > range[i].lifeTime
             THEN [range EXCEPT ![i].lifeTime = now + ttl]
        ELSE range

Expired(range, now) == {i \in 1 .. Len(range) : range[i].lifeTime <= now}

(* The entries findRoute looks at: those in front of the first expired one. *)
Scanned(range, now) ==
    IF Expired(range, now) = {} THEN Len(range) ELSE FirstOf(Expired(range, now)) - 1

(* What findRoute returns: the first of the best entries it looks at. *)
FoundRoute(range, now) ==
    LET n == Scanned(range, now)
    IN  IF n = 0 THEN NoRoute
        ELSE range[CHOOSE i \in 1 .. n :
                       /\ \A j \in 1 .. n : range[j].linkQlt <= range[i].linkQlt
                       /\ \A j \in 1 .. i - 1 : range[j].linkQlt < range[i].linkQlt]

(* Faulty variant: an expired entry is skipped and never erased. *)
NothingErased(range, now) == range

(* What findRoute leaves: the first expired entry is erased. *)
AfterFind(range, now) ==
    IF Expired(range, now) = {} THEN range
    ELSE Without(range, FirstOf(Expired(range, now)))
============================================================================
