--------------------------- MODULE MC_OptionsFlow ---------------------------
(* Instances of OptionsFlow for TLC: one router with two addresses. *)
EXTENDS OptionsFlow

CONSTANTS r1, h1, h2
MCReach == [f1 |-> {h1}, f2 |-> {h2}]
MCRouterAt == [h \in Hosts |-> r1]

\* One router at all of the addresses, which tells its MAC address.  With two, a
\* reconfiguration may move an entry to a router that has one already.
ASSUME OneRouter ==
    /\ \A g, h \in Hosts : RouterAt[g] = RouterAt[h]
    /\ MacMissing = FALSE

=============================================================================
