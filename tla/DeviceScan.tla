----------------------------- MODULE DeviceScan -----------------------------
(***************************************************************************)
(* What one poll of a router says about one device                         *)
(* (api/ubus/devices.py, api/ubus/devices_discovery.py).                   *)
(*                                                                         *)
(* get_connected_devices starts from the DHCP leases and adds the wireless *)
(* associations (iwinfo), the neighbour table, the clients of hostapd, what*)
(* the previous poll knew about a radio no call answered for, and the      *)
(* forwarding table of the bridges, in that order.  The module is that     *)
(* pipeline for one device and a router with one radio and one bridge.     *)
(***************************************************************************)
EXTENDS Integers

CONSTANTS
    TrustStaleArp,      \* option: a STALE neighbour is present
    TrustBridgeFdb      \* option: the forwarding table is asked

ASSUME ScanConstants ==
    /\ TrustStaleArp \in BOOLEAN
    /\ TrustBridgeFdb \in BOOLEAN

NeighborStates == {"none", "REACHABLE", "STALE", "FAILED"}

\* A device of the list, or its absence from it.
Devices == [listed : BOOLEAN, connected : BOOLEAN, wireless : BOOLEAN,
            iface : {"none", "radio", "lan"}, neighbor : NeighborStates]

Unlisted == [listed |-> FALSE, connected |-> FALSE, wireless |-> FALSE,
             iface |-> "none", neighbor |-> "none"]

\* What the router answers about the device.
Answers == [lease : BOOLEAN, static : BOOLEAN,
            iwinfo : {"yes", "no", "error"}, hostapd : {"yes", "no", "error"},
            arp : NeighborStates,
            fdb : {"recent", "old", "absent", "unsupported"}]

\* _get_devices_from_dhcp, _get_devices_from_static_leases
FromDhcp(a) == [Unlisted EXCEPT !.listed = a.lease \/ a.static]

\* An association found by iwinfo or a client of hostapd.
Associated(d, answer) ==
    IF answer # "yes" THEN d
    ELSE [d EXCEPT !.listed = TRUE, !.connected = TRUE, !.wireless = TRUE,
                   !.iface = "radio"]

ActiveStates == {"REACHABLE"} \cup IF TrustStaleArp THEN {"STALE"} ELSE {}

\* _merge_neighbor_data
MergeNeighbor(d, arp) ==
    IF arp = "none" THEN d
    ELSE [d EXCEPT !.listed = TRUE,
                   !.connected = @ \/ (~d.wireless /\ arp \in ActiveStates),
                   !.iface = IF @ = "none" THEN "lan" ELSE @,
                   !.neighbor = IF @ = "none" THEN arp ELSE @]

\* The fallback for a radio neither iwinfo nor hostapd answered for.
RestoreRadio(d, a, prev) ==
    IF a.iwinfo = "error" /\ a.hostapd = "error"
       /\ prev.wireless /\ prev.connected /\ prev.iface = "radio"
    THEN Associated(d, "yes")
    ELSE d

\* Bug for the tests of the properties: wireless devices are not spared.
BridgeFdbForAll(d, fdb) ==
    IF ~TrustBridgeFdb \/ ~d.listed THEN d
    ELSE [d EXCEPT !.connected =
            IF TrustStaleArp /\ fdb = "absent" /\ d.neighbor = "STALE" THEN FALSE
            ELSE @ \/ fdb = "recent"]

\* _process_bridge_fdb
BridgeFdb(d, fdb) ==
    LET seen == fdb \in {"recent", "old"}
        found == [d EXCEPT !.connected = @ \/ fdb = "recent",
                           !.iface = IF seen /\ @ = "none" THEN "lan" ELSE @]
        onlyStale == /\ TrustStaleArp
                     /\ fdb = "absent"
                     /\ ~d.wireless
                     /\ d.neighbor = "STALE"
    IN IF ~TrustBridgeFdb \/ ~d.listed THEN d
       ELSE IF onlyStale THEN [found EXCEPT !.connected = FALSE]
       ELSE found

\* get_connected_devices
Scan(a, prev) ==
    LET dhcp == FromDhcp(a)
        iwinfo == Associated(dhcp, a.iwinfo)
        arp == MergeNeighbor(iwinfo, a.arp)
        hostapd == Associated(arp, a.hostapd)
        restored == RestoreRadio(hostapd, a, prev)
    IN BridgeFdb(restored, a.fdb)

=============================================================================
