--------------------------- MODULE DeviceScanShell ---------------------------
(***************************************************************************)
(* The device list of a poll over SSH and over LuCI (api/ssh/devices.py,   *)
(* api/luci_rpc/devices.py), which run commands on the router and read     *)
(* what they print.  The sources are those of DeviceScan without the       *)
(* static leases, in another order and with rules of their own.            *)
(*                                                                         *)
(* A command that fails on the router prints nothing, so it says the same  *)
(* as an empty list.  An answer "error" is a reply that the client cannot  *)
(* read (iwinfo over SSH) or one that never came (hostapd over LuCI); an   *)
(* error that ends the whole list is a poll without a list.                *)
(***************************************************************************)
EXTENDS DeviceScan

\* _add_dhcp_devices_ssh; DHCP leases of get_connected_devices
FromLeases(a) == FromDhcp([a EXCEPT !.static = FALSE])

\* /proc/net/arp, over LuCI: a neighbour without an address is not in it.
ArpTable(d, arp) == [d EXCEPT !.listed = @ \/ arp \in {"REACHABLE", "STALE"}]

\* The clients of hostapd: one that is in the list already keeps its state.
HostapdClients(d, answer) ==
    IF answer # "yes" THEN d
    ELSE [d EXCEPT !.listed = TRUE, !.wireless = TRUE, !.iface = "radio",
                   !.connected = @ \/ ~d.listed]

\* The wireless devices of the previous list, when a source cannot be read.
RestoreAll(d, prev) ==
    IF prev.wireless /\ prev.connected THEN Associated(d, "yes") ELSE d

\* _process_bridge_fdb: that a device is missing from the table says nothing.
BridgePorts(d, fdb) == BridgeFdb(d, IF fdb = "absent" THEN "unsupported" ELSE fdb)

\* get_connected_devices over SSH.  hostapd is asked only if iwinfo lists nobody;
\* others: it lists somebody else.
ScanSsh(a, prev, others) ==
    LET neighbor == MergeNeighbor(FromLeases(a), a.arp)
        iwinfo == IF a.iwinfo = "error" THEN RestoreAll(neighbor, prev)
                  ELSE Associated(neighbor, a.iwinfo)
        hostapd == IF others \/ iwinfo.wireless THEN iwinfo
                   ELSE HostapdClients(iwinfo, a.hostapd)
    IN BridgePorts(hostapd, a.fdb)

\* get_connected_devices over LuCI
ScanLuci(a, prev) ==
    LET iwinfo == Associated(ArpTable(FromLeases(a), a.arp), a.iwinfo)
        hostapd == IF a.hostapd = "error" THEN RestoreAll(iwinfo, prev)
                   ELSE HostapdClients(iwinfo, a.hostapd)
        neighbor == MergeNeighbor(hostapd, a.arp)
    IN BridgePorts(neighbor, a.fdb)

=============================================================================
