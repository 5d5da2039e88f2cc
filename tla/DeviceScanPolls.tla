--------------------------- MODULE DeviceScanPolls ---------------------------
(***************************************************************************)
(* Successive polls of one router: each list of devices is made from what  *)
(* the router answers and, where it does not answer, from the previous     *)
(* list.                                                                   *)
(***************************************************************************)
EXTENDS DeviceScanShell

CONSTANTS Transports

PollsConstants == Transports \subseteq {"ubus", "luci", "ssh"}

VARIABLES
    transport,
    answer,     \* what the router answered to the last poll
    others,     \* iwinfo lists another device
    device      \* the device in the list made from it

vars == <<transport, answer, others, device>>

TypeOK ==
    /\ transport \in Transports
    /\ answer \in Answers /\ others \in BOOLEAN
    /\ device \in Devices
    /\ device.connected \/ device.wireless => device.listed
    /\ device.wireless => device.iface = "radio"

ScanOver(t, a, o, prev) ==
    CASE t = "ubus" -> Scan(a, prev)
      [] t = "luci" -> ScanLuci(a, prev)
      [] t = "ssh" -> ScanSsh(a, prev, o)

Poll(a, o) ==
    /\ answer' = a /\ others' = o
    /\ device' = ScanOver(transport, a, o, device)
    /\ UNCHANGED transport

\* The answers a transport asks for; only SSH looks at the other devices.
Asked(t) ==
    IF t = "ubus" THEN Answers ELSE {a \in Answers : ~a.static}

Init ==
    /\ transport \in Transports
    /\ answer \in Asked(transport)
    /\ others \in (IF transport = "ssh" THEN BOOLEAN ELSE {FALSE})
    /\ device = ScanOver(transport, answer, others, Unlisted)

Next ==
    \E a \in Asked(transport), o \in BOOLEAN :
        /\ o => transport = "ssh"
        /\ Poll(a, o)

Spec == Init /\ [][Next]_vars

-----------------------------------------------------------------------------
(* Properties. *)

\* The answers that say a little more than a given one.
Stronger(a) ==
    {[a EXCEPT !.lease = TRUE], [a EXCEPT !.static = TRUE]}
    \cup (IF a.iwinfo = "no" THEN {[a EXCEPT !.iwinfo = "yes"]} ELSE {})
    \cup (IF a.hostapd = "no" THEN {[a EXCEPT !.hostapd = "yes"]} ELSE {})
    \cup {[a EXCEPT !.arp = n] : n \in
            CASE a.arp = "none" -> {"FAILED"}
              [] a.arp = "FAILED" -> {"STALE"}
              [] OTHER -> {"REACHABLE"}}
    \cup {[a EXCEPT !.fdb = f] : f \in
            CASE a.fdb = "absent" -> {"old"}
              [] a.fdb = "old" -> {"recent"}
              [] OTHER -> {}}

\* Over SSH and LuCI an association that only hostapd tells of disconnects a
\* device that other sources list (AssociatedIsConnected, below).
HostapdAlone(a) == transport # "ubus" /\ a.hostapd = "yes" /\ a.iwinfo # "yes"

\* The sources are merged in order and overrule each other, but never so that
\* one more sign of the device disconnects it.
MoreEvidenceNeverDisconnects ==
    [][\A b \in Stronger(answer') :
        device'.connected /\ ~HostapdAlone(b)
            => ScanOver(transport, b, others', device).connected]_vars

\* "dev.connected = True  # Wireless association": a device that a poll lists as
\* wireless is connected, by the association that makes it wireless.
AssociatedIsConnected == device.wireless => device.connected

=============================================================================
