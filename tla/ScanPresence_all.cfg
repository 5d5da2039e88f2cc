CONSTANTS
 r1 = r1
 r2 = r2
 r3 = r3
 ap1 = ap1
 ap2 = ap2
 Nowhere = Nowhere
 Nobody = Nobody
 APs = {ap1, ap2}
 Ifaces = {r1, r2, r3}
 ApOf <- ThreeRadios
 MaxMoves = 3
 TrustStaleArp = TRUE
 TrustBridgeFdb = TRUE
 Entries = {"e1", "e2"}
 Transports = {"ubus", "luci", "ssh"}
 Configured = 60
 MaxBackoff = 600
 EntryTransports = {"ubus", "ssh"}
 GpsAvailable = TRUE
 AutoBackup = TRUE
 MaxFailures = 5
 MaxOutages = 2
 MaxInstalls = 2
SPECIFICATION PartSpec
INVARIANTS TypesOK SettledRight
CHECK_DEADLOCK FALSE
PROPERTIES MoreEvidenceNeverDisconnects SwitchedOffIsCleared EntryRecovers
