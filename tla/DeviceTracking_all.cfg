CONSTANTS
 gw = gw
 ap = ap
 None = None
 Entries = {gw, ap}
 Gateways = {gw}
 ConsiderHome = 2
 StaleAfter = 3
 TrackWired = TRUE
 ForcedWireless = FALSE
 Leased = FALSE
 ArpWhenAway = {"STALE", "FAILED", "none"}
 FdbSupported = TRUE
 MayFail = TRUE
 MaxRestarts = 1
 TrustStaleArp = TRUE
 TrustBridgeFdb = TRUE
SPECIFICATION TimesSpec
INVARIANTS TypeOK SeenIsHome
PROPERTIES CalmAwayInTheEnd
