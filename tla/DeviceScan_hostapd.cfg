CONSTANTS
 TrustStaleArp = TRUE
 TrustBridgeFdb = TRUE
 Transports = {"luci"}
SPECIFICATION Spec
INVARIANT AssociatedIsConnected
