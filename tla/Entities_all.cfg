CONSTANTS
    Kinds <- OneOfEachSort
    e1 = e1
    e2 = e2
    Entries = {e1, e2}
    NoEntry = NoEntry
    Macs = {"m1", "m2"}
    Grace = 3
    i1 = i1
    i2 = i2
    s1 = s1
    s2 = s2
    Interfaces = {i1, i2}
    SSIDs = {s1, s2}
    Transports = {"ubus", "ssh", "luci"}
    Away = Away
    NoName = NoName
    Router = Router
    NoDevice = NoDevice
SPECIFICATION EntitiesSpec
INVARIANTS TypesOK EveryThingHasItsEntity KeptOverReloads
    OneTrackerPerDevice DisconnectMeansGone
PROPERTIES BelowItsNetwork
SYMMETRY Symmetric
CHECK_DEADLOCK FALSE
