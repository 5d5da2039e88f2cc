CONSTANTS
    Interfaces = {"i1", "i2"}
    SSIDs = {"s1", "s2"}
    Transports = {"ubus", "ssh", "luci"}
    Away = Away
    NoName = NoName
    Router = Router
    NoDevice = NoDevice
SPECIFICATION Spec
PROPERTIES NamedNetworksStay
