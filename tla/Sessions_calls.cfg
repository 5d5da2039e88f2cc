CONSTANTS
 c1 = c1
 c2 = c2
 Coord = Coord
 Closer = Closer
 NoOne = NoOne
 Commands = {c1, c2}
 Connectors = {Coord}
 Granted = {c1}
 Slots = 1
 MaxSession = 3
 MaxToken = 3
 MaxTransports = 2
 MaxCancels = 2
SPECIFICATION SessionsSpec
INVARIANTS TypesOK OneLoginPerDeadToken NoOrphanedTransport WorkerHoldsTheLock
PROPERTIES UbusServesCalls LuciServesCalls EveryCallEnds
CHECK_DEADLOCK FALSE
