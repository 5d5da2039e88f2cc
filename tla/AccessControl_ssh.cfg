CONSTANTS
    Transports = {"ssh"}
    Ops = {1}
    MaxOps = 3
    MaxFaults = 1
SPECIFICATION Spec
INVARIANT UnblockedOverSsh
CHECK_DEADLOCK FALSE
