CONSTANTS
    Macs = {"m1", "m2"}
    Grace = 3
SPECIFICATION Spec
INVARIANT UnknownIsNew
CHECK_DEADLOCK FALSE
