CONSTANTS
    Modes = {"custom"}
    Images = {"own", "other"}
    MaxRelease = 2
    MaxChecks = 1
    MaxInstalls = 1
SPECIFICATION Spec
INVARIANTS ImageForThisBoard
CHECK_DEADLOCK FALSE
