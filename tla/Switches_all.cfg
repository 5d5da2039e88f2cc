CONSTANTS
    guest = guest
    home = home
    o1 = o1
    o2 = o2
    radio = radio
    Nets = {guest, home}
    Radio = radio
    Ops = {o1, o2}
    Transports = {"ubus", "luci", "ssh"}
    Kinds = {"rule", "redirect", "service", "oneshot", "adblock", "simple_adblock", "banip", "sqm", "led", "light", "wireguard", "wps"}
    MaxOps = 2
    MaxFaults = 2
    MaxOutside = 1
    Modes = {"stable", "snapshot", "custom"}
    Images = {"own"}
    MaxRelease = 3
    MaxChecks = 3
    MaxInstalls = 2
    Tolerance = 1
    RebootMargin = 1
    DriftMargin = 1
    EpochMargin = 2
    SessionMargin = 1
    MinDwell = 1
    MinUp = 3
    SampleAtChange = FALSE
    SaveMayFail = FALSE
    MaxChanges = 2
    MaxReboots = 1
    MaxRestarts = 1
    MaxTime = 7
SYMMETRY Symmetric
SPECIFICATION SwitchesSpec
INVARIANTS TypesOK OneTransaction DoneAsShown NothingLeftStaged
    AckedIsDone ParallelChangesAgree AccessAsAsked
    NeverOverstates ExactWhenWatched
PROPERTIES OnlyUpgrades
CHECK_DEADLOCK FALSE
