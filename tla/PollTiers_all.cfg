CONSTANTS
    adblock = adblock
    service = service
    a1 = a1
    a2 = a2
    FastItems = {}
    MediumItems = {adblock}
    SlowItems = {service}
    CapturedItems = {service}
    NoItem = NoItem
    Actors = {a1, a2}
    SlowInterval = 2
    MediumInterval = 1
    MaxWrites = 1
SPECIFICATION FairSpec
INVARIANTS TypeOK AckedChangeNotForgotten NoOlderThanTimestamp
PROPERTIES DataConverges
