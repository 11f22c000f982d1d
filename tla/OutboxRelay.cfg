SPECIFICATION FairSpec
CONSTANTS
    e1 = e1
    e2 = e2
    e3 = e3
    e4 = e4
    r1 = r1
    r2 = r2
    Events = {e1, e3, e4}
    Relays = {r1, r2}
    OwnConn = {e1}
    Deferred = {e1}
    Unconsumed = {e4}
    Misrouted = {e3}
    MaxAttempts = 2
    BatchSize = 2
    MaxFaults = 2
INVARIANTS
    TypeOK
    EventAccounted
    OwnConnAtLeastOnce
    ActionAtMostOnce
PROPERTIES
    SettledIsFinal
    EventSettles
CHECK_DEADLOCK FALSE
