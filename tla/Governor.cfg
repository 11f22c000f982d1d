SPECIFICATION LiveSpec
CONSTANTS
    Clients = {c1, c2}
    Unwired = {c2}
    Admins = {m1, m2}
    Keys = {k1}
    MaxItems = 2
    MaxEvents = 1
    MaxFaults = 1
CONSTRAINT Bounded
INVARIANTS
    TypeOK
    ExactlyOnce
    ReportsTrue
    TrustSinceTick
PROPERTIES
    ResolvedIsFinal
    EmergencyStop
CHECK_DEADLOCK FALSE
