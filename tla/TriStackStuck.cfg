SPECIFICATION FairSpec
CONSTANTS
    s1 = s1
    s2 = s2
    w1 = w1
    w2 = w2
    Sagas = {s1}
    Artifacts = {}
    MaxFaults = 1
    Workers = {w1}
    NoWorker = NoWorker
    LockExpires = FALSE
PROPERTIES
    CrashedSagaIsResolved
