SPECIFICATION FairSpec
CONSTANTS
    s1 = s1
    s2 = s2
    w1 = w1
    w2 = w2
    Sagas = {s1}
    Artifacts = {s1}
    MaxFaults = 3
    Workers = {w1, w2}
    NoWorker = NoWorker
    LockExpires = TRUE
PROPERTIES
    PgCommittedIsCompleted
    OrphansAreReclaimed
