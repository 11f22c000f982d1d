SPECIFICATION FairSpec
CONSTANTS
    old = old
    new = new
    a1 = a1
    a2 = a2
    l1 = l1
    l2 = l2
    Memories = {1, 2}
    Models = {old, new}
    ActiveModel = old
    Preloaded = {1}
    Encrypted = {2}
    Unreadable = {}
    CodeChunks = {1}
    Named = {}
    MaxMigrations = 1
    Admins = {a1}
    Loops = {l1}
    BatchSize = 2
    MaxLoopFaults = 0
    SweepBatch = 2
    MaxSweepFaults = 0
PROPERTIES
    RunsToTheEnd
    SweepCatchesUp
CHECK_DEADLOCK FALSE
