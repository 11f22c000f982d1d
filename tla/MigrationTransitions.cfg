SPECIFICATION Spec
CONSTANTS
    old = old
    new = new
    a1 = a1
    a2 = a2
    l1 = l1
    l2 = l2
    Memories = {1}
    Models = {old, new}
    ActiveModel = old
    Preloaded = {1}
    Encrypted = {1}
    Unreadable = {}
    CodeChunks = {}
    Named = {}
    MaxMigrations = 1
    Admins = {a1}
    Loops = {l1}
    BatchSize = 1
    MaxLoopFaults = 0
    SweepBatch = 2
    MaxSweepFaults = 0
PROPERTIES
    OnlyValidTransitions
CHECK_DEADLOCK FALSE
