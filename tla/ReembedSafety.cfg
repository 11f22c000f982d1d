SPECIFICATION Spec
CONSTANTS
    old = old
    new = new
    a1 = a1
    a2 = a2
    l1 = l1
    l2 = l2
    Memories = {1, 2}
    Models = {old, new}
    ActiveModel = old
    Preloaded = {1, 2}
    Encrypted = {1}
    Unreadable = {}
    CodeChunks = {}
    Named = {1}
    MaxMigrations = 1
    Admins = {a1, a2}
    Loops = {l1}
    BatchSize = 2
    MaxLoopFaults = 1
    SweepBatch = 2
    MaxSweepFaults = 1
INVARIANTS
    TypeOK
    BackfillComplete
PROPERTIES
    ForgottenForGood
CHECK_DEADLOCK FALSE
