SPECIFICATION Spec
CONSTANTS
    t1 = t1
    t2 = t2
    Txs = {t1, t2}
    NoTx = NoTx
    Replays = {t1}
    MaxSeq = 4
    MaxMonth = 2
    Depth = 2
    RetentionMonths = 1
INVARIANTS
    TypeOK
    GaplessChain
    LostOnlyToReplays
    NoBreakWithoutDrop
    BreakRecordedOnce
PROPERTIES
    SerialAppends
CHECK_DEADLOCK FALSE
