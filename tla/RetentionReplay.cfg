SPECIFICATION Spec
CONSTANTS
    t1 = t1
    t2 = t2
    Txs = {t1, t2}
    NoTx = NoTx
    Replays = {t1}
    MaxSeq = 2
    MaxMonth = 2
    Depth = 2
    RetentionMonths = 1
INVARIANTS
    OnlyAnchoredDropped
CHECK_DEADLOCK FALSE
