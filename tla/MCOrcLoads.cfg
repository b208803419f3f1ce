CONSTANTS
    f1 = f1  f2 = f2  f3 = f3
    u1 = u1  u2 = u2
    w1 = w1  w2 = w2  w3 = w3
    File = {f1, f2, f3}
    Url = {u1, u2}
    Worker = {w1, w2, w3}
    num_workers_alive = 3
    kOrcRowBatchSize = 2
    PlainFiles <- MCPlainFiles
    NumRows <- OddRows
    StripeEnd <- WholeStripes
    Program <- BothTables
    Faults = {}

SPECIFICATION FairSpec
INVARIANTS
    TypeOK
    FinishCounts
PROPERTIES
    LeavesAtTheEnd
    DistributesRows
CHECK_DEADLOCK FALSE
