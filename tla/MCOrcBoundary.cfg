CONSTANTS
    f1 = f1  f2 = f2  f3 = f3
    u1 = u1  u2 = u2
    w1 = w1  w2 = w2  w3 = w3
    File = {f1, f2, f3}
    Url = {u1, u2}
    Worker = {w1, w2}
    num_workers_alive = 2
    kOrcRowBatchSize = 2
    PlainFiles <- OneDirectory
    NumRows <- BoundaryRows
    StripeEnd <- WholeStripes
    Program <- OneTable
    Faults = {}

SPECIFICATION Spec
INVARIANTS
    Complete
CHECK_DEADLOCK FALSE
