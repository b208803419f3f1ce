CONSTANTS
    f1 = f1  f2 = f2  f3 = f3  l1 = l1  l2 = l2
    d1 = d1  d2 = d2  dir = dir
    w1 = w1  w2 = w2  w3 = w3
    Path = {f1, f2, f3}
    Url = {d1, d2}
    Worker = {w1, w2}
    num_workers_alive = 2
    Protocol <- MCProtocol
    Kind <- MCKind
    Files <- MCFiles
    RowGroups <- MCRowGroups
    PathOrder <- MCPathOrder
    Program <- BothDirectories
    Faults = {}

SPECIFICATION FairSpec
INVARIANTS
    OneReader
    CountsWorkers
PROPERTIES
    NoGroupLost
    DistributesRows
    Terminates
CHECK_DEADLOCK FALSE
