CONSTANTS
    w1 = w1  w2 = w2
    Worker = {w1, w2}
    File = {"c0", "c1", "c2", "c3", "m1", "m2", "t1", "t2", "t3"}
    Size <- MCSize
    DirOf <- MCDirOf
    FileSets <- MCFileSets
    Faults <- MCFaults
    Upper <- MCUpper
    CubeJson <- MCCubeJson
    ModelJson <- MCModelJson
    TableJson <- MCTableJson

SPECIFICATION FairSpec
INVARIANTS
    ParsesItsFiles
    LoadsAllFiles
    WorkersAgree
    MasksMeanColumns
    FlatTableHoldsColumns
PROPERTIES
    GetsReady
CHECK_DEADLOCK FALSE
