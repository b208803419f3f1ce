CONSTANTS
    Bit = {0, 1, 2, 3}
    MaxGroups = 2
    AggregationGroups <- ProperVectors
    parent_forward = 0
    MaxCuboids = 4
    CuboidLists <- ListsWithBase
    MaxInits = 1

SPECIFICATION FairCubeSpec
INVARIANTS
    TypesOK
    ParentCovers
    OneParent
    OnlyOnTree
    LayersAreTheTree
    BestMatchIsBest
    ParentsAreLeast
PROPERTIES
    NoPadding
    LayersAddUp
    TreeIsBuilt
CHECK_DEADLOCK FALSE
