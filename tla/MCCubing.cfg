CONSTANTS
    w1 = w1  w2 = w2  w3 = w3
    x1 = x1  x2 = x2  x3 = x3  x4 = x4
    a = a  b = b
    Bit = {0, 1, 2}
    Value = {a, b}
    Blank = Blank
    Worker = {w1, w2, w3}
    RowId = {x1, x2, x3, x4}
    RowOf <- ThreeColumns
    Owner <- SomeOwner
    Layers <- MandatoryLayers
    Spanning <- MandatoryTree

SPECIFICATION FairSpec
INVARIANTS
    IndInv
    LevelsInStep
PROPERTIES
    BuildsCube
    CubeIsBuilt
CHECK_DEADLOCK FALSE
