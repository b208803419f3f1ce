CONSTANTS
    w1 = w1  w2 = w2  w3 = w3
    x1 = x1  x2 = x2  x3 = x3  x4 = x4
    a = a  b = b
    Bit = {0, 1}
    Value = {a, b}
    Blank = Blank
    Worker = {w1, w2}
    RowId = {x1, x2, x3, x4}
    RowOf <- TwoColumns
    Owner <- SomeOwner
    Layers <- FullLayers
    Spanning <- FullTree

SPECIFICATION Spec
INVARIANTS
    ColumnsKept
CHECK_DEADLOCK FALSE
