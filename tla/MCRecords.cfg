CONSTANTS
    Radix = 4
    LongLength = 5
    IntLength = 4
    DateLength = 3
    DaySeconds = 3
    DaysTo1970 = 20
    ZoneOffset = 1
    DstShift = 1
    UnsetTimes <- MCUnsetTimes
    Precision = 3
    ExactBelow = 20
    Empty = Empty
    Null = Null
    TotalLevels = 2
    Bit <- Bits
    Columns <- MCColumns
    RowKeyColumns <- MCRowKeyColumns
    Encoding <- MCEncoding
    Measures <- MCMeasures
    Spanning <- MCSpanning
    Tables <- MCTables

SPECIFICATION Spec
INVARIANTS
    KeyMeansRows
    GroupsAreWhole
    CountsAndSums
    SumsWithinRounding
    MaxIsOfARow
