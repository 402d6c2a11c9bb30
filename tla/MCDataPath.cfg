SPECIFICATION Spec
CONSTANTS
    Width = 8
    Poly = {0, 2, 3, 4}
    Reduction = {0, 2, 3, 4}
    K = 3
    Coefficient = {{0}, {1}}
    MaxCoded = 2
    Position = {0, 19, 59}
    Header <- MCHeader
    Traffic <- MCTraffic
INVARIANT TablesAreField
INVARIANT RowsConsistent
INVARIANT FailsIffDependent
INVARIANT WrittenAsRead
CHECK_DEADLOCK FALSE
