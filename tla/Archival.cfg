SPECIFICATION Spec
CONSTANTS
    charge1 = charge1
    charge2 = charge2
    order = order
    Workers = {w1, w2}
    NTables = 2
    OldRows = {charge1, charge2, order}
    TableOf <- MCTableOf
    Parents <- MCParents
    BatchSize = 1
CHECK_DEADLOCK FALSE
INVARIANTS
    RowNeverLost
    NoChildStranded
PROPERTIES
    OldRowsAreMoved
