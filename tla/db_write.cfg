SPECIFICATION Spec
CONSTANTS
    w1 = w1
    w2 = w2
    Writers = {w1, w2}
    Tables <- MCTables
INVARIANTS
    TypeOK
    RowsInOrder
    AcknowledgedRowsStay
    StopsBetweenRows
    OverwriteReplaces
CHECK_DEADLOCK FALSE
