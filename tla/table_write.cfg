\* One INSERT after another on every backend, with failures and crashes.
SPECIFICATION Spec
CONSTANTS
    Tables <- AllTables
    Writers = {w1}
    Values = {a, b}
SYMMETRY ValueSymmetry
INVARIANTS
    TypeOK
    ErrorsHaveACause
PROPERTIES
    ImplementsAtomicTable
CHECK_DEADLOCK FALSE
