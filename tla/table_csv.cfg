\* INSERT OVERWRITE of a local CSV file, one statement at a time.
SPECIFICATION Spec
CONSTANTS
    Tables <- CSVTables
    Writers = {w1}
    Values = {a, b}
INVARIANTS
    OverwriteIsAtomic
CHECK_DEADLOCK FALSE
