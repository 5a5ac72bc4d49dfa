\* Collect over a limit over a filter over the files of a table, and what
\* still holds of a scan that another goroutine closes.
SPECIFICATION FairSpec
CONSTANT
    Scans <- AllScans
INVARIANTS
    TypeOK
    ScanOrder
    EndIsComplete
    LimitStopsReading
    FilesAreClosed
PROPERTIES
    CollectReturns
    ImplementsRowIter
CHECK_DEADLOCK FALSE
