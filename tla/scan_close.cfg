\* A scan that another goroutine closes: "safe to call while the pipeline is
\* still running".
SPECIFICATION Spec
CONSTANT
    Scans <- SharedScans
INVARIANTS
    CloseIsSafe
CHECK_DEADLOCK FALSE
