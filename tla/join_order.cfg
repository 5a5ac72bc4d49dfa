\* Order, completeness and channel safety of the parallel join, and that it
\* implements the serial one; with the goroutines scheduled, the end is reached
\* and Close releases.
SPECIFICATION GoSpec
CONSTANTS
    Workers = {w1, w2}
    BatchSize = 2
    QueueDepth = 1
    Queries <- OrderQueries
INVARIANTS
    TypeOK
    SerialOrder
    EndIsComplete
    NoSendOnClosed
    NoLeakAtEnd
PROPERTIES
    ImplementsSerialJoin
    CollectEnds
    CloseReleases
CHECK_DEADLOCK FALSE
