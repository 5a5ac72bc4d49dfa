\* An SQLite table that is given by its url.
SPECIFICATION Spec
CONSTANTS
    w1 = w1
    w2 = w2
    Writers = {w1, w2}
    Tables <- UrlTables
INVARIANT UrlSuffices
CHECK_DEADLOCK FALSE
