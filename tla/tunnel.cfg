\* Two connections through one SSH tunnel: it is given back, and Close ends it.
SPECIFICATION Spec
CONSTANTS
    c1 = c1
    c2 = c2
    Conns <- TwoConns
INVARIANTS
    TypeOK
    TunnelGivenBack
    EndedIsClosed
PROPERTY
    CloseReleases
CHECK_DEADLOCK FALSE
