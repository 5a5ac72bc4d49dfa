SPECIFICATION FairSpec
CONSTANTS
    Clients <- MCClients
    Setups <- MCSetups
    MaxUploadAll = 2
    DefaultBlock = 2
INVARIANTS
    TypeOK
    FoldersAreUnique
    CopiesBounded
    WrittenIsRead
PROPERTIES
    ImplementsNamedFiles
    OperationsEnd
CHECK_DEADLOCK FALSE
