SPECIFICATION Spec
CONSTANTS
    Clients <- MCClients
    Setups <- MCSetups
    MaxUploadAll = 2
    DefaultBlock = 2
INVARIANT OpenTellsErrors
CHECK_DEADLOCK FALSE
