SPECIFICATION Spec
CONSTANTS
    Consoles <- MCConsoles
    Port <- MCPort
    NameSuffix <- MCNameSuffix
    Cuts = {"newline"}
    MaxRequests = 3
INVARIANTS
    TypeOK
    PortCorrect
    NothingForgotten
PROPERTIES
    DistinctEntriesConnected
CHECK_DEADLOCK FALSE
