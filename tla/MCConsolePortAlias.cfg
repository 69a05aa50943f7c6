SPECIFICATION Spec
CONSTANTS
    Consoles <- MCConsoles
    Port <- MCPort
    NameSuffix <- MCNameSuffix
    Cuts = {"newline"}
    MaxRequests = 3
PROPERTIES
    EveryEntryConnected
CHECK_DEADLOCK FALSE
