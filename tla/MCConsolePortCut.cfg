SPECIFICATION Spec
CONSTANTS
    Consoles <- MCConsoles
    Port <- MCPort
    NameSuffix <- MCNameSuffix
    Cuts = {"name", "text", "digits", "newline"}
    MaxRequests = 3
INVARIANTS
    PortCorrect
CHECK_DEADLOCK FALSE
