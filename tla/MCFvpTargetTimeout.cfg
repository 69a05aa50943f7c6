SPECIFICATION Spec
CONSTANTS
    MaxFvps = 1
    ConsoleSeq <- MCConsoleSeq
PROPERTIES
    TimeoutBoundsTransition
CHECK_DEADLOCK FALSE
