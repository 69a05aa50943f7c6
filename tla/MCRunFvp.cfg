SPECIFICATION Spec
CONSTANTS
    MaxFvps = 1
    ConsoleSeq <- MCConsoleSeq
    MaxInterrupts = 2
INVARIANTS
    TypeOK
    NothingLeftBehind
    ExitStatusIsExplained
    TerminalIsUsable
PROPERTY
    RunFvpExits
CHECK_DEADLOCK FALSE
