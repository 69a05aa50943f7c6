SPECIFICATION Spec
CONSTANTS
    MaxFvps = 2
    ConsoleSeq <- MCConsoleSeq
INVARIANTS
    TypeOK
    StateIsTrue
    NoLostFvp
    OthersAreKilled
PROPERTIES
    TransitionReturns
CHECK_DEADLOCK FALSE
