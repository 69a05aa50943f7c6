CONSTANTS
    MaxAttempts = 2
    NumSps = 1
    Faults = {}
SPECIFICATION Spec
INVARIANT ReclaimedBeforeFreed
CHECK_DEADLOCK FALSE
