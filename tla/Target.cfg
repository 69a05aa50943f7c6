CONSTANTS
    NumCpus = 3
    Declared = {0, 1, 2, 4}
    MaxDevices = 3
    MaxLosses = 4
    MaxStarts = 3
SPECIFICATION TargetSpec
INVARIANTS
    TargetTypeOK
    GoodMachinePasses
    PassMeansItWorks
    CpusAreReenabled
    OfflineIsHalted
PROPERTIES
    RestartStarts
    StopIsBounded
\* A test ends.
CHECK_DEADLOCK FALSE
