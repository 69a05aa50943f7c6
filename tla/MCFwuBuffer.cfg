CONSTANTS
    MaxAttempts = 2
    NumSps = 2
    Faults = {"lose"}
    MaxSize = 5
    Room = 2
SPECIFICATION UseSpec
INVARIANTS
    UseTypeOK
    InitializedHasBuffer
    BufferIsSafe
    InBounds
    TransferIsExact
PROPERTY
    StreamEnds
\* The boot is over in "crashed" and "accept".
CHECK_DEADLOCK FALSE
