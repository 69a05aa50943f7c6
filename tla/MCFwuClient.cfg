\* Every set of faults, also capsules that are not as expected.
CONSTANTS
    NumImages = 2
    MaxCapsules = 2
    MaxOpen = 2
    Faults = {"refuse", "lose", "endless"}
    Capsules <- MCOddCapsules
SPECIFICATION Spec
INVARIANTS
    TypeOK
    SuccessIsAllOrNothing
    FailureKeepsFirmware
    HandlesAreClosed
    OsConfirmsTrial
PROPERTIES
    UpdateIsAtomic
    CapsuleEnds
