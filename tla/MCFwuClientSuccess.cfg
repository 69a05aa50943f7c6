CONSTANTS
    NumImages = 2
    MaxCapsules = 1
    MaxOpen = 2
    Faults = {"refuse"}
    Capsules <- MCCapsules
SPECIFICATION Spec
INVARIANT SuccessMeansInstalled
