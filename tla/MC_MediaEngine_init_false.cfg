\* A native Init that returns false: new rejects it, init accepts it.
CHECK_DEADLOCK FALSE
CONSTANTS
    t1 = t1
    t2 = t2
    Holders <- MCHolders
    NativeMayThrow = FALSE
SYMMETRY MCSymmetry
SPECIFICATION Spec
INVARIANT
    InitOkMeansInitialised
