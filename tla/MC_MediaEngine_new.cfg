\* Construction with every native step able to throw, then both clones
\* initialising the engines and calling the unimplemented channel methods.
\* A failed new, or a panicked thread, ends the behaviour: deadlock is not
\* checked.
CHECK_DEADLOCK FALSE
CONSTANTS
    t1 = t1
    t2 = t2
    Holders <- MCHolders
    NativeMayThrow = TRUE
SYMMETRY MCSymmetry
SPECIFICATION Spec
INVARIANT
    NewAllOrNothing
