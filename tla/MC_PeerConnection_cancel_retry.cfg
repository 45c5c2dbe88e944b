\* The caller may drop a pending future and issue the next call while the
\* engine still holds the dropped call's observer.  A late callback then
\* aborts the process, a real stop, so deadlock is not checked.
CHECK_DEADLOCK FALSE
CONSTANTS
    h1 = h1
    h2 = h2
    NoHandler = NoHandler
    Kinds <- MCKinds
    Handlers <- MCHandlers
    MaxCalls <- MCMaxCalls
    BlockingKinds <- MCBlocking
    AppCap <- MCAppCap
    EngineMayAbandon = TRUE
    CallerMayCancel = TRUE
SYMMETRY MCSymmetry
SPECIFICATION Spec
INVARIANTS
    OwnAnswer
PROPERTIES
    ImplementsAsyncCall
