\* The caller drops a pending future (e.g. a timeout); the engine later calls
\* the observer, blocking_send fails and unwrap() panics on its thread.
CONSTANTS
    h1 = h1
    h2 = h2
    NoHandler = NoHandler
    Kinds <- MCKinds
    Handlers <- MCHandlers
    MaxCalls <- MCMaxCalls
    BlockingKinds <- MCNoBlocking
    AppCap <- MCAppCap
    EngineMayAbandon = FALSE
    CallerMayCancel = TRUE
SPECIFICATION Spec
INVARIANTS
    NoSignalingThreadPanic
