\* The caller issues operations and registers handlers while the engine
\* dispatches events; the engine calls every observer once and the caller
\* never drops a pending future.
CONSTANTS
    h1 = h1
    h2 = h2
    NoHandler = NoHandler
    Kinds <- MCKinds
    Handlers <- MCHandlers
    MaxCalls <- MCMaxCalls
    BlockingKinds <- MCNoBlocking
    AppCap <- MCAppCap
    EngineMayAbandon = FALSE
    CallerMayCancel = FALSE
SPECIFICATION Spec
INVARIANTS
    TypeOK
    NoSignalingThreadPanic
PROPERTIES
    CallerProgress
