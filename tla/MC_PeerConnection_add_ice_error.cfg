\* add_ice_candidate returns Ok(()) for any value the observer sends, so an
\* engine-reported failure never reaches the caller.
CONSTANTS
    h1 = h1
    h2 = h2
    NoHandler = NoHandler
    Kinds <- MCKinds
    Handlers <- MCHandlers
    MaxCalls <- MCMaxCalls
    BlockingKinds <- MCNoBlocking
    AppCap <- MCAppCap
    EngineMayAbandon = FALSE
    CallerMayCancel = FALSE
SPECIFICATION Spec
INVARIANTS
    EngineErrorSurfaced
