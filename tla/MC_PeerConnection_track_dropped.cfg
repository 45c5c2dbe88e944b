\* A handler registered with on_add_track is never called: the dispatch body
\* of on_add_track is a TODO.
CONSTANTS
    h1 = h1
    h2 = h2
    NoHandler = NoHandler
    Kinds <- MCKinds
    Handlers <- MCHandlers
    MaxCalls <- MCMaxCalls
    BlockingKinds <- MCNoBlocking
    AppCap <- MCAppCap
    EngineMayAbandon = FALSE
    CallerMayCancel = FALSE
SPECIFICATION Spec
INVARIANTS
    EventReachesHandler
