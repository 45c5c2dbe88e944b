\* The engine drops an observer without calling it; the awaiting future keeps
\* a Sender alive through its own native_wrapper, so recv() never yields None.
CONSTANTS
    h1 = h1
    h2 = h2
    NoHandler = NoHandler
    Kinds <- MCKinds
    Handlers <- MCHandlers
    MaxCalls <- MCMaxCalls
    BlockingKinds <- MCNoBlocking
    AppCap <- MCAppCap
    EngineMayAbandon = TRUE
    CallerMayCancel = FALSE
SPECIFICATION Spec
PROPERTIES
    CallerProgress
