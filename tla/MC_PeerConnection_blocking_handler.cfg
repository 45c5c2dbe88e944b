\* The test's handler: on_ice_candidate does blocking_send into the test's
\* channel(16), which the test reads only after its operations returned.
\* The engine calls every observer once and the caller never cancels.  The
\* hang shows as a state where nothing can move, so it is reported through
\* CallerProgress rather than as a deadlock.
CHECK_DEADLOCK FALSE
CONSTANTS
    h1 = h1
    h2 = h2
    NoHandler = NoHandler
    Kinds <- MCIceKinds
    Handlers <- MCHandlers
    MaxCalls <- MCOneCall
    BlockingKinds <- MCBlocking
    AppCap <- MCTestCap
    EngineMayAbandon = FALSE
    CallerMayCancel = FALSE
SPECIFICATION Spec
PROPERTY
    CallerProgress
