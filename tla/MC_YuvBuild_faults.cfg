\* Every fault that leaves something in OUT_DIR, with a fixed function list:
\* a clone that fails in its checkout, a failing `git checkout`, a build
\* killed at any step (inside `git clone`, inside rename_symbols), then
\* reruns on what was left.
CONSTANTS
    Headers <- MCHeaders
    Sources <- MCSources
    Decl <- MCDecl
    Def <- MCDef
    Lists <- MCGrownOnly
    MaxFaults <- MCMaxFaults
    CloneMayFail = TRUE
    CheckoutMayFail = TRUE
    MayCrash = TRUE
SPECIFICATION FaultSpec
INVARIANT
    CompiledTreeComplete
