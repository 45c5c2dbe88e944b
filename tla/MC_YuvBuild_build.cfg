\* Clones whose fetch fails, and reruns, with a fixed function list.
CONSTANTS
    Headers <- MCHeaders
    Sources <- MCSources
    Decl <- MCDecl
    Def <- MCDef
    Lists <- MCGrownOnly
    MaxFaults <- MCMaxFaults
    CloneMayFail = TRUE
    CheckoutMayFail = FALSE
    MayCrash = FALSE
SPECIFICATION Spec
INVARIANT
    BindingsResolve
