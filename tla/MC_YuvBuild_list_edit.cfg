\* A function added to yuv_functions.txt reruns the script, which does not rename.
CONSTANTS
    Headers <- MCHeaders
    Sources <- MCSources
    Decl <- MCDecl
    Def <- MCDef
    Lists <- MCGrowing
    MaxFaults <- MCMaxFaults
    CloneMayFail = FALSE
    CheckoutMayFail = FALSE
    MayCrash = FALSE
SPECIFICATION FaultSpec
INVARIANT
    BindingsResolve
