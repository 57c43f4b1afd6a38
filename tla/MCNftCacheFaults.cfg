SPECIFICATION FairSpec
CONSTANTS
    Tables = {t1, t2}
    Shapes <- MCShapes
    MaxGen = 3
    Requests <- MCRequests
    GenMod = 8
    DumpFaults = TRUE
INVARIANTS NothingForeign 
PROPERTY UpdateReturns
