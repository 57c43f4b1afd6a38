SPECIFICATION Spec
CONSTANTS
    Tables = {t1, t2}
    Shapes <- MCShapes
    MaxGen = 3
    Requests <- MCRequests
    GenMod = 8
    DumpFaults = FALSE
INVARIANTS TypeOK CacheIsSnapshot RulesHaveChains NothingTwice 
PROPERTY ImplementsCacheSnapshot
