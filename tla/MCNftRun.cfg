SPECIFICATION Spec
CONSTANTS
    t1 = t1
    t2 = t2
    Tables = {t1}
    Family <- Families
    Batches <- MCBatches
    DryRuns = {FALSE}
INVARIANTS TypeOK CacheIsCurrent NoFalseReject IndexTranslated 
