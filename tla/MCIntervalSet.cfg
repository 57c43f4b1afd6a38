SPECIFICATION MonSpec
CONSTANTS
    Top = 6
    Lag = 0
    Data = {"a", "b"}
    SetKinds <- MCKinds
    Batches <- MCBatches
INVARIANTS TypeOK KernelMeans ListedBack NoOrphans Refusals FoundHere TreeDisjoint MonitorFollows
