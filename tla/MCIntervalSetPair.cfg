SPECIFICATION MonSpec
CONSTANTS
    Top = 6
    Lag = 0
    Data = {"a", "b"}
    SetKinds <- PairKinds
    Batches <- PairBatches
INVARIANT KernelMeans
