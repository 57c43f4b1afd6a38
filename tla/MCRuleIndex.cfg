SPECIFICATION Spec
CONSTANTS
    Batches <- MCBatches
    Width = 16
    MaxHandle = 3
    MaxRules = 2
INVARIANTS TypeOK IndexMeaning IndexFound StandsBy
