SPECIFICATION Spec
CONSTANTS
    query = query
    rule = rule
    set = set
    import = import
    flush = flush
    Commands <- MCCommands
    Batches <- MCBatches
    MsgsOf <- MCMsgsOf
    Bare = {flush}
    Failing = {import}
    DryRuns = {TRUE, FALSE}
    DefaultRoom = 2
    PerCmd = 3
    UINT32_MAX = 9
INVARIANTS TypeOK ErrorsReported AllOrNothing AllAcknowledged
