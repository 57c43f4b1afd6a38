SPECIFICATION Spec
CONSTANTS
    query = query
    rule = rule
    set = set
    import = import
    flush = flush
    Commands <- MCCommands
    Batches <- LossyBatches
    MsgsOf <- MCMsgsOf
    Bare = {flush}
    Failing = {import}
    DryRuns = {FALSE}
    DefaultRoom = 2
    PerCmd = 1
    UINT32_MAX = 9
INVARIANTS ErrorsReported
