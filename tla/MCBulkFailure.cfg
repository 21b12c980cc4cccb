SPECIFICATION FairSpec
CONSTANTS
    l1 = l1
    l2 = l2
    l3 = l3
    Logs <- MCLogs
    Batches <- MCBatches
    Malformed <- MCMalformed
    ContentHash <- MCContentHash
    Clients = {c1}
    Workers = {w1, w2}
    Operators = {o1}
    MaxDepth = 1
    MaxBatch = 1
    BatchSize = 2
    FindLimit = 0
    MaxFailures = 1
    MaxReplays = 1
PROPERTY FailedRecordsRouted
CHECK_DEADLOCK FALSE
