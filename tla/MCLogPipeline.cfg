SPECIFICATION FairSpec
CONSTANTS
    l1 = l1
    l2 = l2
    l3 = l3
    Logs <- MCLogs
    Batches <- MCBatches
    Malformed <- MCMalformed
    ContentHash <- MCContentHash
    Clients = {c1, c2}
    Workers = {w1, w2}
    Operators = {o1, o2}
    MaxDepth = 1
    MaxBatch = 1
    BatchSize = 2
    FindLimit = 0
    MaxFailures = 1
    MaxReplays = 1
INVARIANTS TypeOK LossBounded OvershootBounded SingleCustody DiscardIsFinal
PROPERTIES TransitEnds ImplementsDelivery
CHECK_DEADLOCK FALSE
