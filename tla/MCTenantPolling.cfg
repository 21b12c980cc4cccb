SPECIFICATION FairSpec
CONSTANTS
    t1 = t1
    t2 = t2
    t3 = t3
    w1 = w1
    w2 = w2
    Tenants <- ThreeTenants
    Polled <- LastParts
    Workers <- TwoWorkers
    MaxLength <- Lengths
    BatchSize = 2
PROPERTIES LossConfined TenantsServed
