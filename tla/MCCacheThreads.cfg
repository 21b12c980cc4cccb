SPECIFICATION Spec
CONSTANTS
    t1 = t1
    t2 = t2
    t3 = t3
    s1 = s1
    s2 = s2
    s3 = s3
    s4 = s4
    Threads <- ThreeThreads
    Signatures <- FourSignatures
    Capacity = 3
    MaxUses = 5
SYMMETRY MCSymmetry
INVARIANTS TypeOK SizeBounded EvictionsCovered KeepsRecent
CHECK_DEADLOCK FALSE
