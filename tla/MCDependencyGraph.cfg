SPECIFICATION GraphFairSpec
CONSTANTS
    a = a
    b = b
    c = c
    Services <- ThreeServices
INVARIANT ReturnsDownstream
PROPERTY SearchEnds
