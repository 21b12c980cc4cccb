SPECIFICATION FairSpec
CONSTANTS
    c1 = c1
    c2 = c2
    c3 = c3
    None = None
    Clients <- ThreeClients
    MaxRequests = 5
INVARIANTS TypeOK NoOrphans StatusShowsTraffic
PROPERTIES StopAwaitsItsTask RequestsEnd
CHECK_DEADLOCK FALSE
