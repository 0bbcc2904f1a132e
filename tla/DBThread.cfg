SPECIFICATION FairSpec
CONSTANTS
    p1 = p1
    p2 = p2
    d1 = d1
    d2 = d2
    d3 = d3
    s1 = s1
    k1 = k1
    k2 = k2
    k3 = k3
    None = None
    Posters <- TwoPosters
    Threads <- ThreeThreads
    Connections <- OneConnection
    Initial <- OneInitial
    Tasks <- ThreeTasks

INVARIANTS
    TypeOK
    ConnectionsConserved
    WorkConserving
    PoolConserving
PROPERTIES
    AcceptedTasksEnd
    StopEndsThreads
