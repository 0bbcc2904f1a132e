SPECIFICATION FairSpec
CONSTANTS
    c1 = c1
    c2 = c2
    i1 = i1
    i2 = i2
    n1 = n1
    n2 = n2
    t1 = t1
    t2 = t2
    None = None
    Conns <- TwoConns
    Ids <- OneId
    Pool <- OneIdPool
    Names <- OneName
    Known <- OldUser
    DBThreads <- OneDB
    Failing <- OneEach

PROPERTIES
    LeaverRemoved
