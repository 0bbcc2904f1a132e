\* The send path of one session: one logic thread, two workers, three packets.
SPECIFICATION FairSpec
CONSTANTS
    logic = logic
    w1 = w1
    w2 = w2
    p1 = p1
    p2 = p2
    p3 = p3
    None = None
    Packets <- MCPackets
    Senders <- MCSenders
    Workers <- MCWorkers
INVARIANTS
    TypeOK
    FrontHasOneOwner
    HeldOnce
    ClosedOnce
PROPERTIES
    ImplementsOutbox
    FreedAfterClose
    NeverStuck
