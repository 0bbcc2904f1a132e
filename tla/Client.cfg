\* The packets of three events and what they set off, and the clients.
SPECIFICATION ClientSpec
CONSTANTS
    p1 = p1
    p2 = p2
    n1 = n1
    None = None
    Zero = p1
    Players <- MCPlayers
    NPCs <- MCNPCs
    Free <- MCFree
    Saved <- MCSaved
    Home <- MCHome
    WIDTH = 3
    HEIGHT = 1
    VIEW_RANGE = 1
    SECTOR_SIZE = 2
    MaxDue = 1
    Start <- MCStart
    MaxEvents = 3
    MaxBehind = 1
\* The number of events is bounded.
CHECK_DEADLOCK FALSE
INVARIANTS
    ClientTypeOK
    ClientCatchesUp
