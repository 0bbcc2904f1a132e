\* What the players see, without a bound on the number of events.
SPECIFICATION Spec
CONSTANTS
    p1 = p1
    p2 = p2
    n1 = n1
    None = None
    Zero = p1
    Players <- MCPlayers
    NPCs <- MCNPCs
    Free <- MCFree
    Saved <- MCSaved
    Home <- MCHome
    WIDTH = 4
    HEIGHT = 1
    VIEW_RANGE = 1
    SECTOR_SIZE = 2
    MaxDue = 1
INVARIANTS
    InSightListed
    MutualShown
PROPERTIES
    StraysComeFromRespawns
