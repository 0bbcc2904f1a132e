SPECIFICATION FairSpec
CONSTANTS
    Delays <- MCDelays
    MaxTime = 4
    MaxEvents = 3
INVARIANTS
    TypeOK
    NoOversleep
PROPERTIES
    FiresInOrder
    EventsFire
    StopEndsBusyTimer
