SPECIFICATION FairSpec
CONSTANTS
    Delays <- MCDelays
    MaxTime = 2
    MaxEvents = 1
PROPERTIES
    StopEndsTimer
