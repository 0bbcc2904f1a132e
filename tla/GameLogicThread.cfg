\* The event queue with two posting threads and three events.
SPECIFICATION FairSpec
CONSTANTS
    worker = worker
    db = db
    e1 = e1
    e2 = e2
    e3 = e3
    Posters <- MCPosters
    Events <- MCEvents
INVARIANTS
    TypeOK
    NoLostWakeup
    DrainedAtExit
PROPERTIES
    ImplementsEventQueue
    EarlyEventsRun
    StopEndsRun
