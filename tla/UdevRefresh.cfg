\* Two clients that compete for the lock; one of them meets every failure.
SPECIFICATION FairSpec
CONSTANTS
    Client = {"c", "d"}
    MaxTime = 2
    MaxEvents = 2
    Faults <- Failures
INVARIANTS
    TypeOK
    EventsNoticed
    FreshWhenReady
PROPERTY
    ConstructorEnds
