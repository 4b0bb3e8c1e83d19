SPECIFICATION FairSpec
CONSTANTS
    Clients = {"c1", "c2", "c3"}
    NPlaces = 2
    SlowReaders = TRUE
    MaxRegions = 1
    MaxStarts = 5
INVARIANTS
    TypeOK
    HeldFramesLeased
    SeatsApart
PROPERTIES
    LeasesFreed
