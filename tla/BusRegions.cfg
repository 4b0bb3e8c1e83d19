SPECIFICATION FairSpec
CONSTANTS
    Clients = {"c1", "c2"}
    NPlaces = 6
    SlowReaders = TRUE
    MaxRegions = 2
    MaxStarts = 3
INVARIANTS
    OldFramesLeased
PROPERTIES
    RegionReachesReaders
