SPECIFICATION FairSpec
CONSTANTS
    NPlaces = 1
    MaxReaders = 1
    LeasesPerReader = 2
    MaxSlots = 64
    InOrder = TRUE
    CatchUp = 2
    MaxFrames = 6
PROPERTIES
    OwnerNeverWaits
    ReaderReachesNewest
