SPECIFICATION Spec
CONSTANTS
    NPlaces = 2
    MaxReaders = 1
    LeasesPerReader = 1
    MaxSlots = 64
    InOrder = FALSE
    CatchUp = 8
    MaxFrames = 4
INVARIANTS
    TypeOK
    HeldFrameIntact
    LeasesAccounted
    RoomToWrite
PROPERTIES
    ImplementsFeed
