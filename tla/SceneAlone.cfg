SPECIFICATION Spec
CONSTANTS
    Parent <- TwoBox
    laptop = laptop
    phone = phone
    scene = scene
    logo = logo
    clock = clock
    NoParent = "top"
    Marks = {"drag"}
    Batching = {phone}
    Forcing = {}
    Restarting = TRUE
    FirstPatchSeen = TRUE
    UndoDepth = 6
    ClientsKept = 2
    MaxUnsent = 1
    MaxEdits = 3
    MaxSeq = 5
    Clients = {phone}
    Records = {scene, logo, clock}
    InitRecords = {scene, logo}
INVARIANTS
    HistoryRewinds
    FileHoldsCommitted
CHECK_DEADLOCK FALSE
