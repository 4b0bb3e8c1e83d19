SPECIFICATION Spec
CONSTANTS
    Parent <- TwoBox
    laptop = laptop
    phone = phone
    scene = scene
    logo = logo
    clock = clock
    NoParent = "top"
    Marks = {}
    Batching = {}
    Forcing = {phone}
    Restarting = FALSE
    FirstPatchSeen = TRUE
    UndoDepth = 2
    ClientsKept = 2
    MaxUnsent = 2
    MaxEdits = 3
    MaxSeq = 5
    Clients = {laptop, phone}
    Records = {scene, logo, clock}
    InitRecords = {scene, logo}
INVARIANTS
    TypeOK
    MirrorFollows
PROPERTIES
    UndoTakesOwnBack
CHECK_DEADLOCK FALSE
