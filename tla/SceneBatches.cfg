SPECIFICATION Spec
CONSTANTS
    Parent <- OneBox
    laptop = laptop
    phone = phone
    scene = scene
    logo = logo
    clock = clock
    NoParent = "top"
    Marks = {}
    Batching = {laptop, phone}
    Forcing = {}
    Restarting = FALSE
    FirstPatchSeen = TRUE
    UndoDepth = 1
    ClientsKept = 1
    MaxUnsent = 1
    MaxEdits = 3
    MaxSeq = 4
    Clients = {laptop, phone}
    Records = {scene, logo, clock}
    InitRecords = {clock}
PROPERTIES
    BatchKept
    
CHECK_DEADLOCK FALSE
