SPECIFICATION LiveSpec
CONSTANTS
    studio = studio
    hall = hall
    hallAgain = hallAgain
    top = top
    low = low
    side = side
    sideAgain = sideAgain
    Shows = {studio, hall, hallAgain}
    Name <- Showing
    First = {studio, hall}
    Nodes = {top, low, side, sideAgain}
    ShowOf <- Owner
    Cost <- Share
    RungsOf <- Ladder
    Numbers = {1, 2, 3}
    Asks = {"a"}
    Room = 2
    Brink = 2
    Bursts = {0, 1}
    Impatient = {hall}
    Mortal = {hall}
    Telling = {hallAgain}
    MaxLoads = 1
    MaxChanges = 3
INVARIANTS
    TypeOK
    HeldIsBooked
    NothingLeftBooked
    OneBudget
PROPERTIES
    TopRungKept
    HolderIsWeighed
    OverLineEnds
CHECK_DEADLOCK FALSE
