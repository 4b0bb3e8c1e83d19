SPECIFICATION Spec
CONSTANTS
    Scenes = {one, two}
    Clients = {laptop, phone}
    Conns = {page, popup, app}
    ClientOf <- Owners
    Calls <- Parts
    None = None
    laptop = laptop
    phone = phone
    page = page
    popup = popup
    app = app
    Modes = {"swap"}
    MaxGone = 1
    Forcing = FALSE
    MaxDrafts = 1
    MaxLayouts = 1
    MaxTakes = 2
    MaxJoins = 1
PROPERTY EditNeverTakes
CHECK_DEADLOCK FALSE
