SPECIFICATION LiveSpec
CONSTANTS
    main = main
    wide = wide
    clip = clip
    None = None
    Sources = {main, wide}
    Rules <- AllRules
    Config <- Alone
    Settable <- Anything
    Fallible = {main}
    Replaceable = {}
    Faulty = {}
    Grace = 2
    Connect = 2
    HealthyFor = 2
    Elapsed = {1}
    Long = 2
    MaxTakes = 1
INVARIANTS
    OffHasReason
PROPERTIES
    ReturnsWhenSteady
    StayForOneOutage
    ReasonIsTrue
    Covered
    HomeAgain
