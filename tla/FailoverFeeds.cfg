SPECIFICATION Spec
CONSTANTS
    main = main
    wide = wide
    clip = clip
    None = None
    Sources = {main, wide}
    Rules <- AllRules
    Config <- Slow
    Settable = {}
    Fallible = {main, wide}
    Replaceable = {main}
    Faulty = {main}
    Grace = 2
    Connect = 2
    HealthyFor = 2
    Elapsed = {1}
    Long = 2
    MaxTakes = 1
INVARIANTS
    TypeOK
PROPERTIES
    DrawnWhatHelps
    HoldsFrame
