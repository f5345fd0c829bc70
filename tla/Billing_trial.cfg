CONSTANTS
    p1 = p1
    p2 = p2
    Slots       <- OneSlot
    MaxRefs     = 1
    Period      = 1
    TrialTime   = 1
    GraceTime   = 1
    MaxAttempts = 2
    MaxCalls    = 2
    MaxCrashes  = 0
    MaxFaults   = 0
SPECIFICATION Spec
PROPERTIES TrialLasts
