CONSTANTS
    p1 = p1
    p2 = p2
    Slots       <- TwoSlots
    MaxRefs     = 2
    Period      = 1
    TrialTime   = 1
    GraceTime   = 1
    MaxAttempts = 2
    MaxCalls    = 2
    MaxCrashes  = 1
    MaxFaults   = 1
SPECIFICATION LaterSpec
INVARIANTS TypeOK ChargedOnce OnePaymentOnePeriod
PROPERTIES CancelHolds PaidIsGranted DueTrialSettles
