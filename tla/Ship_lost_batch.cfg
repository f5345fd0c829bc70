CONSTANTS
    NBatches   = 2
    p1 = p1
    p2 = p2
    p3 = p3
    Slots      <- TwoSlots
    NoSlot     = NoSlot
    MaxRuns    = 1
    MaxCrashes = 1
    MaxFaults  = 0
SPECIFICATION Spec
INVARIANTS RetriedBatchIsLogged
CHECK_DEADLOCK FALSE
