CONSTANTS
    NBatches   = 3
    p1 = p1
    p2 = p2
    p3 = p3
    Slots      <- TwoSlots
    NoSlot     = NoSlot
    MaxRuns    = 2
    MaxCrashes = 1
    MaxFaults  = 1
SPECIFICATION Spec
INVARIANTS TypeOK LogIsSound
CHECK_DEADLOCK FALSE
