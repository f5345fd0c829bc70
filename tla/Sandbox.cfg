CONSTANTS
    h1 = h1
    h2 = h2
    Hosts         <- TwoHosts
    MaxCommands   = 4
    MaxInterrupts = 1
    MaxOutages    = 1
    MaxFailures   = 1
    MaxDeaths     = 1
SYMMETRY HostSymmetry
SPECIFICATION Spec
CHECK_DEADLOCK FALSE
INVARIANTS TypeOK FilesTellTruth ProfilesNeverMix
PROPERTIES ResearchIsConfirmed RecoverTells
