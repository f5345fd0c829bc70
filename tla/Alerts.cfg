CONSTANTS
    w1 = w1
    w2 = w2
    i1 = i1
    i2 = i2
    g1 = g1
    g2 = g2
    Workers     <- TwoWorkers
    Ips         <- OneIp
    Sigs        <- OneSig
    AlertMax    = 2
    VelocityMax = 1
    GlobalMax   = 1
    Scores      <- AllScores
    MaxSessions = 2
    MaxWindows  = 1
    MaxCrashes  = 1
    MaxFaults   = 1
SPECIFICATION FairSpec
CHECK_DEADLOCK FALSE
INVARIANTS TypeOK CampaignAlertedOnce VelocityCap CapIsKept
PROPERTIES KeysExpire
