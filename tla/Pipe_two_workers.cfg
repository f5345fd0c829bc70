CONSTANTS
    s1 = s1  s2 = s2  ls = ls  wget = wget  w1 = w1  w2 = w2
    Sessions <- TwoSessions
    Commands = {}  NoCmd = NoCmd  Risky = {}
    SrcIp <- OneAddress
    Workers = {w1, w2}
    QueueMax = 2  AlertMax = 1  RecentMax = 2
    NoRecord = NoRecord
    MaxLog = 4  MaxCrashes = 1  MaxFaults = 1  MaxExpiries = 1
    TornLines = FALSE  QuietDays = TRUE  LlmMayFail = FALSE
SPECIFICATION Spec
CHECK_DEADLOCK FALSE
SYMMETRY Symmetry
INVARIANTS
    RecordsHoldOwnLines
    TotalCountsCompleted
    IndexedOnce
    CrashIsBounded
