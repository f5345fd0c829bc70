CONSTANTS
    s1 = s1  s2 = s2  ls = ls  wget = wget  w1 = w1  w2 = w2
    Sessions <- OneSession
    Commands = {ls, wget}  NoCmd = NoCmd  Risky = {wget}
    SrcIp <- OneAddress
    Workers = {w1}
    QueueMax = 2  AlertMax = 1  RecentMax = 2
    NoRecord = NoRecord
    MaxLog = 4  MaxCrashes = 0  MaxFaults = 0  MaxExpiries = 0
    TornLines = TRUE  QuietDays = FALSE  LlmMayFail = FALSE
SPECIFICATION FairSpec
CHECK_DEADLOCK FALSE
INVARIANTS
    TypeOK
    CompletedIsTheLog
PROPERTIES
    DeliverySpec
    EveryLineSettles
    QueuedCloseCompletes
