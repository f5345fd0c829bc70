CONSTANTS
    n1 = n1 n2 = n2 s1 = s1 s2 = s2 t1 = t1 t2 = t2 k1 = k1 trap = trap
    Nodes = {n1, n2}
    Sessions = {s1, s2}
    Keys = {k1, trap}
    KeyOf <- MeshKeyOf
    TrapKeys = {trap}
    Threads = {t1, t2}
    MinCount = 1
    NovelOnly = FALSE
    MaxLines = 4
    MaxDeaths = 1
    MaxCooldowns = 1
    MaxStrays = 1
SPECIFICATION Spec
CHECK_DEADLOCK FALSE
SYMMETRY Symm
INVARIANTS TypeOK UplinksAreFresh CorroborationIsReal RollupCounts
