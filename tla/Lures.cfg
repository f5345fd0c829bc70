CONSTANTS
    w1 = w1 w2 = w2 i1 = i1 l1 = l1 l2 = l2 l3 = l3
    None = None
    Workers = {w1, w2}
    Ips = {i1}
    Kinds = {"log", "beacon", "reverse"}
    Day = 2
    IpMax = 3
    Look = 2
    Lures = {l1, l2, l3}
    MaxActive = 1
    MaxCalls = 4
    MaxCrashes = 1
    MaxFaults = 1
SPECIFICATION Spec
CHECK_DEADLOCK FALSE
SYMMETRY Symm
INVARIANTS TypeOK ClaimsAreTrue LuresAreTrue
PROPERTIES QuietOnceGone
