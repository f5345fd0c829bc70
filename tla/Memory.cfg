CONSTANTS
    q1 = q1 q2 = q2 p1 = p1 p2 = p2 r1 = r1 r2 = r2 f1 = f1 f2 = f2 v1 = v1 v2 = v2
    Secret = Secret None = None
    Procs = {q1, q2}
    Prints = {p1}
    Reasons = {r1, r2}
    Findings = {f1}
    Forms = {v1, v2}
    MaxRuns = 4
    MaxFaults = 1
SPECIFICATION Spec
CHECK_DEADLOCK FALSE
SYMMETRY Symm
INVARIANTS TypeOK CountersAgree HistoryIsTrue ChangesAreReal TrailTellsState
