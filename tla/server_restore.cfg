CONSTANTS
    a1 = a1
    a2 = a2
    p1 = p1
    p2 = p2
    m1 = m1
    m2 = m2
    Archives = {a1, a2}
    Projects = {p1, p2}
    Remote = {}
    Imported = {}
    Members = {m1, m2}
    MaxRuns = 3
    MaxFaults = 2
    MaxCrashes = 2
SPECIFICATION SRSpec
CHECK_DEADLOCK FALSE
INVARIANTS OneAuthority NothingPartialServes
 
