CONSTANTS
    m1 = m1
    m2 = m2
    m3 = m3
    p1 = p1
    b = b
    c1 = c1
    o1 = o1
    o2 = o2
    e1 = e1
    r1 = r1
    r2 = r2
    NoOne = NoOne
    NoOp = NoOp
    Members = {m1, m2, m3}
    Projects = {p1}
    Codes = {b, c1}
    Bootstrap = b
    TEAM_CODE_FAILED_ATTEMPT_LIMIT = 2
    Ops = {o1, o2}
    Episodes = {e1}
    Requests = {r1}
    Home = p1
    Budgets <- Bounds
    Founders <- Pair
SPECIFICATION Spec
CHECK_DEADLOCK FALSE
INVARIANTS AccessIsRight NoWorkAfterRemoval TurnsDoNotMix
 
