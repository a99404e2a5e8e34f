SPECIFICATION FairSpec
CONSTANTS
    w1 = w1
    w2 = w2
    c1 = c1
    c2 = c2
    retrier = retrier
    Watchers = {w1, w2}
    Proposals = {w2}
    InTurn = {w2}
    Callers = {c1}
    Retrier = retrier
    NoCaller = NoCaller
    Boundaries <- EveryBoundary
    MaxRevision = 2
    MaxFaults = 1
    MaxCrashes = 1
CHECK_DEADLOCK FALSE
INVARIANTS WatcherVerdictExact
 
