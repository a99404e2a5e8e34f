SPECIFICATION WDFairSpec
CONSTANTS
    w1 = w1
    w2 = w2
    w3 = w3
    r1 = r1
    r2 = r2
    alice = alice
    ChatWatchers = {w1, w2, w3}
    Setups <- Cases
    Nobody = Nobody
    Wakes = {t1, t2}
    HumanTurns = {h1}
    Poller = poller
    Settlers = {s1}
    RetryThreads = {r1, r2}
    NoThread = NoThread
    ErrorLimit = 2
INVARIANTS WakesAreSound
PROPERTIES NoWakeWhileClosed 
