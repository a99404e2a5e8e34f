CONSTANTS
    MaxEpisodes = 1
    MaxOps = 4
    Ceiling = 3
    max_attempts = 1
    MaxKeys = 3
    Messages = {m1}
    _REPORT_ATTEMPT_LIMIT = 1
    Scenarios <- Cases
SPECIFICATION Spec
CHECK_DEADLOCK FALSE
INVARIANTS LedgerIsExact EndingsAreEarned
PROPERTIES HandedOverOnce LifecycleSpec NoticesArrive 
