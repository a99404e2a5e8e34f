CONSTANTS
    MaxEpisodes = 1
    MaxOps = 3
    Ceiling = 2
    Exits = {"completed"}
    _REPORT_ATTEMPT_LIMIT = 2
    Budgets <- Bounds
SPECIFICATION Spec
CHECK_DEADLOCK FALSE
INVARIANTS WorkIsAuthorized ReportsAreSound
PROPERTIES EpisodesEnd LifecycleSpec
