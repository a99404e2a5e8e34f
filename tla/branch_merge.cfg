CONSTANTS
    f1 = f1
    f2 = f2
    Fields = {f1, f2}
    Values = {0, 1, 2}
    AgentValues = {0, 1}
    MaxMerges = 2
    MaxRebases = 1
    MaxCorrections = 1
    MaxWrites = 2
    Budgets <- Bounds
SPECIFICATION BMSpec
CHECK_DEADLOCK FALSE
INVARIANTS  MergesAreOnRecord
PROPERTIES ResolutionSpec MergeTaskEnds
