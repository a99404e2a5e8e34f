SPECIFICATION Spec
CONSTANTS
    a = a
    b = b
    Spaces = {a, b}
    Claimers = {a}
    Nobody = Nobody
    NoPatch = NoPatch
    MaxRevision = 3
    MaxAppends = 3
    Origin <- Unclaimed
    MaxFaults = 2
    MaxCrashes = 1
CHECK_DEADLOCK FALSE
INVARIANTS  MirrorsAreSound
PROPERTIES LogSpec
