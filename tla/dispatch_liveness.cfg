SPECIFICATION FairSpec
CONSTANTS
    o1 = o1
    o2 = o2
    l1 = l1
    l2 = l2
    Ops = {o1, o2}
    Reports = {}
    AutoRows = {o2}
    Ingest = {o1}
    Removable = {}
    Launchers = {l1, l2}
    NoLauncher = NoLauncher
    NoOp = NoOp
    MaxSpawns = 2
    MaxFaults = 0
    MaxCrashes = 1
    MaxPauses = 0
CHECK_DEADLOCK FALSE
PROPERTIES EngineDrains
