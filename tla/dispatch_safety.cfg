SPECIFICATION Spec
CONSTANTS
    o1 = o1
    o2 = o2
    l1 = l1
    l2 = l2
    Ops = {o1, o2}
    Reports = {o1}
    AutoRows = {o2}
    Ingest = {o2}
    Removable = {o2}
    Launchers = {l1, l2}
    NoLauncher = NoLauncher
    NoOp = NoOp
    MaxSpawns = 2
    MaxFaults = 1
    MaxCrashes = 1
    MaxPauses = 1
SYMMETRY LauncherSymmetry
CHECK_DEADLOCK FALSE
INVARIANTS ReceiptProofSound 
PROPERTIES LifecycleSpec
