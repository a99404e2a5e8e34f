CONSTANTS
    Commands = {c1, c2}
    Budgets <- Bounds
SPECIFICATION Spec
CHECK_DEADLOCK FALSE
INVARIANTS OneHome
PROPERTIES HomeSpec TransferCompletes
