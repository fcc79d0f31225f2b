\* A delete() that ends half way, then a restore.
CONSTANTS
    Snapshots = {s1}
    OperatingSystems = {"windows"}
    MaxGeneration = 3
    MaxPending = 2
SPECIFICATION Spec
INVARIANT Coherent
CHECK_DEADLOCK FALSE
