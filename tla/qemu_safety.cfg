\* All four kinds of machine, two concurrent calls.
CONSTANTS
    Calls = {c1, c2}
    MaxStarts = 2
    OperatingSystems = {"linux", "windows"}
    DisplayBackends = {"vnc", "spice"}
    Sequential = TRUE
SPECIFICATION Spec
INVARIANTS TypeOK LifecycleInv OneQEMU AliveIsControlled
PROPERTY ImplementsContract
CHECK_DEADLOCK FALSE
