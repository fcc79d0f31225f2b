\* The user does not wait for a stop to return.
CONSTANTS
    Calls = {c1, c2}
    MaxStarts = 3
    OperatingSystems = {"linux"}
    DisplayBackends = {"vnc"}
    Sequential = FALSE
SPECIFICATION Spec
INVARIANT OneQEMU
SYMMETRY Symmetry
CHECK_DEADLOCK FALSE
