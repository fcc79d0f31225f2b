\* A Windows machine with a VNC display: every await but the one of SPICE and
\* the one of the guest agent; QEMU may leave QMP and VNC without an answer.
CONSTANTS
    Calls = {c1, c2}
    MaxStarts = 2
    OperatingSystems = {"windows"}
    DisplayBackends = {"vnc"}
    Sequential = TRUE
SPECIFICATION FairSpec
PROPERTIES StartReturns CallsReturn ExitIsReported
CHECK_DEADLOCK FALSE
