\* Two concurrent calls, so that a forceStop meets a requestStop or another
\* forceStop, and three machines, so that a late answer meets a newer one.
CONSTANTS
    Calls = {c1, c2}
    MaxStarts = 3
SPECIFICATION Spec
INVARIANTS LifecycleInv QuietMeansOff OnlyNewest
PROPERTIES ImplementsContract NoStaleStop
CHECK_DEADLOCK FALSE
