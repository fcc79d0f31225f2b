\* One image is all that the operations share (two were tried with the safety
\* properties); two tasks and two calls let a retry, a delete, a new machine or
\* an export meet a download and each other; four actions of the user.
CONSTANTS
    Images = {i1}
    Tasks = {t1, t2}
    Calls = {c1, c2}
    MaxPresses = 4
SPECIFICATION Spec
INVARIANTS TypeOK AvailableIsOnDisk LiveIsCancellable DeletedIsGone MachineFollowsImage
PROPERTIES TransferEnds
