\* Two machines, so that the one before another is deleted or a clone is made,
\* and two operations in flight.
CONSTANTS
    Machines = {m1, m2}
    Calls = {c1, c2}
SPECIFICATION Spec
INVARIANTS LibraryInv CreatedIsKept QuietIsSaved QuietIsComplete
SYMMETRY Symmetry
CONSTRAINT OneRemoval
