\* Two snapshots; errors and crashes anywhere, also between the steps of a
\* Windows delete().
CONSTANTS
    Snapshots = {s1, s2}
    OperatingSystems = {"linux", "windows"}
    MaxGeneration = 3
    MaxPending = 2
SPECIFICATION Spec
INVARIANTS StoreInv CoherentUntilHalfDeleted ListedIsWhole ShownIsListed
PROPERTY RestoresWhatWasTaken
CHECK_DEADLOCK FALSE
