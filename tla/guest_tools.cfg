\* Two texts of the host, one of them followed by another before its write has
\* been answered, a third that is too large, one of the guest; a session and
\* the next one; three copies, also of a text copied before; one request that
\* fails.
CONSTANTS
    HostTexts = {h1, h2, big}
    GuestTexts = {g1}
    Large = {big}
    fingerprint <- Hash
    Probes = {p1, p2}
    Syncs = {s1, s2}
    MaxStarts = 2
    MaxCopies = 3
    MaxFailures = 1
SPECIFICATION Spec
INVARIANTS SessionInv OneSynchronizer
PROPERTIES NoEchoInASession 
\* A machine that is stopped stays so.
CHECK_DEADLOCK FALSE
