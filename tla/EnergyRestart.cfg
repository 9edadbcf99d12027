\* The server is exact and the model ends where the live window does: any outage
\* fits in the repair window.
CONSTANTS
    c1 = c1
    c2 = c2
    s1 = s1
    s2 = s2
    Quarter = 2
    Hour = 4
    LiveWindow = 4
    MinWindow = 4
    MaxBackfill = 6
    Keys = {k1}
    Coordinators = {c1, c2}
    Slots = {s1}
    Seeds = {1}
    Rates = {0, 1}
    MaxLag = 0
    MayOmit = FALSE
    Start = 10
    MaxNow = 14
SPECIFICATION Spec
SYMMETRY Permuted
INVARIANT CoveredIsAccounted
PROPERTY ImplementsRegisters
CHECK_DEADLOCK FALSE
