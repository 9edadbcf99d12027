CONSTANTS
    c1 = c1
    c2 = c2
    s1 = s1
    s2 = s2
    Quarter = 1
    Hour = 2
    LiveWindow = 1
    MinWindow = 2
    MaxBackfill = 6
    Keys = {k1}
    Coordinators = {c1}
    Slots = {s1, s2}
    Seeds = {1}
    Rates = {0, 1}
    MaxLag = 1
    MayOmit = TRUE
    Start = 10
    MaxNow = 13
SPECIFICATION Spec
SYMMETRY Permuted
INVARIANTS TypeOK NoDoubleCount
PROPERTY NeverRewinds
CHECK_DEADLOCK FALSE
