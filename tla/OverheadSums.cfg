CONSTANTS
    Branches = {1}
    Feed = 0
    Powers = {0, 1}
    MostOverhead = 1
    MaxGap = 1
    MaxStamp = 3
    MaxRestarts = 1
SPECIFICATION Spec
INVARIANTS TypeOK NoFabrication
PROPERTY NeverDecreases
