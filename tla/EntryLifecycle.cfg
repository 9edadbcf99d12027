CONSTANTS
    Accounts = {a1, a2}
    Entries = {e1, e2}
    UserFlows = {f1, f2}
    MaxSignIns = 2
    MaxBackends = 2
    MaxRestarts = 1
SPECIFICATION Spec
INVARIANTS OneEntryPerAccount SavedWasProven  
PROPERTY ChannelSurvives
CHECK_DEADLOCK FALSE
