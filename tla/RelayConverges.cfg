CONSTANTS
    Commands = {"c1"}
    SwitchRefresh = 2
    PostCommand = 1
    RpcTicks = 0
    Turmoil = {"move", "fail", "omit"}
    MaxEpoch = 2
SPECIFICATION Spec
PROPERTIES Converges OldLoopsRetire
