SPECIFICATION FairSpec
CONSTANTS
    Threads = {t1}
    Keeper = keeper
    Io = io
    Modes = {TRUE}
    Callback = FALSE
    FaultKinds = {"lose"}
    MaxFaults = 1
    MaxConnects = 3
    MaxQueue = 2
PROPERTY Reconnected
CHECK_DEADLOCK FALSE
