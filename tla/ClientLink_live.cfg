SPECIFICATION FairSpec
CONSTANTS
    Threads = {t1, t2}
    Keeper = keeper
    Io = io
    Modes = {TRUE, FALSE}
    Callback = TRUE
    FaultKinds = {"lose", "refuse", "resolve", "timeout"}
    MaxFaults = 4
    MaxConnects = 10
    MaxQueue = 4
INVARIANTS
    TypeOK
    OneSender
    FrontStays
    BacklogHasSender
    KeepsTrying
PROPERTIES
    SocketReplacedAlone
    LossNoticed
    Reconnected
CHECK_DEADLOCK FALSE
