SPECIFICATION FairSpec
CONSTANTS
    Threads = {t1, t2}
    Io = io
    Packets = {p1, p2}
    Uses = {"req_res", "sub_pub", "coro"}
    Chunks = 2
    MaxPush = 3
INVARIANTS
    TypeOK
    SingleConsumer
    FrontStable
    NoLostWakeup
    OneWayIntact
PROPERTIES
    RespondIsFifo
    PublishIsFifo
CHECK_DEADLOCK FALSE
