SPECIFICATION Spec
CONSTANTS
    Threads = {t1, t2}
    Io = io
    Packets = {p1, p2}
    Uses = {"req_res", "sub_pub", "coro"}
    Chunks = 2
    MaxPush = 2
INVARIANT FramesIntact
SYMMETRY Symmetry
CHECK_DEADLOCK FALSE
