SPECIFICATION FairSpec
CONSTANTS
    t1 = t1
    t2 = t2
    Threads = {t1, t2}
    Io = io
    Free = free
    Programs <- MCPrograms
    Handlers <- MCHandlers
    Callbacks <- MCCallbacks
    Topics <- MCTopics
    Characters = {"a", "b", "|"}
    Silent = {"k3"}
    Unanswered = {"k2"}
    MaxLosses = 2
    MaxPublish = 1
    MaxTag = 2
INVARIANTS
    TypeOK
    OwnReply
    CalledOnce
    NothingForgotten
    SubsInSync
    TagsSurvive
    MutexesComeFree
PROPERTY Settles
CHECK_DEADLOCK FALSE
