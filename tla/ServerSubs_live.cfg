SPECIFICATION FairSpec
CONSTANTS
    Sessions = {s1}
    Topics = {t1}
    Tags = {star, a}
    Publishers = {p1}
    Star = star
    Free = free
PROPERTIES
    ClosedSessionReclaimed
CHECK_DEADLOCK FALSE
