SPECIFICATION Spec
CONSTANTS
    Sessions = {s1, s2, s3}
    Parallel = 2
    AcceptErrors = 0
    Nothing = nothing
INVARIANTS
    ReplyIntact
SYMMETRY Symmetry
CHECK_DEADLOCK FALSE
