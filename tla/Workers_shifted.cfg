SPECIFICATION Spec
CONSTANTS
    Sessions = {s1, s2, s3}
    Parallel = 2
    AcceptErrors = 1
    Nothing = nothing
INVARIANTS
    NoCompetition
SYMMETRY Symmetry
CHECK_DEADLOCK FALSE
