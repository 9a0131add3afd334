SPECIFICATION Spec
CONSTANTS
    Sessions = {s1, s2, s3, s4}
    Parallel = 2
    AcceptErrors = 2
    Nothing = nothing
INVARIANTS
    TypeOK
    ResourcesBalanced
    PairedUntilError
SYMMETRY Symmetry
CHECK_DEADLOCK FALSE
