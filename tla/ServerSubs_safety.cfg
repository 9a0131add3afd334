SPECIFICATION Spec
CONSTANTS
    Sessions = {s1, s2}
    Topics = {t1}
    Tags = {star, a}
    Publishers = {p1}
    Star = star
    Free = free
INVARIANTS
    TypeOK
    NoDangling
    RegistryMatchesKeys
    NoPublishAfterCancel
    RegistryCompact
PROPERTY TableIsPubSub
SYMMETRY Symmetry
CHECK_DEADLOCK FALSE
