SPECIFICATION FairSpec
CONSTANTS
    Messages <- MCMessages
    Threshold = 3
    MaxBody = 5
    NameWidth = 2
    Quiet = 20
    Half = 3
    Delay = 2
    MaxSent = 3
INVARIANTS
    TypeOK
    InStep
    CutForReason
    SpoiltEndsIt
    KickedIfSlow
PROPERTY SessionCatchesUp
CHECK_DEADLOCK FALSE
