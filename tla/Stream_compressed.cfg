SPECIFICATION Spec
CONSTANTS
    Messages <- MCSqueezable
    Threshold = 3
    MaxBody = 5
    NameWidth = 2
    Quiet = 20
    Half = 3
    Delay = 2
    MaxSent = 2
INVARIANT CompressionIsTransparent
CHECK_DEADLOCK FALSE
