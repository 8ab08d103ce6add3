CONSTANTS
    LineCounts <- ContextOrNot
    Limit = 2
    Window = 2
    Texts <- OneText
    MaxPieces = 3
    MaxFiles = 2
    MaxTruncations = 2
CHECK_DEADLOCK FALSE
SPECIFICATION Spec
INVARIANT RotationComplete
