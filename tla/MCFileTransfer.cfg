CONSTANTS
    t1 = t1
    t2 = t2
    t3 = t3
    None = None
    Transfer <- MCTransfer3
    File <- MCFiles
    Content <- MCContent
    Path <- MCPath
    PartPath <- MCPartPath
    DestPaths <- MCDestPaths
    Existing <- MCExisting
    MaxFileSize = 2
    MaxPending = 2
SPECIFICATION Spec
INVARIANTS
    AloneIsDelivered
PROPERTIES
    FinalFilesAreKept
    TransfersEnd
CHECK_DEADLOCK FALSE
