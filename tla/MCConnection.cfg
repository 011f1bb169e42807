SPECIFICATION FairConnSpec
CHECK_DEADLOCK FALSE
CONSTANTS
    Base = 2
    LenSize = 2
    Messages <- mcMessages
    MaxSent = 3
    WriterSize = 3
    ReaderSize = 2
    PipeSize = 3
    MayClose = TRUE
INVARIANTS NoLostWakeup
PROPERTIES InOrder AllDelivered
