CONSTANTS
    LenSize = 2
    NameSize = 3
    HeaderSize = 2
    DataSize = 3
    AcceptFails = TRUE
SPECIFICATION LiveSpec
INVARIANTS
    TypeOK
    StopRaisesOnlyAfterFailure
PROPERTIES
    StopReturns
    RequestIsSettled
