SPECIFICATION FairSpec
CONSTANTS
    MaxStream = 2
    MaxGroup = 1
    MaxObjectId = 0
    Size = {2}
    HeaderLen = 1
    BufLen = 2
CHECK_DEADLOCK FALSE
INVARIANTS
    TypeOK
    StreamsFiled
    FinnedOnce
    PayloadContinues
PROPERTIES
    DeliversInOrder
    ObjectReceived
