SPECIFICATION Spec
CONSTANTS
    MaxStream = 2
    MaxGroup = 1
    MaxObjectId = 0
    Size = {1}
    HeaderLen = 1
    BufLen = 2
CHECK_DEADLOCK FALSE
INVARIANTS
    FinAfterAllStreams
