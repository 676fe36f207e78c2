SPECIFICATION Spec
CONSTANTS
    MaxStream = 2
    MaxGroup = 1
    MaxObjectId = 1
    Size = {1}
    HeaderLen = 2
    BufLen = 3
CHECK_DEADLOCK FALSE
INVARIANTS
    StreamsFiled
PROPERTIES
    DeliversInOrder
