SPECIFICATION FairSpec
CHECK_DEADLOCK FALSE
CONSTANTS
    Subscriber = {s1, s2}
    MaxGroup = 1
    MaxObject = 1
    MaxSize = 2
    MaxPublisher = 2
    StreamsInOrder = TRUE
INVARIANTS TypeOK RemainingAgrees SendsLegal PayloadInOrder NoObjectStranded
PROPERTIES CatchesUp
