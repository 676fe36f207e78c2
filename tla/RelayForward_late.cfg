SPECIFICATION Spec
CHECK_DEADLOCK FALSE
CONSTANTS
    Subscriber = {s1, s2}
    MaxGroup = 1
    MaxObject = 1
    MaxSize = 2
    MaxPublisher = 1
    StreamsInOrder = FALSE
INVARIANTS PayloadOfHeader
