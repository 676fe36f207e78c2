SPECIFICATION Spec
CHECK_DEADLOCK FALSE
CONSTANTS
    Subscriber = {s1}
    MaxGroup = 1
    MaxObject = 1
    MaxSize = 2
    MaxPublisher = 2
    StreamsInOrder = TRUE
INVARIANTS CanceledNotSent
