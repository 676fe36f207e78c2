SPECIFICATION Spec
CONSTANTS
    p1 = p1
    p2 = p2
    s1 = s1
    s2 = s2
    t1 = t1
    t2 = t2
    n1 = n1
    Publisher <- TwoPublishers
    Subscriber <- Subscribers
    Namespace = {n1}
    Track = {t1, t2}
    NamespaceOf <- OneNamespace
    TrackOf <- OtherTrack
    MaxRequestId = 3
    MaxClosed = 2
SYMMETRY PublishersAlike
CHECK_DEADLOCK FALSE
PROPERTY ServedByOneSource
INVARIANTS
    TypeOK
    QueuedOnce
    AcceptedOnce
    SubscribedOnce
    AcceptedHasSource
    BelievedBacked
