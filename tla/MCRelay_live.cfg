SPECIFICATION FairSpec
CONSTANTS
    p1 = p1
    p2 = p2
    s1 = s1
    s2 = s2
    t1 = t1
    t2 = t2
    n1 = n1
    Publisher <- OnePublisher
    Subscriber <- Subscribers
    Namespace = {n1}
    Track = {t1, t2}
    NamespaceOf <- OneNamespace
    TrackOf <- SameTrack
    MaxRequestId = 3
    MaxClosed = 2
CHECK_DEADLOCK FALSE
INVARIANTS
    QueuedOnce
PROPERTIES
    NamespacesReachAll
    
    EndsAreTold
