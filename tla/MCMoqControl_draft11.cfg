SPECIFICATION FairSpec
CONSTANTS
    Namespace = {ns1}
    Draft = 11
    OutMaxRequestId <- MCOutMaxTight
    IgnoreMaxRequestQuota <- MCObeyQuota
    RequestCap = 4
CHECK_DEADLOCK FALSE
INVARIANTS
    RequestsKept
    AliasAgreement
PROPERTIES
    EndedTrackStaysEnded
    SubscribeAnswered
    AnnouncementAnswered
    HandshakeCompletes
