SPECIFICATION Spec
CONSTANTS
    Namespace = {ns1, ns2}
    Draft = 16
    OutMaxRequestId <- MCOutMaxRequestId
    IgnoreMaxRequestQuota <- MCIgnoreQuota
    RequestCap = 4
CHECK_DEADLOCK FALSE
INVARIANTS
    TypeOK
    RequestsBacked
    RequestsKept
    AliasAgreement
    PublishDoneRouted
    AnnouncementsBacked
    NamespaceAgreement
    UnwrapsHold
PROPERTIES
    EndedTrackStaysEnded
