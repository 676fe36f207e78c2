SPECIFICATION Spec
CONSTANTS
    Namespace = {ns1}
    Draft = 16
    OutMaxRequestId <- MCOutMaxRequestId
    IgnoreMaxRequestQuota <- MCObeyQuota
    RequestCap = 4
CHECK_DEADLOCK FALSE
INVARIANTS
    RequestsInOrder
