CONSTANTS
    Requests = {r1}
    Writers = {w1}
    Roles = {role}
    TTL = 1
    Timeout = 2
    MaxVer = 1
SPECIFICATION FairSpec
INVARIANTS
    TypeOK
    StalenessBounded
    DisagreementAccountedFor
PROPERTIES
    NoStaleGrant
    DisabledIsDenied
CHECK_DEADLOCK FALSE
