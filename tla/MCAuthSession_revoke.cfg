CONSTANTS
    Requests = {r1}
    Writers = {w1, w2}
    Roles = {role}
    TTL = 1
    Timeout = 2
    MaxVer = 2
SPECIFICATION Spec
INVARIANTS
    RevokedStaysRevoked
SYMMETRY Symmetry
CHECK_DEADLOCK FALSE
