CONSTANTS
    Requests = {r1, r2}
    Tokens = {t1, t2, t3}
    NoToken = none
    LoginLife = 1
    RefreshLife = 2
    MaxVer = 2
SPECIFICATION Spec
INVARIANTS
    TypeOK
    MarkOutlivesToken
    DeadVersionsArePast
    DeadSessionHasNoValidToken
PROPERTY
    LateReplayIsCaught
SYMMETRY Symmetry
CHECK_DEADLOCK FALSE
