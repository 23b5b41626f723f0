CONSTANTS
    Accounts = {a1}
    Workspaces = {home, other}
    Admins = {w1, w2}
    MaxMemberships = 3
SPECIFICATION Spec
INVARIANTS
    TypeOK
    ProfileFollowsMembership
    DeletionStaysInWorkspace
    RegistrationUndone
SYMMETRY Symmetry
CHECK_DEADLOCK FALSE
