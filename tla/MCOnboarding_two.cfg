CONSTANTS
    Accounts = {a1}
    Workspaces = {home, other}
    Admins = {w1, w2}
    MaxMemberships = 3
SPECIFICATION Spec
INVARIANT OneMembershipPerWorkspace
SYMMETRY Symmetry
CHECK_DEADLOCK FALSE
