SPECIFICATION Spec
CONSTANTS
    Credentials = {1, 2, 3, 4}
    Workspaces = {"w1", "w2"}
    Requests = {"r1", "r2"}
    Tokens = {"t"}
    Passwords = {"p", "q"}
    Identities = {"i", "j"}
    Seeded <- MCSeeded
    Inputs <- MCInputs
    TokenLife = 2
    MaxTime = 3
    MaxScope = 2
INVARIANTS
    TypeOK
    GrantsAgreeUnlessExcused
    OAuthIdentityIsForGood
    ResetReachesLogin
CHECK_DEADLOCK FALSE
