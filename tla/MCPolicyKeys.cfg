CONSTANTS
    Ids = {p1, p2}
    Admins = {w1, w2}
    Effects = {"allow", "deny"}
    Actions = {"update", "delete"}
    ActionLists <- Lists
    Keep = keep
    ListLimit = 1
SPECIFICATION KeysSpec
INVARIANTS
    KeysTypeOK
    UniqueUnlessBlind
PROPERTY UpdatesWhatWasChecked
CHECK_DEADLOCK FALSE
SYMMETRY Symmetry
