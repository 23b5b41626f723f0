SPECIFICATION Spec
CONSTANTS
    Kinds <- MCKinds
    Workspaces <- MCWorkspaces
    Requests = {"r1", "r2"}
    Stored = {"a", "b"}
    Targets = {"t0", "t1", "t2", "t3"}
    Placed <- MCPlaced
    Linked <- MCLinked
    HomeOf <- MCHomeOf
    Values <- MCValues
    Inputs <- MCInputs
INVARIANTS TypeOK AnswersShowWhatWasAsked RefusalsLeaveNothing LinksAreOneList
           CodesUniqueUnlessRaced
CHECK_DEADLOCK FALSE
PROPERTIES ImplementsScopedTable RefusedForCause
