CONSTANTS
    Actions <- TwoActions
    Resources <- OneResource
    Constraints <- SomeConstraints
    Separator = "|"
    MaxPolicies = 3
    MaxActions = 2
SPECIFICATION Spec
INVARIANTS
    TypeOK
    EvaluateIsDefaultDeny
    AnswerIsDenyOverrides
