CONSTANTS
    Requests = {r1}
    Writers = {w1}
    Policies = {p1}
    Roles = {admin, member}
    Bodies = {allow, deny}
    Gone = gone
SPECIFICATION Spec
INVARIANTS
    UpdateReachesEveryHolder
SYMMETRY Symmetry
CHECK_DEADLOCK FALSE
