CONSTANTS
    Requests = {r1}
    Writers = {w1, w2}
    Policies = {p1}
    Roles = {admin, member}
    Bodies = {allow, deny}
    Gone = gone
SPECIFICATION Spec
INVARIANTS
    TypeOK
    CoherentUnlessExcused
SYMMETRY Symmetry
CHECK_DEADLOCK FALSE
