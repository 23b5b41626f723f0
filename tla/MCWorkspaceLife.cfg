CONSTANTS
    Requests = {r1}
    Callers = {c1, c2}
    System = sys
    Workspaces = {sys, w1, w2}
    Named = {w1}
    SystemSlug = system
    Slugs = {system, a}
    DefaultConfig = default
    Configs = {default, custom}
    Rules <- MCRules
    Grants <- MCGrants

SYMMETRY Symmetry

SPECIFICATION Spec

INVARIANTS
    TypeOK
    ProvisionedUnlessExcused
    RefusedBeforeContent
    LinksStayInside
    EntryCoherentUnlessExcused

\* The bounded ids and slugs can be used up.
CHECK_DEADLOCK FALSE
