--------------------------- MODULE MCPolicyCache ---------------------------
(* Instances of PolicyCache for TLC.                                       *)
EXTENDS PolicyCache, TLC

\* Roles, contents and administrators are interchangeable.
Symmetry == Permutations(Roles) \cup Permutations(Bodies) \cup Permutations(Writers)

=============================================================================
