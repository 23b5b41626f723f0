---------------------------- MODULE MCPolicyKeys ----------------------------
(* Instances of PolicyKeys for TLC.                                        *)
EXTENDS PolicyKeys, TLC

\* The same actions in both orders, and one of them.
Lists == {<<"update", "delete">>, <<"delete", "update">>, <<"update">>}

Symmetry == Permutations(Ids) \cup Permutations(Admins)

=============================================================================
