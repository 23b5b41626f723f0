---------------------------- MODULE MCPolicySets ----------------------------
(* Instances of PolicySets for TLC.                                        *)
EXTENDS PolicySets

\* Texts of one part; the last constraint is that of a policy without one.
TwoActions == {<<"update">>, <<"delete">>}
OneResource == {<<"self">>}
SomeConstraints == {<<"own">>, <<>>}

=============================================================================
