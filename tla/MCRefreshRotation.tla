------------------------- MODULE MCRefreshRotation -------------------------
(* Instances of RefreshRotation for TLC.                                   *)
EXTENDS RefreshRotation, TLC

\* Requests and token ids are interchangeable: no property names one.
Symmetry == Permutations(Requests) \cup Permutations(Tokens)

=============================================================================
