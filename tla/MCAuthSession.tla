--------------------------- MODULE MCAuthSession ---------------------------
(* Instances of AuthSession for TLC.                                       *)
EXTENDS AuthSession, TLC

\* Requests and administrators are interchangeable: no property names one.
Symmetry == Permutations(Requests) \cup Permutations(Writers)

=============================================================================
