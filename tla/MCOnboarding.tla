---------------------------- MODULE MCOnboarding ----------------------------
(* Instances of Onboarding for TLC.                                        *)
EXTENDS Onboarding, TLC

\* Accounts, workspaces and administrators are interchangeable.
Symmetry == Permutations(Accounts) \cup Permutations(Workspaces)
                \cup Permutations(Admins)

=============================================================================
