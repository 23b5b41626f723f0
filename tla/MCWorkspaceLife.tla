-------------------------- MODULE MCWorkspaceLife --------------------------
(* Instances of WorkspaceLife for TLC. *)
EXTENDS WorkspaceLife, TLC

\* A system admin, and a caller who may only create workspaces.
MCGrants == {{Star}, {Perm("workspace", "create")}}
MCRules == Canonical \cup {Star}

Symmetry == Permutations(Callers)
=============================================================================
