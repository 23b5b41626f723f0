---------------------------- MODULE Permissions ----------------------------
(***************************************************************************)
(* Permissions, what a set of them grants, and the canonical catalogue.    *)
(*                                                                         *)
(* A permission is the pair that its key "resource:action" parses to; the  *)
(* key "*" parses to Star as well.                                         *)
(***************************************************************************)

Perm(resource, action) == [resource |-> resource, action |-> action]
Star == Perm("*", "*")

\* PermissionEngine::is_allowed
Matches(granted, required) ==
    /\ granted.resource \in {"*", required.resource}
    /\ granted.action \in {"*", required.action}

IsAllowed(granted, required) == \E perm \in granted : Matches(perm, required)

HasGlobalWildcard(granted) == Star \in granted

-----------------------------------------------------------------------------

Crud == {"create", "describe", "list", "update", "delete"}
CrudResources == {"account", "workspace", "project", "profile", "membership", "role",
                  "client", "credential", "permission", "policy"}

CrudPerms == {Perm(resource, action) : resource \in CrudResources, action \in Crud}
ClientPerms == {Perm("client", "validate"), Perm("client", "regenerateSecret")}
AuthPerms == {Perm("auth", "refresh"), Perm("auth", "revoke")}

\* Every permission that names something that can be done.
Canonical == CrudPerms \cup ClientPerms \cup AuthPerms

\* Mutant: the prefix "workspace" is not restricted.
RestrictedStarOnly(perm) == perm.resource \in {"*", "system"}

\* PermissionService::validate_restricted_key: the key begins with one of the
\* system keys.
Restricted(perm) == perm.resource \in {"*", "system", "workspace"}

\* default_workspace_admin_perms
AdminPerms == Canonical \ {Perm("workspace", action) : action \in Crud \ {"describe"}}

\* default_workspace_viewer_perms
ViewerPerms ==
    {Perm(resource, "describe") : resource \in {"account", "workspace", "project",
                                                "profile", "membership"}}
        \cup {Perm(resource, "list") : resource \in {"project", "profile", "membership"}}
        \cup {Perm("account", "update"), Perm("auth", "refresh"), Perm("auth", "revoke")}

=============================================================================
