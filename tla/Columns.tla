------------------------------ MODULE Columns -------------------------------
(***************************************************************************)
(* The fields of the stored resources, layer by layer.                     *)
(*                                                                         *)
(* A field of a request body is read into the body's struct, copied into   *)
(* the parameters of the service, copied into what the store writes, and   *)
(* becomes a column; a column is decoded into the row, copied into the     *)
(* model and from there into the answer.  A layer that does not know a     *)
(* field drops it silently.  Each set below holds the fields that one      *)
(* layer passes on: a struct together with the conversion into it or out   *)
(* of it.  A field has one name throughout, the one of the answer          *)
(* (permission_ids, constraint_expr, new_code and new_provider_id are      *)
(* permissions, constraint, code and provider_id).  Identifiers,           *)
(* workspace_id, the audit columns and version are left out: they are not  *)
(* fields of the caller's.                                                 *)
(***************************************************************************)

Labels == {"tags", "meta"}

(* Roles *)
RoleCreateBody == {"name", "description", "permissions", "policies"} \cup Labels
RoleCreateParams == {"name", "description", "permissions", "policies"} \cup Labels
RoleForCreate == {"name", "description"} \cup Labels
RoleUpdateBody == {"name", "description", "permissions", "policies"} \cup Labels
RoleUpdateParams == {"name", "description", "permissions", "policies"} \cup Labels
\* Mutant: the store does not pass the description on.
RoleForUpdateNoText == {"name"} \cup Labels
RoleForUpdate == {"name", "description"} \cup Labels
RoleRow == {"name", "description"} \cup Labels
RoleFilter == {"name", "description"}
RoleModel == {"name", "description", "permissions", "policies"} \cup Labels
RoleAnswer == {"name", "description", "permissions", "policies"} \cup Labels

(* Policies *)
Statement == {"effect", "principal_id", "actions", "resource", "constraint"}
PolicyCreateBody == {"name", "description"} \cup Statement \cup Labels
PolicyCreateParams == {"name", "description"} \cup Statement \cup Labels
PolicyForCreate == {"name", "description"} \cup Statement \cup Labels
PolicyUpdateBody == {"name", "description"} \cup Statement \cup Labels
PolicyUpdateParams == {"name", "description"} \cup Statement \cup Labels
PolicyForUpdate == {"name", "description"} \cup Statement \cup Labels
PolicyRow == {"name", "description"} \cup Statement \cup Labels
PolicyFilter == {"name", "description"} \cup (Statement \ {"actions"})
PolicyModel == {"name", "description"} \cup Statement \cup Labels
PolicyAnswer == {"name", "description"} \cup Statement \cup Labels

(* Projects *)
ProjectCreateBody == {"name", "owner", "code", "description", "config"} \cup Labels
ProjectCreateParams == {"name", "owner", "code", "description", "config"} \cup Labels
ProjectForCreate == {"name", "owner", "code", "description", "config"} \cup Labels
ProjectUpdateBody == {"name", "code", "description", "config"} \cup Labels
ProjectUpdateParams == {"name", "code", "description", "config"} \cup Labels
ProjectForUpdate == {"name", "owner", "code", "description", "config"} \cup Labels
ProjectRow == {"name", "owner", "code", "description", "config"} \cup Labels
ProjectFilter == {"name", "owner", "code", "description"}
ProjectModel == {"name", "code", "description", "config"} \cup Labels
ProjectAnswer == {"name", "code", "description", "config"} \cup Labels

(* Profiles *)
Personal == {"name", "email", "description", "display_name", "job_title", "timezone",
             "avatar_url"}
ProfileUpdateBody == Personal \cup Labels
ProfileUpdateParams == Personal \cup Labels
ProfileForUpdate == Personal \cup Labels
ProfileRow == Personal \cup Labels
ProfileFilter == Personal
ProfileModel == Personal \cup Labels
ProfileAnswer == Personal \cup Labels

(* Permissions; the table has a key and a label and no name *)
PermissionCreateBody == {"key", "label", "description"} \cup Labels
PermissionCreateParams == {"key", "label", "description"} \cup Labels
PermissionForCreate == {"key", "label", "description"} \cup Labels
PermissionUpdateBody == {"name", "description"} \cup Labels
PermissionUpdateParams == {"name", "description"} \cup Labels
PermissionForUpdate == {"name", "description"} \cup Labels
PermissionRow == {"key", "label", "description"} \cup Labels
PermissionFilter == {"name", "description"}
PermissionModel == {"key", "label", "description"} \cup Labels
PermissionAnswer == {"key", "label", "description"} \cup Labels

(* Clients *)
ClientCreateBody == {"name", "endpoint", "description"} \cup Labels
ClientCreateParams == {"name", "endpoint", "description"} \cup Labels
ClientForCreate == {"name", "endpoint", "description"} \cup Labels
ClientUpdateBody == {"name", "endpoint", "description"} \cup Labels
ClientUpdateParams == {"name", "endpoint", "description"} \cup Labels
ClientForUpdate == {"name", "endpoint", "description"} \cup Labels
ClientRow == {"name", "endpoint", "description"} \cup Labels
ClientFilter == {"name", "description"}
ClientModel == {"name", "endpoint", "description"} \cup Labels
ClientAnswer == {"name", "endpoint", "description"} \cup Labels

(* Credentials *)
Identity == {"kind", "provider", "provider_id", "email"}
CredentialUpdateBody ==
    Identity \cup {"status", "secret", "expires_at", "last_used_at", "config"} \cup Labels
CredentialUpdateParams ==
    Identity \cup {"status", "secret", "expires_at", "last_used_at", "config"} \cup Labels
CredentialForUpdate ==
    Identity \cup {"status", "secret", "expires_at", "last_used_at", "config"} \cup Labels
CredentialRow ==
    Identity \cup {"status", "secret", "expires_at", "last_used_at", "config"} \cup Labels
CredentialFilter == Identity \cup {"status", "secret", "last_used_at"}
CredentialModel ==
    Identity \cup {"status", "secret", "expires_at", "last_used_at", "config"} \cup Labels
CredentialAnswer == Identity \cup {"status", "last_used_at"} \cup Labels

(* Memberships; the email of the body of a creation is not read *)
MembershipCreateBody == {"scope", "status", "project_id", "roles", "policies"} \cup Labels
MembershipCreateParams == {"scope", "status", "project_id", "roles", "policies"} \cup Labels
MembershipForCreate == {"scope", "status", "project_id"} \cup Labels
MembershipUpdateBody == {"scope", "status", "project_id", "roles", "policies"} \cup Labels
MembershipUpdateParams ==
    {"scope", "status", "project_id", "profile_id", "roles", "policies"} \cup Labels
MembershipForUpdate == {"scope", "status", "project_id", "profile_id"} \cup Labels
MembershipRow == {"scope", "status", "project_id", "profile_id"} \cup Labels
MembershipFilter == {"scope", "status", "project_id", "profile_id"} \cup Labels
MembershipModel ==
    {"scope", "status", "project_id", "profile_id", "roles", "policies"} \cup Labels
MembershipAnswer ==
    {"scope", "status", "project_id", "profile_id", "roles", "policies"} \cup Labels

(* Accounts; the password of the body of a creation is not read *)
Flags == {"enabled", "verified"}
AccountCreateBody ==
    {"email", "name", "kind", "description", "avatar_url"} \cup Flags \cup Labels
AccountCreateParams ==
    {"email", "name", "kind", "description", "avatar_url"} \cup Flags \cup Labels
AccountForCreate ==
    {"email", "name", "kind", "description", "avatar_url"} \cup Flags \cup Labels
AccountUpdateBody == {"name", "description", "avatar_url"} \cup Flags \cup Labels
AccountUpdateParams == {"name", "description", "avatar_url"} \cup Flags \cup Labels
AccountForUpdate == {"name", "description", "avatar_url"} \cup Flags \cup Labels
AccountRow == {"email", "name", "kind", "description", "avatar_url"} \cup Flags \cup Labels
AccountFilter == {"email", "name", "description", "avatar_url"} \cup Flags
AccountModel == {"email", "name", "description", "avatar_url"} \cup Flags \cup Labels
AccountAnswer == {"email", "name", "description", "avatar_url"} \cup Flags \cup Labels

(* Workspaces; the model does not take the config from the row *)
WorkspaceUpdateBody == {"name", "owner", "description", "config"} \cup Labels
WorkspaceUpdateParams == {"name", "owner", "description", "config"} \cup Labels
WorkspaceForUpdate == {"name", "slug", "owner", "description", "config"} \cup Labels
WorkspaceRow == {"name", "slug", "owner", "description", "config"} \cup Labels
WorkspaceFilter == {"name", "slug", "owner", "description"}
WorkspaceModel == {"name", "slug", "owner", "description"} \cup Labels
WorkspaceAnswer == {"name", "slug", "owner", "description", "config"} \cup Labels

(* What a creation and an update pass to the service and what the store then writes; *)
(* the columns; what a list can be filtered by; what an answer shows of a row.       *)
RoleLayers ==
    [creates |-> RoleCreateBody \cap RoleCreateParams, inserts |-> RoleForCreate,
     updates |-> RoleUpdateBody \cap RoleUpdateParams, sets |-> RoleForUpdate,
     row |-> RoleRow, filter |-> RoleFilter, shown |-> RoleModel \cap RoleAnswer]
PolicyLayers ==
    [creates |-> PolicyCreateBody \cap PolicyCreateParams, inserts |-> PolicyForCreate,
     updates |-> PolicyUpdateBody \cap PolicyUpdateParams, sets |-> PolicyForUpdate,
     row |-> PolicyRow, filter |-> PolicyFilter, shown |-> PolicyModel \cap PolicyAnswer]
ProjectLayers ==
    [creates |-> ProjectCreateBody \cap ProjectCreateParams, inserts |-> ProjectForCreate,
     updates |-> ProjectUpdateBody \cap ProjectUpdateParams, sets |-> ProjectForUpdate,
     row |-> ProjectRow, filter |-> ProjectFilter, shown |-> ProjectModel \cap ProjectAnswer]
ProfileLayers ==
    [creates |-> {}, inserts |-> {},
     updates |-> ProfileUpdateBody \cap ProfileUpdateParams, sets |-> ProfileForUpdate,
     row |-> ProfileRow, filter |-> ProfileFilter, shown |-> ProfileModel \cap ProfileAnswer]
PermissionLayers ==
    [creates |-> PermissionCreateBody \cap PermissionCreateParams, inserts |-> PermissionForCreate,
     updates |-> PermissionUpdateBody \cap PermissionUpdateParams, sets |-> PermissionForUpdate,
     row |-> PermissionRow, filter |-> PermissionFilter, shown |-> PermissionModel \cap PermissionAnswer]
ClientLayers ==
    [creates |-> ClientCreateBody \cap ClientCreateParams, inserts |-> ClientForCreate,
     updates |-> ClientUpdateBody \cap ClientUpdateParams, sets |-> ClientForUpdate,
     row |-> ClientRow, filter |-> ClientFilter, shown |-> ClientModel \cap ClientAnswer]
CredentialLayers ==
    [creates |-> {}, inserts |-> {},
     updates |-> CredentialUpdateBody \cap CredentialUpdateParams, sets |-> CredentialForUpdate,
     row |-> CredentialRow, filter |-> CredentialFilter, shown |-> CredentialModel \cap CredentialAnswer]
MembershipLayers ==
    [creates |-> MembershipCreateBody \cap MembershipCreateParams, inserts |-> MembershipForCreate,
     updates |-> MembershipUpdateBody \cap MembershipUpdateParams, sets |-> MembershipForUpdate,
     row |-> MembershipRow, filter |-> MembershipFilter, shown |-> MembershipModel \cap MembershipAnswer]
AccountLayers ==
    [creates |-> AccountCreateBody \cap AccountCreateParams, inserts |-> AccountForCreate,
     updates |-> AccountUpdateBody \cap AccountUpdateParams, sets |-> AccountForUpdate,
     row |-> AccountRow, filter |-> AccountFilter, shown |-> AccountModel \cap AccountAnswer]
WorkspaceLayers ==
    [creates |-> {}, inserts |-> {},
     updates |-> WorkspaceUpdateBody \cap WorkspaceUpdateParams, sets |-> WorkspaceForUpdate,
     row |-> WorkspaceRow, filter |-> WorkspaceFilter, shown |-> WorkspaceModel \cap WorkspaceAnswer]
Layers == [role |-> RoleLayers, policy |-> PolicyLayers, project |-> ProjectLayers,
           profile |-> ProfileLayers, permission |-> PermissionLayers,
           client |-> ClientLayers, credential |-> CredentialLayers,
           membership |-> MembershipLayers, account |-> AccountLayers,
           workspace |-> WorkspaceLayers]
=============================================================================
