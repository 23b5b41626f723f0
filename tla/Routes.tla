------------------------------- MODULE Routes -------------------------------
(***************************************************************************)
(* The routes over the stored resources: for every kind of resource and    *)
(* every operation, the steps of the service in the order it takes them.   *)
(*                                                                         *)
(* A step that is one statement of SQL or one decision is one element; it  *)
(* is what other requests can come between.  Steps on the caches are not   *)
(* here.  What a step does is in Resources.                                *)
(***************************************************************************)
EXTENDS Sequences

Ask(p) == <<"ask", p>>              \* may the caller, and in which workspace
AskHome(p) == <<"askHome", p>>      \* the same, for the workspace of the context
AskNobody == <<"askNobody">>    \* a context of the server's own, that may everything
Escalate == <<"escalate">>      \* the request lets itself describe
\* Mutant: the row is looked up in the workspace of the context.
FindNotInScope == <<"find", "home">>
Find == <<"find", "scope">>         \* read the row, in the scope
FindHome == <<"find", "home">>      \* read the row, in the workspace of the context
FindAnyhow == <<"find", "any">>     \* read the row by its id alone
Join(j) == <<"join", j>>            \* read the row and its links, by its id alone
Rules == <<"validate">>         \* rules on the contents of the request
Free(f) == <<"free", f>>            \* no row of the scope has the value yet
FreeHome(f) == <<"freeHome", f>>    \* no row of the context's workspace has it yet
Member == <<"member", "some">>      \* an account belongs to the context's workspace
Exclusive == <<"member", "only">>   \* and to no other
Roles == <<"roles">>            \* describe the roles that were joined
Insert == <<"insert">>
Update == <<"update">>
Remove == <<"remove">>
\* Mutant: the new links are added to the old ones.
LinkWithoutDelete(j) == <<<<"relink", j>>>>
Link(j) == <<<<"unlink", j>>, <<"relink", j>>>>
List == <<"list">>
Count == <<"count">>

(* Roles *)
RoleDescribe == <<Ask("describe"), Join("permissions"), Join("policies")>>
RoleCreate ==
    <<Ask("create"), Insert>> \o Link("permissions") \o Link("policies") \o RoleDescribe
RoleList == <<Ask("list"), List, Count>>
RoleUpdate == <<Ask("update"), Update>> \o Link("policies") \o RoleDescribe
RoleDelete == <<Ask("delete")>> \o RoleDescribe \o <<Remove>>
RoleHandlers == [describe |-> RoleDescribe, create |-> RoleCreate, list |-> RoleList,
                 update |-> RoleUpdate, delete |-> RoleDelete]

(* Policies; the rules are about the statement and its runtime key (PolicyKeys) *)
PolicyDescribe == <<Ask("describe"), Find>>
PolicyCreate == <<Ask("create"), Rules, Insert>>
PolicyList == <<Ask("list"), List, Count>>
PolicyUpdate == <<Ask("update"), Find, Rules, Update>>
PolicyDelete == <<Ask("delete")>> \o PolicyDescribe \o <<Remove>>
PolicyHandlers == [describe |-> PolicyDescribe, create |-> PolicyCreate, list |-> PolicyList,
                   update |-> PolicyUpdate, delete |-> PolicyDelete]

(* Projects *)
ProjectDescribe == <<Ask("describe"), FindHome>>
\* Mutant: the code is not checked before the INSERT.
ProjectCreateUnchecked == <<Ask("create"), Insert>>
ProjectCreate == <<Ask("create"), Free("code"), Insert>>
ProjectList == <<Ask("list"), List, Count>>
ProjectUpdate == <<Ask("update"), FreeHome("code"), FindHome, Update>>
ProjectDelete == <<Ask("delete"), FindHome, Remove>>
ProjectHandlers == [describe |-> ProjectDescribe, create |-> ProjectCreate,
                    list |-> ProjectList, update |-> ProjectUpdate,
                    delete |-> ProjectDelete]

(* Profiles; the rules are about the form of the email *)
ProfileDescribe == <<Ask("describe"), Find>>
ProfileList == <<Ask("list"), List, Count>>
ProfileUpdate == <<Rules, Ask("update"), Free("email"), Find, Update>>
ProfileDelete == <<Ask("delete"), Remove>>
ProfileHandlers == [describe |-> ProfileDescribe, list |-> ProfileList,
                    update |-> ProfileUpdate, delete |-> ProfileDelete]

(* Permissions; the rules are about reserved keys *)
PermissionDescribe == <<Ask("describe"), Find>>
PermissionCreate == <<Ask("create"), Rules, Insert>>
PermissionList == <<Ask("list"), List, Count>>
PermissionUpdate == <<Ask("update"), Update>> \o PermissionDescribe
PermissionDelete == <<Ask("delete")>> \o PermissionDescribe \o <<Remove>>
PermissionHandlers == [describe |-> PermissionDescribe, create |-> PermissionCreate,
                       list |-> PermissionList, update |-> PermissionUpdate,
                       delete |-> PermissionDelete]

(* Clients *)
ClientDescribe == <<Ask("describe"), Find>>
ClientCreate == <<Ask("create"), Insert>>
ClientList == <<Ask("list"), List, Count>>
ClientUpdate == <<Ask("update"), Update>>
ClientDelete == <<Ask("delete")>> \o ClientDescribe \o <<Remove>>
ClientHandlers == [describe |-> ClientDescribe, create |-> ClientCreate, list |-> ClientList,
                   update |-> ClientUpdate, delete |-> ClientDelete]

(* Credentials; the rules are about the identity of an OAuth credential (Credentials) *)
CredentialDescribe == <<Ask("describe"), Find>>
CredentialList == <<Ask("list"), List, Count>>
\* Mutant: the rules are checked after the UPDATE.
CredentialUpdateFirst ==
    <<Ask("update"), Find, Update, Rules>> \o CredentialDescribe
CredentialUpdate == <<Ask("update"), Find, Rules, Update>> \o CredentialDescribe
CredentialDelete == <<Ask("delete")>> \o CredentialDescribe \o <<Remove>>
CredentialHandlers == [describe |-> CredentialDescribe, list |-> CredentialList,
                       update |-> CredentialUpdate, delete |-> CredentialDelete]

(* Memberships; the rules are that the profile is the account's and that it has no *)
(* membership yet.  The deletion of the profile that follows is in Onboarding.     *)
MembershipDescribe == <<Ask("describe"), Join("roles"), Roles, Join("policies")>>
MembershipCreate ==
    <<Ask("create"), Rules, Insert>> \o Link("roles") \o Link("policies")
        \o MembershipDescribe
MembershipList == <<Ask("list"), List, Count, Roles>>
MembershipUpdate ==
    <<Escalate>> \o MembershipDescribe \o <<Ask("update")>>
        \o Link("roles") \o Link("policies") \o <<Update>> \o MembershipDescribe
MembershipDelete == <<Ask("delete")>> \o MembershipDescribe \o <<Remove>>
MembershipHandlers == [describe |-> MembershipDescribe, create |-> MembershipCreate,
                       list |-> MembershipList, update |-> MembershipUpdate,
                       delete |-> MembershipDelete]

(* Accounts *)
AccountDescribe == <<Ask("describe"), FindAnyhow, Member>>
AccountCreate == <<Ask("create"), Free("email"), Insert>>
AccountList == <<AskHome("list"), List, Count>>
AccountUpdate == <<Ask("update"), FindAnyhow, Exclusive, Update>>
AccountDelete == <<Ask("delete"), FindAnyhow, Exclusive, Remove>>
AccountHandlers == [describe |-> AccountDescribe, create |-> AccountCreate,
                    list |-> AccountList, update |-> AccountUpdate,
                    delete |-> AccountDelete]

(* Workspaces; their creation is in WorkspaceLife, and their list is public *)
WorkspaceDescribe == <<FindAnyhow, Ask("describe"), Find>>
WorkspaceList == <<AskNobody, List, Count>>
WorkspaceUpdate == <<Ask("update"), FindAnyhow, Update>>
WorkspaceDelete == <<Ask("delete"), FindAnyhow, Remove>>
WorkspaceHandlers == [describe |-> WorkspaceDescribe, list |-> WorkspaceList,
                      update |-> WorkspaceUpdate, delete |-> WorkspaceDelete]

Protected == [role |-> RoleHandlers, policy |-> PolicyHandlers, project |-> ProjectHandlers,
              profile |-> ProfileHandlers, permission |-> PermissionHandlers,
              client |-> ClientHandlers, credential |-> CredentialHandlers,
              membership |-> MembershipHandlers, account |-> AccountHandlers,
              workspace |-> WorkspaceHandlers]
=============================================================================
