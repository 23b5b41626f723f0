--------------------------- MODULE WorkspaceLife ---------------------------
(***************************************************************************)
(* The life of workspaces: creation with everything a workspace starts     *)
(* with, update, deletion, and the workspace entry in Redis.               *)
(*                                                                         *)
(* WorkspaceService::create inserts the workspace and then, statement by   *)
(* statement and with no transaction or compensation, its permissions, two *)
(* roles, two policies and a project, in the workspace it scopes the       *)
(* request to and with permissions it gives the request as it goes.  The   *)
(* entry oxauth:ws:{id} has no expiry.  Callers are authenticated in the   *)
(* system workspace, the only one whose roles can grant workspace          *)
(* permissions.                                                            *)
(***************************************************************************)
EXTENDS FiniteSets, Permissions

CONSTANTS
    Requests,       \* requests that resolve a workspace entry
    Callers,        \* requests that create, update and delete workspaces
    Workspaces,     \* workspace ids, a bound on their number
    System,         \* the workspace that exists from the start
    Named,          \* the workspaces that are resolved and written, a bound
    Slugs,
    SystemSlug,     \* the slug of System
    Configs,        \* the contents a workspace row may have
    DefaultConfig,  \* WorkspaceConfig::default()
    Rules,          \* the permissions that can be granted
    Grants          \* the permission sets callers may come with

ASSUME SystemAssumption ==
    System \in Workspaces /\ Named \subseteq Workspaces /\ SystemSlug \in Slugs
ASSUME DefaultAssumption == DefaultConfig \in Configs
ASSUME GrantsAssumption == Canonical \cup {Star} \subseteq Rules /\ Grants \subseteq SUBSET Rules

VARIABLES
    rows,       \* the workspace rows
    content,    \* what is in each workspace
    excuses,    \* why a workspace may be incomplete (history)
    cache,      \* the Redis entries
    req,        \* requests that resolve an entry
    adm         \* callers between their statements

vars == <<rows, content, excuses, cache, req, adm>>

-----------------------------------------------------------------------------

Row == [state : {"unborn", "live", "gone"}, slug : Slugs, config : Configs]
Live(w) == rows[w].state = "live"

RoleNames == {"viewer", "admin"}
SelfPolicies == {"selfMembership", "selfProfile"}
PermRow == Workspaces \X Canonical

DefaultPerms(role) == IF role = "viewer" THEN ViewerPerms ELSE AdminPerms

\* links: the permission rows of each role; attached: the policies of the
\* viewer role.
Content == [perms : SUBSET Canonical, roles : SUBSET RoleNames,
            links : [RoleNames -> SUBSET PermRow],
            policies : SUBSET SelfPolicies, attached : SUBSET SelfPolicies,
            projects : SUBSET {"Default"}]
NoContent == [perms |-> {}, roles |-> {}, links |-> [role \in RoleNames |-> {}],
              policies |-> {}, attached |-> {}, projects |-> {}]

FullContent(w) ==
    [perms |-> AdminPerms, roles |-> RoleNames,
     links |-> [role \in RoleNames |-> {w} \X DefaultPerms(role)],
     policies |-> SelfPolicies, attached |-> SelfPolicies, projects |-> {"Default"}]

\*   interrupted  a statement of the creation failed, or the request was dropped
\*   notAdmin     the caller may create workspaces and is no system admin
CreationExcuse == {"interrupted", "notAdmin"}

\*   overlap    the row was written while the entry was on its way
\*   abandoned  the row was written and the request ended before invalidating
\*   viaModel   the entry went through the model Workspace, which has no config
EntryExcuse == {"overlap", "abandoned", "viaModel"}
Entry == [present : BOOLEAN, config : Configs, excuses : SUBSET EntryExcuse]
NoEntry == [present |-> FALSE, config |-> DefaultConfig, excuses |-> {}]
Excused(w, excuse) ==
    [cache EXCEPT ![w].excuses = IF cache[w].present THEN @ \cup {excuse} ELSE @]

ReqState == [pc : {"idle", "read", "fill"}, ws : Workspaces, config : Configs,
             viaModel : BOOLEAN, excuses : SUBSET EntryExcuse]
IdleReq == [pc |-> "idle", ws |-> System, config |-> DefaultConfig,
            viaModel |-> FALSE, excuses |-> {}]

Provisioning == {"perms", "find", "role", "link", "describe", "policies", "attach",
                 "project"}
\* perms: what the request may do; scope: the workspace its statements are
\* scoped to; role: the default role that is next; found: the permission rows
\* the roles will be given.
AdmState == [pc : {"idle", "insert", "write", "delete", "inval"} \cup Provisioning,
             ws : Workspaces, scope : Workspaces, slug : Slugs, config : Configs,
             perms : SUBSET Rules,
             role : RoleNames, found : [RoleNames -> SUBSET PermRow]]
IdleAdm == [pc |-> "idle", ws |-> System, scope |-> System,
            slug |-> SystemSlug, config |-> DefaultConfig, perms |-> {},
            role |-> "viewer", found |-> NoContent.links]

TypeOK ==
    /\ rows \in [Workspaces -> Row]
    /\ content \in [Workspaces -> Content]
    /\ excuses \in [Workspaces -> SUBSET CreationExcuse]
    /\ cache \in [Workspaces -> Entry]
    /\ req \in [Requests -> ReqState]
    /\ adm \in [Callers -> AdmState]

Init ==
    /\ \E config \in Configs :
          rows = [w \in Workspaces |-> [state |-> IF w = System THEN "live" ELSE "unborn",
                                       slug |-> SystemSlug, config |-> config]]
    /\ content = [w \in Workspaces |-> IF w = System THEN FullContent(w) ELSE NoContent]
    /\ excuses = [w \in Workspaces |-> {}]
    /\ cache = [w \in Workspaces |-> NoEntry]
    /\ req = [r \in Requests |-> IdleReq]
    /\ adm = [c \in Callers |-> IdleAdm]

-----------------------------------------------------------------------------
(* Resolving an entry.                                                     *)

At(r, pc) == req[r].pc = pc

\* A miss.  Token resolution reads the row into an entry (build_from_db), login
\* and refresh read it into a Workspace and make the entry of that
\* (get_and_cache).
FetchMiss(r, w, viaModel) ==
    /\ At(r, "idle")
    /\ rows[w].state # "unborn"
    /\ ~cache[w].present
    /\ req' = [req EXCEPT ![r] = [IdleReq EXCEPT !.pc = "read", !.ws = w,
                                                 !.viaModel = viaModel]]
    /\ UNCHANGED <<rows, content, excuses, cache, adm>>

ReadRow(r) ==
    /\ At(r, "read")
    /\ Live(req[r].ws)
    /\ req' = [req EXCEPT ![r] = IF req[r].viaModel
                                 THEN [@ EXCEPT !.pc = "fill", !.excuses = {"viaModel"}]
                                 ELSE [@ EXCEPT !.pc = "fill",
                                                !.config = rows[req[r].ws].config]]
    /\ UNCHANGED <<rows, content, excuses, cache, adm>>

Written(r) ==
    /\ At(r, "fill")
    /\ cache' = [cache EXCEPT ![req[r].ws] = [present |-> TRUE, config |-> req[r].config,
                                              excuses |-> req[r].excuses]]

Fill(r) ==
    /\ Written(r)
    /\ req' = [req EXCEPT ![r] = IdleReq]
    /\ UNCHANGED <<rows, content, excuses, adm>>

\* The reply is lost and RedisChx::query_async repeats the command.
FillUnacknowledged(r) ==
    /\ Written(r)
    /\ UNCHANGED <<rows, content, excuses, req, adm>>

EndRequest(r) ==
    /\ ~At(r, "idle")
    /\ req' = [req EXCEPT ![r] = IdleReq]
    /\ UNCHANGED <<rows, content, excuses, cache, adm>>

-----------------------------------------------------------------------------
(* Creation.                                                               *)

Doing(c, pc) == adm[c].pc = pc
There(c) == content[adm[c].ws]
Go(c, pc) == adm' = [adm EXCEPT ![c].pc = pc]

\* The request goes on at pc with more permissions (CoreCtx::escalate_perms).
GoWith(c, pc, more) ==
    adm' = [adm EXCEPT ![c].pc = pc, ![c].perms = @ \cup more]

\* scope_and_validate: the permission, and the workspace of the request.
MayIn(c, perm) ==
    /\ IsAllowed(adm[c].perms, perm)
    /\ adm[c].scope = adm[c].ws \/ HasGlobalWildcard(adm[c].perms)

\* Mutant: create_many holds system admins to the restricted keys too.
MayCreateUnrestricted(c, perms) == \A perm \in perms : ~Restricted(perm)

\* A restricted key is only for system admins (create_many).
MayCreate(c, perms) ==
    IsAllowed(adm[c].perms, Star) \/ \A perm \in perms : ~Restricted(perm)

\* The statements that are checked, and what the services ask.
Checked == {"perms", "role", "describe", "policies"}
Permitted(c) ==
    \/ Doing(c, "perms") /\ MayIn(c, Perm("permission", "create"))
                         /\ MayCreate(c, AdminPerms)
    \/ Doing(c, "role") /\ MayIn(c, Perm("role", "create"))
    \/ Doing(c, "describe") /\ MayIn(c, Perm("role", "describe"))
    \/ Doing(c, "policies") /\ MayIn(c, Perm("policy", "create"))

BeginCreate(c, granted, slug, config) ==
    /\ Doing(c, "idle")
    /\ IsAllowed(granted, Perm("workspace", "create"))
    /\ \A w \in Workspaces : Live(w) => rows[w].slug # slug
    /\ adm' = [adm EXCEPT ![c] = [IdleAdm EXCEPT !.pc = "insert", !.perms = granted,
                                                 !.slug = slug, !.config = config]]
    /\ UNCHANGED <<rows, content, excuses, cache, req>>

\* Mutant: the request stays in the workspace it came from.
InsertWorkspaceUnscoped(c, w) ==
    /\ Doing(c, "insert")
    /\ rows[w].state = "unborn"
    /\ \A v \in Workspaces : Live(v) => rows[v].slug # adm[c].slug
    /\ rows' = [rows EXCEPT ![w] = [state |-> "live", slug |-> adm[c].slug,
                                    config |-> adm[c].config]]
    /\ excuses' = [excuses EXCEPT ![w] = IF IsAllowed(adm[c].perms, Star) THEN {}
                                         ELSE {"notAdmin"}]
    /\ adm' = [adm EXCEPT ![c].pc = "perms", ![c].ws = w,
                          ![c].perms = @ \cup {Perm("permission", "create")}]
    /\ UNCHANGED <<content, cache, req>>

\* The INSERT, under the unique index; set_scoped_ws and the first escalation.
InsertWorkspace(c, w) ==
    /\ Doing(c, "insert")
    /\ rows[w].state = "unborn"
    /\ \A v \in Workspaces : Live(v) => rows[v].slug # adm[c].slug
    /\ rows' = [rows EXCEPT ![w] = [state |-> "live", slug |-> adm[c].slug,
                                    config |-> adm[c].config]]
    /\ excuses' = [excuses EXCEPT ![w] = IF IsAllowed(adm[c].perms, Star) THEN {}
                                         ELSE {"notAdmin"}]
    /\ adm' = [adm EXCEPT ![c].pc = "perms", ![c].ws = w, ![c].scope = w,
                          ![c].perms = @ \cup {Perm("permission", "create")}]
    /\ UNCHANGED <<content, cache, req>>

\* The next statement finds the workspace and puts one more thing into it.
Puts(c, pc, with) ==
    /\ Doing(c, pc)
    /\ Live(adm[c].ws)
    /\ content' = [content EXCEPT ![adm[c].ws] = with]
    /\ UNCHANGED <<rows, excuses, cache, req>>

\* Mutant: the whole catalogue is inserted, the wildcard with it.
InsertPermsOfCatalogue(c) ==
    /\ Permitted(c)
    /\ Puts(c, "perms", [There(c) EXCEPT !.perms = Canonical \cup {Star}])
    /\ GoWith(c, "find", {Perm("role", "create"), Perm("role", "describe")})

\* populate_ws_perms
InsertPerms(c) ==
    /\ Permitted(c)
    /\ Puts(c, "perms", [There(c) EXCEPT !.perms = AdminPerms])
    /\ GoWith(c, "find", {Perm("role", "create"), Perm("role", "describe")})

\* populate_ws_roles looks the permissions of both roles up, viewer first, in
\* the workspace the request is scoped to.
FindPerms(c) ==
    /\ Doing(c, "find")
    /\ LET role == adm[c].role
       IN  adm' = [adm EXCEPT
                     ![c].found[role] =
                        {adm[c].scope} \X (content[adm[c].scope].perms \cap DefaultPerms(role)),
                     ![c].role = IF role = "viewer" THEN "admin" ELSE "viewer",
                     ![c].pc = IF role = "viewer" THEN "find" ELSE "role"]
    /\ UNCHANGED <<rows, content, excuses, cache, req>>

\* RoleService::create: the row, its permissions, and describe.
InsertRole(c) ==
    /\ Permitted(c)
    /\ adm[c].role \notin There(c).roles
    /\ Puts(c, "role", [There(c) EXCEPT !.roles = @ \cup {adm[c].role}])
    /\ Go(c, "link")

LinkRole(c) ==
    LET found == adm[c].found[adm[c].role]
    IN  /\ \A row \in found : row[2] \in content[row[1]].perms
        /\ Puts(c, "link", [There(c) EXCEPT !.links[adm[c].role] = found])
        /\ Go(c, "describe")

DescribeRole(c) ==
    /\ Doing(c, "describe")
    /\ Permitted(c)
    /\ adm[c].role \in There(c).roles
    /\ IF adm[c].role = "viewer"
       THEN adm' = [adm EXCEPT ![c].pc = "role", ![c].role = "admin"]
       ELSE GoWith(c, "policies", {Perm("policy", "create"), Perm("policy", "describe"),
                                   Perm("role", "describe")})
    /\ UNCHANGED <<rows, content, excuses, cache, req>>

\* populate_ws_self_policies: the two documents in their order, then the
\* policies of the viewer role.
InsertPolicy(c) ==
    LET missing == SelfPolicies \ There(c).policies
        policy == IF missing = SelfPolicies THEN "selfMembership" ELSE "selfProfile"
    IN  /\ Permitted(c)
        /\ missing # {}
        /\ Puts(c, "policies", [There(c) EXCEPT !.policies = @ \cup {policy}])
        /\ Go(c, IF missing = {policy} THEN "attach" ELSE "policies")

AttachPolicies(c) ==
    /\ "viewer" \in There(c).roles
    /\ Puts(c, "attach", [There(c) EXCEPT !.attached = SelfPolicies])
    /\ GoWith(c, "project", {Perm("project", "create")})

\* populate_default_project
InsertProject(c) ==
    /\ Puts(c, "project", [There(c) EXCEPT !.projects = {"Default"}])
    /\ adm' = [adm EXCEPT ![c] = IdleAdm]

\* A service turns the request down.
Refuse(c) ==
    /\ adm[c].pc \in Checked
    /\ ~Permitted(c)
    /\ adm' = [adm EXCEPT ![c] = IdleAdm]
    /\ UNCHANGED <<rows, content, excuses, cache, req>>

-----------------------------------------------------------------------------
(* Update and deletion.                                                    *)

BeginWrite(c, granted, w, action, pc, config) ==
    /\ Doing(c, "idle")
    /\ IsAllowed(granted, Perm("workspace", action))
    /\ Live(w)
    /\ adm' = [adm EXCEPT ![c] = [IdleAdm EXCEPT !.pc = pc, !.ws = w, !.config = config]]
    /\ UNCHANGED <<rows, content, excuses, cache, req>>

BeginUpdate(c, granted, w, config) ==
    BeginWrite(c, granted, w, "update", "write", config)
BeginDelete(c, granted, w) ==
    BeginWrite(c, granted, w, "delete", "delete", DefaultConfig)

\* The entries on their way to Redis are older than the row.
Overlapped(w) ==
    [r \in Requests |-> IF At(r, "fill") /\ req[r].ws = w
                        THEN [req[r] EXCEPT !.excuses = @ \cup {"overlap"}] ELSE req[r]]

\* Mutant: the update leaves the entry to the next one.
WriteWorkspaceUninvalidated(c) ==
    LET w == adm[c].ws
    IN  /\ Doing(c, "write")
        /\ Live(w)
        /\ rows' = [rows EXCEPT ![w].config = adm[c].config]
        /\ req' = Overlapped(w)
        /\ adm' = [adm EXCEPT ![c] = IdleAdm]
        /\ UNCHANGED <<content, excuses, cache>>

\* The slug in the parameters only finds the workspace.
WriteWorkspace(c) ==
    LET w == adm[c].ws
    IN  /\ Doing(c, "write")
        /\ Live(w)
        /\ rows' = [rows EXCEPT ![w].config = adm[c].config]
        /\ req' = Overlapped(w)
        /\ Go(c, "inval")
        /\ UNCHANGED <<content, excuses, cache>>

\* The DELETE, with what cascades.  A membership that holds a role of the
\* workspace restricts it and makes it fail (Abort); the memberships of the
\* system admins hold those of System.
DeleteWorkspace(c) ==
    LET w == adm[c].ws
    IN  /\ Doing(c, "delete")
        /\ w # System
        /\ Live(w)
        /\ rows' = [rows EXCEPT ![w] = [state |-> "gone", slug |-> SystemSlug,
                                        config |-> DefaultConfig]]
        /\ content' = [content EXCEPT ![w] = NoContent]
        /\ excuses' = [excuses EXCEPT ![w] = {}]
        /\ req' = Overlapped(w)
        /\ Go(c, "inval")
        /\ UNCHANGED cache

Deleted(c) ==
    /\ Doing(c, "inval")
    /\ cache' = [cache EXCEPT ![adm[c].ws] = NoEntry]
    /\ UNCHANGED <<rows, content, excuses, req>>

Invalidate(c) ==
    /\ Deleted(c)
    /\ adm' = [adm EXCEPT ![c] = IdleAdm]

InvalidateUnacknowledged(c) ==
    /\ Deleted(c)
    /\ UNCHANGED adm

\* A statement fails, or the connection is dropped between two of them.
Abort(c) ==
    /\ ~Doing(c, "idle")
    /\ excuses' = IF adm[c].pc \in Provisioning /\ Live(adm[c].ws)
                  THEN [excuses EXCEPT ![adm[c].ws] = @ \cup {"interrupted"}] ELSE excuses
    /\ cache' = IF Doing(c, "inval") THEN Excused(adm[c].ws, "abandoned") ELSE cache
    /\ adm' = [adm EXCEPT ![c] = IdleAdm]
    /\ UNCHANGED <<rows, content, req>>

-----------------------------------------------------------------------------

ResolveNext(r) ==
    \/ \E w \in Named, viaModel \in BOOLEAN : FetchMiss(r, w, viaModel)
    \/ ReadRow(r) \/ Fill(r) \/ FillUnacknowledged(r) \/ EndRequest(r)

CreateNext(c) ==
    \/ \E granted \in Grants, slug \in Slugs, config \in Configs :
          BeginCreate(c, granted, slug, config)
    \/ \E w \in Workspaces : InsertWorkspace(c, w)
    \/ InsertPerms(c) \/ FindPerms(c)
    \/ InsertRole(c) \/ LinkRole(c) \/ DescribeRole(c)
    \/ InsertPolicy(c) \/ AttachPolicies(c) \/ InsertProject(c)
    \/ Refuse(c)

WriteNext(c) ==
    \/ \E granted \in Grants, w \in Named :
          \/ \E config \in Configs : BeginUpdate(c, granted, w, config)
          \/ BeginDelete(c, granted, w)
    \/ WriteWorkspace(c) \/ DeleteWorkspace(c)
    \/ Invalidate(c) \/ InvalidateUnacknowledged(c)

Next ==
    \/ \E r \in Requests : ResolveNext(r)
    \/ \E c \in Callers : CreateNext(c) \/ WriteNext(c) \/ Abort(c)

Spec == Init /\ [][Next]_vars

-----------------------------------------------------------------------------
(* What creation promises.                                                 *)

AtWorkOn(c, w) == adm[c].pc \in Provisioning /\ adm[c].ws = w

\* A live workspace that nobody is creating any more has everything a workspace
\* starts with, unless its creation was cut short or its caller was not a
\* system admin: no service turns a system admin down half way, the scope the
\* request sets finds the rows just written, and neither a deletion nor another
\* creation leaves a live workspace half filled (WorkspaceService::create).
ProvisionedUnlessExcused ==
    \A w \in Workspaces :
        Live(w) /\ excuses[w] = {} /\ (\A c \in Callers : ~AtWorkOn(c, w))
        => content[w] = FullContent(w)

\* A caller who is not a system admin is turned down before anything is put into
\* the workspace it inserted, in spite of the permissions the request gives
\* itself: no workspace has permissions without roles, or roles without policies,
\* for want of authority (PermissionService::create_many).
RefusedBeforeContent ==
    \A w \in Workspaces : "notAdmin" \in excuses[w] => content[w] = NoContent

\* A role links permission rows of its own workspace and no others, whatever
\* workspace the request came from (populate_ws_roles, find_all_many_by_names).
LinksStayInside ==
    \A w \in Workspaces, role \in RoleNames :
        \A row \in content[w].links[role] : row[1] = w

\* With no invalidation outstanding, the entry of a workspace is that of a
\* workspace that exists and holds what its row holds, unless the row was
\* written while the entry was on its way, the invalidation was abandoned, or
\* the entry was made from the model, which has no configuration
\* (WorkspaceService::update and delete, get_and_cache, build_from_db).
EntryCoherentUnlessExcused ==
    \A w \in Workspaces :
        cache[w].present /\ (\A c \in Callers : ~(Doing(c, "inval") /\ adm[c].ws = w))
        => /\ cache[w].excuses \subseteq {"viaModel"} => Live(w)
           /\ cache[w].excuses = {} => cache[w].config = rows[w].config

=============================================================================
