------------------------ MODULE WorkspaceLife_proofs ------------------------
(***************************************************************************)
(* Proofs about WorkspaceLife, for any workspaces, slugs, configurations,  *)
(* callers with any permissions, and requests.                             *)
(***************************************************************************)
EXTENDS WorkspaceLife, TLAPS

-----------------------------------------------------------------------------
(* Types.                                                                  *)

LEMMA DefaultFacts ==
    /\ ViewerPerms \subseteq AdminPerms
    /\ AdminPerms \subseteq Canonical
    /\ \E perm \in AdminPerms : Restricted(perm)
<1>1. AdminPerms \subseteq Canonical
  BY DEF AdminPerms
<1>2. ViewerPerms \subseteq Canonical
  BY DEF ViewerPerms, Canonical, CrudPerms, ClientPerms, AuthPerms, Crud, CrudResources, Perm
<1>3. \A perm \in ViewerPerms : perm.resource = "workspace" => perm.action = "describe"
  BY DEF ViewerPerms, Perm
<1>4. ViewerPerms \subseteq AdminPerms
  BY <1>2, <1>3 DEF AdminPerms, Perm
<1>5. Perm("workspace", "describe") \in ViewerPerms
  BY DEF ViewerPerms, Perm
<1>6. Restricted(Perm("workspace", "describe"))
  BY DEF Restricted, Perm
<1> QED
  BY <1>1, <1>4, <1>5, <1>6

\* The permissions a creation gives itself.
Escalations ==
    {Perm("permission", "create"), Perm("role", "create"), Perm("role", "describe"),
     Perm("policy", "create"), Perm("policy", "describe"), Perm("project", "create")}

LEMMA EscalationType == Escalations \subseteq Rules
BY GrantsAssumption DEF Escalations, Canonical, CrudPerms, ClientPerms, AuthPerms, Crud, CrudResources

LEMMA DefaultPermsType ==
    ASSUME NEW role \in RoleNames
    PROVE  DefaultPerms(role) \subseteq AdminPerms
BY DefaultFacts DEF DefaultPerms

LEMMA ContentTypes ==
    /\ NoContent \in Content
    /\ \A w \in Workspaces : FullContent(w) \in Content
<1>1. NoContent \in Content
  BY DEF NoContent, Content
<1>2. ASSUME NEW w \in Workspaces
      PROVE  FullContent(w) \in Content
  <2>1. \A role \in RoleNames : {w} \X DefaultPerms(role) \in SUBSET PermRow
    BY DefaultPermsType, DefaultFacts DEF PermRow
  <2>2. [role \in RoleNames |-> {w} \X DefaultPerms(role)] \in [RoleNames -> SUBSET PermRow]
    BY <2>1
  <2> QED
    BY <2>2, DefaultFacts DEF FullContent, Content
<1> QED
  BY <1>1, <1>2

LEMMA IdleTypes ==
    /\ IdleReq \in ReqState
    /\ IdleAdm \in AdmState
    /\ NoEntry \in Entry
<1>1. NoContent.links \in [RoleNames -> SUBSET PermRow]
  BY DEF NoContent
<1>2. IdleAdm \in AdmState
  BY <1>1, SystemAssumption, DefaultAssumption DEF IdleAdm, AdmState, RoleNames
<1> QED
  BY <1>2, SystemAssumption, DefaultAssumption
     DEF IdleReq, ReqState, NoEntry, Entry

LEMMA InitType == Init => TypeOK
<1> SUFFICES ASSUME Init PROVE TypeOK
  OBVIOUS
<1>1. rows \in [Workspaces -> Row]
  BY SystemAssumption DEF Init, Row
<1>2. content \in [Workspaces -> Content]
  BY ContentTypes DEF Init
<1> QED
  BY <1>1, <1>2, IdleTypes DEF Init, TypeOK

\* What a caller's state may become.
LEMMA AdmMoves ==
    ASSUME TypeOK, NEW c \in Callers, NEW d \in AdmState,
           adm' = [adm EXCEPT ![c] = d]
    PROVE  adm' \in [Callers -> AdmState]
BY DEF TypeOK

LEMMA MoreType ==
    ASSUME TypeOK, NEW c \in Callers, NEW pc \in Provisioning \cup {"idle", "inval"},
           NEW more \in SUBSET Rules,
           GoWith(c, pc, more)
    PROVE  adm' \in [Callers -> AdmState]
<1> DEFINE perms == adm[c].perms \cup more
           d == [adm[c] EXCEPT !.pc = pc, !.perms = perms]
<1>1. adm[c] \in AdmState
  BY DEF TypeOK
<1>2. perms \in SUBSET Rules
  BY <1>1 DEF AdmState
<1>3. d \in AdmState
  <2> HIDE DEF perms
  <2> QED
    BY <1>1, <1>2 DEF AdmState
<1>4. adm' = [adm EXCEPT ![c] = d]
  BY <1>1 DEF GoWith, TypeOK, AdmState
<1> QED
  BY <1>3, <1>4, AdmMoves

LEMMA GoType ==
    ASSUME TypeOK, NEW c \in Callers, NEW pc \in Provisioning \cup {"idle", "inval"},
           Go(c, pc)
    PROVE  adm' \in [Callers -> AdmState]
BY ZenonT(30) DEF TypeOK, Go, AdmState

LEMMA PutsType ==
    ASSUME TypeOK, NEW c \in Callers, NEW pc, NEW with \in Content, Puts(c, pc, with),
           adm' \in [Callers -> AdmState]
    PROVE  TypeOK'
BY DEF TypeOK, Puts

LEMMA ThereType ==
    ASSUME TypeOK, NEW c \in Callers
    PROVE  adm[c] \in AdmState /\ adm[c].ws \in Workspaces /\ There(c) \in Content
BY DEF TypeOK, AdmState, There

LEMMA OverlappedType ==
    ASSUME TypeOK, NEW w \in Workspaces
    PROVE  Overlapped(w) \in [Requests -> ReqState]
<1>1. ASSUME NEW r \in Requests
      PROVE  [req[r] EXCEPT !.excuses = @ \cup {"overlap"}] \in ReqState
  <2>1. req[r] \in ReqState
    BY DEF TypeOK
  <2>2. req[r].excuses \cup {"overlap"} \in SUBSET EntryExcuse
    BY <2>1 DEF ReqState, EntryExcuse
  <2> QED
    BY <2>1, <2>2 DEF ReqState
<1> QED
  BY <1>1 DEF TypeOK, Overlapped

LEMMA NextType == TypeOK /\ [Next]_vars => TypeOK'
<1> SUFFICES ASSUME TypeOK, [Next]_vars
             PROVE  TypeOK'
  OBVIOUS
<1> USE DEF Doing, At
<1>1. ASSUME NEW r \in Requests, NEW w \in Named, NEW viaModel \in BOOLEAN,
             FetchMiss(r, w, viaModel)
      PROVE  TypeOK'
  BY <1>1, IdleTypes, SystemAssumption DEF TypeOK, FetchMiss, ReqState
<1>2. ASSUME NEW r \in Requests, ReadRow(r)
      PROVE  TypeOK'
  <2>1. req[r] \in ReqState
    BY DEF TypeOK
  <2>2. rows[req[r].ws].config \in Configs
    BY <2>1 DEF TypeOK, ReqState, Row
  <2>3. {"viaModel"} \in SUBSET EntryExcuse
    BY DEF EntryExcuse
  <2>4. /\ [req[r] EXCEPT !.pc = "fill", !.excuses = {"viaModel"}] \in ReqState
        /\ [req[r] EXCEPT !.pc = "fill", !.config = rows[req[r].ws].config] \in ReqState
    BY <2>1, <2>2, <2>3 DEF ReqState
  <2>5. req' \in [Requests -> ReqState]
    BY <1>2, <2>4 DEF TypeOK, ReadRow
  <2> QED
    BY <1>2, <2>5 DEF TypeOK, ReadRow
<1>3. ASSUME NEW r \in Requests, Fill(r) \/ FillUnacknowledged(r)
      PROVE  TypeOK'
  <2>1. req[r] \in ReqState /\ req' \in [Requests -> ReqState]
    BY <1>3, IdleTypes DEF TypeOK, Fill, FillUnacknowledged
  <2>2. cache' \in [Workspaces -> Entry]
    <3>1. [present |-> TRUE, config |-> req[r].config, excuses |-> req[r].excuses] \in Entry
      BY <2>1 DEF ReqState, Entry
    <3> QED
      BY <1>3, <3>1 DEF TypeOK, Fill, FillUnacknowledged, Written
  <2> QED
    BY <1>3, <2>1, <2>2 DEF TypeOK, Fill, FillUnacknowledged, Written
<1>4. ASSUME NEW r \in Requests, EndRequest(r)
      PROVE  TypeOK'
  BY <1>4, IdleTypes DEF TypeOK, EndRequest
<1>5. ASSUME NEW c \in Callers, NEW granted \in Grants, NEW slug \in Slugs,
             NEW config \in Configs, BeginCreate(c, granted, slug, config)
      PROVE  TypeOK'
  <2>1. [IdleAdm EXCEPT !.pc = "insert", !.perms = granted, !.slug = slug,
                        !.config = config] \in AdmState
    BY IdleTypes, GrantsAssumption DEF AdmState
  <2> QED
    BY <1>5, <2>1, AdmMoves DEF TypeOK, BeginCreate
<1>6. ASSUME NEW c \in Callers, NEW w \in Workspaces, InsertWorkspace(c, w)
      PROVE  TypeOK'
  <2>1. adm[c] \in AdmState
    BY ThereType
  <2>2. adm' \in [Callers -> AdmState]
    <3> DEFINE perms == adm[c].perms \cup {Perm("permission", "create")}
               d == [adm[c] EXCEPT !.pc = "perms", !.ws = w, !.scope = w, !.perms = perms]
    <3>1. perms \in SUBSET Rules
      BY <2>1, EscalationType DEF AdmState, Escalations
    <3>2. d \in AdmState
      <4> HIDE DEF perms
      <4> QED
        BY <2>1, <3>1 DEF AdmState, Provisioning
    <3>3. adm' = [adm EXCEPT ![c] = d]
      BY <1>6, <2>1 DEF InsertWorkspace, TypeOK, AdmState
    <3> QED
      BY <3>2, <3>3, AdmMoves
  <2>3. rows' \in [Workspaces -> Row]
    BY <1>6, <2>1 DEF TypeOK, InsertWorkspace, AdmState, Row
  <2>4. excuses' \in [Workspaces -> SUBSET CreationExcuse]
    BY <1>6 DEF TypeOK, InsertWorkspace, CreationExcuse
  <2> QED
    BY <1>6, <2>2, <2>3, <2>4 DEF TypeOK, InsertWorkspace
<1>7. ASSUME NEW c \in Callers, InsertPerms(c)
      PROVE  TypeOK'
  <2>1. {Perm("role", "create"), Perm("role", "describe")}
            \in SUBSET Rules
    BY EscalationType DEF Escalations
  <2>2. adm' \in [Callers -> AdmState]
    BY <1>7, <2>1, MoreType DEF InsertPerms, Provisioning
  <2>3. [There(c) EXCEPT !.perms = AdminPerms] \in Content
    BY ThereType, DefaultFacts DEF Content
  <2> QED
    BY <1>7, <2>2, <2>3, PutsType DEF InsertPerms
<1>8. ASSUME NEW c \in Callers, FindPerms(c)
      PROVE  TypeOK'
  <2>1. adm[c] \in AdmState /\ adm[c].role \in RoleNames /\ adm[c].scope \in Workspaces
    BY ThereType DEF AdmState
  <2>2. content[adm[c].scope].perms \subseteq Canonical
    BY <2>1 DEF TypeOK, Content
  <2>3. {adm[c].scope} \X (content[adm[c].scope].perms \cap DefaultPerms(adm[c].role))
            \in SUBSET PermRow
    BY <2>1, <2>2 DEF PermRow
  <2>4. adm' \in [Callers -> AdmState]
    <3> DEFINE role == adm[c].role
               rowsFound == {adm[c].scope} \X (content[adm[c].scope].perms \cap DefaultPerms(role))
               found == [adm[c].found EXCEPT ![role] = rowsFound]
               pc == IF role = "viewer" THEN "find" ELSE "role"
               next == IF role = "viewer" THEN "admin" ELSE "viewer"
    <3>1. found \in [RoleNames -> SUBSET PermRow]
      BY <2>1, <2>3 DEF AdmState
    <3>2. pc \in Provisioning /\ next \in RoleNames
      BY DEF Provisioning, RoleNames
    <3>3. adm' = [adm EXCEPT ![c] = [adm[c] EXCEPT !.found = found, !.role = next, !.pc = pc]]
      BY <1>8, <2>1 DEF FindPerms, TypeOK, AdmState
    <3>4. [adm[c] EXCEPT !.found = found, !.role = next, !.pc = pc] \in AdmState
      <4> HIDE DEF found, next, pc
      <4> QED
        BY <2>1, <3>1, <3>2 DEF AdmState
    <3> QED
      BY <3>3, <3>4, AdmMoves
  <2> QED
    BY <1>8, <2>4 DEF TypeOK, FindPerms
<1>9. ASSUME NEW c \in Callers, InsertRole(c)
      PROVE  TypeOK'
  <2>1. [There(c) EXCEPT !.roles = @ \cup {adm[c].role}] \in Content
    BY ThereType DEF Content, AdmState
  <2> QED
    BY <1>9, <2>1, GoType, PutsType DEF InsertRole, Provisioning
<1>10. ASSUME NEW c \in Callers, LinkRole(c)
       PROVE  TypeOK'
  <2>1. adm[c].found[adm[c].role] \in SUBSET PermRow
    BY ThereType DEF AdmState
  <2>2. [There(c) EXCEPT !.links[adm[c].role] = adm[c].found[adm[c].role]] \in Content
    BY <2>1, ThereType DEF Content
  <2> QED
    BY <1>10, <2>2, GoType, PutsType DEF LinkRole, Provisioning
<1>11. ASSUME NEW c \in Callers, DescribeRole(c)
       PROVE  TypeOK'
  <2>1. {Perm("policy", "create"), Perm("policy", "describe"), Perm("role", "describe")}
            \in SUBSET Rules
    BY EscalationType DEF Escalations
  <2>2. CASE adm[c].role = "viewer"
    <3>1. adm' = [adm EXCEPT ![c].pc = "role", ![c].role = "admin"]
      BY <1>11, <2>2 DEF DescribeRole
    <3>2. adm' = [adm EXCEPT ![c] = [adm[c] EXCEPT !.pc = "role", !.role = "admin"]]
      BY <3>1, ThereType DEF TypeOK, AdmState
    <3>3. [adm[c] EXCEPT !.pc = "role", !.role = "admin"] \in AdmState
      BY ThereType DEF AdmState, Provisioning, RoleNames
    <3>4. adm' \in [Callers -> AdmState]
      BY <3>2, <3>3, AdmMoves
    <3> QED
      BY <1>11, <3>4 DEF TypeOK, DescribeRole
  <2>3. CASE adm[c].role # "viewer"
    <3>1. adm' \in [Callers -> AdmState]
      BY <1>11, <2>1, <2>3, MoreType DEF DescribeRole, Provisioning
    <3> QED
      BY <1>11, <3>1 DEF TypeOK, DescribeRole
  <2> QED
    BY <2>2, <2>3
<1>12. ASSUME NEW c \in Callers, InsertPolicy(c)
       PROVE  TypeOK'
  <2>1. \A policy \in SelfPolicies :
            [There(c) EXCEPT !.policies = @ \cup {policy}] \in Content
    BY ThereType DEF Content
  <2> QED
    BY <1>12, <2>1, GoType, PutsType DEF InsertPolicy, Provisioning, SelfPolicies
<1>13. ASSUME NEW c \in Callers, AttachPolicies(c)
       PROVE  TypeOK'
  <2>1. [There(c) EXCEPT !.attached = SelfPolicies] \in Content
    BY ThereType DEF Content
  <2>2. {Perm("project", "create")} \in SUBSET Rules
    BY EscalationType DEF Escalations
  <2> QED
    BY <1>13, <2>1, <2>2, MoreType, PutsType DEF AttachPolicies, Provisioning
<1>14. ASSUME NEW c \in Callers, InsertProject(c)
       PROVE  TypeOK'
  <2>1. [There(c) EXCEPT !.projects = {"Default"}] \in Content
    BY ThereType DEF Content
  <2> QED
    BY <1>14, <2>1, IdleTypes, AdmMoves, PutsType DEF InsertProject
<1>15. ASSUME NEW c \in Callers, Refuse(c)
       PROVE  TypeOK'
  BY <1>15, IdleTypes, AdmMoves DEF TypeOK, Refuse
<1>16. ASSUME NEW c \in Callers, NEW granted \in Grants, NEW w \in Named,
              \/ \E config \in Configs : BeginUpdate(c, granted, w, config)
              \/ BeginDelete(c, granted, w)
       PROVE  TypeOK'
  <2>1. PICK pc \in {"write", "delete"}, config \in Configs :
            adm' = [adm EXCEPT ![c] = [IdleAdm EXCEPT !.pc = pc, !.ws = w, !.config = config]]
    BY <1>16, DefaultAssumption DEF BeginUpdate, BeginDelete, BeginWrite
  <2>2. [IdleAdm EXCEPT !.pc = pc, !.ws = w, !.config = config] \in AdmState
    BY IdleTypes, SystemAssumption DEF AdmState
  <2> QED
    BY <1>16, <2>1, <2>2, AdmMoves DEF TypeOK, BeginUpdate, BeginDelete, BeginWrite
<1>17. ASSUME NEW c \in Callers, WriteWorkspace(c)
       PROVE  TypeOK'
  <2>1. rows' \in [Workspaces -> Row]
    BY <1>17, ThereType DEF TypeOK, WriteWorkspace, Row, AdmState
  <2> QED
    BY <1>17, <2>1, GoType, ThereType, OverlappedType DEF TypeOK, WriteWorkspace
<1>18. ASSUME NEW c \in Callers, DeleteWorkspace(c)
       PROVE  TypeOK'
  <2>1. rows' \in [Workspaces -> Row]
    BY <1>18, SystemAssumption, DefaultAssumption DEF TypeOK, DeleteWorkspace, Row
  <2>2. content' \in [Workspaces -> Content]
    BY <1>18, ContentTypes DEF TypeOK, DeleteWorkspace
  <2> QED
    BY <1>18, <2>1, <2>2, GoType, ThereType, OverlappedType DEF TypeOK, DeleteWorkspace
<1>19. ASSUME NEW c \in Callers, Invalidate(c) \/ InvalidateUnacknowledged(c)
       PROVE  TypeOK'
  BY <1>19, IdleTypes, AdmMoves
     DEF TypeOK, Invalidate, InvalidateUnacknowledged, Deleted
<1>20. ASSUME NEW c \in Callers, Abort(c)
       PROVE  TypeOK'
  <2>1. excuses' \in [Workspaces -> SUBSET CreationExcuse]
    BY <1>20 DEF TypeOK, Abort, CreationExcuse
  <2>2. Excused(adm[c].ws, "abandoned") \in [Workspaces -> Entry]
    BY ThereType DEF TypeOK, Excused, Entry, EntryExcuse
  <2> QED
    BY <1>20, <2>1, <2>2, IdleTypes, AdmMoves DEF TypeOK, Abort
<1>21. CASE UNCHANGED vars
  BY <1>21 DEF TypeOK, vars
<1> QED
  BY <1>1, <1>2, <1>3, <1>4, <1>5, <1>6, <1>7, <1>8, <1>9, <1>10, <1>11, <1>12, <1>13,
     <1>14, <1>15, <1>16, <1>17, <1>18, <1>19, <1>20, <1>21
     DEF Next, ResolveNext, CreateNext, WriteNext

\* Every variable keeps its type through creation, update, deletion and the
\* handling of the entry.
THEOREM TypeCorrect == Spec => []TypeOK
BY InitType, NextType, PTL DEF Spec

-----------------------------------------------------------------------------
(* Creation.  The inductive invariant says, for every point of a creation, *)
(* what its workspace holds by then.                                       *)

FullLinks(w) == [role \in RoleNames |-> {w} \X DefaultPerms(role)]

\* The content of a workspace with its permissions and these roles, links and
\* policies.
Filled(roles, links, policies, attached) ==
    [perms |-> AdminPerms, roles |-> roles, links |-> links,
     policies |-> policies, attached |-> attached, projects |-> {}]

\* The roles that precede a role.
Before(role) == IF role = "viewer" THEN {} ELSE {"viewer"}
LinksOf(w, roles) == [role \in RoleNames |-> IF role \in roles THEN FullLinks(w)[role] ELSE {}]

\* What a creation has put into its workspace when it is at pc.
Staged(d) ==
    LET w == d.ws
        before == Before(d.role)
        after == before \cup {d.role}
    IN  \/ d.pc = "perms" /\ d.role = "viewer" /\ content[w] = NoContent
        \/ /\ d.pc = "find"
           /\ content[w] = Filled({}, LinksOf(w, {}), {}, {})
           /\ d.role = "admin" => d.found["viewer"] = FullLinks(w)["viewer"]
        \/ /\ d.found = FullLinks(w)
           /\ \/ d.pc = "role" /\ content[w] = Filled(before, LinksOf(w, before), {}, {})
              \/ d.pc = "link" /\ content[w] = Filled(after, LinksOf(w, before), {}, {})
              \/ d.pc = "describe" /\ content[w] = Filled(after, LinksOf(w, after), {}, {})
        \/ /\ d.pc = "policies"
           /\ \E policies \in {{}, {"selfMembership"}} :
                 content[w] = Filled(RoleNames, FullLinks(w), policies, {})
        \/ d.pc = "attach" /\ content[w] = Filled(RoleNames, FullLinks(w), SelfPolicies, {})
        \/ d.pc = "project"
           /\ content[w] = Filled(RoleNames, FullLinks(w), SelfPolicies, SelfPolicies)

\* The creation works in the workspace it inserted, as long as that is there,
\* and goes past the permissions only with the authority of a system admin.
Creation(d) ==
    /\ d.pc = "insert" => d.role = "viewer"
    /\ d.pc \in Provisioning =>
          /\ d.scope = d.ws
          /\ rows[d.ws].state # "unborn"
          /\ d.pc # "perms" => IsAllowed(d.perms, Star)
          /\ Live(d.ws) => /\ Staged(d)
                           /\ excuses[d.ws] = {} => IsAllowed(d.perms, Star)
                           /\ "notAdmin" \in excuses[d.ws] => ~IsAllowed(d.perms, Star)

\* At most one creation is at work on a workspace.
OneCreator ==
    \A c, d \in Callers :
        adm[c].pc \in Provisioning /\ adm[d].pc \in Provisioning /\ adm[c].ws = adm[d].ws
        => c = d

CreationInv ==
    /\ OneCreator
    /\ \A c \in Callers : Creation(adm[c])
    /\ \A w \in Workspaces : rows[w].state = "unborn" => content[w] = NoContent
    /\ ProvisionedUnlessExcused
    /\ RefusedBeforeContent
    /\ LinksStayInside

LEMMA InitCreation == Init => CreationInv
<1> SUFFICES ASSUME Init PROVE CreationInv
  OBVIOUS
<1>1. \A c \in Callers : adm[c].pc = "idle"
  BY DEF Init, IdleAdm
<1>2. LinksStayInside
  <2> SUFFICES ASSUME NEW w \in Workspaces, NEW role \in RoleNames,
                      NEW row \in content[w].links[role]
               PROVE  row[1] = w
    BY DEF LinksStayInside
  <2> QED
    BY DEF Init, FullContent, NoContent
<1> QED
  BY <1>1, <1>2
     DEF Init, CreationInv, OneCreator, Creation, Provisioning, ProvisionedUnlessExcused,
         RefusedBeforeContent, Live

\* The permissions a request gives itself do not make it a system admin.
LEMMA StarFacts ==
    ASSUME NEW perms, NEW more \in SUBSET Escalations
    PROVE  IsAllowed(perms \cup more, Star) <=> IsAllowed(perms, Star)
BY DEF Escalations, IsAllowed, Matches, Star, Perm

\* A system admin may do everything in every workspace.
LEMMA StarMatchesAll ==
    ASSUME NEW perms \in SUBSET Rules, IsAllowed(perms, Star), NEW required
    PROVE  IsAllowed(perms, required)
BY DEF IsAllowed, Matches, Star, Perm

\* What a creation has written links rows of its own workspace.
LEMMA StagedLinksInside ==
    ASSUME NEW d, Staged(d), NEW role \in RoleNames, NEW row \in content[d.ws].links[role]
    PROVE  row[1] = d.ws
BY DEF Staged, NoContent, Filled, LinksOf, FullLinks

\* Whatever touches neither the workspaces nor the creations.
LEMMA CreationFrame ==
    ASSUME CreationInv, UNCHANGED <<rows, content, excuses, adm>>
    PROVE  CreationInv'
<1>1. ASSUME NEW c \in Callers
      PROVE  Creation(adm[c])'
  <2>1. Creation(adm[c])
    BY DEF CreationInv
  <2>2. Staged(adm[c])' <=> Staged(adm[c])
    BY DEF Staged
  <2> QED
    BY <2>1, <2>2 DEF Creation, Live
<1> QED
  BY <1>1 DEF CreationInv, OneCreator, ProvisionedUnlessExcused, RefusedBeforeContent,
              LinksStayInside, Live, AtWorkOn

\* A caller that is at no creation before the step or after it.
LEMMA CreationAside ==
    ASSUME TypeOK, CreationInv, NEW c \in Callers,
           adm[c].pc \notin Provisioning, adm'[c].pc \notin Provisioning,
           adm'[c].pc = "insert" => adm'[c].role = "viewer",
           \A d \in Callers \ {c} : adm'[d] = adm[d],
           UNCHANGED <<content, excuses>>,
           \A w \in Workspaces : rows'[w].state = rows[w].state
    PROVE  CreationInv'
<1>1. \A w \in Workspaces : Live(w)' <=> Live(w)
  BY DEF Live
<1>2. ASSUME NEW d \in Callers
      PROVE  Creation(adm[d])'
  <2>1. CASE d = c
    BY <2>1 DEF Creation
  <2>2. CASE d # c
    <3>1. adm'[d] = adm[d] /\ adm[d] \in AdmState /\ adm[d].ws \in Workspaces /\ Creation(adm[d])
      BY <2>2, ThereType DEF CreationInv
    <3>2. Staged(adm[d])' <=> Staged(adm[d])
      BY <3>1 DEF Staged
    <3> QED
      BY <3>1, <3>2, <1>1 DEF Creation
  <2> QED
    BY <2>1, <2>2
<1>3. OneCreator'
  BY DEF CreationInv, OneCreator
<1>4. ProvisionedUnlessExcused'
  BY <1>1 DEF CreationInv, ProvisionedUnlessExcused, AtWorkOn
<1> QED
  BY <1>2, <1>3, <1>4
     DEF CreationInv, RefusedBeforeContent, LinksStayInside

\* A step of a creation.
LEMMA Advance ==
    ASSUME TypeOK, CreationInv, NEW c \in Callers,
           adm[c].pc \in Provisioning, IsAllowed(adm[c].perms, Star),
           UNCHANGED <<rows, excuses>>,
           \A w \in Workspaces \ {adm[c].ws} : content'[w] = content[w],
           ~Live(adm[c].ws) => content' = content,
           \A d \in Callers \ {c} : adm'[d] = adm[d],
           adm'[c].pc \in Provisioning, adm'[c].ws = adm[c].ws, adm'[c].scope = adm[c].scope,
           IsAllowed(adm'[c].perms, Star),
           Live(adm[c].ws) => Staged(adm[c])'
    PROVE  CreationInv'
<1> DEFINE w == adm[c].ws
<1>0. w \in Workspaces
  BY ThereType
<1>1. \A v \in Workspaces : Live(v)' <=> Live(v)
  BY DEF Live
<1>2. Creation(adm[c]) /\ (Live(w) => "notAdmin" \notin excuses[w])
  BY DEF CreationInv, Creation
<1>3. ASSUME NEW d \in Callers
      PROVE  Creation(adm[d])'
  <2>1. CASE d = c
    <3>1. adm'[c].pc # "insert"
      BY DEF Provisioning
    <3> QED
      BY <2>1, <3>1, <1>0, <1>1, <1>2 DEF Creation
  <2>2. CASE d # c
    <3>1. adm'[d] = adm[d] /\ adm[d].ws \in Workspaces /\ Creation(adm[d])
      BY <2>2, ThereType DEF CreationInv
    <3>2. ASSUME adm[d].pc \in Provisioning
          PROVE  content'[adm[d].ws] = content[adm[d].ws]
      BY <2>2, <3>1, <3>2 DEF CreationInv, OneCreator
    <3>3. ASSUME adm[d].pc \in Provisioning
          PROVE  Staged(adm[d])' <=> Staged(adm[d])
      BY <3>1, <3>2, <3>3 DEF Staged
    <3> QED
      BY <3>1, <3>3, <1>1 DEF Creation
  <2> QED
    BY <2>1, <2>2
<1>4. OneCreator'
  BY DEF CreationInv, OneCreator
<1>5. ProvisionedUnlessExcused'
  <2> SUFFICES ASSUME NEW v \in Workspaces, Live(v)', excuses'[v] = {},
                      \A d \in Callers : ~AtWorkOn(d, v)'
               PROVE  content'[v] = FullContent(v)
    BY DEF ProvisionedUnlessExcused
  <2>1. v # w
    BY DEF AtWorkOn
  <2>2. \A d \in Callers : ~AtWorkOn(d, v)
    BY <2>1 DEF AtWorkOn
  <2> QED
    BY <2>1, <2>2, <1>1 DEF CreationInv, ProvisionedUnlessExcused
<1>6. RefusedBeforeContent'
  <2> SUFFICES ASSUME NEW v \in Workspaces, "notAdmin" \in excuses[v]
               PROVE  content'[v] = NoContent
    BY DEF RefusedBeforeContent
  <2> QED
    BY <1>2 DEF CreationInv, RefusedBeforeContent
<1>7. LinksStayInside'
  <2> SUFFICES ASSUME NEW v \in Workspaces, NEW role \in RoleNames,
                      NEW row \in content'[v].links[role]
               PROVE  row[1] = v
    BY DEF LinksStayInside
  <2>1. CASE content'[v] = content[v]
    BY <2>1 DEF CreationInv, LinksStayInside
  <2>2. CASE content'[v] # content[v]
    <3>1. v = w /\ Staged(adm[c])'
      BY <2>2
    <3>2. content'[v].links[role] \subseteq FullLinks(v)[role]
      BY <3>1 DEF Staged, NoContent, Filled, LinksOf, FullLinks
    <3> QED
      BY <3>2 DEF FullLinks
  <2> QED
    BY <2>1, <2>2
<1>8. \A v \in Workspaces : rows'[v].state = "unborn" => content'[v] = NoContent
  BY <1>2, <1>0 DEF CreationInv, Creation, Live
<1> QED
  BY <1>3, <1>4, <1>5, <1>6, <1>7, <1>8 DEF CreationInv

LEMMA CreationPoints ==
    ASSUME TypeOK, NEW c \in Callers
    PROVE  /\ \A pc : Go(c, pc) => /\ adm'[c].pc = pc /\ adm'[c].ws = adm[c].ws
                                  /\ adm'[c].scope = adm[c].scope
                                  /\ adm'[c].role = adm[c].role
                                  /\ adm'[c].found = adm[c].found
                                  /\ adm'[c].perms = adm[c].perms
                                  /\ \A d \in Callers \ {c} : adm'[d] = adm[d]
           /\ \A pc, more :
                 GoWith(c, pc, more) => /\ adm'[c].pc = pc /\ adm'[c].ws = adm[c].ws
                                        /\ adm'[c].scope = adm[c].scope
                                        /\ adm'[c].role = adm[c].role
                                        /\ adm'[c].found = adm[c].found
                                        /\ adm'[c].perms = adm[c].perms \cup more
                                        /\ \A d \in Callers \ {c} : adm'[d] = adm[d]
BY DEF TypeOK, AdmState, Go, GoWith

LEMMA FilledLinks ==
    ASSUME NEW w
    PROVE  /\ LinksOf(w, {}) = NoContent.links
           /\ LinksOf(w, RoleNames) = FullLinks(w)
           /\ FullLinks(w) = FullContent(w).links
           /\ FullLinks(w) \in [RoleNames -> {FullLinks(w)[role] : role \in RoleNames}]
           /\ \A role \in RoleNames : FullLinks(w)[role] = {w} \X DefaultPerms(role)
BY DEF LinksOf, FullLinks, NoContent, FullContent

LEMMA CreateStarts ==
    ASSUME TypeOK, CreationInv, NEW c \in Callers, NEW w \in Workspaces,
           InsertWorkspace(c, w)
    PROVE  CreationInv'
<1>1. /\ adm[c].pc = "insert" /\ rows[w].state = "unborn"
      /\ rows' = [rows EXCEPT ![w] = [state |-> "live", slug |-> adm[c].slug,
                                      config |-> adm[c].config]]
      /\ excuses' = [excuses EXCEPT ![w] = IF IsAllowed(adm[c].perms, Star) THEN {}
                                           ELSE {"notAdmin"}]
      /\ content' = content
  BY DEF InsertWorkspace, Doing
<1>2. /\ adm'[c].pc = "perms" /\ adm'[c].ws = w /\ adm'[c].scope = w
      /\ adm'[c].perms = adm[c].perms \cup {Perm("permission", "create")}
      /\ adm'[c].role = adm[c].role
      /\ \A d \in Callers \ {c} : adm'[d] = adm[d]
  BY DEF InsertWorkspace, TypeOK, AdmState
<1>3. Live(w)' /\ \A v \in Workspaces \ {w} : rows'[v] = rows[v] /\ (Live(v)' <=> Live(v))
                                              /\ excuses'[v] = excuses[v]
  BY <1>1 DEF Live, TypeOK
<1>4. content[w] = NoContent
  BY <1>1 DEF CreationInv
<1>5. \A d \in Callers : adm[d].pc \in Provisioning => adm[d].ws # w
  BY <1>1 DEF CreationInv, Creation
<1>6. IsAllowed(adm'[c].perms, Star) <=> IsAllowed(adm[c].perms, Star)
  <2>1. {Perm("permission", "create")} \subseteq Escalations
    BY DEF Escalations
  <2>2. IsAllowed(adm[c].perms \cup {Perm("permission", "create")}, Star)
            <=> IsAllowed(adm[c].perms, Star)
    BY <2>1, StarFacts
  <2> QED
    BY <1>2, <2>2
<1>7. excuses'[w] = IF IsAllowed(adm[c].perms, Star) THEN {} ELSE {"notAdmin"}
  BY <1>1 DEF TypeOK
<1>8. ASSUME NEW d \in Callers
      PROVE  Creation(adm[d])'
  <2>1. CASE d = c
    <3>1. adm[c].role = "viewer"
      BY <1>1 DEF CreationInv, Creation
    <3>2. Staged(adm[c])'
      BY <3>1, <1>1, <1>2, <1>4 DEF Staged
    <3> QED
      BY <2>1, <3>2, <1>2, <1>3, <1>6, <1>7 DEF Creation, Provisioning, Live
  <2>2. CASE d # c
    <3>1. adm'[d] = adm[d] /\ adm[d].ws \in Workspaces /\ Creation(adm[d])
      BY <2>2, <1>2, ThereType DEF CreationInv
    <3>2. Staged(adm[d])' <=> Staged(adm[d])
      BY <1>1, <3>1 DEF Staged
    <3> QED
      BY <3>1, <3>2, <1>3, <1>5 DEF Creation
  <2> QED
    BY <2>1, <2>2
<1>9. OneCreator'
  BY <1>2, <1>5 DEF CreationInv, OneCreator
<1>10. ProvisionedUnlessExcused'
  <2> SUFFICES ASSUME NEW v \in Workspaces, Live(v)', excuses'[v] = {},
                      \A d \in Callers : ~AtWorkOn(d, v)'
               PROVE  content'[v] = FullContent(v)
    BY DEF ProvisionedUnlessExcused
  <2>1. v # w
    BY <1>2 DEF AtWorkOn, Provisioning
  <2>2. \A d \in Callers : ~AtWorkOn(d, v)
    BY <1>1, <1>2, <2>1 DEF AtWorkOn, Provisioning
  <2> QED
    BY <2>1, <2>2, <1>1, <1>3 DEF CreationInv, ProvisionedUnlessExcused
<1>11. RefusedBeforeContent' /\ LinksStayInside'
  BY <1>1, <1>3, <1>4 DEF CreationInv, RefusedBeforeContent, LinksStayInside
<1>12. \A v \in Workspaces : rows'[v].state = "unborn" => content'[v] = NoContent
  BY <1>1, <1>3, <1>4 DEF CreationInv
<1> QED
  BY <1>8, <1>9, <1>10, <1>11, <1>12 DEF CreationInv

\* A request that gives itself permissions stays as much of a system admin.
LEMMA StaysAdmin ==
    ASSUME TypeOK, NEW c \in Callers, NEW pc, NEW more \in SUBSET Escalations,
           GoWith(c, pc, more)
    PROVE  IsAllowed(adm'[c].perms, Star) <=> IsAllowed(adm[c].perms, Star)
<1>1. adm'[c].perms = adm[c].perms \cup more
  BY CreationPoints
<1>2. IsAllowed(adm[c].perms \cup more, Star) <=> IsAllowed(adm[c].perms, Star)
  BY StarFacts
<1> QED
  BY <1>1, <1>2

\* What the statements of a creation have in common.
LEMMA PutsFacts ==
    ASSUME TypeOK, NEW c \in Callers, NEW pc, NEW with, Puts(c, pc, with)
    PROVE  /\ adm[c].pc = pc /\ Live(adm[c].ws) /\ UNCHANGED <<rows, excuses>>
           /\ content'[adm[c].ws] = with
           /\ \A w \in Workspaces \ {adm[c].ws} : content'[w] = content[w]
BY ThereType DEF Puts, Doing, TypeOK

LEMMA PermsAreInserted ==
    ASSUME TypeOK, CreationInv, NEW c \in Callers, InsertPerms(c)
    PROVE  CreationInv'
<1> DEFINE w == adm[c].ws
<1>1. /\ adm[c].pc = "perms" /\ Live(w) /\ UNCHANGED <<rows, excuses>>
      /\ content'[w] = [There(c) EXCEPT !.perms = AdminPerms]
      /\ \A v \in Workspaces \ {w} : content'[v] = content[v]
  BY PutsFacts DEF InsertPerms
<1>2. IsAllowed(adm[c].perms, Star)
  BY <1>1, DefaultFacts DEF InsertPerms, Permitted, Doing, MayCreate
<1>3. /\ adm'[c].pc = "find" /\ adm'[c].ws = w /\ adm'[c].scope = adm[c].scope
      /\ adm'[c].role = adm[c].role
      /\ \A d \in Callers \ {c} : adm'[d] = adm[d]
  BY CreationPoints DEF InsertPerms
<1>4. IsAllowed(adm'[c].perms, Star)
  <2>1. {Perm("role", "create"), Perm("role", "describe")} \in SUBSET Escalations
    BY DEF Escalations
  <2> QED
    BY <1>2, <2>1, StaysAdmin DEF InsertPerms
<1>5. content[w] = NoContent /\ adm[c].role = "viewer"
  BY <1>1 DEF CreationInv, Creation, Staged, Provisioning
<1>6. content'[w] = Filled({}, LinksOf(w, {}), {}, {})
  <2>1. content'[w] = [NoContent EXCEPT !.perms = AdminPerms]
    BY <1>1, <1>5 DEF There
  <2>2. [NoContent EXCEPT !.perms = AdminPerms] = Filled({}, NoContent.links, {}, {})
    BY DEF NoContent, Filled
  <2> QED
    BY <2>1, <2>2, FilledLinks
<1>7. Staged(adm[c])'
  BY <1>3, <1>5, <1>6 DEF Staged
<1> QED
  BY <1>1, <1>2, <1>3, <1>4, <1>7, Advance DEF Provisioning

LEMMA PermsAreFound ==
    ASSUME TypeOK, CreationInv, NEW c \in Callers, FindPerms(c)
    PROVE  CreationInv'
<1> DEFINE w == adm[c].ws
           role == adm[c].role
<1>1. adm[c].pc = "find" /\ UNCHANGED <<rows, content, excuses>>
  BY DEF FindPerms, Doing
<1>2. adm[c] \in AdmState /\ role \in RoleNames /\ w \in Workspaces
  BY ThereType DEF AdmState
<1>3. adm[c].scope = w /\ IsAllowed(adm[c].perms, Star)
  BY <1>1 DEF CreationInv, Creation, Provisioning
<1>4. /\ adm'[c].pc = IF role = "viewer" THEN "find" ELSE "role"
      /\ adm'[c].role = IF role = "viewer" THEN "admin" ELSE "viewer"
      /\ adm'[c].ws = w /\ adm'[c].scope = adm[c].scope /\ adm'[c].perms = adm[c].perms
      /\ adm'[c].found = [adm[c].found EXCEPT
                            ![role] = {w} \X (content[w].perms \cap DefaultPerms(role))]
      /\ \A d \in Callers \ {c} : adm'[d] = adm[d]
  BY <1>2, <1>3 DEF FindPerms, TypeOK, AdmState
<1>5. ASSUME Live(w)
      PROVE  Staged(adm[c])'
  <2>1. /\ content[w] = Filled({}, LinksOf(w, {}), {}, {})
        /\ role = "admin" => adm[c].found["viewer"] = FullLinks(w)["viewer"]
    BY <1>1, <1>5 DEF CreationInv, Creation, Staged, Provisioning
  <2>2. content[w].perms \cap DefaultPerms(role) = DefaultPerms(role)
    BY <2>1, <1>2, DefaultPermsType DEF Filled
  <2>3. adm'[c].found[role] = FullLinks(w)[role]
    <3>1. adm'[c].found[role] = {w} \X (content[w].perms \cap DefaultPerms(role))
      BY <1>2, <1>4 DEF AdmState
    <3>2. FullLinks(w)[role] = {w} \X DefaultPerms(role)
      BY <1>2, FilledLinks
    <3> QED
      BY <3>1, <3>2, <2>2
  <2>4. CASE role = "viewer"
    BY <2>1, <2>3, <2>4, <1>1, <1>4 DEF Staged
  <2>5. CASE role # "viewer"
    <3>1. role = "admin"
      BY <1>2, <2>5 DEF RoleNames
    <3>2. adm'[c].found["viewer"] = FullLinks(w)["viewer"]
      BY <1>2, <1>4, <2>1, <3>1 DEF AdmState
    <3>3. adm'[c].found = FullLinks(w)
      BY <1>2, <1>4, <2>3, <3>1, <3>2 DEF AdmState, FullLinks, RoleNames
    <3>4. adm'[c].role = "viewer" /\ adm'[c].pc = "role" /\ adm'[c].ws = w
      BY <1>4, <3>1
    <3>5. content'[w] = Filled(Before("viewer"), LinksOf(w, Before("viewer")), {}, {})
      BY <1>1, <2>1 DEF Before
    <3> QED
      BY <3>3, <3>4, <3>5 DEF Staged
  <2> QED
    BY <2>4, <2>5
<1> QED
  BY <1>1, <1>3, <1>4, <1>5, Advance DEF Provisioning

LEMMA RoleIsInserted ==
    ASSUME TypeOK, CreationInv, NEW c \in Callers, InsertRole(c)
    PROVE  CreationInv'
<1> DEFINE w == adm[c].ws
           role == adm[c].role
<1>1. /\ adm[c].pc = "role" /\ Live(w) /\ UNCHANGED <<rows, excuses>>
      /\ content'[w] = [There(c) EXCEPT !.roles = @ \cup {role}]
      /\ \A v \in Workspaces \ {w} : content'[v] = content[v]
  BY PutsFacts DEF InsertRole
<1>2. IsAllowed(adm[c].perms, Star)
  BY <1>1 DEF CreationInv, Creation, Provisioning
<1>3. /\ adm'[c].pc = "link" /\ adm'[c].ws = w /\ adm'[c].scope = adm[c].scope
      /\ adm'[c].role = role /\ adm'[c].found = adm[c].found /\ adm'[c].perms = adm[c].perms
      /\ \A d \in Callers \ {c} : adm'[d] = adm[d]
  BY CreationPoints DEF InsertRole
<1>4. /\ content[w] = Filled(Before(role), LinksOf(w, Before(role)), {}, {})
      /\ adm[c].found = FullLinks(w)
  BY <1>1 DEF CreationInv, Creation, Staged, Provisioning
<1>5. content'[w] = Filled(Before(role) \cup {role}, LinksOf(w, Before(role)), {}, {})
  BY <1>1, <1>4 DEF There, Filled
<1>6. Staged(adm[c])'
  BY <1>3, <1>4, <1>5 DEF Staged
<1> QED
  BY <1>1, <1>2, <1>3, <1>6, Advance DEF Provisioning

LEMMA RoleIsLinked ==
    ASSUME TypeOK, CreationInv, NEW c \in Callers, LinkRole(c)
    PROVE  CreationInv'
<1> DEFINE w == adm[c].ws
           role == adm[c].role
<1>1. /\ adm[c].pc = "link" /\ Live(w) /\ UNCHANGED <<rows, excuses>>
      /\ content'[w] = [There(c) EXCEPT !.links[role] = adm[c].found[role]]
      /\ \A v \in Workspaces \ {w} : content'[v] = content[v]
  BY PutsFacts DEF LinkRole
<1>2. IsAllowed(adm[c].perms, Star) /\ role \in RoleNames
  BY <1>1, ThereType DEF CreationInv, Creation, Provisioning, AdmState
<1>3. /\ adm'[c].pc = "describe" /\ adm'[c].ws = w /\ adm'[c].scope = adm[c].scope
      /\ adm'[c].role = role /\ adm'[c].found = adm[c].found /\ adm'[c].perms = adm[c].perms
      /\ \A d \in Callers \ {c} : adm'[d] = adm[d]
  BY CreationPoints DEF LinkRole
<1>4. /\ content[w] = Filled(Before(role) \cup {role}, LinksOf(w, Before(role)), {}, {})
      /\ adm[c].found = FullLinks(w)
  BY <1>1 DEF CreationInv, Creation, Staged, Provisioning
<1>5. [LinksOf(w, Before(role)) EXCEPT ![role] = FullLinks(w)[role]]
          = LinksOf(w, Before(role) \cup {role})
  BY <1>2 DEF LinksOf
<1>6. content'[w] = Filled(Before(role) \cup {role}, LinksOf(w, Before(role) \cup {role}), {}, {})
  <2> DEFINE before == LinksOf(w, Before(role))
             after == LinksOf(w, Before(role) \cup {role})
             filled == Filled(Before(role) \cup {role}, before, {}, {})
  <2>1. content'[w] = [filled EXCEPT !.links = [before EXCEPT ![role] = FullLinks(w)[role]]]
    <3>1. filled.links = before
      BY DEF Filled
    <3> QED
      BY <1>1, <1>4, <3>1 DEF There
  <2>2. [filled EXCEPT !.links = after] = Filled(Before(role) \cup {role}, after, {}, {})
    BY DEF Filled
  <2> QED
    BY <2>1, <2>2, <1>5
<1>7. Staged(adm[c])'
  BY <1>3, <1>4, <1>6 DEF Staged
<1> QED
  BY <1>1, <1>2, <1>3, <1>7, Advance DEF Provisioning

LEMMA RoleIsDescribed ==
    ASSUME TypeOK, CreationInv, NEW c \in Callers, DescribeRole(c)
    PROVE  CreationInv'
<1> DEFINE w == adm[c].ws
           role == adm[c].role
<1>1. adm[c].pc = "describe" /\ UNCHANGED <<rows, content, excuses>>
  BY DEF DescribeRole, Doing
<1>2. IsAllowed(adm[c].perms, Star) /\ role \in RoleNames
  BY <1>1, ThereType DEF CreationInv, Creation, Provisioning, AdmState
<1>3. ASSUME Live(w)
      PROVE  /\ content[w] = Filled(Before(role) \cup {role},
                                    LinksOf(w, Before(role) \cup {role}), {}, {})
             /\ adm[c].found = FullLinks(w)
  BY <1>1, <1>3 DEF CreationInv, Creation, Staged, Provisioning
<1>4. CASE role = "viewer"
  <2>1. /\ adm'[c].pc = "role" /\ adm'[c].role = "admin"
        /\ adm'[c].ws = w /\ adm'[c].scope = adm[c].scope
        /\ adm'[c].found = adm[c].found /\ adm'[c].perms = adm[c].perms
        /\ \A d \in Callers \ {c} : adm'[d] = adm[d]
    BY <1>4 DEF DescribeRole, TypeOK, AdmState
  <2>2. Before("admin") = Before("viewer") \cup {"viewer"}
    BY DEF Before
  <2>3. Live(w) => Staged(adm[c])'
    BY <1>1, <1>3, <1>4, <2>1, <2>2 DEF Staged
  <2> QED
    BY <1>1, <1>2, <2>1, <2>3, Advance DEF Provisioning
<1>5. CASE role = "admin"
  <2> DEFINE more == {Perm("policy", "create"), Perm("policy", "describe"),
                      Perm("role", "describe")}
  <2>1. GoWith(c, "policies", more) /\ more \in SUBSET Escalations
    BY <1>5 DEF DescribeRole, Escalations
  <2>2. /\ adm'[c].pc = "policies" /\ adm'[c].ws = w /\ adm'[c].scope = adm[c].scope
        /\ \A d \in Callers \ {c} : adm'[d] = adm[d]
    BY <2>1, CreationPoints
  <2>3. IsAllowed(adm'[c].perms, Star)
    BY <1>2, <2>1, StaysAdmin
  <2>4. Before("admin") \cup {"admin"} = RoleNames
    BY DEF Before, RoleNames
  <2>5. ASSUME Live(w)
        PROVE  content'[w] = Filled(RoleNames, FullLinks(w), {}, {})
    BY <1>1, <1>3, <1>5, <2>4, <2>5, FilledLinks
  <2>6. Live(w) => Staged(adm[c])'
    BY <2>2, <2>5 DEF Staged
  <2> QED
    BY <1>1, <1>2, <2>2, <2>3, <2>6, Advance DEF Provisioning
<1> QED
  BY <1>2, <1>4, <1>5 DEF RoleNames

LEMMA PolicyIsInserted ==
    ASSUME TypeOK, CreationInv, NEW c \in Callers, InsertPolicy(c)
    PROVE  CreationInv'
<1> DEFINE w == adm[c].ws
           missing == SelfPolicies \ There(c).policies
           policy == IF missing = SelfPolicies THEN "selfMembership" ELSE "selfProfile"
           pc == IF missing = {policy} THEN "attach" ELSE "policies"
<1>1. /\ adm[c].pc = "policies" /\ Live(w) /\ UNCHANGED <<rows, excuses>>
      /\ content'[w] = [There(c) EXCEPT !.policies = @ \cup {policy}]
      /\ \A v \in Workspaces \ {w} : content'[v] = content[v]
  BY PutsFacts DEF InsertPolicy
<1>2. IsAllowed(adm[c].perms, Star)
  BY <1>1 DEF CreationInv, Creation, Provisioning
<1>3. /\ adm'[c].pc = pc /\ adm'[c].ws = w /\ adm'[c].scope = adm[c].scope
      /\ adm'[c].perms = adm[c].perms
      /\ \A d \in Callers \ {c} : adm'[d] = adm[d]
  BY CreationPoints DEF InsertPolicy
<1>4. PICK policies \in {{}, {"selfMembership"}} :
          content[w] = Filled(RoleNames, FullLinks(w), policies, {})
  BY <1>1 DEF CreationInv, Creation, Staged, Provisioning
<1>5. There(c).policies = policies
  BY <1>4 DEF There, Filled
<1>6. content'[w] = Filled(RoleNames, FullLinks(w), policies \cup {policy}, {})
  BY <1>1, <1>4 DEF There, Filled
<1>7. CASE policies = {}
  <2>1. missing = SelfPolicies /\ policy = "selfMembership" /\ pc = "policies"
    BY <1>5, <1>7 DEF SelfPolicies
  <2>2. policies \cup {policy} = {"selfMembership"}
    BY <2>1, <1>7
  <2>3. content'[w] = Filled(RoleNames, FullLinks(w), {"selfMembership"}, {})
    BY <1>6, <2>2
  <2>4. adm'[c].pc = "policies"
    BY <1>3, <2>1
  <2>5. Staged(adm[c])'
    BY <1>3, <2>3, <2>4 DEF Staged
  <2> QED
    BY <1>1, <1>2, <1>3, <2>4, <2>5, Advance DEF Provisioning
<1>8. CASE policies = {"selfMembership"}
  <2>1. missing = {"selfProfile"} /\ missing # SelfPolicies
    BY <1>5, <1>8 DEF SelfPolicies
  <2>2. policy = "selfProfile" /\ pc = "attach"
    BY <2>1
  <2>3. policies \cup {policy} = SelfPolicies
    BY <2>2, <1>8 DEF SelfPolicies
  <2>4. content'[w] = Filled(RoleNames, FullLinks(w), SelfPolicies, {})
    BY <1>6, <2>3
  <2>5. adm'[c].pc = "attach"
    BY <1>3, <2>2
  <2>6. Staged(adm[c])'
    BY <1>3, <2>4, <2>5 DEF Staged
  <2> QED
    BY <1>1, <1>2, <1>3, <2>5, <2>6, Advance DEF Provisioning
<1> QED
  BY <1>7, <1>8

LEMMA PoliciesAreAttached ==
    ASSUME TypeOK, CreationInv, NEW c \in Callers, AttachPolicies(c)
    PROVE  CreationInv'
<1> DEFINE w == adm[c].ws
<1>1. /\ adm[c].pc = "attach" /\ Live(w) /\ UNCHANGED <<rows, excuses>>
      /\ content'[w] = [There(c) EXCEPT !.attached = SelfPolicies]
      /\ \A v \in Workspaces \ {w} : content'[v] = content[v]
  BY PutsFacts DEF AttachPolicies
<1>2. IsAllowed(adm[c].perms, Star)
  BY <1>1 DEF CreationInv, Creation, Provisioning
<1>3. /\ adm'[c].pc = "project" /\ adm'[c].ws = w /\ adm'[c].scope = adm[c].scope
      /\ \A d \in Callers \ {c} : adm'[d] = adm[d]
  BY CreationPoints DEF AttachPolicies
<1>4. IsAllowed(adm'[c].perms, Star)
  <2>1. {Perm("project", "create")} \in SUBSET Escalations
    BY DEF Escalations
  <2> QED
    BY <1>2, <2>1, StaysAdmin DEF AttachPolicies
<1>5. content[w] = Filled(RoleNames, FullLinks(w), SelfPolicies, {})
  BY <1>1 DEF CreationInv, Creation, Staged, Provisioning
<1>6. content'[w] = Filled(RoleNames, FullLinks(w), SelfPolicies, SelfPolicies)
  BY <1>1, <1>5 DEF There, Filled
<1>7. Staged(adm[c])'
  BY <1>3, <1>6 DEF Staged
<1> QED
  BY <1>1, <1>2, <1>3, <1>4, <1>7, Advance DEF Provisioning

\* A creation ends.
LEMMA CreationEnds ==
    ASSUME TypeOK, CreationInv, NEW c \in Callers,
           adm[c].pc \in Provisioning,
           adm'[c] = IdleAdm, \A d \in Callers \ {c} : adm'[d] = adm[d],
           UNCHANGED rows,
           \A v \in Workspaces \ {adm[c].ws} :
               content'[v] = content[v] /\ excuses'[v] = excuses[v],
           Live(adm[c].ws) /\ excuses'[adm[c].ws] = {}
               => content'[adm[c].ws] = FullContent(adm[c].ws),
           "notAdmin" \in excuses'[adm[c].ws] => content'[adm[c].ws] = NoContent,
           \A role \in RoleNames :
               \A row \in content'[adm[c].ws].links[role] : row[1] = adm[c].ws
    PROVE  CreationInv'
<1> DEFINE w == adm[c].ws
<1>1. \A v \in Workspaces : Live(v)' <=> Live(v)
  BY DEF Live
<1>2. adm'[c].pc = "idle" /\ adm'[c].pc \notin Provisioning
  BY DEF IdleAdm, Provisioning
<1>3. rows[w].state # "unborn"
  BY DEF CreationInv, Creation
<1>4. ASSUME NEW d \in Callers
      PROVE  Creation(adm[d])'
  <2>1. CASE d = c
    BY <2>1, <1>2 DEF Creation
  <2>2. CASE d # c
    <3>1. adm'[d] = adm[d] /\ adm[d].ws \in Workspaces /\ Creation(adm[d])
      BY <2>2, ThereType DEF CreationInv
    <3>2. ASSUME adm[d].pc \in Provisioning
          PROVE  /\ content'[adm[d].ws] = content[adm[d].ws]
                 /\ excuses'[adm[d].ws] = excuses[adm[d].ws]
      BY <2>2, <3>1, <3>2 DEF CreationInv, OneCreator
    <3>3. ASSUME adm[d].pc \in Provisioning
          PROVE  Staged(adm[d])' <=> Staged(adm[d])
      BY <3>1, <3>2, <3>3 DEF Staged
    <3> QED
      BY <3>1, <3>2, <3>3, <1>1 DEF Creation
  <2> QED
    BY <2>1, <2>2
<1>5. OneCreator'
  BY <1>2 DEF CreationInv, OneCreator
<1>6. ProvisionedUnlessExcused'
  <2> SUFFICES ASSUME NEW v \in Workspaces, Live(v)', excuses'[v] = {},
                      \A d \in Callers : ~AtWorkOn(d, v)'
               PROVE  content'[v] = FullContent(v)
    BY DEF ProvisionedUnlessExcused
  <2>1. CASE v = w
    BY <2>1, <1>1
  <2>2. CASE v # w
    <3>1. \A d \in Callers : ~AtWorkOn(d, v)
      BY <2>2 DEF AtWorkOn
    <3> QED
      BY <2>2, <3>1, <1>1 DEF CreationInv, ProvisionedUnlessExcused
  <2> QED
    BY <2>1, <2>2
<1>7. RefusedBeforeContent'
  BY DEF CreationInv, RefusedBeforeContent
<1>8. LinksStayInside'
  BY DEF CreationInv, LinksStayInside
<1>9. \A v \in Workspaces : rows'[v].state = "unborn" => content'[v] = NoContent
  BY <1>3 DEF CreationInv
<1> QED
  BY <1>4, <1>5, <1>6, <1>7, <1>8, <1>9 DEF CreationInv

LEMMA ProjectIsInserted ==
    ASSUME TypeOK, CreationInv, NEW c \in Callers, InsertProject(c)
    PROVE  CreationInv'
<1> DEFINE w == adm[c].ws
<1>1. /\ adm[c].pc = "project" /\ Live(w) /\ UNCHANGED <<rows, excuses>>
      /\ content'[w] = [There(c) EXCEPT !.projects = {"Default"}]
      /\ \A v \in Workspaces \ {w} : content'[v] = content[v]
  BY PutsFacts DEF InsertProject
<1>2. IsAllowed(adm[c].perms, Star) /\ "notAdmin" \notin excuses[w]
  BY <1>1 DEF CreationInv, Creation, Provisioning
<1>3. adm'[c] = IdleAdm /\ \A d \in Callers \ {c} : adm'[d] = adm[d]
  BY DEF InsertProject, TypeOK
<1>4. content[w] = Filled(RoleNames, FullLinks(w), SelfPolicies, SelfPolicies)
  BY <1>1 DEF CreationInv, Creation, Staged, Provisioning
<1>5. content'[w] = FullContent(w)
  <2>1. content'[w] = [Filled(RoleNames, FullLinks(w), SelfPolicies, SelfPolicies)
                          EXCEPT !.projects = {"Default"}]
    BY <1>1, <1>4 DEF There
  <2> QED
    BY <2>1 DEF Filled, FullContent, FullLinks
<1>6. \A role \in RoleNames : \A row \in content'[w].links[role] : row[1] = w
  BY <1>5 DEF FullContent
<1> QED
  BY <1>1, <1>2, <1>3, <1>5, <1>6, CreationEnds DEF Provisioning

\* A system admin is refused nothing.
LEMMA AdminIsPermitted ==
    ASSUME TypeOK, NEW c \in Callers, adm[c].pc \in Checked, adm[c].scope = adm[c].ws,
           IsAllowed(adm[c].perms, Star)
    PROVE  Permitted(c)
<1>1. adm[c].perms \in SUBSET Rules
  BY ThereType DEF AdmState
<1>2. \A required : MayIn(c, required)
  BY <1>1, StarMatchesAll DEF MayIn
<1> QED
  BY <1>2 DEF Checked, Permitted, Doing, MayCreate

LEMMA RefusalIsExcused ==
    ASSUME TypeOK, CreationInv, NEW c \in Callers, Refuse(c)
    PROVE  CreationInv'
<1> DEFINE w == adm[c].ws
<1>1. adm[c].pc \in Checked /\ ~Permitted(c) /\ UNCHANGED <<rows, content, excuses>>
  BY DEF Refuse
<1>2. adm[c].pc \in Provisioning /\ w \in Workspaces
  BY <1>1, ThereType DEF Checked, Provisioning
<1>3. adm'[c] = IdleAdm /\ \A d \in Callers \ {c} : adm'[d] = adm[d]
  BY DEF Refuse, TypeOK
<1>4. adm[c].scope = w /\ (Live(w) /\ excuses[w] = {} => IsAllowed(adm[c].perms, Star))
  BY <1>2 DEF CreationInv, Creation
<1>5. ~(Live(w) /\ excuses[w] = {})
  BY <1>1, <1>4, AdminIsPermitted
<1>6. "notAdmin" \in excuses[w] => content[w] = NoContent
  BY <1>2 DEF CreationInv, RefusedBeforeContent
<1>7. \A role \in RoleNames : \A row \in content[w].links[role] : row[1] = w
  BY <1>2 DEF CreationInv, LinksStayInside
<1> QED
  BY <1>1, <1>2, <1>3, <1>5, <1>6, <1>7, CreationEnds

LEMMA AbortIsExcused ==
    ASSUME TypeOK, CreationInv, NEW c \in Callers, Abort(c)
    PROVE  CreationInv'
<1> DEFINE w == adm[c].ws
<1>1. /\ UNCHANGED <<rows, content>> /\ w \in Workspaces
      /\ adm'[c] = IdleAdm /\ \A d \in Callers \ {c} : adm'[d] = adm[d]
  BY ThereType DEF Abort, TypeOK
<1>2. CASE adm[c].pc \in Provisioning
  <2>1. \A v \in Workspaces \ {w} : excuses'[v] = excuses[v]
    BY <1>2 DEF Abort, TypeOK
  <2>2. Live(w) => excuses'[w] # {}
    BY <1>1, <1>2 DEF Abort, TypeOK
  <2>3. "notAdmin" \in excuses'[w] => "notAdmin" \in excuses[w]
    BY <1>1, <1>2 DEF Abort, TypeOK
  <2>4. "notAdmin" \in excuses[w] => content[w] = NoContent
    BY <1>1 DEF CreationInv, RefusedBeforeContent
  <2>5. \A role \in RoleNames : \A row \in content[w].links[role] : row[1] = w
    BY <1>1 DEF CreationInv, LinksStayInside
  <2> QED
    BY <1>1, <1>2, <2>1, <2>2, <2>3, <2>4, <2>5, CreationEnds
<1>3. CASE adm[c].pc \notin Provisioning
  <2>1. UNCHANGED excuses
    BY <1>3 DEF Abort
  <2>2. adm'[c].pc = "idle" /\ adm'[c].pc \notin Provisioning
    BY <1>1 DEF IdleAdm, Provisioning
  <2> QED
    BY <1>1, <1>3, <2>1, <2>2, CreationAside
<1> QED
  BY <1>2, <1>3

\* A deletion takes everything; a creation that was at work finds nothing.
LEMMA DeletionLeavesNothing ==
    ASSUME TypeOK, CreationInv, NEW c \in Callers, DeleteWorkspace(c)
    PROVE  CreationInv'
<1> DEFINE w == adm[c].ws
<1>1. /\ adm[c].pc = "delete" /\ w \in Workspaces
      /\ rows'[w].state = "gone" /\ content'[w] = NoContent /\ excuses'[w] = {}
      /\ \A v \in Workspaces \ {w} : /\ rows'[v] = rows[v] /\ content'[v] = content[v]
                                      /\ excuses'[v] = excuses[v]
  BY ThereType DEF DeleteWorkspace, Doing, TypeOK
<1>2. /\ adm'[c].pc = "inval" /\ adm'[c].pc \notin Provisioning
      /\ adm[c].pc \notin Provisioning
      /\ \A d \in Callers \ {c} : adm'[d] = adm[d]
  BY <1>1, CreationPoints DEF DeleteWorkspace, Provisioning
<1>3. \A v \in Workspaces : Live(v)' <=> v # w /\ Live(v)
  BY <1>1 DEF Live
<1>4. ASSUME NEW d \in Callers
      PROVE  Creation(adm[d])'
  <2>1. CASE d = c
    BY <2>1, <1>2 DEF Creation
  <2>2. CASE d # c
    <3>1. adm'[d] = adm[d] /\ adm[d].ws \in Workspaces /\ Creation(adm[d])
      BY <2>2, <1>2, ThereType DEF CreationInv
    <3>2. CASE adm[d].ws = w
      BY <3>1, <3>2, <1>1, <1>3 DEF Creation
    <3>3. CASE adm[d].ws # w
      <4>1. Staged(adm[d])' <=> Staged(adm[d])
        BY <3>1, <3>3, <1>1 DEF Staged
      <4> QED
        BY <3>1, <3>3, <4>1, <1>1, <1>3 DEF Creation
    <3> QED
      BY <3>2, <3>3
  <2> QED
    BY <2>1, <2>2
<1>5. OneCreator'
  BY <1>2 DEF CreationInv, OneCreator
<1>6. ProvisionedUnlessExcused'
  BY <1>1, <1>2, <1>3 DEF CreationInv, ProvisionedUnlessExcused, AtWorkOn
<1>7. RefusedBeforeContent'
  BY <1>1 DEF CreationInv, RefusedBeforeContent
<1>8. LinksStayInside'
  <2> SUFFICES ASSUME NEW v \in Workspaces, NEW role \in RoleNames,
                      NEW row \in content'[v].links[role]
               PROVE  row[1] = v
    BY DEF LinksStayInside
  <2> QED
    BY <1>1 DEF CreationInv, LinksStayInside, NoContent
<1>9. \A v \in Workspaces : rows'[v].state = "unborn" => content'[v] = NoContent
  BY <1>1 DEF CreationInv
<1> QED
  BY <1>4, <1>5, <1>6, <1>7, <1>8, <1>9 DEF CreationInv

LEMMA NextCreation == TypeOK /\ CreationInv /\ [Next]_vars => CreationInv'
<1> SUFFICES ASSUME TypeOK, CreationInv, [Next]_vars
             PROVE  CreationInv'
  OBVIOUS
<1>1. ASSUME NEW r \in Requests, ResolveNext(r)
      PROVE  CreationInv'
  BY <1>1, CreationFrame
     DEF ResolveNext, FetchMiss, ReadRow, Fill, FillUnacknowledged, Written, EndRequest
<1>2. ASSUME NEW c \in Callers, NEW granted \in Grants, NEW slug \in Slugs,
             NEW config \in Configs, BeginCreate(c, granted, slug, config)
      PROVE  CreationInv'
  <2>1. adm[c].pc = "idle" /\ UNCHANGED <<rows, content, excuses>>
    BY <1>2 DEF BeginCreate, Doing
  <2>2. /\ adm'[c].pc = "insert" /\ adm'[c].role = "viewer"
        /\ \A d \in Callers \ {c} : adm'[d] = adm[d]
    BY <1>2 DEF BeginCreate, TypeOK, IdleAdm
  <2>3. adm[c].pc \notin Provisioning /\ adm'[c].pc \notin Provisioning
    BY <2>1, <2>2 DEF Provisioning
  <2> QED
    BY <2>1, <2>2, <2>3, CreationAside
<1>3. ASSUME NEW c \in Callers, NEW granted \in Grants, NEW w \in Named,
             \/ \E config \in Configs : BeginUpdate(c, granted, w, config)
             \/ BeginDelete(c, granted, w)
      PROVE  CreationInv'
  <2>1. PICK pc \in {"write", "delete"}, config \in Configs :
            BeginWrite(c, granted, w, IF pc = "write" THEN "update" ELSE "delete", pc, config)
    BY <1>3, DefaultAssumption DEF BeginUpdate, BeginDelete
  <2>2. adm[c].pc = "idle" /\ UNCHANGED <<rows, content, excuses>>
    BY <2>1 DEF BeginWrite, Doing
  <2>3. adm'[c].pc = pc /\ \A d \in Callers \ {c} : adm'[d] = adm[d]
    BY <2>1 DEF BeginWrite, TypeOK, IdleAdm
  <2>4. /\ adm[c].pc \notin Provisioning /\ adm'[c].pc \notin Provisioning
        /\ adm'[c].pc # "insert"
    BY <2>2, <2>3 DEF Provisioning
  <2> QED
    BY <2>2, <2>3, <2>4, CreationAside
<1>4. ASSUME NEW c \in Callers, WriteWorkspace(c)
      PROVE  CreationInv'
  <2>1. adm[c].pc = "write" /\ UNCHANGED <<content, excuses>>
    BY <1>4 DEF WriteWorkspace, Doing
  <2>2. adm'[c].pc = "inval" /\ \A d \in Callers \ {c} : adm'[d] = adm[d]
    BY <1>4, CreationPoints DEF WriteWorkspace
  <2>3. \A w \in Workspaces : rows'[w].state = rows[w].state
    BY <1>4 DEF WriteWorkspace, TypeOK, Row
  <2>4. adm[c].pc \notin Provisioning /\ adm'[c].pc \notin Provisioning
    BY <2>1, <2>2 DEF Provisioning
  <2> QED
    BY <2>1, <2>2, <2>3, <2>4, CreationAside
<1>5. ASSUME NEW c \in Callers, Invalidate(c) \/ InvalidateUnacknowledged(c)
      PROVE  CreationInv'
  <2>1. adm[c].pc = "inval" /\ UNCHANGED <<rows, content, excuses>>
    BY <1>5 DEF Invalidate, InvalidateUnacknowledged, Deleted, Doing
  <2>2. /\ adm'[c].pc \in {"idle", "inval"}
        /\ \A d \in Callers \ {c} : adm'[d] = adm[d]
    BY <1>5, <2>1 DEF Invalidate, InvalidateUnacknowledged, TypeOK, IdleAdm
  <2>3. /\ adm[c].pc \notin Provisioning /\ adm'[c].pc \notin Provisioning
        /\ adm'[c].pc # "insert"
    BY <2>1, <2>2 DEF Provisioning
  <2> QED
    BY <2>1, <2>2, <2>3, CreationAside
<1>6. CASE UNCHANGED vars
  BY <1>6, CreationFrame DEF vars
<1> QED
  BY <1>1, <1>2, <1>3, <1>4, <1>5, <1>6, CreateStarts, PermsAreInserted, PermsAreFound,
     RoleIsInserted, RoleIsLinked, RoleIsDescribed, PolicyIsInserted, PoliciesAreAttached,
     ProjectIsInserted, RefusalIsExcused, AbortIsExcused, DeletionLeavesNothing
     DEF Next, CreateNext, WriteNext

LEMMA CreationHolds == Spec => []CreationInv
BY InitCreation, NextCreation, TypeCorrect, PTL DEF Spec

\* A live workspace that nobody is creating has everything, or its creation was
\* cut short, or its caller was no system admin.
THEOREM WorkspacesAreProvisioned == Spec => []ProvisionedUnlessExcused
<1>1. CreationInv => ProvisionedUnlessExcused
  BY DEF CreationInv
<1> QED
  BY <1>1, CreationHolds, PTL

\* A caller who is no system admin leaves the workspace it inserted empty.
THEOREM RefusalsComeFirst == Spec => []RefusedBeforeContent
<1>1. CreationInv => RefusedBeforeContent
  BY DEF CreationInv
<1> QED
  BY <1>1, CreationHolds, PTL

\* The roles of a workspace link its own permissions.
THEOREM LinksAreInside == Spec => []LinksStayInside
<1>1. CreationInv => LinksStayInside
  BY DEF CreationInv
<1> QED
  BY <1>1, CreationHolds, PTL

-----------------------------------------------------------------------------
(* The entry.                                                              *)

Invalidating(w) == \E c \in Callers : adm[c].pc = "inval" /\ adm[c].ws = w

\* The entry of one workspace.
Coherent(w) ==
    cache[w].present /\ ~Invalidating(w)
    => /\ cache[w].excuses \subseteq {"viaModel"} => Live(w)
       /\ cache[w].excuses = {} => cache[w].config = rows[w].config

\* The entry that a request is about to write agrees with the row, unless the
\* request knows better.
Holds(q) ==
    q.pc = "fill" => /\ q.excuses \subseteq {"viaModel"} => Live(q.ws)
                     /\ q.excuses = {} => q.config = rows[q.ws].config

EntryInv ==
    /\ \A r \in Requests : Holds(req[r])
    /\ \A w \in Workspaces : Coherent(w)

LEMMA InitEntry == Init => EntryInv
BY DEF Init, EntryInv, Holds, Coherent, NoEntry, IdleReq

\* Whatever leaves the entries, the requests and the invalidations alone and
\* changes no row that is live.
LEMMA EntryFrame ==
    ASSUME TypeOK, EntryInv, UNCHANGED <<cache, req>>,
           \A w \in Workspaces : Live(w) => rows'[w] = rows[w],
           \A w \in Workspaces : Invalidating(w) => Invalidating(w)'
    PROVE  EntryInv'
<1>1. \A w \in Workspaces : Live(w) => Live(w)' /\ rows'[w].config = rows[w].config
  BY DEF Live
<1>2. ASSUME NEW w \in Workspaces
      PROVE  Coherent(w)'
  BY <1>1 DEF EntryInv, Coherent
<1>3. ASSUME NEW r \in Requests
      PROVE  Holds(req[r])'
  <2>1. Holds(req[r]) /\ req'[r] = req[r] /\ req[r].ws \in Workspaces
    BY DEF EntryInv, TypeOK, ReqState
  <2> QED
    BY <1>1, <2>1 DEF Holds
<1> QED
  BY <1>2, <1>3 DEF EntryInv

\* A write to a row that is followed by an invalidation.
LEMMA WriteOverlaps ==
    ASSUME TypeOK, EntryInv, NEW c \in Callers,
           adm[c].pc # "inval", adm'[c].pc = "inval", adm'[c].ws = adm[c].ws,
           \A d \in Callers \ {c} : adm'[d] = adm[d],
           \A v \in Workspaces \ {adm[c].ws} : rows'[v] = rows[v],
           req' = Overlapped(adm[c].ws), UNCHANGED cache
    PROVE  EntryInv'
<1> DEFINE w == adm[c].ws
<1>0. w \in Workspaces
  BY ThereType
<1>1. Invalidating(w)' /\ \A v \in Workspaces : Invalidating(v) => Invalidating(v)'
  BY DEF Invalidating
<1>2. \A v \in Workspaces \ {w} : Live(v)' <=> Live(v)
  BY DEF Live
<1>3. ASSUME NEW v \in Workspaces
      PROVE  Coherent(v)'
  <2>1. CASE v = w
    BY <2>1 DEF Coherent, Invalidating
  <2>2. CASE v # w
    BY <2>2, <1>1, <1>2 DEF EntryInv, Coherent
  <2> QED
    BY <2>1, <2>2
<1>4. ASSUME NEW r \in Requests
      PROVE  Holds(req[r])'
  <2>1. Holds(req[r]) /\ req[r] \in ReqState /\ req[r].ws \in Workspaces
    BY DEF EntryInv, TypeOK, ReqState
  <2>2. CASE req[r].pc = "fill" /\ req[r].ws = w
    <3>1. "overlap" \in req'[r].excuses
      BY <2>1, <2>2 DEF Overlapped, At, ReqState
    <3> QED
      BY <3>1 DEF Holds
  <2>3. CASE ~(req[r].pc = "fill" /\ req[r].ws = w)
    <3>1. req'[r] = req[r]
      BY <2>3 DEF Overlapped, At
    <3> QED
      BY <2>1, <2>3, <3>1, <1>2 DEF Holds
  <2> QED
    BY <2>2, <2>3
<1> QED
  BY <1>3, <1>4 DEF EntryInv

LEMMA NextEntry == TypeOK /\ EntryInv /\ [Next]_vars => EntryInv'
<1> SUFFICES ASSUME TypeOK, EntryInv, [Next]_vars
             PROVE  EntryInv'
  OBVIOUS
<1> USE DEF Doing, At
<1>1. ASSUME NEW r \in Requests, UNCHANGED <<rows, cache, adm>>,
             \A q \in Requests \ {r} : req'[q] = req[q], Holds(req[r])'
      PROVE  EntryInv'
  <2>1. \A w \in Workspaces : Coherent(w)'
    BY <1>1 DEF EntryInv, Coherent, Invalidating, Live
  <2>2. ASSUME NEW q \in Requests
        PROVE  Holds(req[q])'
    BY <1>1 DEF EntryInv, Holds, Live
  <2> QED
    BY <2>1, <2>2 DEF EntryInv
<1>2. ASSUME NEW r \in Requests, NEW w \in Named, NEW viaModel \in BOOLEAN,
             FetchMiss(r, w, viaModel)
      PROVE  EntryInv'
  <2>1. req'[r].pc = "read" /\ \A q \in Requests \ {r} : req'[q] = req[q]
    BY <1>2 DEF FetchMiss, TypeOK, IdleReq
  <2> QED
    BY <1>1, <1>2, <2>1 DEF FetchMiss, Holds
<1>3. ASSUME NEW r \in Requests, ReadRow(r)
      PROVE  EntryInv'
  <2>1. /\ \A q \in Requests \ {r} : req'[q] = req[q]
        /\ req'[r].ws = req[r].ws
        /\ req[r].viaModel => req'[r].excuses = {"viaModel"}
        /\ ~req[r].viaModel => req'[r].config = rows[req[r].ws].config
    BY <1>3 DEF ReadRow, TypeOK, ReqState
  <2>2. Live(req[r].ws) /\ UNCHANGED <<rows, cache, adm>>
    BY <1>3 DEF ReadRow
  <2>3. req[r].viaModel \in BOOLEAN
    BY DEF TypeOK, ReqState
  <2>4. Holds(req[r])'
    BY <2>1, <2>2, <2>3 DEF Holds, Live
  <2> QED
    BY <1>1, <2>1, <2>2, <2>4
<1>4. ASSUME NEW r \in Requests, EndRequest(r)
      PROVE  EntryInv'
  <2>1. req'[r].pc = "idle" /\ \A q \in Requests \ {r} : req'[q] = req[q]
    BY <1>4 DEF EndRequest, TypeOK, IdleReq
  <2> QED
    BY <1>1, <1>4, <2>1 DEF EndRequest, Holds
<1>5. ASSUME NEW r \in Requests, Fill(r) \/ FillUnacknowledged(r)
      PROVE  EntryInv'
  <2> DEFINE v == req[r].ws
  <2>1. /\ req[r].pc = "fill" /\ v \in Workspaces /\ Holds(req[r])
        /\ cache'[v] = [present |-> TRUE, config |-> req[r].config, excuses |-> req[r].excuses]
        /\ \A w \in Workspaces \ {v} : cache'[w] = cache[w]
        /\ UNCHANGED <<rows, adm>>
    BY <1>5 DEF Fill, FillUnacknowledged, Written, TypeOK, ReqState, EntryInv
  <2>2. \A w \in Workspaces : Coherent(w)'
    BY <2>1 DEF EntryInv, Coherent, Holds, Live, Invalidating
  <2>3. ASSUME NEW q \in Requests
        PROVE  Holds(req[q])'
    <3>1. req'[q] = req[q] \/ req'[q].pc = "idle"
      BY <1>5 DEF Fill, FillUnacknowledged, TypeOK, IdleReq
    <3> QED
      BY <3>1, <2>1 DEF EntryInv, Holds, Live
  <2> QED
    BY <2>2, <2>3 DEF EntryInv
<1>6. ASSUME NEW c \in Callers,
             adm[c].pc # "inval", \A d \in Callers \ {c} : adm'[d] = adm[d]
      PROVE  \A w \in Workspaces : Invalidating(w) => Invalidating(w)'
  BY <1>6 DEF Invalidating
<1>7. ASSUME NEW c \in Callers, CreateNext(c)
      PROVE  EntryInv'
  <2>1. /\ UNCHANGED <<cache, req>>
        /\ adm[c].pc # "inval" /\ \A d \in Callers \ {c} : adm'[d] = adm[d]
    BY <1>7 DEF CreateNext, BeginCreate, InsertWorkspace, InsertPerms, FindPerms, InsertRole,
                LinkRole, DescribeRole, InsertPolicy, AttachPolicies, InsertProject, Refuse,
                Puts, Go, GoWith, Checked, TypeOK
  <2>2. \A w \in Workspaces : Live(w) => rows'[w] = rows[w]
    BY <1>7 DEF CreateNext, BeginCreate, InsertWorkspace, InsertPerms, FindPerms, InsertRole,
                LinkRole, DescribeRole, InsertPolicy, AttachPolicies, InsertProject, Refuse,
                Puts, TypeOK, Live
  <2> QED
    BY <1>6, <2>1, <2>2, EntryFrame
<1>8. ASSUME NEW c \in Callers, NEW granted \in Grants, NEW w \in Named,
             \/ \E config \in Configs : BeginUpdate(c, granted, w, config)
             \/ BeginDelete(c, granted, w)
      PROVE  EntryInv'
  <2>1. /\ UNCHANGED <<rows, cache, req>>
        /\ adm[c].pc # "inval" /\ \A d \in Callers \ {c} : adm'[d] = adm[d]
    BY <1>8 DEF BeginUpdate, BeginDelete, BeginWrite, TypeOK
  <2> QED
    BY <1>6, <2>1, EntryFrame
<1>9. ASSUME NEW c \in Callers, WriteWorkspace(c) \/ DeleteWorkspace(c)
      PROVE  EntryInv'
  <2>1. adm[c].pc # "inval" /\ adm[c].ws \in Workspaces
    BY <1>9, ThereType DEF WriteWorkspace, DeleteWorkspace
  <2>2. Go(c, "inval")
    BY <1>9 DEF WriteWorkspace, DeleteWorkspace
  <2>3. /\ adm'[c].pc = "inval" /\ adm'[c].ws = adm[c].ws
        /\ \A d \in Callers \ {c} : adm'[d] = adm[d]
    BY <2>2, CreationPoints
  <2>4. /\ req' = Overlapped(adm[c].ws) /\ UNCHANGED cache
        /\ \A v \in Workspaces \ {adm[c].ws} : rows'[v] = rows[v]
    BY <1>9 DEF WriteWorkspace, DeleteWorkspace, TypeOK
  <2> QED
    BY <2>1, <2>3, <2>4, WriteOverlaps
<1>10. ASSUME NEW c \in Callers, Invalidate(c) \/ InvalidateUnacknowledged(c)
       PROVE  EntryInv'
  <2> DEFINE w == adm[c].ws
  <2>1. /\ UNCHANGED <<rows, req>> /\ w \in Workspaces
        /\ ~cache'[w].present /\ \A v \in Workspaces \ {w} : cache'[v] = cache[v]
        /\ \A d \in Callers \ {c} : adm'[d] = adm[d]
    BY <1>10, ThereType DEF Invalidate, InvalidateUnacknowledged, Deleted, TypeOK, NoEntry
  <2>2. \A v \in Workspaces \ {w} : Invalidating(v) => Invalidating(v)'
    BY <2>1 DEF Invalidating
  <2>3. ASSUME NEW v \in Workspaces
        PROVE  Coherent(v)'
    BY <2>1, <2>2 DEF EntryInv, Coherent, Live
  <2>4. ASSUME NEW r \in Requests
        PROVE  Holds(req[r])'
    BY <2>1 DEF EntryInv, Holds, Live
  <2> QED
    BY <2>3, <2>4 DEF EntryInv
<1>11. ASSUME NEW c \in Callers, Abort(c)
       PROVE  EntryInv'
  <2> DEFINE w == adm[c].ws
  <2>1. /\ UNCHANGED <<rows, req>> /\ w \in Workspaces
        /\ \A d \in Callers \ {c} : adm'[d] = adm[d]
    BY <1>11, ThereType DEF Abort, TypeOK
  <2>2. CASE adm[c].pc # "inval"
    <3>1. UNCHANGED cache
      BY <1>11, <2>2 DEF Abort
    <3> QED
      BY <1>6, <2>1, <2>2, <3>1, EntryFrame
  <2>3. CASE adm[c].pc = "inval"
    <3>1. /\ \A v \in Workspaces \ {w} : cache'[v] = cache[v]
          /\ cache'[w].present => "abandoned" \in cache'[w].excuses
      BY <1>11, <2>1, <2>3 DEF Abort, Excused, TypeOK, Entry
    <3>2. \A v \in Workspaces \ {w} : Invalidating(v) => Invalidating(v)'
      BY <2>1 DEF Invalidating
    <3>3. ASSUME NEW v \in Workspaces
          PROVE  Coherent(v)'
      BY <2>1, <3>1, <3>2 DEF EntryInv, Coherent, Live
    <3>4. ASSUME NEW r \in Requests
          PROVE  Holds(req[r])'
      BY <2>1 DEF EntryInv, Holds, Live
    <3> QED
      BY <3>3, <3>4 DEF EntryInv
  <2> QED
    BY <2>2, <2>3
<1>12. CASE UNCHANGED vars
  BY <1>12, EntryFrame DEF vars, Invalidating
<1> QED
  BY <1>2, <1>3, <1>4, <1>5, <1>7, <1>8, <1>9, <1>10, <1>11, <1>12
     DEF Next, ResolveNext, WriteNext

\* With no invalidation outstanding the entry agrees with the row, but for the
\* overlaps, the abandoned invalidations and the lost configuration.
THEOREM EntriesAreCoherent == Spec => []EntryCoherentUnlessExcused
<1>1. EntryInv => EntryCoherentUnlessExcused
  BY DEF EntryInv, Coherent, Invalidating, EntryCoherentUnlessExcused, Doing
<1> QED
  BY <1>1, InitEntry, NextEntry, TypeCorrect, PTL DEF Spec

=============================================================================
