----------------------------- MODULE Onboarding -----------------------------
(***************************************************************************)
(* How people come into the system and leave it: accounts, profiles (the   *)
(* person as one workspace sees it) and memberships.                       *)
(*                                                                         *)
(* AuthService::create_account, used by register, inserts an account, a    *)
(* profile, a membership and a credential with statements of their own and *)
(* undoes them by deleting the account, from which foreign keys cascade.   *)
(* Administrators create and delete the same rows meanwhile.  Each check   *)
(* is a statement of its own, before the one it guards; what the database  *)
(* enforces itself (unique indexes, foreign keys) is part of the INSERT or *)
(* DELETE.  Any statement may fail, and the timeout of the web layer drops *)
(* a request between two of them.                                          *)
(*                                                                         *)
(* All requests here are about one e-mail address, so that at most one     *)
(* account exists at a time.  A workspace has one project, which can be    *)
(* deleted.                                                                *)
(***************************************************************************)
EXTENDS Naturals

CONSTANTS
    Accounts,       \* account ids, each with the one request that creates it
    Workspaces,
    Admins,         \* administrative requests
    MaxMemberships  \* bound: memberships that are ever inserted

ASSUME MaxAssumption == MaxMemberships \in Nat

VARIABLES
    accounts,       \* the account rows
    profiles,       \* the profile rows: account and workspace
    memberships,    \* the membership rows
    made,           \* number of memberships inserted so far
    projects,       \* workspaces whose project exists
    creating,       \* the state of the request that creates each account
    adm,            \* the state of each administrative request
    attached,       \* profiles that have had a membership
    abandoned,      \* profiles whose clean-up a request did not get to
    cascaded        \* profiles whose last membership went with its project

rows == <<accounts, profiles, memberships, made, projects>>
notes == <<attached, abandoned, cascaded>>
vars == <<rows, creating, adm, notes>>

Scopes == {"workspace", "project"}
Profile == Accounts \X Workspaces
Membership == [id : 1..MaxMemberships, profile : Profile, scope : Scopes]
NoMembership == [id |-> 0]

Account(m) == m.profile[1]
Workspace(m) == m.profile[2]
Of(account) == {m \in memberships : Account(m) = account}
On(profile) == {m \in memberships : m.profile = profile}

Creation == [pc : {"idle", "insert", "profile", "guard", "membership", "credential",
                   "cleanList", "cleanDelete", "created", "failed", "leftover",
                   "dropped"},
             kind : {"register", "admin"}, workspace : Workspaces]

\* checked: the request may delete the account only if the check allowed it;
\* overtaken: a membership of that account was inserted after the check.
AdmState == [pc : {"idle", "insert", "delete", "invalidate", "listRemaining",
                   "deleteProfile", "deleteAccount"},
             profile : Profile \cup {<<>>}, scope : Scopes,
             membership : Membership \cup {NoMembership},
             checked : BOOLEAN, overtaken : BOOLEAN]
IdleAdm == [pc |-> "idle", profile |-> <<>>, scope |-> "workspace",
            membership |-> NoMembership, checked |-> FALSE, overtaken |-> FALSE]

TypeOK ==
    /\ accounts \subseteq Accounts
    /\ \A a, b \in accounts : a = b
    /\ profiles \subseteq accounts \X Workspaces
    /\ memberships \subseteq [id : 1..made, profile : profiles, scope : Scopes]
    /\ \A m, n \in memberships :
          m.profile = n.profile /\ m.scope = n.scope => m = n
    /\ made \in 0..MaxMemberships
    /\ projects \subseteq Workspaces
    /\ \A m \in memberships : m.scope = "project" => Workspace(m) \in projects
    /\ creating \in [Accounts -> Creation]
    /\ adm \in [Admins -> AdmState]
    /\ attached \subseteq profiles
    /\ \A m \in memberships : m.profile \in attached
    /\ abandoned \subseteq attached
    /\ cascaded \subseteq attached

Init ==
    /\ accounts = {}
    /\ profiles = {}
    /\ memberships = {}
    /\ made = 0
    /\ projects = Workspaces
    /\ creating \in [Accounts -> [pc : {"idle"}, kind : {"register", "admin"},
                                  workspace : Workspaces]]
    /\ adm = [w \in Admins |-> IdleAdm]
    /\ attached = {}
    /\ abandoned = {}
    /\ cascaded = {}

-----------------------------------------------------------------------------
(* The statements.                                                         *)

\* Mutant: the guard before the INSERT is all there is.
MayInsertUnindexed(profile, scope) ==
    /\ profile \in profiles
    /\ scope = "project" => profile[2] \in projects

\* INSERT INTO membership: the foreign keys on profile and project, and the
\* partial unique indexes on (account, workspace) and (account, project).
MayInsert(profile, scope) ==
    /\ profile \in profiles
    /\ scope = "project" => profile[2] \in projects
    /\ ~\E m \in On(profile) : m.scope = scope

InsertMembership(profile, scope) ==
    /\ made < MaxMemberships
    /\ MayInsert(profile, scope)
    /\ made' = made + 1
    /\ memberships' = memberships \cup {[id |-> made', profile |-> profile,
                                         scope |-> scope]}
    /\ attached' = attached \cup {profile}
    /\ abandoned' = abandoned \ {profile}
    /\ cascaded' = cascaded \ {profile}
    /\ UNCHANGED <<accounts, profiles, projects>>

\* DELETE FROM account, with everything that refers to it.
RemoveAccount(account) ==
    /\ accounts' = accounts \ {account}
    /\ profiles' = {profile \in profiles : profile[1] # account}
    /\ memberships' = memberships \ Of(account)
    /\ attached' = attached \cap profiles'
    /\ abandoned' = abandoned \cap profiles'
    /\ cascaded' = cascaded \cap profiles'
    /\ UNCHANGED <<made, projects>>

-----------------------------------------------------------------------------
(* Creating an account: register, or an administrator's request.           *)

Creating(a, pc) == creating[a].pc = pc
Goto(a, pc) == creating' = [creating EXCEPT ![a].pc = pc]
HomeOf(a) == <<a, creating[a].workspace>>

\* The e-mail address is looked up.
CheckEmail(a) ==
    /\ Creating(a, "idle")
    /\ Goto(a, IF accounts = {} THEN "insert" ELSE "failed")
    /\ UNCHANGED <<rows, adm, notes>>

\* INSERT INTO account, with its unique index on the address.
InsertAccount(a) ==
    /\ Creating(a, "insert")
    /\ accounts = {}
    /\ accounts' = {a}
    /\ Goto(a, IF creating[a].kind = "register" THEN "profile" ELSE "created")
    /\ UNCHANGED <<profiles, memberships, made, projects, adm, notes>>

\* ProfileService::create: its two lookups answer what the unique index
\* answers, and both lead to the same clean-up.
InsertProfile(a) ==
    /\ Creating(a, "profile")
    /\ a \in accounts
    /\ HomeOf(a) \notin profiles
    /\ profiles' = profiles \cup {HomeOf(a)}
    /\ Goto(a, "guard")
    /\ UNCHANGED <<accounts, memberships, made, projects, adm, notes>>

\* MembershipService::create, up to the guard: one membership per account
\* per workspace.
GuardMembership(a) ==
    /\ Creating(a, "guard")
    /\ Goto(a, IF HomeOf(a) \in profiles /\ On(HomeOf(a)) = {}
               THEN "membership" ELSE "cleanList")
    /\ UNCHANGED <<rows, adm, notes>>

\* Requests that checked the account's memberships before this one was there.
Overtake(account) ==
    [w \in Admins |-> IF /\ adm[w].pc = "deleteAccount"
                         /\ adm[w].profile[1] = account
                      THEN [adm[w] EXCEPT !.overtaken = TRUE] ELSE adm[w]]

JoinWorkspace(a) ==
    /\ Creating(a, "membership")
    /\ InsertMembership(HomeOf(a), "workspace")
    /\ Goto(a, "credential")
    /\ adm' = Overtake(a)

\* register asks create_account for a password credential, create_account
\* asks CredentialService::create for an OAuth one without a provider id,
\* and CredentialService::create refuses.
RefuseCredential(a) ==
    /\ Creating(a, "credential")
    /\ Goto(a, "cleanList")
    /\ UNCHANGED <<rows, adm, notes>>

\* Mutant: create_account returns the error of the membership as it is.
FailCreationUncompensated(a) ==
    /\ creating[a].pc \in {"insert", "profile", "guard", "membership", "credential"}
    /\ Goto(a, IF creating[a].pc \in {"insert", "membership"} THEN "failed"
               ELSE "cleanList")
    /\ UNCHANGED <<rows, adm, notes>>

\* A statement fails.  Up to the INSERT of the account the error is all that
\* comes of it; later the account is cleaned up.
FailCreation(a) ==
    /\ creating[a].pc \in {"insert", "profile", "guard", "membership", "credential"}
    /\ Goto(a, IF Creating(a, "insert") THEN "failed" ELSE "cleanList")
    /\ UNCHANGED <<rows, adm, notes>>

\* cleanup_onboarding_account: list the memberships and remove their entries,
\* then delete the account.  An error on the way is only logged.
CleanList(a) ==
    /\ Creating(a, "cleanList")
    /\ Goto(a, "cleanDelete")
    /\ UNCHANGED <<rows, adm, notes>>

CleanDelete(a) ==
    /\ Creating(a, "cleanDelete")
    /\ RemoveAccount(a)
    /\ Goto(a, "failed")
    /\ UNCHANGED adm

FailCleanUp(a) ==
    /\ creating[a].pc \in {"cleanList", "cleanDelete"}
    /\ Goto(a, "leftover")
    /\ UNCHANGED <<rows, adm, notes>>

\* The timeout drops the request; nothing is compensated.
DropCreation(a) ==
    /\ creating[a].pc \notin {"idle", "created", "failed", "leftover", "dropped"}
    /\ Goto(a, "dropped")
    /\ UNCHANGED <<rows, adm, notes>>

-----------------------------------------------------------------------------
(* Administrative requests.                                                *)

Doing(w, pc) == adm[w].pc = pc
IsIdle(w) == Doing(w, "idle")
Finish(w) == adm' = [adm EXCEPT ![w] = IdleAdm]
CleaningUp(w) == adm[w].pc \in {"invalidate", "listRemaining", "deleteProfile"}

\* ProfileService::create and ProfileService::delete.
CreateProfile(w, profile) ==
    /\ IsIdle(w)
    /\ profile[1] \in accounts
    /\ profile \notin profiles
    /\ profiles' = profiles \cup {profile}
    /\ UNCHANGED <<accounts, memberships, made, projects, creating, adm, notes>>

RemoveProfile(profile) ==
    /\ profiles' = profiles \ {profile}
    /\ attached' = attached \ {profile}
    /\ abandoned' = abandoned \ {profile}
    /\ cascaded' = cascaded \ {profile}
    /\ UNCHANGED <<accounts, memberships, made, projects, creating>>

DeleteProfile(w, profile) ==
    /\ IsIdle(w)
    /\ profile \in profiles
    /\ On(profile) = {}
    /\ RemoveProfile(profile)
    /\ UNCHANGED adm

\* MembershipService::create: the profile and the guard, then the INSERT.
CheckMembership(w, profile, scope) ==
    /\ IsIdle(w)
    /\ profile \in profiles
    /\ On(profile) = {}
    /\ adm' = [adm EXCEPT ![w] = [IdleAdm EXCEPT !.pc = "insert", !.profile = profile,
                                                 !.scope = scope]]
    /\ UNCHANGED <<rows, creating, notes>>

CreateMembership(w) ==
    /\ Doing(w, "insert")
    /\ InsertMembership(adm[w].profile, adm[w].scope)
    /\ adm' = [Overtake(adm[w].profile[1]) EXCEPT ![w] = IdleAdm]
    /\ UNCHANGED creating

\* MembershipService::delete: describe, DELETE, the two cache entries, and the
\* profile if no membership refers to it any more.
DescribeMembership(w, m) ==
    /\ IsIdle(w)
    /\ adm' = [adm EXCEPT ![w] = [IdleAdm EXCEPT !.pc = "delete", !.profile = m.profile,
                                                 !.membership = m]]
    /\ UNCHANGED <<rows, creating, notes>>

DeleteMembership(w) ==
    /\ Doing(w, "delete")
    /\ adm[w].membership \in memberships
    /\ memberships' = memberships \ {adm[w].membership}
    /\ adm' = [adm EXCEPT ![w].pc = "invalidate"]
    /\ UNCHANGED <<accounts, profiles, made, projects, creating, notes>>

InvalidateEntries(w) ==
    /\ Doing(w, "invalidate")
    /\ adm' = [adm EXCEPT ![w].pc = "listRemaining"]
    /\ UNCHANGED <<rows, creating, notes>>

\* Mutant: the remaining memberships are those the account still has anywhere.
ListRemainingOfAccount(w) ==
    /\ Doing(w, "listRemaining")
    /\ IF Of(adm[w].profile[1]) = {} THEN adm' = [adm EXCEPT ![w].pc = "deleteProfile"]
                                     ELSE Finish(w)
    /\ UNCHANGED <<rows, creating, notes>>

ListRemaining(w) ==
    /\ Doing(w, "listRemaining")
    /\ IF On(adm[w].profile) = {} THEN adm' = [adm EXCEPT ![w].pc = "deleteProfile"]
                                  ELSE Finish(w)
    /\ UNCHANGED <<rows, creating, notes>>

\* The DELETE is restricted by memberships of the profile: it then returns an
\* error, as when the profile has gone.
FollowMembership(w) ==
    /\ Doing(w, "deleteProfile")
    /\ IF adm[w].profile \in profiles /\ On(adm[w].profile) = {}
       THEN RemoveProfile(adm[w].profile) ELSE UNCHANGED <<rows, creating, notes>>
    /\ Finish(w)

\* ProjectService::delete: project-scoped memberships go with the project.
DeleteProject(w, workspace) ==
    /\ IsIdle(w)
    /\ workspace \in projects
    /\ projects' = projects \ {workspace}
    /\ LET gone == {m \in memberships : m.scope = "project" /\ Workspace(m) = workspace}
       IN  /\ memberships' = memberships \ gone
           /\ cascaded' = cascaded \cup {profile \in {m.profile : m \in gone} :
                                             On(profile) \subseteq gone}
    /\ UNCHANGED <<accounts, profiles, made, creating, adm, attached, abandoned>>

\* Mutant: one membership in the workspace of the caller is enough.
NotExclusive(account, workspace) == \E m \in Of(account) : Workspace(m) = workspace

\* check_account_mutation_allowed: the account has memberships, all of them in
\* the workspace of the caller.
Exclusive(account, workspace) ==
    /\ Of(account) # {}
    /\ \A m \in Of(account) : Workspace(m) = workspace

\* AccountService::delete: the check and the DELETE, also for an administrator
\* of the system, whom the check lets pass.
CheckAccount(w, account, workspace) ==
    /\ IsIdle(w)
    /\ account \in accounts
    /\ Exclusive(account, workspace)
    /\ adm' = [adm EXCEPT ![w] = [IdleAdm EXCEPT !.pc = "deleteAccount",
                                                 !.profile = <<account, workspace>>,
                                                 !.checked = TRUE]]
    /\ UNCHANGED <<rows, creating, notes>>

PassSystemAdmin(w, account, workspace) ==
    /\ IsIdle(w)
    /\ account \in accounts
    /\ adm' = [adm EXCEPT ![w] = [IdleAdm EXCEPT !.pc = "deleteAccount",
                                                 !.profile = <<account, workspace>>]]
    /\ UNCHANGED <<rows, creating, notes>>

DeleteAccount(w) ==
    /\ Doing(w, "deleteAccount")
    /\ adm[w].profile[1] \in accounts
    /\ RemoveAccount(adm[w].profile[1])
    /\ Finish(w)
    /\ UNCHANGED creating

\* A statement fails or finds nothing, or the timeout drops the request.
Abandon(w) ==
    /\ ~IsIdle(w)
    /\ abandoned' = IF CleaningUp(w) /\ On(adm[w].profile) = {}
                    THEN abandoned \cup ({adm[w].profile} \cap attached) ELSE abandoned
    /\ Finish(w)
    /\ UNCHANGED <<rows, creating, attached, cascaded>>

-----------------------------------------------------------------------------

CreationStep(a) ==
    \/ CheckEmail(a)
    \/ InsertAccount(a)
    \/ InsertProfile(a)
    \/ GuardMembership(a)
    \/ JoinWorkspace(a)
    \/ RefuseCredential(a)
    \/ FailCreation(a)
    \/ CleanList(a)
    \/ CleanDelete(a)
    \/ FailCleanUp(a)
    \/ DropCreation(a)

AdminStep(w) ==
    \/ \E profile \in Profile : CreateProfile(w, profile)
    \/ \E profile \in Profile : DeleteProfile(w, profile)
    \/ \E profile \in Profile, scope \in Scopes : CheckMembership(w, profile, scope)
    \/ CreateMembership(w)
    \/ \E m \in memberships : DescribeMembership(w, m)
    \/ DeleteMembership(w)
    \/ InvalidateEntries(w)
    \/ ListRemaining(w)
    \/ FollowMembership(w)
    \/ \E workspace \in Workspaces : DeleteProject(w, workspace)
    \/ \E account \in Accounts, workspace \in Workspaces :
          \/ CheckAccount(w, account, workspace)
          \/ PassSystemAdmin(w, account, workspace)
    \/ DeleteAccount(w)
    \/ Abandon(w)

Next ==
    \/ \E a \in Accounts : CreationStep(a)
    \/ \E w \in Admins : AdminStep(w)

Spec == Init /\ [][Next]_vars

-----------------------------------------------------------------------------
(***************************************************************************)
(* Compensation is complete (create_account): once a registration has      *)
(* ended in an error, and was not dropped and its clean-up did not fail,   *)
(* its account is gone whatever others did with it meanwhile, and the      *)
(* e-mail address is free for another try.                                 *)
(***************************************************************************)
RegistrationUndone ==
    \A a \in Accounts :
        creating[a].kind = "register" /\ Creating(a, "failed") => a \notin accounts

(***************************************************************************)
(* "The profile follows the membership" (MembershipService::delete): a     *)
(* profile that has had a membership still has one, or a deletion is on    *)
(* the way to remove it, whatever order concurrent deletions and creations *)
(* list, insert and delete in.  Excepted are the profiles of abandoned     *)
(* requests and of deleted projects.                                       *)
(***************************************************************************)
Followed(profile) ==
    \/ On(profile) # {}
    \/ \E w \in Admins : CleaningUp(w) /\ adm[w].profile = profile

ProfileFollowsMembership ==
    \A profile \in attached \ (abandoned \cup cascaded) : Followed(profile)

(***************************************************************************)
(* The subset rule (check_account_mutation_allowed) holds when the account *)
(* is deleted, not only when it was checked, unless a membership was       *)
(* inserted in between: a caller of one workspace never takes an account   *)
(* away from another one.                                                  *)
(***************************************************************************)
DeletionStaysInWorkspace ==
    \A w \in Admins :
        Doing(w, "deleteAccount") /\ adm[w].checked /\ ~adm[w].overtaken
            => \A m \in Of(adm[w].profile[1]) : Workspace(m) = adm[w].profile[2]

(***************************************************************************)
(* The guard of MembershipService::create as it is documented: one         *)
(* membership per account per workspace.                                   *)
(***************************************************************************)
OneMembershipPerWorkspace ==
    \A m, n \in memberships : m.profile = n.profile => m = n

=============================================================================
