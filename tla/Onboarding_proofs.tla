-------------------------- MODULE Onboarding_proofs -------------------------
(***************************************************************************)
(* Proofs about Onboarding, for any sets of accounts, workspaces and       *)
(* administrators and any number of memberships.                           *)
(***************************************************************************)
EXTENDS Onboarding, TLAPS

-----------------------------------------------------------------------------
(* Types.                                                                  *)

LEMMA IdleAdmType == IdleAdm \in AdmState /\ IdleAdm.pc = "idle" /\ ~IdleAdm.checked
BY DEF IdleAdm, AdmState, Scopes

LEMMA InitType == Init => TypeOK
<1> SUFFICES ASSUME Init PROVE TypeOK
  OBVIOUS
<1>1. creating \in [Accounts -> Creation]
  BY DEF Init, Creation
<1>2. adm \in [Admins -> AdmState]
  BY IdleAdmType DEF Init
<1>3. made \in 0..MaxMemberships
  BY MaxAssumption DEF Init
<1> QED
  BY <1>1, <1>2, <1>3 DEF Init, TypeOK

\* Moving one creation along.
LEMMA CreationMoves ==
    ASSUME TypeOK, NEW a \in Accounts,
           NEW pc \in {"idle", "insert", "profile", "guard", "membership",
                       "credential", "cleanList", "cleanDelete", "created",
                       "failed", "leftover", "dropped"},
           Goto(a, pc)
    PROVE  /\ creating' \in [Accounts -> Creation]
           /\ creating'[a].pc = pc
           /\ \A b \in Accounts : creating'[b].kind = creating[b].kind
           /\ \A b \in Accounts \ {a} : creating'[b] = creating[b]
<1>1. creating \in [Accounts -> Creation]
  BY DEF TypeOK
<1> QED
  BY <1>1 DEF Goto, Creation

\* DELETE FROM account leaves the tables consistent.
LEMMA RemoveAccountType ==
    ASSUME TypeOK, NEW account \in Accounts, RemoveAccount(account),
           creating' \in [Accounts -> Creation], adm' \in [Admins -> AdmState]
    PROVE  TypeOK'
<1>1. profiles' \subseteq accounts' \X Workspaces
  BY DEF TypeOK, RemoveAccount
<1>2. memberships' \subseteq [id : 1..made, profile : profiles', scope : Scopes]
  <2> SUFFICES ASSUME NEW m \in memberships'
               PROVE  m \in [id : 1..made, profile : profiles', scope : Scopes]
    OBVIOUS
  <2>1. m \in memberships /\ Account(m) # account
    BY DEF RemoveAccount, Of
  <2>2. m \in [id : 1..made, profile : profiles, scope : Scopes]
    BY <2>1 DEF TypeOK
  <2>3. m.profile \in profiles'
    BY <2>1, <2>2 DEF RemoveAccount, Account
  <2> QED
    BY <2>2, <2>3
<1> QED
  BY <1>1, <1>2 DEF TypeOK, RemoveAccount, Workspace

\* INSERT INTO membership leaves the tables consistent.
LEMMA InsertMembershipType ==
    ASSUME TypeOK, NEW profile, NEW scope \in Scopes,
           InsertMembership(profile, scope),
           creating' \in [Accounts -> Creation], adm' \in [Admins -> AdmState]
    PROVE  TypeOK'
<1> DEFINE new == [id |-> made', profile |-> profile, scope |-> scope]
<1>1. /\ made \in Nat /\ made' = made + 1 /\ made' \in 0..MaxMemberships
      /\ 1..made \subseteq 1..made' /\ made' \in 1..made'
  BY MaxAssumption DEF TypeOK, InsertMembership
<1>2. memberships' = memberships \cup {new}
  BY DEF InsertMembership
<1>3. /\ profile \in profiles
      /\ ~\E m \in On(profile) : m.scope = scope
      /\ scope = "project" => profile[2] \in projects
  BY DEF InsertMembership, MayInsert
<1>4. memberships' \subseteq [id : 1..made', profile : profiles, scope : Scopes]
  BY <1>1, <1>2, <1>3 DEF TypeOK
<1>5. \A m \in memberships : m.profile = profile => m.scope # scope
  <2> SUFFICES ASSUME NEW m \in memberships, m.profile = profile
               PROVE  m.scope # scope
    OBVIOUS
  <2>1. m \in On(profile)
    BY DEF On
  <2> QED
    BY <2>1, <1>3
<1>6. \A m, n \in memberships' : m.profile = n.profile /\ m.scope = n.scope => m = n
  BY <1>2, <1>5 DEF TypeOK
<1>7. \A m \in memberships' : m.scope = "project" => Workspace(m) \in projects
  <2> SUFFICES ASSUME NEW m \in memberships', m.scope = "project"
               PROVE  Workspace(m) \in projects
    OBVIOUS
  <2>1. CASE m \in memberships
    BY <2>1 DEF TypeOK
  <2>2. CASE m = new
    <3>1. m.profile = profile /\ m.scope = scope
      BY <2>2
    <3> QED
      BY <3>1, <1>3 DEF Workspace
  <2> QED
    BY <2>1, <2>2, <1>2
<1> QED
  BY <1>1, <1>3, <1>4, <1>6, <1>7 DEF TypeOK, InsertMembership, Workspace

\* Overtaking only marks requests.
LEMMA OvertakeType ==
    ASSUME TypeOK, NEW account \in Accounts
    PROVE  /\ Overtake(account) \in [Admins -> AdmState]
           /\ \A w \in Admins :
                 /\ Overtake(account)[w].pc = adm[w].pc
                 /\ Overtake(account)[w].profile = adm[w].profile
                 /\ Overtake(account)[w].membership = adm[w].membership
                 /\ Overtake(account)[w].checked = adm[w].checked
                 /\ adm[w].pc = "deleteAccount" /\ adm[w].profile[1] = account
                       => Overtake(account)[w].overtaken
                 /\ adm[w].overtaken => Overtake(account)[w].overtaken
<1>1. adm \in [Admins -> AdmState]
  BY DEF TypeOK
<1> SUFFICES ASSUME NEW w \in Admins
             PROVE  /\ Overtake(account)[w] \in AdmState
                    /\ Overtake(account)[w].pc = adm[w].pc
                    /\ Overtake(account)[w].profile = adm[w].profile
                    /\ Overtake(account)[w].membership = adm[w].membership
                    /\ Overtake(account)[w].checked = adm[w].checked
                    /\ adm[w].pc = "deleteAccount" /\ adm[w].profile[1] = account
                          => Overtake(account)[w].overtaken
                    /\ adm[w].overtaken => Overtake(account)[w].overtaken
  BY DEF Overtake
<1>2. Overtake(account)[w] = IF adm[w].pc = "deleteAccount" /\ adm[w].profile[1] = account
                             THEN [adm[w] EXCEPT !.overtaken = TRUE] ELSE adm[w]
  BY DEF Overtake
<1>3. [adm[w] EXCEPT !.overtaken = TRUE] \in AdmState
  BY <1>1 DEF AdmState
<1>4. adm[w] \in AdmState
  BY <1>1
<1> QED
  BY <1>2, <1>3, <1>4 DEF AdmState

LEMMA NextType == TypeOK /\ [Next]_vars => TypeOK'
<1> SUFFICES ASSUME TypeOK, [Next]_vars PROVE TypeOK'
  OBVIOUS
<1>0. /\ creating \in [Accounts -> Creation] /\ adm \in [Admins -> AdmState]
      /\ IdleAdm \in AdmState
  BY IdleAdmType DEF TypeOK
\* Steps that only move one request along.
<1>a. ASSUME creating' \in [Accounts -> Creation], UNCHANGED <<rows, adm, notes>>
      PROVE  TypeOK'
  BY <1>a DEF TypeOK, rows, notes, Workspace
<1>b. ASSUME NEW w \in Admins, NEW new \in AdmState, adm' = [adm EXCEPT ![w] = new],
             UNCHANGED <<rows, creating, notes>>
      PROVE  TypeOK'
  BY <1>b DEF TypeOK, rows, notes, Workspace
\* A profile without memberships goes.
<1>c. ASSUME NEW profile \in Profile, On(profile) = {}, RemoveProfile(profile),
             adm' \in [Admins -> AdmState]
      PROVE  TypeOK'
  <2>1. memberships \subseteq [id : 1..made, profile : profiles \ {profile}, scope : Scopes]
    <3> SUFFICES ASSUME NEW m \in memberships
                 PROVE  m \in [id : 1..made, profile : profiles \ {profile}, scope : Scopes]
      OBVIOUS
    <3>1. m \in [id : 1..made, profile : profiles, scope : Scopes]
      BY DEF TypeOK
    <3>2. m.profile # profile
      BY <1>c DEF On
    <3> QED
      BY <3>1, <3>2
  <2> QED
    BY <2>1, <1>c DEF TypeOK, RemoveProfile, Workspace
<1>1. ASSUME NEW a \in Accounts, CreationStep(a)
      PROVE  TypeOK'
  <2>1. CASE CheckEmail(a)
    BY <2>1, <1>a, CreationMoves DEF CheckEmail
  <2>2. CASE InsertAccount(a)
    <3>1. creating' \in [Accounts -> Creation]
      BY <2>2, CreationMoves DEF InsertAccount
    <3>2. profiles = {} /\ memberships = {}
      BY <2>2 DEF InsertAccount, TypeOK
    <3> QED
      BY <2>2, <3>1, <3>2 DEF InsertAccount, TypeOK, notes, Workspace
  <2>3. CASE InsertProfile(a)
    <3>1. creating' \in [Accounts -> Creation]
      BY <2>3, CreationMoves DEF InsertProfile
    <3>2. HomeOf(a) \in accounts \X Workspaces
      BY <2>3, <1>0 DEF InsertProfile, HomeOf, Creation
    <3>3. memberships \subseteq [id : 1..made, profile : profiles', scope : Scopes]
      BY <2>3 DEF InsertProfile, TypeOK
    <3> QED
      BY <2>3, <3>1, <3>2, <3>3 DEF InsertProfile, TypeOK, notes, Workspace
  <2>4. CASE GuardMembership(a)
    BY <2>4, <1>a, CreationMoves DEF GuardMembership
  <2>5. CASE JoinWorkspace(a)
    BY <2>5, CreationMoves, OvertakeType, InsertMembershipType DEF JoinWorkspace, Scopes
  <2>6. CASE RefuseCredential(a)
    BY <2>6, <1>a, CreationMoves DEF RefuseCredential
  <2>7. CASE FailCreation(a)
    BY <2>7, <1>a, CreationMoves DEF FailCreation
  <2>8. CASE CleanList(a)
    BY <2>8, <1>a, CreationMoves DEF CleanList
  <2>9. CASE CleanDelete(a)
    BY <2>9, <1>0, CreationMoves, RemoveAccountType DEF CleanDelete
  <2>10. CASE FailCleanUp(a)
    BY <2>10, <1>a, CreationMoves DEF FailCleanUp
  <2>11. CASE DropCreation(a)
    BY <2>11, <1>a, CreationMoves DEF DropCreation
  <2> QED
    BY <1>1, <2>1, <2>2, <2>3, <2>4, <2>5, <2>6, <2>7, <2>8, <2>9, <2>10, <2>11
       DEF CreationStep
<1>2. ASSUME NEW w \in Admins, AdminStep(w)
      PROVE  TypeOK'
  <2> USE DEF IsIdle, Doing, Finish
  <2>0. adm[w] \in AdmState
    BY <1>0
  <2>1. ASSUME NEW profile \in Profile, CreateProfile(w, profile)
        PROVE  TypeOK'
    <3>1. profile \in accounts \X Workspaces
      BY <2>1 DEF CreateProfile, Profile
    <3>2. memberships \subseteq [id : 1..made, profile : profiles', scope : Scopes]
      BY <2>1 DEF CreateProfile, TypeOK
    <3> QED
      BY <2>1, <3>1, <3>2 DEF CreateProfile, TypeOK, notes, Workspace
  <2>2. ASSUME NEW profile \in Profile, DeleteProfile(w, profile)
        PROVE  TypeOK'
    BY <2>2, <1>0, <1>c DEF DeleteProfile
  <2>3. ASSUME NEW profile \in Profile, NEW scope \in Scopes,
               CheckMembership(w, profile, scope)
        PROVE  TypeOK'
    <3>1. [IdleAdm EXCEPT !.pc = "insert", !.profile = profile, !.scope = scope]
             \in AdmState
      BY <1>0 DEF AdmState
    <3> QED
      BY <2>3, <3>1, <1>b DEF CheckMembership
  <2>4. CASE CreateMembership(w)
    <3>1. adm[w].profile \in profiles /\ adm[w].scope \in Scopes
      BY <2>4, <2>0 DEF CreateMembership, InsertMembership, MayInsert, AdmState
    <3>2. adm[w].profile[1] \in Accounts
      BY <3>1 DEF TypeOK
    <3>3. adm' \in [Admins -> AdmState]
      BY <2>4, <3>2, <1>0, OvertakeType DEF CreateMembership
    <3> QED
      BY <2>4, <3>1, <3>3, <1>0, InsertMembershipType DEF CreateMembership
  <2>5. ASSUME NEW m \in memberships, DescribeMembership(w, m)
        PROVE  TypeOK'
    <3>1. m \in [id : 1..made, profile : profiles, scope : Scopes] /\ made \in 0..MaxMemberships
      BY DEF TypeOK
    <3>2. m.profile \in Profile
      BY <3>1 DEF TypeOK, Profile
    <3>3. m \in Membership
      BY <3>1, <3>2, MaxAssumption DEF Membership
    <3>4. [IdleAdm EXCEPT !.pc = "delete", !.profile = m.profile, !.membership = m]
             \in AdmState
      BY <3>2, <3>3, <1>0 DEF AdmState
    <3> QED
      BY <2>5, <3>4, <1>b DEF DescribeMembership
  <2>6. CASE DeleteMembership(w)
    <3>1. adm' \in [Admins -> AdmState]
      BY <2>6, <1>0 DEF DeleteMembership, AdmState
    <3> QED
      BY <2>6, <3>1 DEF DeleteMembership, TypeOK, notes, Workspace
  <2>7. CASE InvalidateEntries(w)
    <3>1. [adm[w] EXCEPT !.pc = "listRemaining"] \in AdmState
      BY <2>0 DEF AdmState
    <3> QED
      BY <2>7, <3>1, <1>b DEF InvalidateEntries
  <2>8. CASE ListRemaining(w)
    <3>1. [adm[w] EXCEPT !.pc = "deleteProfile"] \in AdmState
      BY <2>0 DEF AdmState
    <3> QED
      BY <2>8, <3>1, <1>0, <1>b DEF ListRemaining
  <2>9. CASE FollowMembership(w)
    <3>1. adm' = [adm EXCEPT ![w] = IdleAdm]
      BY <2>9 DEF FollowMembership
    <3>2. CASE adm[w].profile \in profiles /\ On(adm[w].profile) = {}
      <4>1. adm[w].profile \in Profile
        BY <3>2 DEF TypeOK, Profile
      <4> QED
        BY <2>9, <3>1, <3>2, <4>1, <1>0, <1>c DEF FollowMembership
    <3>3. CASE ~(adm[w].profile \in profiles /\ On(adm[w].profile) = {})
      BY <2>9, <3>1, <3>3, <1>0, <1>b DEF FollowMembership
    <3> QED
      BY <3>2, <3>3
  <2>10. ASSUME NEW workspace \in Workspaces, DeleteProject(w, workspace)
         PROVE  TypeOK'
    <3> DEFINE gone == {m \in memberships :
                           m.scope = "project" /\ Workspace(m) = workspace}
    <3>1. memberships' = memberships \ gone /\ projects' = projects \ {workspace}
          /\ cascaded' = cascaded \cup {profile \in {m.profile : m \in gone} :
                                          On(profile) \subseteq gone}
      BY <2>10 DEF DeleteProject
    <3>2. UNCHANGED <<accounts, profiles, made, creating, adm, attached, abandoned>>
      BY <2>10 DEF DeleteProject
    <3>3. cascaded' \subseteq attached
      <4>1. \A m \in gone : m.profile \in attached
        BY DEF TypeOK
      <4> QED
        BY <3>1, <4>1 DEF TypeOK
    <3> QED
      BY <3>1, <3>2, <3>3 DEF TypeOK, Workspace
  <2>11. ASSUME NEW account \in Accounts, NEW workspace \in Workspaces,
                CheckAccount(w, account, workspace)
         PROVE  TypeOK'
    <3>1. [IdleAdm EXCEPT !.pc = "deleteAccount", !.profile = <<account, workspace>>,
                          !.checked = TRUE] \in AdmState
      BY <1>0 DEF AdmState, Profile
    <3> QED
      BY <2>11, <3>1, <1>b DEF CheckAccount
  <2>12. ASSUME NEW account \in Accounts, NEW workspace \in Workspaces,
                PassSystemAdmin(w, account, workspace)
         PROVE  TypeOK'
    <3>1. [IdleAdm EXCEPT !.pc = "deleteAccount", !.profile = <<account, workspace>>]
             \in AdmState
      BY <1>0 DEF AdmState, Profile
    <3> QED
      BY <2>12, <3>1, <1>b DEF PassSystemAdmin
  <2>13. CASE DeleteAccount(w)
    <3>1. adm[w].profile[1] \in Accounts
      BY <2>13 DEF DeleteAccount, TypeOK
    <3> QED
      BY <2>13, <3>1, <1>0, RemoveAccountType DEF DeleteAccount
  <2>14. CASE Abandon(w)
    BY <2>14, <1>0 DEF Abandon, TypeOK, rows, Workspace
  <2> QED
    BY <1>2, <2>1, <2>2, <2>3, <2>4, <2>5, <2>6, <2>7, <2>8, <2>9, <2>10, <2>11,
       <2>12, <2>13, <2>14 DEF AdminStep
<1>3. CASE UNCHANGED vars
  BY <1>3 DEF vars, rows, notes, TypeOK, Workspace
<1> QED
  BY <1>1, <1>2, <1>3 DEF Next

(***************************************************************************)
(* Every variable keeps its type; in particular the tables keep their      *)
(* references and their unique indexes whatever is deleted under whom.     *)
(***************************************************************************)
THEOREM TypeCorrect == Spec => []TypeOK
<1> QED
  BY InitType, NextType, PTL DEF Spec

-----------------------------------------------------------------------------
(* Compensation.                                                           *)

\* The account is not there before its INSERT.
NotYet == \A a \in Accounts : creating[a].pc \in {"idle", "insert"} => a \notin accounts

LEMMA NextUndone ==
    TypeOK /\ NotYet /\ RegistrationUndone /\ [Next]_vars
        => NotYet' /\ RegistrationUndone'
<1> SUFFICES ASSUME TypeOK, NotYet, RegistrationUndone, [Next]_vars
             PROVE  NotYet' /\ RegistrationUndone'
  OBVIOUS
<1> USE DEF NotYet, RegistrationUndone, Creating
<1>0. creating \in [Accounts -> Creation] /\ accounts \subseteq Accounts
  BY DEF TypeOK
\* Deleting accounts, or nothing of concern.
<1>a. ASSUME UNCHANGED creating, accounts' \subseteq accounts
      PROVE  NotYet' /\ RegistrationUndone'
  BY <1>a
<1>1. ASSUME NEW a \in Accounts, CreationStep(a)
      PROVE  NotYet' /\ RegistrationUndone'
  <2>a. ASSUME NEW pc \in {"idle", "insert", "profile", "guard", "membership",
                           "credential", "cleanList", "cleanDelete", "created",
                           "failed", "leftover", "dropped"},
               Goto(a, pc), accounts' \subseteq accounts,
               pc \in {"idle", "insert", "failed"} => a \notin accounts'
        PROVE  NotYet' /\ RegistrationUndone'
    <3>1. /\ creating'[a].pc = pc
          /\ \A b \in Accounts : creating'[b].kind = creating[b].kind
          /\ \A b \in Accounts \ {a} : creating'[b] = creating[b]
      BY <2>a, CreationMoves
    <3>2. ASSUME NEW b \in Accounts
          PROVE  /\ creating'[b].pc \in {"idle", "insert"} => b \notin accounts'
                 /\ creating'[b].kind = "register" /\ creating'[b].pc = "failed"
                       => b \notin accounts'
      BY <3>1, <3>2, <2>a
    <3> QED
      BY <3>2
  <2>1. CASE CheckEmail(a)
    BY <2>1, <2>a DEF CheckEmail, rows
  <2>2. CASE InsertAccount(a)
    <3> DEFINE next == IF creating[a].kind = "register" THEN "profile" ELSE "created"
    <3>1. Goto(a, next) /\ accounts' = {a}
      BY <2>2 DEF InsertAccount
    <3>2. /\ creating'[a].pc = next
          /\ \A b \in Accounts \ {a} : b \notin accounts'
      BY <3>1, CreationMoves
    <3>3. creating'[a].pc \notin {"idle", "insert", "failed"}
      BY <3>2
    <3> QED
      BY <3>2, <3>3
  <2>3. CASE InsertProfile(a)
    BY <2>3, <2>a DEF InsertProfile
  <2>4. CASE GuardMembership(a)
    BY <2>4, <2>a DEF GuardMembership, rows
  <2>5. CASE JoinWorkspace(a)
    BY <2>5, <2>a DEF JoinWorkspace, InsertMembership
  <2>6. CASE RefuseCredential(a)
    BY <2>6, <2>a DEF RefuseCredential, rows
  <2>7. CASE FailCreation(a)
    BY <2>7, <2>a DEF FailCreation, rows
  <2>8. CASE CleanList(a)
    BY <2>8, <2>a DEF CleanList, rows
  <2>9. CASE CleanDelete(a)
    BY <2>9, <2>a DEF CleanDelete, RemoveAccount
  <2>10. CASE FailCleanUp(a)
    BY <2>10, <2>a DEF FailCleanUp, rows
  <2>11. CASE DropCreation(a)
    BY <2>11, <2>a DEF DropCreation, rows
  <2> QED
    BY <1>1, <2>1, <2>2, <2>3, <2>4, <2>5, <2>6, <2>7, <2>8, <2>9, <2>10, <2>11
       DEF CreationStep
<1>2. ASSUME NEW w \in Admins, AdminStep(w)
      PROVE  UNCHANGED creating /\ accounts' \subseteq accounts
  BY <1>2 DEF AdminStep, rows, CreateProfile, DeleteProfile, RemoveProfile,
     CheckMembership, CreateMembership, InsertMembership, DescribeMembership,
     DeleteMembership, InvalidateEntries, ListRemaining, FollowMembership,
     DeleteProject, CheckAccount, PassSystemAdmin, DeleteAccount, RemoveAccount,
     Abandon
<1>3. CASE UNCHANGED vars
  BY <1>3, <1>a DEF vars, rows
<1> QED
  BY <1>1, <1>2, <1>3, <1>a DEF Next

(***************************************************************************)
(* A registration that ended in an error, neither dropped nor with a       *)
(* failed clean-up, leaves no account behind.                              *)
(***************************************************************************)
THEOREM RegistrationsAreUndone == Spec => []RegistrationUndone
<1>1. Init => NotYet /\ RegistrationUndone
  BY DEF Init, NotYet, RegistrationUndone, Creating
<1>2. TypeOK /\ NotYet /\ RegistrationUndone /\ [Next]_vars
          => TypeOK' /\ NotYet' /\ RegistrationUndone'
  BY NextType, NextUndone
<1> QED
  BY InitType, <1>1, <1>2, PTL DEF Spec

-----------------------------------------------------------------------------
(* The profile follows the membership.                                     *)

\* A deletion cleans up after the membership it has read.
DeletesOwn == \A w \in Admins : adm[w].pc = "delete" => adm[w].membership.profile = adm[w].profile

LEMMA NextFollows ==
    TypeOK /\ DeletesOwn /\ ProfileFollowsMembership /\ [Next]_vars
        => DeletesOwn' /\ ProfileFollowsMembership'
<1> SUFFICES ASSUME TypeOK, DeletesOwn, ProfileFollowsMembership, [Next]_vars
             PROVE  DeletesOwn' /\ ProfileFollowsMembership'
  OBVIOUS
<1> USE DEF DeletesOwn, ProfileFollowsMembership, Followed, CleaningUp
<1>0. /\ adm \in [Admins -> AdmState] /\ IdleAdm.pc = "idle"
      /\ attached \subseteq profiles
  BY IdleAdmType DEF TypeOK
\* No clean-up ends and no membership goes, except with its profile.
<1>a. ASSUME adm' = adm,
             attached' \subseteq attached,
             abandoned' = abandoned \cap attached', cascaded' = cascaded \cap attached',
             \A profile \in attached' : On(profile) # {} => On(profile)' # {}
      PROVE  DeletesOwn' /\ ProfileFollowsMembership'
  BY <1>a
\* Only the membership table and the notes stay, and request w moves on.
<1>b. ASSUME NEW w \in Admins, NEW new, adm' = [adm EXCEPT ![w] = new],
             UNCHANGED <<rows, notes>>,
             new.pc = "delete" => new.membership.profile = new.profile,
             \/ ~CleaningUp(w)
             \/ new.pc \in {"invalidate", "listRemaining", "deleteProfile"}
                   /\ new.profile = adm[w].profile
             \/ adm[w].profile \notin attached
             \/ On(adm[w].profile) # {}
      PROVE  DeletesOwn' /\ ProfileFollowsMembership'
  <2>1. \A v \in Admins \ {w} : adm'[v] = adm[v]
    BY <1>b, <1>0
  <2>2. adm'[w] = new
    BY <1>b, <1>0
  <2>3. \A profile : On(profile)' = On(profile)
    BY <1>b DEF On, rows
  <2>4. UNCHANGED <<attached, abandoned, cascaded>>
    BY <1>b DEF notes
  <2> QED
    BY <2>1, <2>2, <2>3, <2>4, <1>b
\* What the steps do to requests other than the one that moves.
<1> DEFINE Keeps(v) == /\ adm'[v].pc = adm[v].pc
                       /\ adm'[v].profile = adm[v].profile
                       /\ adm'[v].membership = adm[v].membership
           Ends(v) == adm'[v].pc = "idle" /\ adm[v].pc \in {"insert", "deleteAccount"}
\* A membership is inserted.
<1>c. ASSUME NEW profile, NEW scope, InsertMembership(profile, scope),
             \A v \in Admins : Keeps(v) \/ Ends(v)
      PROVE  DeletesOwn' /\ ProfileFollowsMembership'
  <2>1. DeletesOwn'
    BY <1>c
  <2>2. ASSUME NEW p \in attached' \ (abandoned' \cup cascaded')
        PROVE  Followed(p)'
    <3>1. CASE p = profile
      <4> DEFINE new == [id |-> made', profile |-> profile, scope |-> scope]
      <4>1. new \in memberships' /\ new.profile = profile
        BY <1>c DEF InsertMembership
      <4> QED
        BY <3>1, <4>1 DEF On
    <3>2. CASE p # profile
      <4>1. p \in attached \ (abandoned \cup cascaded)
        BY <3>2, <2>2, <1>c DEF InsertMembership
      <4>2. On(p) \subseteq On(p)'
        BY <1>c DEF InsertMembership, On
      <4> QED
        BY <4>1, <4>2, <1>c
    <3> QED
      BY <3>1, <3>2
  <2> QED
    BY <2>1, <2>2
\* An account is removed.
<1>d. ASSUME NEW account \in Accounts, RemoveAccount(account),
             \A v \in Admins : Keeps(v) \/ Ends(v)
      PROVE  DeletesOwn' /\ ProfileFollowsMembership'
  <2>1. DeletesOwn'
    BY <1>d
  <2>2. ASSUME NEW p \in attached' \ (abandoned' \cup cascaded')
        PROVE  Followed(p)'
    <3>1. p \in attached \ (abandoned \cup cascaded) /\ p[1] # account
      BY <2>2, <1>d DEF RemoveAccount
    <3>2. On(p) \subseteq On(p)'
      BY <3>1, <1>d DEF RemoveAccount, On, Of, Account
    <3> QED
      BY <3>1, <3>2, <1>d
  <2> QED
    BY <2>1, <2>2
\* A profile is removed, perhaps by the request that cleans it up.
<1>e. ASSUME NEW profile \in Profile, RemoveProfile(profile),
             \A v \in Admins : \/ Keeps(v)
                               \/ adm'[v].pc = "idle" /\ adm[v].profile = profile
      PROVE  DeletesOwn' /\ ProfileFollowsMembership'
  <2>1. DeletesOwn'
    BY <1>e
  <2>2. ASSUME NEW p \in attached' \ (abandoned' \cup cascaded')
        PROVE  Followed(p)'
    <3>1. p \in attached \ (abandoned \cup cascaded) /\ p # profile
      BY <2>2, <1>e DEF RemoveProfile
    <3>2. On(p)' = On(p)
      BY <1>e DEF RemoveProfile, On
    <3> QED
      BY <3>1, <3>2, <1>e
  <2> QED
    BY <2>1, <2>2
<1>1. ASSUME NEW a \in Accounts, CreationStep(a)
      PROVE  DeletesOwn' /\ ProfileFollowsMembership'
  <2>a. ASSUME UNCHANGED <<memberships, adm, notes>>
        PROVE  DeletesOwn' /\ ProfileFollowsMembership'
    BY <2>a, <1>a, <1>0 DEF notes, On, TypeOK
  <2>1. CASE JoinWorkspace(a)
    <3>1. \A v \in Admins : Keeps(v)
      BY <2>1, OvertakeType DEF JoinWorkspace
    <3> QED
      BY <2>1, <3>1, <1>c DEF JoinWorkspace
  <2>2. CASE CleanDelete(a)
    BY <2>2, <1>d DEF CleanDelete
  <2>3. CASE ~JoinWorkspace(a) /\ ~CleanDelete(a)
    BY <2>3, <1>1, <2>a DEF CreationStep, rows, CheckEmail, InsertAccount, InsertProfile,
       GuardMembership, RefuseCredential, FailCreation, CleanList, FailCleanUp,
       DropCreation
  <2> QED
    BY <2>1, <2>2, <2>3
<1>2. ASSUME NEW w \in Admins, AdminStep(w)
      PROVE  DeletesOwn' /\ ProfileFollowsMembership'
  <2> USE DEF IsIdle, Doing, Finish
  <2>1. ASSUME NEW profile \in Profile, CreateProfile(w, profile)
        PROVE  DeletesOwn' /\ ProfileFollowsMembership'
    BY <2>1, <1>a, <1>0 DEF CreateProfile, notes, On, TypeOK
  <2>2. ASSUME NEW profile \in Profile, DeleteProfile(w, profile)
        PROVE  DeletesOwn' /\ ProfileFollowsMembership'
    BY <2>2, <1>e DEF DeleteProfile
  <2>3. ASSUME NEW profile \in Profile, NEW scope \in Scopes,
               CheckMembership(w, profile, scope)
        PROVE  DeletesOwn' /\ ProfileFollowsMembership'
    <3> DEFINE new == [IdleAdm EXCEPT !.pc = "insert", !.profile = profile, !.scope = scope]
    <3>1. new.pc = "insert"
      BY DEF IdleAdm
    <3> HIDE DEF new
    <3>2. adm' = [adm EXCEPT ![w] = new]
      BY <2>3 DEF CheckMembership, new
    <3>3. ~CleaningUp(w) /\ UNCHANGED <<rows, notes>>
      BY <2>3 DEF CheckMembership
    <3> QED
      BY <3>1, <3>2, <3>3, <1>b
  <2>4. CASE CreateMembership(w)
    <3>1. adm[w].profile \in profiles
      BY <2>4 DEF CreateMembership, InsertMembership, MayInsert
    <3>2. adm[w].profile[1] \in Accounts
      BY <3>1 DEF TypeOK
    <3>3. \A v \in Admins \ {w} : Keeps(v)
      BY <2>4, <3>2, OvertakeType DEF CreateMembership
    <3>4. Ends(w)
      BY <2>4, <3>2, <1>0, OvertakeType DEF CreateMembership
    <3>5. \A v \in Admins : Keeps(v) \/ Ends(v)
      BY <3>3, <3>4
    <3>6. InsertMembership(adm[w].profile, adm[w].scope)
      BY <2>4 DEF CreateMembership
    <3> QED
      BY <3>5, <3>6, <1>c
  <2>5. ASSUME NEW m \in memberships, DescribeMembership(w, m)
        PROVE  DeletesOwn' /\ ProfileFollowsMembership'
    <3> DEFINE new == [IdleAdm EXCEPT !.pc = "delete", !.profile = m.profile, !.membership = m]
    <3>1. new.membership.profile = new.profile
      BY DEF IdleAdm
    <3> HIDE DEF new
    <3>2. adm' = [adm EXCEPT ![w] = new]
      BY <2>5 DEF DescribeMembership, new
    <3>3. ~CleaningUp(w) /\ UNCHANGED <<rows, notes>>
      BY <2>5 DEF DescribeMembership
    <3> QED
      BY <3>1, <3>2, <3>3, <1>b
  <2>6. CASE DeleteMembership(w)
    <3>1. /\ adm[w].membership.profile = adm[w].profile
          /\ memberships' = memberships \ {adm[w].membership}
          /\ adm' = [adm EXCEPT ![w].pc = "invalidate"]
          /\ UNCHANGED notes
      BY <2>6 DEF DeleteMembership
    <3>2. \A v \in Admins \ {w} : adm'[v] = adm[v]
      BY <3>1, <1>0
    <3>3. adm'[w].pc = "invalidate" /\ adm'[w].profile = adm[w].profile
      BY <3>1, <1>0 DEF AdmState
    <3>4. DeletesOwn'
      BY <3>2, <3>3
    <3>5. ASSUME NEW p \in attached' \ (abandoned' \cup cascaded')
          PROVE  Followed(p)'
      <4>1. p \in attached \ (abandoned \cup cascaded)
        BY <3>1 DEF notes
      <4>2. CASE p = adm[w].profile
        BY <4>2, <3>3
      <4>3. CASE p # adm[w].profile
        <5>1. On(p)' = On(p)
          BY <4>3, <3>1 DEF On
        <5> QED
          BY <4>1, <5>1, <3>2, <3>3
      <4> QED
        BY <4>2, <4>3
    <3> QED
      BY <3>4, <3>5
  <2>7. CASE InvalidateEntries(w)
    <3> DEFINE new == [adm[w] EXCEPT !.pc = "listRemaining"]
    <3>1. new.pc = "listRemaining" /\ new.profile = adm[w].profile
      BY <1>0 DEF AdmState
    <3> HIDE DEF new
    <3>2. adm' = [adm EXCEPT ![w] = new]
      BY <2>7 DEF InvalidateEntries, new
    <3>3. UNCHANGED <<rows, notes>>
      BY <2>7 DEF InvalidateEntries
    <3> QED
      BY <3>1, <3>2, <3>3, <1>b
  <2>8. CASE ListRemaining(w)
    <3> DEFINE new == [adm[w] EXCEPT !.pc = "deleteProfile"]
    <3>1. new.pc = "deleteProfile" /\ new.profile = adm[w].profile
      BY <1>0 DEF AdmState
    <3>2. CASE On(adm[w].profile) = {}
      <4> HIDE DEF new
      <4>1. adm' = [adm EXCEPT ![w] = new]
        BY <2>8, <3>2 DEF ListRemaining, new
      <4> QED
        BY <2>8, <3>1, <4>1, <1>b DEF ListRemaining
    <3>3. CASE On(adm[w].profile) # {}
      BY <2>8, <3>3, <1>0, <1>b DEF ListRemaining
    <3> QED
      BY <3>2, <3>3
  <2>9. CASE FollowMembership(w)
    <3>1. adm' = [adm EXCEPT ![w] = IdleAdm]
      BY <2>9 DEF FollowMembership
    <3>2. CASE adm[w].profile \in profiles /\ On(adm[w].profile) = {}
      <4>1. adm[w].profile \in Profile
        BY <3>2 DEF TypeOK, Profile
      <4>2. RemoveProfile(adm[w].profile)
        BY <2>9, <3>2 DEF FollowMembership
      <4>3. \A v \in Admins : \/ Keeps(v)
                              \/ adm'[v].pc = "idle" /\ adm[v].profile = adm[w].profile
        BY <3>1, <1>0
      <4> QED
        BY <4>1, <4>2, <4>3, <1>e
    <3>3. CASE ~(adm[w].profile \in profiles /\ On(adm[w].profile) = {})
      <4>1. adm[w].profile \notin attached \/ On(adm[w].profile) # {}
        BY <3>3, <1>0
      <4>2. UNCHANGED <<rows, notes>>
        BY <2>9, <3>3 DEF FollowMembership
      <4> QED
        BY <3>1, <4>1, <4>2, <1>0, <1>b
    <3> QED
      BY <3>2, <3>3
  <2>10. ASSUME NEW workspace \in Workspaces, DeleteProject(w, workspace)
         PROVE  DeletesOwn' /\ ProfileFollowsMembership'
    <3> DEFINE gone == {m \in memberships :
                           m.scope = "project" /\ Workspace(m) = workspace}
    <3>1. /\ memberships' = memberships \ gone
          /\ cascaded' = cascaded \cup {profile \in {m.profile : m \in gone} :
                                          On(profile) \subseteq gone}
          /\ UNCHANGED <<adm, attached, abandoned>>
      BY <2>10 DEF DeleteProject
    <3> HIDE DEF gone
    <3>2. ASSUME NEW p \in attached' \ (abandoned' \cup cascaded')
          PROVE  Followed(p)'
      <4>1. p \in attached \ (abandoned \cup cascaded)
        BY <3>1
      <4>2. CASE On(p) = {}
        BY <4>1, <4>2, <3>1
      <4>3. CASE On(p) # {}
        <5>1. On(p)' = On(p) \ gone
          BY <3>1 DEF On
        <5>2. CASE On(p) \cap gone = {}
          BY <5>1, <5>2, <4>3
        <5>3. CASE On(p) \cap gone # {}
          <6>1. p \in {m.profile : m \in gone}
            BY <5>3 DEF On
          <6>2. ~(On(p) \subseteq gone)
            BY <6>1, <3>1, <3>2
          <6> QED
            BY <5>1, <6>2
        <5> QED
          BY <5>2, <5>3
      <4> QED
        BY <4>2, <4>3
    <3> QED
      BY <3>1, <3>2
  <2>11. ASSUME NEW account \in Accounts, NEW workspace \in Workspaces,
                \/ CheckAccount(w, account, workspace)
                \/ PassSystemAdmin(w, account, workspace)
         PROVE  DeletesOwn' /\ ProfileFollowsMembership'
    <3>1. adm[w].pc = "idle" /\ UNCHANGED <<rows, notes>>
      BY <2>11 DEF CheckAccount, PassSystemAdmin
    <3>2. CASE CheckAccount(w, account, workspace)
      <4> DEFINE new == [IdleAdm EXCEPT !.pc = "deleteAccount",
                                        !.profile = <<account, workspace>>,
                                        !.checked = TRUE]
      <4>1. new.pc = "deleteAccount"
        BY DEF IdleAdm
      <4> HIDE DEF new
      <4>2. adm' = [adm EXCEPT ![w] = new]
        BY <3>2 DEF CheckAccount, new
      <4> QED
        BY <3>1, <4>1, <4>2, <1>b
    <3>3. CASE PassSystemAdmin(w, account, workspace)
      <4> DEFINE new == [IdleAdm EXCEPT !.pc = "deleteAccount",
                                        !.profile = <<account, workspace>>]
      <4>1. new.pc = "deleteAccount"
        BY DEF IdleAdm
      <4> HIDE DEF new
      <4>2. adm' = [adm EXCEPT ![w] = new]
        BY <3>3 DEF PassSystemAdmin, new
      <4> QED
        BY <3>1, <4>1, <4>2, <1>b
    <3> QED
      BY <2>11, <3>2, <3>3
  <2>12. CASE DeleteAccount(w)
    <3>1. adm[w].profile[1] \in Accounts
      BY <2>12 DEF DeleteAccount, TypeOK
    <3>2. \A v \in Admins : Keeps(v) \/ Ends(v)
      BY <2>12, <1>0 DEF DeleteAccount
    <3> QED
      BY <2>12, <3>1, <3>2, <1>d DEF DeleteAccount
  <2>13. CASE Abandon(w)
    <3>1. /\ adm' = [adm EXCEPT ![w] = IdleAdm]
          /\ UNCHANGED <<rows, attached, cascaded>>
          /\ abandoned' = IF CleaningUp(w) /\ On(adm[w].profile) = {}
                          THEN abandoned \cup ({adm[w].profile} \cap attached)
                          ELSE abandoned
      BY <2>13 DEF Abandon
    <3>2. DeletesOwn'
      BY <3>1, <1>0
    <3>3. ASSUME NEW p \in attached' \ (abandoned' \cup cascaded')
          PROVE  Followed(p)'
      <4>1. p \in attached \ (abandoned \cup cascaded)
        BY <3>1, <3>3
      <4>2. On(p)' = On(p)
        BY <3>1 DEF On, rows
      <4>3. CASE On(p) # {}
        BY <4>2, <4>3
      <4>4. CASE On(p) = {}
        <5>1. PICK v \in Admins : CleaningUp(v) /\ adm[v].profile = p
          BY <4>1, <4>4
        <5>2. v # w
          BY <5>1, <4>4, <3>1, <3>3
        <5>3. adm'[v] = adm[v]
          BY <5>2, <3>1, <1>0
        <5> QED
          BY <5>1, <5>3
      <4> QED
        BY <4>3, <4>4
    <3> QED
      BY <3>2, <3>3
  <2> QED
    BY <1>2, <2>1, <2>2, <2>3, <2>4, <2>5, <2>6, <2>7, <2>8, <2>9, <2>10, <2>11,
       <2>12, <2>13 DEF AdminStep
<1>3. CASE UNCHANGED vars
  BY <1>3, <1>a, <1>0 DEF vars, rows, notes, On, TypeOK
<1> QED
  BY <1>1, <1>2, <1>3 DEF Next

(***************************************************************************)
(* Whatever order concurrent requests insert, list and delete in, a        *)
(* profile that has lost its last membership is being cleaned up, or was   *)
(* left by an abandoned request or a deleted project.                      *)
(***************************************************************************)
THEOREM ProfilesFollowMemberships == Spec => []ProfileFollowsMembership
<1>1. Init => DeletesOwn /\ ProfileFollowsMembership
  BY IdleAdmType DEF Init, DeletesOwn, ProfileFollowsMembership
<1>2. TypeOK /\ DeletesOwn /\ ProfileFollowsMembership /\ [Next]_vars
          => TypeOK' /\ DeletesOwn' /\ ProfileFollowsMembership'
  BY NextType, NextFollows
<1> QED
  BY InitType, <1>1, <1>2, PTL DEF Spec

-----------------------------------------------------------------------------
(* The subset rule.                                                        *)

LEMMA NextStays ==
    TypeOK /\ DeletionStaysInWorkspace /\ [Next]_vars => DeletionStaysInWorkspace'
<1> SUFFICES ASSUME TypeOK, DeletionStaysInWorkspace, [Next]_vars
             PROVE  DeletionStaysInWorkspace'
  OBVIOUS
<1> DEFINE Stays(v) ==
       adm[v].pc = "deleteAccount" /\ adm[v].checked /\ ~adm[v].overtaken
           => \A m \in memberships : m.profile[1] = adm[v].profile[1]
                                        => m.profile[2] = adm[v].profile[2]
<1>0. /\ adm \in [Admins -> AdmState] /\ IdleAdm.pc = "idle" /\ ~IdleAdm.checked
      /\ \A v \in Admins : Stays(v)
  BY IdleAdmType DEF TypeOK, DeletionStaysInWorkspace, Of, Account, Workspace, Doing
<1>1. SUFFICES \A v \in Admins : Stays(v)'
  BY <1>1 DEF DeletionStaysInWorkspace, Of, Account, Workspace, Doing
<1> HIDE DEF Stays
\* Fewer memberships, and one request at most that moves to another step.
<1>a. ASSUME memberships' \subseteq memberships,
             NEW w \in Admins,
             \A v \in Admins \ {w} : adm'[v] = adm[v],
             adm'[w] = adm[w] \/ adm'[w].pc # "deleteAccount" \/ ~adm'[w].checked
      PROVE  \A v \in Admins : Stays(v)'
  BY <1>a, <1>0 DEF Stays
<1>2. ASSUME NEW a \in Accounts, CreationStep(a)
      PROVE  \A v \in Admins : Stays(v)'
  <2>1. CASE JoinWorkspace(a)
    <3>1. /\ adm' = Overtake(a) /\ InsertMembership(HomeOf(a), "workspace")
          /\ HomeOf(a)[1] = a
      BY <2>1 DEF JoinWorkspace, HomeOf
    <3> QED
      BY <3>1, <1>0, OvertakeType DEF Stays, InsertMembership
  <2>2. CASE ~JoinWorkspace(a)
    <3>1. adm' = adm /\ memberships' \subseteq memberships
      BY <1>2, <2>2 DEF CreationStep, rows, notes, CheckEmail, InsertAccount,
         InsertProfile, GuardMembership, RefuseCredential, FailCreation, CleanList,
         CleanDelete, RemoveAccount, FailCleanUp, DropCreation
    <3> QED
      BY <3>1, <1>0 DEF Stays
  <2> QED
    BY <2>1, <2>2
<1>3. ASSUME NEW w \in Admins, AdminStep(w)
      PROVE  \A v \in Admins : Stays(v)'
  <2> USE DEF IsIdle, Doing, Finish
  <2>1. CASE CreateMembership(w)
    <3> DEFINE profile == adm[w].profile
    <3>1. /\ adm' = [Overtake(profile[1]) EXCEPT ![w] = IdleAdm]
          /\ InsertMembership(profile, adm[w].scope)
          /\ profile \in profiles
      BY <2>1 DEF CreateMembership, InsertMembership, MayInsert
    <3>2. profile[1] \in Accounts
      BY <3>1 DEF TypeOK
    <3>3. /\ adm'[w] = IdleAdm
          /\ \A v \in Admins \ {w} : adm'[v] = Overtake(profile[1])[v]
      BY <3>1, <3>2, OvertakeType
    <3> HIDE DEF profile
    <3> QED
      BY <3>1, <3>2, <3>3, <1>0, OvertakeType DEF Stays, InsertMembership
  <2>2. ASSUME NEW account \in Accounts, NEW workspace \in Workspaces,
               CheckAccount(w, account, workspace)
        PROVE  \A v \in Admins : Stays(v)'
    <3>1. /\ \A v \in Admins \ {w} : adm'[v] = adm[v]
          /\ adm'[w].profile = <<account, workspace>>
          /\ memberships' = memberships
      BY <2>2, <1>0 DEF CheckAccount, IdleAdm, rows
    <3>2. \A m \in memberships : m.profile[1] = account => m.profile[2] = workspace
      BY <2>2 DEF CheckAccount, Exclusive, Of, Account, Workspace
    <3> QED
      BY <3>1, <3>2, <1>0 DEF Stays
  <2>3. CASE /\ ~CreateMembership(w)
             /\ ~\E account \in Accounts, workspace \in Workspaces :
                     CheckAccount(w, account, workspace)
    <3>1. memberships' \subseteq memberships
      BY <1>3, <2>3 DEF AdminStep, rows, CreateProfile, DeleteProfile, RemoveProfile,
         CheckMembership, DescribeMembership, DeleteMembership, InvalidateEntries,
         ListRemaining, FollowMembership, DeleteProject, PassSystemAdmin,
         DeleteAccount, RemoveAccount, Abandon
    <3> DEFINE Elsewhere ==
           /\ \A v \in Admins \ {w} : adm'[v] = adm[v]
           /\ adm'[w] = adm[w] \/ adm'[w].pc # "deleteAccount" \/ ~adm'[w].checked
    <3>2. Elsewhere
      <4>0. adm[w] \in AdmState
        BY <1>0
      <4>1. ASSUME \/ \E profile \in Profile : CreateProfile(w, profile)
                   \/ \E profile \in Profile : DeleteProfile(w, profile)
                   \/ \E workspace \in Workspaces : DeleteProject(w, workspace)
            PROVE  Elsewhere
        BY <4>1 DEF CreateProfile, DeleteProfile, DeleteProject
      <4>2. CASE FollowMembership(w) \/ DeleteAccount(w) \/ Abandon(w)
        BY <4>2, <1>0 DEF FollowMembership, DeleteAccount, Abandon
      <4>3. CASE DeleteMembership(w) \/ InvalidateEntries(w) \/ ListRemaining(w)
        BY <4>0, <4>3, <1>0 DEF DeleteMembership, InvalidateEntries, ListRemaining, AdmState
      <4>4. ASSUME \/ \E profile \in Profile, scope \in Scopes :
                         CheckMembership(w, profile, scope)
                   \/ \E m \in memberships : DescribeMembership(w, m)
            PROVE  Elsewhere
        BY <4>4, <1>0 DEF CheckMembership, DescribeMembership, IdleAdm
      <4>5. ASSUME NEW account \in Accounts, NEW workspace \in Workspaces,
                   PassSystemAdmin(w, account, workspace)
            PROVE  Elsewhere
        BY <4>5, <1>0 DEF PassSystemAdmin, IdleAdm
      <4> HIDE DEF Elsewhere
      <4> QED
        BY <1>3, <2>3, <4>1, <4>2, <4>3, <4>4, <4>5 DEF AdminStep
    <3> QED
      BY <3>1, <3>2, <1>a
  <2> QED
    BY <1>3, <2>1, <2>2, <2>3
<1>4. CASE UNCHANGED vars
  BY <1>4, <1>0 DEF vars, rows, Stays
<1> QED
  BY <1>2, <1>3, <1>4 DEF Next

(***************************************************************************)
(* A checked deletion takes no membership of another workspace along,      *)
(* except one that was inserted after the check.                           *)
(***************************************************************************)
THEOREM DeletionsStayInWorkspace == Spec => []DeletionStaysInWorkspace
<1>1. Init => DeletionStaysInWorkspace
  BY IdleAdmType DEF Init, DeletionStaysInWorkspace, Doing
<1>2. TypeOK /\ DeletionStaysInWorkspace /\ [Next]_vars
          => TypeOK' /\ DeletionStaysInWorkspace'
  BY NextType, NextStays
<1> QED
  BY InitType, <1>1, <1>2, PTL DEF Spec

=============================================================================
