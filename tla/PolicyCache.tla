---------------------------- MODULE PolicyCache ----------------------------
(***************************************************************************)
(* The cached policy set of a membership and its invalidation.             *)
(*                                                                         *)
(* The effective policies of a membership are those attached to it and     *)
(* those attached to its roles.  CtxService::resolve_policy_cache keeps    *)
(* the compiled set in Redis (oxauth:policy:{mem}) without an expiry, so   *)
(* an entry that misses an invalidation stays until the next one.  Policy, *)
(* role and membership updates write their rows and then look up which     *)
(* memberships to invalidate, each by statements of its own.               *)
(*                                                                         *)
(* The module follows one membership: whether it is among the memberships  *)
(* a lookup returns is computed from its own links.  A policy's body       *)
(* (effect, actions, resource, constraint) is one value.                   *)
(***************************************************************************)
EXTENDS FiniteSets

CONSTANTS
    Requests,   \* requests that resolve the policy set
    Writers,    \* administrative requests
    Policies,   \* policy ids, a bound on their number
    Roles,      \* role ids, a bound on their number
    Bodies,     \* the contents a policy may have
    Gone        \* stands for the body of a deleted policy

ASSUME GoneAssumption == Gone \notin Bodies

VARIABLES
    body,       \* the policy rows
    direct,     \* membership_policy: policies attached to the membership
    memRoles,   \* membership_role: roles the membership holds
    rolePols,   \* role_policy: policies attached to each role
    cache,      \* the Redis entry
    req,        \* the state of each hydration
    wr          \* the state of each administrative request

vars == <<body, direct, memRoles, rolePols, cache, req, wr>>
rows == <<body, direct, memRoles, rolePols>>

Compiled(policies) == {<<p, body[p]>> : p \in policies}

\* What resolve_for_membership returns when nothing changes meanwhile.
Effective == Compiled(direct \cup UNION {rolePols[role] : role \in memRoles})

(***************************************************************************)
(* Why an entry may be out of date although no invalidation is pending:    *)
(*   overlap       a write came between the hydration's reads and its end  *)
(*   abandoned     an administrative request ended before invalidating     *)
(*   deleted       a policy was deleted                                    *)
(*   severalRoles  a policy was updated that is attached to several roles, *)
(*                 of which the membership holds some but not all          *)
(*   beyondLimit   a lookup left out the membership or one of its roles    *)
(***************************************************************************)
Excuse == {"overlap", "abandoned", "deleted", "severalRoles", "beyondLimit"}
PolicySet == SUBSET (Policies \X Bodies)

Entry == [present : BOOLEAN, set : PolicySet, excuses : SUBSET Excuse]
NoEntry == [present |-> FALSE, set |-> {}, excuses |-> {}]
Excused(excuse) ==
    IF cache.present THEN [cache EXCEPT !.excuses = @ \cup {excuse}] ELSE cache

ReqState == [pc : {"idle", "roles", "direct", "rolePols"}, todo : SUBSET Roles,
             set : PolicySet, excuses : SUBSET {"overlap"}]
IdleReq == [pc |-> "idle", todo |-> {}, set |-> {}, excuses |-> {}]

\* relinkPols: a membership update replaces the policy links after the role
\* links.
WrState == [pc : {"idle", "findDirect", "findRoles", "findViaRoles",
                  "linkRole", "findHolders", "unlinkMemRoles", "linkMemRoles",
                  "unlinkMemPols", "linkMemPols", "inval"},
            pols : SUBSET Policies, roles : SUBSET Roles, relinkPols : BOOLEAN,
            found : BOOLEAN, touched : BOOLEAN]
IdleWr == [pc |-> "idle", pols |-> {}, roles |-> {}, relinkPols |-> FALSE,
           found |-> FALSE, touched |-> FALSE]

\* The lookups give no options, so a list ends after the newest 500 rows.  How
\* many newer rows match is outside the module, so a lookup may leave out the
\* membership (Found is whether it does not), and any of the roles that match.
Found(matches) == {matches, FALSE}
Listed(roles) == SUBSET roles
Limited(asked, answered) == IF answered = asked THEN cache ELSE Excused("beyondLimit")

Live == {p \in Policies : body[p] # Gone}

TypeOK ==
    /\ body \in [Policies -> Bodies \cup {Gone}]
    /\ direct \subseteq Live
    /\ memRoles \subseteq Roles
    /\ rolePols \in [Roles -> SUBSET Live]
    /\ cache \in Entry
    /\ req \in [Requests -> ReqState]
    /\ wr \in [Writers -> WrState]

Init ==
    /\ body \in [Policies -> Bodies]
    /\ direct = {}
    /\ memRoles = {}
    /\ rolePols = [role \in Roles |-> {}]
    /\ cache = NoEntry
    /\ req = [r \in Requests |-> IdleReq]
    /\ wr = [w \in Writers |-> IdleWr]

-----------------------------------------------------------------------------
(* Hydration: each read is a statement of its own.                         *)

At(r, pc) == req[r].pc = pc

FetchMiss(r) ==
    /\ At(r, "idle")
    /\ ~cache.present
    /\ req' = [req EXCEPT ![r].pc = "roles"]
    /\ UNCHANGED <<rows, cache, wr>>

ReadRoles(r) ==
    /\ At(r, "roles")
    /\ req' = [req EXCEPT ![r] = [@ EXCEPT !.pc = "direct", !.todo = memRoles]]
    /\ UNCHANGED <<rows, cache, wr>>

ReadDirect(r) ==
    /\ At(r, "direct")
    /\ req' = [req EXCEPT ![r] = [@ EXCEPT !.pc = "rolePols",
                                           !.set = Compiled(direct)]]
    /\ UNCHANGED <<rows, cache, wr>>

ReadRolePolicies(r, role) ==
    /\ At(r, "rolePols")
    /\ role \in req[r].todo
    /\ req' = [req EXCEPT ![r].todo = @ \ {role},
                          ![r].set = @ \cup Compiled(rolePols[role])]
    /\ UNCHANGED <<rows, cache, wr>>

\* The write-back, without an expiry.
Fill(r) ==
    /\ At(r, "rolePols")
    /\ req[r].todo = {}
    /\ cache' = [present |-> TRUE, set |-> req[r].set, excuses |-> req[r].excuses]
    /\ req' = [req EXCEPT ![r] = IdleReq]
    /\ UNCHANGED <<rows, wr>>

\* The reply is lost and RedisChx::query_async repeats the command.
FillUnacknowledged(r) ==
    /\ At(r, "rolePols")
    /\ req[r].todo = {}
    /\ cache' = [present |-> TRUE, set |-> req[r].set, excuses |-> req[r].excuses]
    /\ UNCHANGED <<rows, req, wr>>

EndRequest(r) ==
    /\ ~At(r, "idle")
    /\ req' = [req EXCEPT ![r] = IdleReq]
    /\ UNCHANGED <<rows, cache, wr>>

-----------------------------------------------------------------------------
(* Administrative requests.                                                *)

Doing(w, pc) == wr[w].pc = pc

\* A row was written: hydrations that have begun to read are overtaken.
Overtake ==
    req' = [r \in Requests |->
              IF req[r].pc \in {"direct", "rolePols"}
              THEN [req[r] EXCEPT !.excuses = {"overlap"}] ELSE req[r]]

\* PolicyService::update, up to the write of the row.
UpdatePolicy(w, p, b) ==
    /\ Doing(w, "idle")
    /\ p \in Live
    /\ body' = [body EXCEPT ![p] = b]
    /\ Overtake
    /\ wr' = [wr EXCEPT ![w] = [IdleWr EXCEPT !.pc = "findDirect", !.pols = {p},
                                              !.touched = TRUE]]
    /\ UNCHANGED <<direct, memRoles, rolePols, cache>>

\* What a request does whose statements are sent: it invalidates the membership
\* if it is among those found, and is done otherwise.
Conclude(found) ==
    IF found THEN [IdleWr EXCEPT !.pc = "inval", !.touched = TRUE] ELSE IdleWr

\* Mutant: the foreign keys do not cascade and the links dangle.
DeletePolicyOnly(w, p) ==
    /\ Doing(w, "idle")
    /\ p \in Live
    /\ body' = [body EXCEPT ![p] = Gone]
    /\ Overtake
    /\ wr' = [wr EXCEPT ![w] = [IdleWr EXCEPT !.pc = "findDirect", !.pols = {p},
                                              !.touched = TRUE]]
    /\ UNCHANGED <<direct, memRoles, rolePols, cache>>

\* PolicyService::delete: the links go with the row (ON DELETE CASCADE).
DeletePolicy(w, p) ==
    /\ Doing(w, "idle")
    /\ p \in Live
    /\ body' = [body EXCEPT ![p] = Gone]
    /\ direct' = direct \ {p}
    /\ rolePols' = [role \in Roles |-> rolePols[role] \ {p}]
    /\ Overtake
    /\ cache' = Excused("deleted")
    /\ wr' = [wr EXCEPT ![w] = [IdleWr EXCEPT !.pc = "findDirect", !.pols = {p},
                                              !.touched = TRUE]]
    /\ UNCHANGED memRoles

\* invalidate_memberships_for_policy: memberships that attach the policy.
FindDirect(w) ==
    /\ Doing(w, "findDirect")
    /\ LET attached == wr[w].pols \subseteq direct
       IN  \E found \in Found(attached) :
             /\ wr' = [wr EXCEPT ![w] = [@ EXCEPT !.pc = "findRoles", !.found = found]]
             /\ cache' = Limited(attached, found)
    /\ UNCHANGED <<rows, req>>

FindRoles(w) ==
    /\ Doing(w, "findRoles")
    /\ LET holders == {role \in Roles : wr[w].pols \subseteq rolePols[role]}
       IN  \E listed \in Listed(holders) :
             /\ wr' = [wr EXCEPT ![w] =
                         IF listed = {} THEN Conclude(wr[w].found)
                         ELSE [@ EXCEPT !.pc = "findViaRoles", !.roles = listed,
                                        !.pols = {}]]
             /\ cache' = Limited(holders, listed)
    /\ UNCHANGED <<rows, req>>

\* list_containing_roles returns the memberships that hold all of the roles.
FindViaRoles(w) ==
    /\ Doing(w, "findViaRoles")
    /\ LET all == wr[w].roles \subseteq memRoles
           some == wr[w].roles \cap memRoles # {}
       IN  \E found \in Found(all) :
             /\ wr' = [wr EXCEPT ![w] = Conclude(wr[w].found \/ found)]
             /\ cache' = IF some /\ ~all THEN Excused("severalRoles")
                         ELSE Limited(all, found)
    /\ UNCHANGED <<rows, req>>

\* RoleService::update with policy_ids: set_many_to_many_policies deletes the
\* role's links and then inserts the new ones.
UnlinkRole(w, role, pols) ==
    /\ Doing(w, "idle")
    /\ rolePols' = [rolePols EXCEPT ![role] = {}]
    /\ Overtake
    /\ wr' = [wr EXCEPT ![w] = [IdleWr EXCEPT
                                  !.roles = {role}, !.pols = pols,
                                  !.pc = IF pols = {} THEN "findHolders" ELSE "linkRole",
                                  !.touched = TRUE]]
    /\ UNCHANGED <<body, direct, memRoles, cache>>

\* The INSERT fails on a link that is there already or a policy that is gone.
LinkRole(w) ==
    /\ Doing(w, "linkRole")
    /\ wr[w].pols \subseteq Live
    /\ \A role \in wr[w].roles : wr[w].pols \cap rolePols[role] = {}
    /\ rolePols' = [role \in Roles |-> IF role \in wr[w].roles
                                       THEN rolePols[role] \cup wr[w].pols
                                       ELSE rolePols[role]]
    /\ Overtake
    /\ wr' = [wr EXCEPT ![w] = [@ EXCEPT !.pc = "findHolders", !.pols = {}]]
    /\ UNCHANGED <<body, direct, memRoles, cache>>

\* Mutant: only invalidate_memberships_for_role is called, which does nothing.
FindNoHolders(w) ==
    /\ Doing(w, "findHolders")
    /\ wr' = [wr EXCEPT ![w] = IdleWr]
    /\ UNCHANGED <<rows, cache, req>>

FindHolders(w) ==
    /\ Doing(w, "findHolders")
    /\ LET holds == wr[w].roles \subseteq memRoles
       IN  \E found \in Found(holds) :
             /\ wr' = [wr EXCEPT ![w] = Conclude(found)]
             /\ cache' = Limited(holds, found)
    /\ UNCHANGED <<rows, req>>

\* MembershipService::update: the role links, the policy links, the row (which
\* says nothing about policies), then the invalidation.
UpdateMembership(w, relinkRoles, roles, relinkPols, pols) ==
    /\ Doing(w, "idle")
    /\ relinkRoles \/ roles = {}
    /\ relinkPols \/ pols = {}
    /\ wr' = [wr EXCEPT ![w] = [IdleWr EXCEPT
                                  !.pc = IF relinkRoles THEN "unlinkMemRoles"
                                         ELSE IF relinkPols THEN "unlinkMemPols"
                                         ELSE "inval",
                                  !.roles = roles, !.pols = pols,
                                  !.relinkPols = relinkRoles /\ relinkPols]]
    /\ UNCHANGED <<rows, cache, req>>

AfterRoles(w) == IF wr[w].relinkPols THEN "unlinkMemPols" ELSE "inval"

UnlinkMemRoles(w) ==
    /\ Doing(w, "unlinkMemRoles")
    /\ memRoles' = {}
    /\ Overtake
    /\ wr' = [wr EXCEPT ![w].pc = IF wr[w].roles = {} THEN AfterRoles(w)
                                  ELSE "linkMemRoles",
                        ![w].relinkPols = @ /\ wr[w].roles # {},
                        ![w].touched = TRUE]
    /\ UNCHANGED <<body, direct, rolePols, cache>>

LinkMemRoles(w) ==
    /\ Doing(w, "linkMemRoles")
    /\ wr[w].roles \cap memRoles = {}
    /\ memRoles' = memRoles \cup wr[w].roles
    /\ Overtake
    /\ wr' = [wr EXCEPT ![w] = [@ EXCEPT !.pc = AfterRoles(w), !.roles = {},
                                         !.relinkPols = FALSE]]
    /\ UNCHANGED <<body, direct, rolePols, cache>>

UnlinkMemPols(w) ==
    /\ Doing(w, "unlinkMemPols")
    /\ direct' = {}
    /\ Overtake
    /\ wr' = [wr EXCEPT ![w] = [@ EXCEPT !.pc = IF wr[w].pols = {} THEN "inval"
                                                ELSE "linkMemPols",
                                         !.touched = TRUE]]
    /\ UNCHANGED <<body, memRoles, rolePols, cache>>

LinkMemPols(w) ==
    /\ Doing(w, "linkMemPols")
    /\ wr[w].pols \subseteq Live
    /\ wr[w].pols \cap direct = {}
    /\ direct' = direct \cup wr[w].pols
    /\ Overtake
    /\ wr' = [wr EXCEPT ![w] = Conclude(TRUE)]
    /\ UNCHANGED <<body, memRoles, rolePols, cache>>

\* cm.policy.invalidate
Invalidate(w) ==
    /\ Doing(w, "inval")
    /\ cache' = NoEntry
    /\ wr' = [wr EXCEPT ![w] = IdleWr]
    /\ UNCHANGED <<rows, req>>

\* A statement fails, the client disconnects, the timeout drops the future.
Abort(w) ==
    /\ ~Doing(w, "idle")
    /\ cache' = IF wr[w].touched THEN Excused("abandoned") ELSE cache
    /\ wr' = [wr EXCEPT ![w] = IdleWr]
    /\ UNCHANGED <<rows, req>>

-----------------------------------------------------------------------------

RequestStep(r) ==
    \/ FetchMiss(r)
    \/ ReadRoles(r)
    \/ ReadDirect(r)
    \/ \E role \in Roles : ReadRolePolicies(r, role)
    \/ Fill(r)
    \/ FillUnacknowledged(r)
    \/ EndRequest(r)

WriterStep(w) ==
    \/ \E p \in Policies, b \in Bodies : UpdatePolicy(w, p, b)
    \/ \E p \in Policies : DeletePolicy(w, p)
    \/ FindDirect(w)
    \/ FindRoles(w)
    \/ FindViaRoles(w)
    \/ \E role \in Roles, pols \in SUBSET Policies : UnlinkRole(w, role, pols)
    \/ LinkRole(w)
    \/ FindHolders(w)
    \/ \E relinkRoles, relinkPols \in BOOLEAN,
          roles \in SUBSET Roles, pols \in SUBSET Policies :
          UpdateMembership(w, relinkRoles, roles, relinkPols, pols)
    \/ UnlinkMemRoles(w)
    \/ LinkMemRoles(w)
    \/ UnlinkMemPols(w)
    \/ LinkMemPols(w)
    \/ Invalidate(w)
    \/ Abort(w)

Next ==
    \/ \E r \in Requests : RequestStep(r)
    \/ \E w \in Writers : WriterStep(w)

Spec == Init /\ [][Next]_vars

-----------------------------------------------------------------------------
Settled == \A w \in Writers : ~wr[w].touched

(***************************************************************************)
(* The lookups reach the membership in every other case: with no           *)
(* administrative request under way, an entry without an excuse is the     *)
(* effective policy set (invalidate_memberships_for_policy, RoleService::  *)
(* update, MembershipService::update).  It matters because nothing else    *)
(* ever removes an entry.                                                  *)
(***************************************************************************)
CoherentUnlessExcused ==
    Settled /\ cache.present /\ cache.excuses = {} => cache.set = Effective

(***************************************************************************)
(* What PolicyService::update is documented to do: every membership whose  *)
(* effective set includes the policy is invalidated.  So an entry that no  *)
(* write overlapped, no request abandoned and no deletion concerns is up   *)
(* to date when no administrative request is under way.                    *)
(***************************************************************************)
UpdateReachesEveryHolder ==
    Settled /\ cache.present /\ cache.excuses \subseteq {"severalRoles"}
        => cache.set = Effective

=============================================================================
