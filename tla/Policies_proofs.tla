-------------------------- MODULE Policies_proofs ---------------------------
(***************************************************************************)
(* Proofs about the policies of a workspace: about PolicyCache, for any    *)
(* requests, administrators, policies, roles and contents, and about       *)
(* PolicyKeys, for any ids, requests, effects and actions and any limit of *)
(* lists.  The two modules share no state.                                 *)
(***************************************************************************)
EXTENDS PolicyCache, PolicyKeys, TLAPS

-----------------------------------------------------------------------------
(***************************************************************************)
(* The cached policy set of a membership (PolicyCache).                    *)
(***************************************************************************)

\* A write that may have changed the set is known to its request as one.
WritesTouch == \A w \in Writers :
    /\ wr[w].pc \in {"findDirect", "findRoles", "findViaRoles", "linkRole",
                     "findHolders", "linkMemRoles", "linkMemPols"} => wr[w].touched
    /\ wr[w].pc = "linkRole" => \E role \in Roles : wr[w].roles = {role}

\* What a hydration collects from the membership and from some of its roles.
Read(roles) == Compiled(direct) \cup UNION {Compiled(rolePols[role]) : role \in roles}

\* A hydration that no write has overtaken has read what the rows say now.
ReadsAreCurrent == \A r \in Requests : req[r].excuses = {} =>
    /\ req[r].pc = "direct" => req[r].todo = memRoles
    /\ req[r].pc = "rolePols" =>
          /\ req[r].todo \subseteq memRoles
          /\ req[r].set = Read(memRoles \ req[r].todo)

\* The request will invalidate the membership, if nobody changes the links and
\* no lookup is cut off.
ViaRole(w) == \E role \in memRoles : wr[w].pols \subseteq rolePols[role]

WillFind(w) ==
    \/ wr[w].pc \in {"findRoles", "findViaRoles"} /\ wr[w].found
    \/ wr[w].pc \in {"linkMemRoles", "unlinkMemPols", "linkMemPols", "inval"}
    \/ wr[w].pc = "findDirect" /\ wr[w].pols \subseteq direct
    \/ wr[w].pc \in {"findDirect", "findRoles"} /\ ViaRole(w)
    \/ wr[w].pc = "findViaRoles" /\ wr[w].roles \cap memRoles # {}
    \/ wr[w].pc \in {"linkRole", "findHolders"} /\ wr[w].roles \subseteq memRoles

Pending(w) == wr[w].touched /\ WillFind(w)

\* Whoever changes the links of a request that waits waits itself.
ChangesArePending ==
    cache.present /\ cache.excuses = {} /\ cache.set # Effective
        => \E w \in Writers : Pending(w)

CacheInv == TypeOK /\ WritesTouch /\ ReadsAreCurrent /\ ChangesArePending

-----------------------------------------------------------------------------
(* Types of the cache.                                                     *)

LEMMA FirstTypes ==
    IdleReq \in ReqState /\ IdleWr \in WrState /\ NoEntry \in Entry
BY DEF IdleReq, ReqState, IdleWr, WrState, NoEntry, Entry, PolicySet, Excuse

LEMMA CompiledType ==
    ASSUME TypeOK, NEW policies \in SUBSET Live
    PROVE  Compiled(policies) \in PolicySet
BY DEF TypeOK, Live, Compiled, PolicySet

LEMMA ExcusedType ==
    ASSUME TypeOK, NEW excuse \in Excuse
    PROVE  Excused(excuse) \in Entry
BY DEF TypeOK, Entry, Excused

LEMMA LimitedType ==
    ASSUME TypeOK, NEW asked, NEW answered
    PROVE  Limited(asked, answered) \in Entry
<1>1. "beyondLimit" \in Excuse
  BY DEF Excuse
<1> QED
  BY <1>1, ExcusedType DEF TypeOK, Limited

LEMMA ConcludeType ==
    ASSUME NEW found
    PROVE  /\ Conclude(found) \in WrState
           /\ Conclude(found).pc = IF found THEN "inval" ELSE "idle"
<1>1. [IdleWr EXCEPT !.pc = "inval", !.touched = TRUE] \in WrState
  BY FirstTypes DEF WrState
<1> QED
  BY <1>1, FirstTypes DEF Conclude, IdleWr

LEMMA OvertakeType ==
    ASSUME TypeOK, Overtake
    PROVE  req' \in [Requests -> ReqState]
<1>1. ASSUME NEW r \in Requests
      PROVE  [req[r] EXCEPT !.excuses = {"overlap"}] \in ReqState
  BY DEF TypeOK, ReqState
<1> QED
  BY <1>1 DEF TypeOK, Overtake

LEMMA CacheInitType == Init => TypeOK
BY FirstTypes DEF Init, TypeOK, Live

LEMMA RequestStepType ==
    ASSUME TypeOK, NEW r \in Requests, RequestStep(r)
    PROVE  TypeOK'
<1> USE DEF rows, At
<1>0. /\ req \in [Requests -> ReqState] /\ req[r] \in ReqState
      /\ memRoles \subseteq Roles /\ direct \subseteq Live
      /\ rolePols \in [Roles -> SUBSET Live]
      /\ req[r].set \in PolicySet /\ req[r].excuses \in SUBSET Excuse
  BY DEF TypeOK, ReqState, Excuse
<1>a. ASSUME NEW state \in ReqState, req' = [req EXCEPT ![r] = state], cache' \in Entry,
             UNCHANGED <<rows, wr>>
      PROVE  TypeOK'
  BY <1>0, <1>a DEF TypeOK, Live
<1>b. cache \in Entry
  BY DEF TypeOK
<1>1. CASE FetchMiss(r)
  <2>1. [req[r] EXCEPT !.pc = "roles"] \in ReqState
    BY <1>0 DEF ReqState
  <2> QED
    BY <1>1, <1>a, <1>b, <2>1 DEF FetchMiss
<1>2. CASE ReadRoles(r)
  <2>1. [req[r] EXCEPT !.pc = "direct", !.todo = memRoles] \in ReqState
    BY <1>0 DEF ReqState
  <2> QED
    BY <1>2, <1>a, <1>b, <2>1 DEF ReadRoles
<1>3. CASE ReadDirect(r)
  <2>1. Compiled(direct) \in PolicySet
    BY <1>0, CompiledType
  <2>2. [req[r] EXCEPT !.pc = "rolePols", !.set = Compiled(direct)] \in ReqState
    BY <1>0, <2>1 DEF ReqState
  <2> QED
    BY <1>3, <1>a, <1>b, <2>2 DEF ReadDirect
<1>4. ASSUME NEW role \in Roles, ReadRolePolicies(r, role) PROVE TypeOK'
  <2>1. Compiled(rolePols[role]) \in PolicySet
    BY <1>0, CompiledType
  <2>2. req[r].set \cup Compiled(rolePols[role]) \in PolicySet
    BY <1>0, <2>1 DEF PolicySet
  <2> DEFINE state == [req[r] EXCEPT !.todo = @ \ {role},
                                     !.set = @ \cup Compiled(rolePols[role])]
  <2>3. state \in ReqState
    BY <1>0, <2>2 DEF ReqState
  <2>4. req' = [req EXCEPT ![r] = state] /\ UNCHANGED <<rows, cache, wr>>
    BY <1>4 DEF ReadRolePolicies
  <2> HIDE DEF state
  <2> QED
    BY <1>a, <1>b, <2>3, <2>4
<1>5. CASE Fill(r) \/ FillUnacknowledged(r)
  <2>1. [present |-> TRUE, set |-> req[r].set, excuses |-> req[r].excuses] \in Entry
    BY <1>0 DEF Entry
  <2>2. /\ cache' \in Entry /\ UNCHANGED <<rows, wr>>
        /\ req' = req \/ req' = [req EXCEPT ![r] = IdleReq]
    BY <1>5, <2>1 DEF Fill, FillUnacknowledged
  <2> QED
    BY <1>0, <1>a, <2>2, FirstTypes DEF TypeOK, Live
<1>6. CASE EndRequest(r)
  BY <1>6, <1>a, <1>b, FirstTypes DEF EndRequest
<1> QED
  BY <1>1, <1>2, <1>3, <1>4, <1>5, <1>6 DEF RequestStep

LEMMA WriterStepType ==
    ASSUME TypeOK, NEW w \in Writers, WriterStep(w)
    PROVE  TypeOK'
<1> USE DEF rows, Doing
<1>0. /\ wr \in [Writers -> WrState] /\ wr[w] \in WrState
      /\ req \in [Requests -> ReqState] /\ cache \in Entry
      /\ wr[w].pols \subseteq Policies /\ wr[w].roles \subseteq Roles
      /\ wr[w].relinkPols \in BOOLEAN /\ wr[w].found \in BOOLEAN
      /\ memRoles \subseteq Roles /\ direct \subseteq Live
      /\ rolePols \in [Roles -> SUBSET Live]
      /\ body \in [Policies -> Bodies \cup {Gone}]
  BY DEF TypeOK, WrState
<1>a. ASSUME NEW state \in WrState, wr' = [wr EXCEPT ![w] = state], cache' \in Entry,
             UNCHANGED <<rows, req>>
      PROVE  TypeOK'
  BY <1>0, <1>a DEF TypeOK, Live
\* A step that writes links of policies that are live.
<1>b. ASSUME NEW state \in WrState, wr' = [wr EXCEPT ![w] = state], Overtake,
             UNCHANGED <<body, cache>>,
             direct' \subseteq Live, memRoles' \subseteq Roles,
             rolePols' \in [Roles -> SUBSET Live]
      PROVE  TypeOK'
  BY <1>0, <1>b, OvertakeType DEF TypeOK, Live
<1>1. ASSUME NEW p \in Policies, NEW b \in Bodies, UpdatePolicy(w, p, b) PROVE TypeOK'
  <2>1. [IdleWr EXCEPT !.pc = "findDirect", !.pols = {p}, !.touched = TRUE] \in WrState
    BY FirstTypes DEF WrState
  <2>2. body' = [body EXCEPT ![p] = b] /\ Live' = Live
    BY <1>0, <1>1, GoneAssumption DEF UpdatePolicy, Live
  <2>3. wr' \in [Writers -> WrState] /\ req' \in [Requests -> ReqState]
        /\ UNCHANGED <<direct, memRoles, rolePols, cache>>
    BY <1>0, <1>1, <2>1, OvertakeType DEF UpdatePolicy
  <2> QED
    BY <1>0, <2>2, <2>3 DEF TypeOK
<1>2. ASSUME NEW p \in Policies, DeletePolicy(w, p) PROVE TypeOK'
  <2>1. [IdleWr EXCEPT !.pc = "findDirect", !.pols = {p}, !.touched = TRUE] \in WrState
    BY FirstTypes DEF WrState
  <2>2. body' = [body EXCEPT ![p] = Gone] /\ Live' = Live \ {p}
    BY <1>0, <1>2 DEF DeletePolicy, Live
  <2>3. "deleted" \in Excuse
    BY DEF Excuse
  <2>4. /\ wr' \in [Writers -> WrState] /\ req' \in [Requests -> ReqState]
        /\ cache' \in Entry /\ memRoles' = memRoles
        /\ direct' \subseteq Live' /\ rolePols' \in [Roles -> SUBSET Live']
    BY <1>0, <1>2, <2>1, <2>2, <2>3, OvertakeType, ExcusedType DEF DeletePolicy
  <2> QED
    BY <1>0, <2>2, <2>4 DEF TypeOK
<1>3. CASE FindDirect(w)
  <2> DEFINE state(found) == [wr[w] EXCEPT !.pc = "findRoles", !.found = found]
  <2>1. PICK found \in Found(wr[w].pols \subseteq direct) :
             /\ wr' = [wr EXCEPT ![w] = state(found)]
             /\ cache' = Limited(wr[w].pols \subseteq direct, found)
    BY <1>3 DEF FindDirect
  <2>2. found \in BOOLEAN
    BY DEF Found
  <2>3. state(found) \in WrState
    BY <1>0, <2>2 DEF WrState
  <2>4. cache' \in Entry
    BY <2>1, LimitedType
  <2> QED
    BY <1>3, <1>a, <2>1, <2>3, <2>4 DEF FindDirect
<1>4. CASE FindRoles(w)
  <2> DEFINE holders == {role \in Roles : wr[w].pols \subseteq rolePols[role]}
             state(listed) == [wr[w] EXCEPT !.pc = "findViaRoles", !.roles = listed,
                                            !.pols = {}]
             next(listed) == IF listed = {} THEN Conclude(wr[w].found) ELSE state(listed)
  <2>1. PICK listed \in Listed(holders) :
             wr' = [wr EXCEPT ![w] = next(listed)] /\ cache' = Limited(holders, listed)
    BY <1>4 DEF FindRoles
  <2>2. listed \subseteq Roles
    BY DEF Listed
  <2>3. state(listed) \in WrState
    BY <1>0, <2>2 DEF WrState
  <2>4. next(listed) \in WrState
    BY <2>3, ConcludeType
  <2>5. cache' \in Entry
    BY <2>1, LimitedType
  <2> HIDE DEF next
  <2> QED
    BY <1>4, <1>a, <2>1, <2>4, <2>5 DEF FindRoles
<1>5. CASE FindViaRoles(w)
  <2>1. PICK found \in Found(wr[w].roles \subseteq memRoles) :
             /\ wr' = [wr EXCEPT ![w] = Conclude(wr[w].found \/ found)]
             /\ cache' \in {Excused("severalRoles"),
                            Limited(wr[w].roles \subseteq memRoles, found)}
    BY <1>5 DEF FindViaRoles
  <2>2. "severalRoles" \in Excuse
    BY DEF Excuse
  <2>3. cache' \in Entry
    BY <2>1, <2>2, ExcusedType, LimitedType
  <2> QED
    BY <1>5, <1>a, <2>1, <2>3, ConcludeType DEF FindViaRoles
<1>6. ASSUME NEW role \in Roles, NEW pols \in SUBSET Policies, UnlinkRole(w, role, pols)
      PROVE  TypeOK'
  <2>1. [IdleWr EXCEPT !.roles = {role}, !.pols = pols,
                       !.pc = IF pols = {} THEN "findHolders" ELSE "linkRole",
                       !.touched = TRUE] \in WrState
    BY FirstTypes DEF WrState
  <2>2. [rolePols EXCEPT ![role] = {}] \in [Roles -> SUBSET Live]
    BY <1>0
  <2> QED
    BY <1>0, <1>6, <1>b, <2>1, <2>2 DEF UnlinkRole
<1>7. CASE LinkRole(w)
  <2>1. [wr[w] EXCEPT !.pc = "findHolders", !.pols = {}] \in WrState
    BY <1>0 DEF WrState
  <2>2. rolePols' \in [Roles -> SUBSET Live]
    BY <1>0, <1>7 DEF LinkRole
  <2> QED
    BY <1>0, <1>7, <1>b, <2>1, <2>2 DEF LinkRole
<1>8. CASE FindHolders(w)
  <2>1. PICK found \in Found(wr[w].roles \subseteq memRoles) :
             /\ wr' = [wr EXCEPT ![w] = Conclude(found)]
             /\ cache' = Limited(wr[w].roles \subseteq memRoles, found)
    BY <1>8 DEF FindHolders
  <2>2. cache' \in Entry
    BY <2>1, LimitedType
  <2> QED
    BY <1>8, <1>a, <2>1, <2>2, ConcludeType DEF FindHolders
<1>9. ASSUME NEW relinkRoles \in BOOLEAN, NEW relinkPols \in BOOLEAN,
             NEW roles \in SUBSET Roles, NEW pols \in SUBSET Policies,
             UpdateMembership(w, relinkRoles, roles, relinkPols, pols)
      PROVE  TypeOK'
  <2>1. [IdleWr EXCEPT !.pc = IF relinkRoles THEN "unlinkMemRoles"
                              ELSE IF relinkPols THEN "unlinkMemPols" ELSE "inval",
                       !.roles = roles, !.pols = pols,
                       !.relinkPols = relinkRoles /\ relinkPols] \in WrState
    BY FirstTypes DEF WrState
  <2> QED
    BY <1>0, <1>9, <1>a, <2>1 DEF UpdateMembership
<1>10. CASE UnlinkMemRoles(w)
  <2> DEFINE state == [wr[w] EXCEPT !.pc = IF wr[w].roles = {} THEN AfterRoles(w)
                                           ELSE "linkMemRoles",
                                    !.relinkPols = @ /\ wr[w].roles # {},
                                    !.touched = TRUE]
  <2>1. state \in WrState
    BY <1>0 DEF WrState, AfterRoles
  <2>2. /\ wr' = [wr EXCEPT ![w] = state] /\ Overtake /\ memRoles' = {}
        /\ UNCHANGED <<body, direct, rolePols, cache>>
    BY <1>10 DEF UnlinkMemRoles
  <2> HIDE DEF state
  <2> QED
    BY <1>0, <1>b, <2>1, <2>2
<1>11. CASE LinkMemRoles(w)
  <2>1. [wr[w] EXCEPT !.pc = AfterRoles(w), !.roles = {}, !.relinkPols = FALSE] \in WrState
    BY <1>0 DEF WrState, AfterRoles
  <2>2. memRoles' \subseteq Roles
    BY <1>0, <1>11 DEF LinkMemRoles
  <2> QED
    BY <1>0, <1>11, <1>b, <2>1, <2>2 DEF LinkMemRoles
<1>12. CASE UnlinkMemPols(w)
  <2>1. [wr[w] EXCEPT !.pc = IF wr[w].pols = {} THEN "inval" ELSE "linkMemPols",
                      !.touched = TRUE] \in WrState
    BY <1>0 DEF WrState
  <2> QED
    BY <1>0, <1>12, <1>b, <2>1 DEF UnlinkMemPols
<1>13. CASE LinkMemPols(w)
  <2>1. direct' \subseteq Live
    BY <1>0, <1>13 DEF LinkMemPols
  <2> QED
    BY <1>0, <1>13, <1>b, <2>1, ConcludeType DEF LinkMemPols
<1>14. CASE Invalidate(w)
  BY <1>14, <1>a, FirstTypes DEF Invalidate
<1>15. CASE Abort(w)
  <2>1. "abandoned" \in Excuse
    BY DEF Excuse
  <2> QED
    BY <1>0, <1>15, <1>a, <2>1, FirstTypes, ExcusedType DEF Abort
<1> QED
  BY <1>1, <1>2, <1>3, <1>4, <1>5, <1>6, <1>7, <1>8, <1>9, <1>10, <1>11, <1>12, <1>13,
     <1>14, <1>15 DEF WriterStep

LEMMA CacheNextType == TypeOK /\ [Next]_vars => TypeOK'
<1>1. TypeOK /\ UNCHANGED vars => TypeOK'
  BY DEF vars, TypeOK, Live
<1> QED
  BY <1>1, RequestStepType, WriterStepType DEF Next

\* Type correctness: in particular no link names a policy that is gone.
THEOREM TypeCorrect == Spec => []TypeOK
<1> QED
  BY CacheInitType, CacheNextType, PTL DEF Spec

-----------------------------------------------------------------------------
(* Hydrations.                                                             *)

LEMMA WriterStepTouch ==
    ASSUME TypeOK, WritesTouch, NEW w \in Writers, WriterStep(w)
    PROVE  WritesTouch'
<1> USE DEF Doing
<1>0. wr \in [Writers -> WrState] /\ wr[w] \in WrState
  BY DEF TypeOK
<1>b. ASSUME NEW state, wr' = [wr EXCEPT ![w] = state],
             state.pc \in {"findDirect", "findRoles", "findViaRoles", "linkRole",
                           "findHolders", "linkMemRoles", "linkMemPols"} => state.touched,
             state.pc = "linkRole" => \E role \in Roles : state.roles = {role}
      PROVE  WritesTouch'
  BY <1>0, <1>b DEF WritesTouch
<1>c. IdleWr.pc = "idle" /\ \A found : Conclude(found).pc \in {"idle", "inval"}
  BY ConcludeType DEF IdleWr
<1>1. ASSUME NEW p \in Policies,
             DeletePolicy(w, p) \/ \E b \in Bodies : UpdatePolicy(w, p, b)
      PROVE  WritesTouch'
  <2> DEFINE state == [IdleWr EXCEPT !.pc = "findDirect", !.pols = {p}, !.touched = TRUE]
  <2>1. state.pc = "findDirect" /\ state.touched
    BY DEF IdleWr
  <2>2. wr' = [wr EXCEPT ![w] = state]
    BY <1>1 DEF UpdatePolicy, DeletePolicy
  <2> HIDE DEF state
  <2> QED
    BY <1>b, <2>1, <2>2
<1>2. CASE FindDirect(w)
  <2> DEFINE state(found) == [wr[w] EXCEPT !.pc = "findRoles", !.found = found]
  <2>1. PICK found : wr' = [wr EXCEPT ![w] = state(found)]
    BY <1>2 DEF FindDirect
  <2>2. state(found).pc = "findRoles" /\ state(found).touched
    BY <1>0, <1>2 DEF FindDirect, WrState, WritesTouch
  <2> HIDE DEF state
  <2> QED
    BY <1>b, <2>1, <2>2
<1>3. CASE FindRoles(w)
  <2> DEFINE state(listed) == [wr[w] EXCEPT !.pc = "findViaRoles", !.roles = listed,
                                            !.pols = {}]
  <2>1. PICK listed : wr' = [wr EXCEPT ![w] = IF listed = {} THEN Conclude(wr[w].found)
                                              ELSE state(listed)]
    BY <1>3 DEF FindRoles
  <2>2. state(listed).pc = "findViaRoles" /\ state(listed).touched
    BY <1>0, <1>3 DEF FindRoles, WrState, WritesTouch
  <2> HIDE DEF state
  <2> QED
    BY <1>b, <1>c, <2>1, <2>2
<1>4. CASE FindViaRoles(w) \/ FindHolders(w)
  <2>1. PICK found : wr' = [wr EXCEPT ![w] = Conclude(found)]
    BY <1>4 DEF FindViaRoles, FindHolders
  <2> QED
    BY <1>b, <1>c, <2>1
<1>5. ASSUME NEW role \in Roles, NEW pols \in SUBSET Policies,
             UnlinkRole(w, role, pols)
      PROVE  WritesTouch'
  <2> DEFINE state == [IdleWr EXCEPT !.roles = {role}, !.pols = pols,
                                     !.pc = IF pols = {} THEN "findHolders" ELSE "linkRole",
                                     !.touched = TRUE]
  <2>1. state.touched /\ state.roles = {role}
    BY DEF IdleWr
  <2>2. wr' = [wr EXCEPT ![w] = state]
    BY <1>5 DEF UnlinkRole
  <2> HIDE DEF state
  <2> QED
    BY <1>b, <2>1, <2>2
<1>6. CASE LinkRole(w)
  <2> DEFINE state == [wr[w] EXCEPT !.pc = "findHolders", !.pols = {}]
  <2>1. state.pc = "findHolders" /\ state.touched
    BY <1>0, <1>6 DEF LinkRole, WrState, WritesTouch
  <2>2. wr' = [wr EXCEPT ![w] = state]
    BY <1>6 DEF LinkRole
  <2> HIDE DEF state
  <2> QED
    BY <1>b, <2>1, <2>2
<1>7. ASSUME NEW relinkRoles \in BOOLEAN, NEW relinkPols \in BOOLEAN,
             NEW roles \in SUBSET Roles, NEW pols \in SUBSET Policies,
             UpdateMembership(w, relinkRoles, roles, relinkPols, pols)
      PROVE  WritesTouch'
  <2> DEFINE state == [IdleWr EXCEPT
                         !.pc = IF relinkRoles THEN "unlinkMemRoles"
                                ELSE IF relinkPols THEN "unlinkMemPols" ELSE "inval",
                         !.roles = roles, !.pols = pols,
                         !.relinkPols = relinkRoles /\ relinkPols]
  <2>1. state.pc \in {"unlinkMemRoles", "unlinkMemPols", "inval"}
    BY DEF IdleWr
  <2>2. wr' = [wr EXCEPT ![w] = state]
    BY <1>7 DEF UpdateMembership
  <2> HIDE DEF state
  <2> QED
    BY <1>b, <2>1, <2>2
<1>8. CASE UnlinkMemRoles(w)
  <2> DEFINE state == [wr[w] EXCEPT !.pc = IF wr[w].roles = {} THEN AfterRoles(w)
                                           ELSE "linkMemRoles",
                                    !.relinkPols = @ /\ wr[w].roles # {},
                                    !.touched = TRUE]
  <2>1. state.touched /\ state.pc # "linkRole"
    BY <1>0 DEF WrState, AfterRoles
  <2>2. wr' = [wr EXCEPT ![w] = state]
    BY <1>8 DEF UnlinkMemRoles
  <2> HIDE DEF state
  <2> QED
    BY <1>b, <2>1, <2>2
<1>9. CASE LinkMemRoles(w)
  <2> DEFINE state == [wr[w] EXCEPT !.pc = AfterRoles(w), !.roles = {}, !.relinkPols = FALSE]
  <2>1. state.pc \in {"unlinkMemPols", "inval"}
    BY <1>0 DEF WrState, AfterRoles
  <2>2. wr' = [wr EXCEPT ![w] = state]
    BY <1>9 DEF LinkMemRoles
  <2> HIDE DEF state
  <2> QED
    BY <1>b, <2>1, <2>2
<1>10. CASE UnlinkMemPols(w)
  <2> DEFINE state == [wr[w] EXCEPT !.pc = IF wr[w].pols = {} THEN "inval" ELSE "linkMemPols",
                                    !.touched = TRUE]
  <2>1. state.touched /\ state.pc # "linkRole"
    BY <1>0 DEF WrState
  <2>2. wr' = [wr EXCEPT ![w] = state]
    BY <1>10 DEF UnlinkMemPols
  <2> HIDE DEF state
  <2> QED
    BY <1>b, <2>1, <2>2
<1>11. CASE LinkMemPols(w) \/ Invalidate(w) \/ Abort(w)
  BY <1>11, <1>b, <1>c DEF LinkMemPols, Invalidate, Abort
<1> QED
  BY <1>1, <1>2, <1>3, <1>4, <1>5, <1>6, <1>7, <1>8, <1>9, <1>10, <1>11 DEF WriterStep

LEMMA NextTouch == TypeOK /\ WritesTouch /\ [Next]_vars => WritesTouch'
<1>1. WritesTouch /\ wr' = wr => WritesTouch'
  BY DEF WritesTouch
<1>2. ASSUME NEW r \in Requests, RequestStep(r) PROVE wr' = wr
  BY <1>2 DEF RequestStep, FetchMiss, ReadRoles, ReadDirect, ReadRolePolicies, Fill,
     FillUnacknowledged, EndRequest
<1> QED
  BY <1>1, <1>2, WriterStepTouch DEF Next, vars

\* A write leaves no hydration under way that need be current.
LEMMA OvertakenReads ==
    ASSUME TypeOK, Overtake
    PROVE  ReadsAreCurrent'
<1>1. ASSUME NEW r \in Requests, req'[r].excuses = {}
      PROVE  req'[r].pc \notin {"direct", "rolePols"}
  BY <1>1 DEF TypeOK, Overtake, ReqState
<1> QED
  BY <1>1 DEF ReadsAreCurrent

LEMMA ReadMore ==
    ASSUME NEW roles, NEW role
    PROVE  Read(roles \cup {role}) = Read(roles) \cup Compiled(rolePols[role])
BY DEF Read

LEMMA ReadAll == Read(memRoles) = Effective
BY DEF Read, Effective, Compiled

LEMMA NextReads == TypeOK /\ ReadsAreCurrent /\ [Next]_vars => ReadsAreCurrent'
<1> SUFFICES ASSUME TypeOK, ReadsAreCurrent, [Next]_vars PROVE ReadsAreCurrent'
  OBVIOUS
<1> USE DEF rows, At
<1>0. req \in [Requests -> ReqState] /\ \A r \in Requests : req[r] \in ReqState
  BY DEF TypeOK
<1>a. ASSUME UNCHANGED <<rows, req>> PROVE ReadsAreCurrent'
  BY <1>a DEF ReadsAreCurrent, Read, Compiled
\* A step of a hydration.
<1>b. ASSUME NEW r \in Requests, NEW state, req' = [req EXCEPT ![r] = state],
             UNCHANGED rows,
             state.excuses = {} =>
                /\ state.pc = "direct" => state.todo = memRoles
                /\ state.pc = "rolePols" =>
                      /\ state.todo \subseteq memRoles
                      /\ state.set = Read(memRoles \ state.todo)
      PROVE  ReadsAreCurrent'
  <2>1. \A roles : Read(roles)' = Read(roles')
    BY <1>b DEF Read, Compiled
  <2>2. memRoles' = memRoles /\ \A roles : Read(roles)' = Read(roles)
    BY <1>b DEF Read, Compiled
  <2>3. req'[r] = state /\ \A s \in Requests : s # r => req'[s] = req[s]
    BY <1>0, <1>b
  <2> QED
    BY <1>b, <2>2, <2>3 DEF ReadsAreCurrent, Read, Compiled
<1>1. CASE UNCHANGED vars
  BY <1>1, <1>a DEF vars
<1>2. ASSUME NEW r \in Requests, RequestStep(r) PROVE ReadsAreCurrent'
  <2>1. CASE FetchMiss(r)
    <3>1. [req[r] EXCEPT !.pc = "roles"].pc = "roles"
      BY <1>0 DEF ReqState
    <3> QED
      BY <1>b, <2>1, <3>1 DEF FetchMiss
  <2>2. CASE ReadRoles(r)
    <3> DEFINE state == [req[r] EXCEPT !.pc = "direct", !.todo = memRoles]
    <3>1. state.pc = "direct" /\ state.todo = memRoles
      BY <1>0 DEF ReqState
    <3>2. req' = [req EXCEPT ![r] = state] /\ UNCHANGED rows
      BY <2>2 DEF ReadRoles
    <3> HIDE DEF state
    <3> QED
      BY <1>b, <3>1, <3>2
  <2>3. CASE ReadDirect(r)
    <3> DEFINE state == [req[r] EXCEPT !.pc = "rolePols", !.set = Compiled(direct)]
    <3>1. /\ state.pc = "rolePols" /\ state.set = Compiled(direct)
          /\ state.todo = req[r].todo /\ state.excuses = req[r].excuses
      BY <1>0 DEF ReqState
    <3>2. req' = [req EXCEPT ![r] = state] /\ UNCHANGED rows
      BY <2>3 DEF ReadDirect
    <3>3. state.excuses = {} => state.todo = memRoles
      BY <2>3, <3>1 DEF ReadDirect, ReadsAreCurrent
    <3>4. state.todo = memRoles => Read(memRoles \ state.todo) = Compiled(direct)
      BY DEF Read
    <3> HIDE DEF state
    <3> QED
      BY <1>b, <3>1, <3>2, <3>3, <3>4
  <2>4. ASSUME NEW role \in Roles, ReadRolePolicies(r, role) PROVE ReadsAreCurrent'
    <3> DEFINE state == [req[r] EXCEPT !.todo = @ \ {role},
                                       !.set = @ \cup Compiled(rolePols[role])]
    <3>1. /\ state.pc = "rolePols" /\ state.excuses = req[r].excuses
          /\ state.todo = req[r].todo \ {role}
          /\ state.set = req[r].set \cup Compiled(rolePols[role])
      BY <1>0, <2>4 DEF ReadRolePolicies, ReqState
    <3>2. req' = [req EXCEPT ![r] = state] /\ UNCHANGED rows /\ role \in req[r].todo
      BY <2>4 DEF ReadRolePolicies
    <3> HIDE DEF state
    <3>3. ASSUME state.excuses = {}
          PROVE  /\ state.todo \subseteq memRoles
                 /\ state.set = Read(memRoles \ state.todo)
      <4>1. req[r].todo \subseteq memRoles /\ req[r].set = Read(memRoles \ req[r].todo)
        BY <2>4, <3>1, <3>3 DEF ReadRolePolicies, ReadsAreCurrent
      <4>2. memRoles \ state.todo = (memRoles \ req[r].todo) \cup {role}
        BY <3>1, <3>2, <4>1
      <4>3. Read((memRoles \ req[r].todo) \cup {role})
              = Read(memRoles \ req[r].todo) \cup Compiled(rolePols[role])
        BY ReadMore
      <4> QED
        BY <3>1, <4>1, <4>2, <4>3
    <3> QED
      BY <1>b, <3>1, <3>2, <3>3
  <2>5. CASE Fill(r) \/ EndRequest(r)
    <3>1. IdleReq.pc = "idle"
      BY DEF IdleReq
    <3> QED
      BY <1>b, <2>5, <3>1 DEF Fill, EndRequest
  <2>6. CASE FillUnacknowledged(r)
    BY <1>a, <2>6 DEF FillUnacknowledged
  <2> QED
    BY <1>2, <2>1, <2>2, <2>3, <2>4, <2>5, <2>6 DEF RequestStep
<1>3. ASSUME NEW w \in Writers, WriterStep(w) PROVE ReadsAreCurrent'
  <2>1. Overtake \/ UNCHANGED <<rows, req>>
    BY <1>3 DEF WriterStep, UpdatePolicy, DeletePolicy, FindDirect, FindRoles, FindViaRoles,
       UnlinkRole, LinkRole, FindHolders, UpdateMembership, UnlinkMemRoles, LinkMemRoles,
       UnlinkMemPols, LinkMemPols, Invalidate, Abort
  <2> QED
    BY <1>a, <2>1, OvertakenReads
<1> QED
  BY <1>1, <1>2, <1>3 DEF Next

-----------------------------------------------------------------------------
(* Invalidations.                                                          *)

\* A request that waits still does if its links and the membership's only grow.
LEMMA StillPending ==
    ASSUME NEW v \in Writers, Pending(v), wr'[v] = wr[v],
           direct \subseteq direct', memRoles \subseteq memRoles',
           \A role \in memRoles : rolePols[role] \subseteq rolePols'[role]
    PROVE  Pending(v)'
BY DEF Pending, WillFind, ViaRole

\* Nothing is pending for an entry that is gone or excused.
LEMMA NothingPending ==
    ASSUME ~cache'.present \/ cache'.excuses # {}
    PROVE  ChangesArePending'
BY DEF ChangesArePending

LEMMA ExcusedAway ==
    ASSUME TypeOK, NEW excuse
    PROVE  ~Excused(excuse).present \/ Excused(excuse).excuses # {}
BY DEF TypeOK, Entry, Excused

LEMMA LimitedAway ==
    ASSUME TypeOK, NEW asked, NEW answered
    PROVE  \/ answered = asked /\ Limited(asked, answered) = cache
           \/ ~Limited(asked, answered).present \/ Limited(asked, answered).excuses # {}
BY ExcusedAway DEF Limited

\* The request that writes waits itself.
LEMMA SelfPending ==
    ASSUME NEW w \in Writers, Pending(w)'
    PROVE  ChangesArePending'
BY DEF ChangesArePending

\* A write that does not concern the membership, or a step that writes nothing.
LEMMA OthersPending ==
    ASSUME ChangesArePending, NEW w \in Writers,
           \A v \in Writers : v # w => wr'[v] = wr[v],
           Pending(w) => Pending(w)',
           cache' = cache, Effective' = Effective,
           direct \subseteq direct', memRoles \subseteq memRoles',
           \A role \in memRoles : rolePols[role] \subseteq rolePols'[role]
    PROVE  ChangesArePending'
<1> SUFFICES ASSUME cache'.present, cache'.excuses = {}, cache'.set # Effective'
             PROVE  \E v \in Writers : Pending(v)'
  BY DEF ChangesArePending
<1>1. PICK v \in Writers : Pending(v)
  BY DEF ChangesArePending
<1>2. CASE v = w
  BY <1>1, <1>2
<1>3. CASE v # w
  BY <1>1, <1>3, StillPending
<1> QED
  BY <1>2, <1>3

LEMMA WriterStepPending ==
    ASSUME TypeOK, WritesTouch, ChangesArePending, NEW w \in Writers, WriterStep(w)
    PROVE  ChangesArePending'
<1> USE DEF rows, Doing
<1>0. wr \in [Writers -> WrState] /\ wr[w] \in WrState
  BY DEF TypeOK
\* A step without a write that leaves the entry as it is.
<1>a. ASSUME NEW state, wr' = [wr EXCEPT ![w] = state], cache' = cache, UNCHANGED rows,
             Pending(w) => Pending(w)'
      PROVE  ChangesArePending'
  <2>1. /\ \A v \in Writers : v # w => wr'[v] = wr[v]
        /\ Effective' = Effective /\ direct' = direct /\ memRoles' = memRoles
        /\ rolePols' = rolePols
    BY <1>0, <1>a DEF Effective, Compiled
  <2> QED
    BY <1>a, <2>1, OthersPending
<1>b. \A found : Conclude(found).touched = (IF found THEN TRUE ELSE FALSE)
                 /\ Conclude(found).pc = IF found THEN "inval" ELSE "idle"
  BY DEF Conclude, IdleWr
\* A step after which the request is about to invalidate.
<1>c. ASSUME wr'[w].touched,
             wr'[w].pc \in {"linkMemRoles", "unlinkMemPols", "linkMemPols", "inval"}
      PROVE  ChangesArePending'
  BY <1>c, SelfPending DEF Pending, WillFind
<1>1. ASSUME NEW p \in Policies, NEW b \in Bodies, UpdatePolicy(w, p, b)
      PROVE  ChangesArePending'
  <2>1. wr'[w].pc = "findDirect" /\ wr'[w].pols = {p} /\ wr'[w].touched
    BY <1>0, <1>1 DEF UpdatePolicy, IdleWr
  <2>2. CASE p \in direct \/ \E role \in memRoles : p \in rolePols[role]
    <3>1. Pending(w)'
      BY <1>1, <2>1, <2>2 DEF UpdatePolicy, Pending, WillFind, ViaRole
    <3> QED
      BY <3>1, SelfPending
  <2>3. CASE ~(p \in direct \/ \E role \in memRoles : p \in rolePols[role])
    <3>1. body' = [body EXCEPT ![p] = b] /\ cache' = cache
          /\ UNCHANGED <<direct, memRoles, rolePols>>
      BY <1>1 DEF UpdatePolicy
    <3>2. \A q \in Policies : q # p => body'[q] = body[q]
      BY <3>1 DEF TypeOK
    <3>3. \A q \in direct \cup UNION {rolePols[role] : role \in memRoles} :
             body'[q] = body[q]
      BY <2>3, <3>2 DEF TypeOK, Live
    <3>4. Effective' = Effective
      BY <3>1, <3>3 DEF Effective, Compiled
    <3>5. ~Pending(w) /\ \A v \in Writers : v # w => wr'[v] = wr[v]
      BY <1>0, <1>1 DEF UpdatePolicy, Pending, WillFind
    <3> QED
      BY <3>1, <3>4, <3>5, OthersPending
  <2> QED
    BY <2>2, <2>3
<1>2. ASSUME NEW p \in Policies, DeletePolicy(w, p) PROVE ChangesArePending'
  BY <1>2, NothingPending, ExcusedAway DEF DeletePolicy
<1>3. CASE FindDirect(w)
  <2> DEFINE state(found) == [wr[w] EXCEPT !.pc = "findRoles", !.found = found]
  <2>1. PICK found \in Found(wr[w].pols \subseteq direct) :
             /\ wr' = [wr EXCEPT ![w] = state(found)]
             /\ cache' = Limited(wr[w].pols \subseteq direct, found)
    BY <1>3 DEF FindDirect
  <2>2. CASE found = (wr[w].pols \subseteq direct) /\ cache' = cache
    <3>1. /\ wr'[w].pc = "findRoles" /\ wr'[w].found = found
          /\ wr'[w].pols = wr[w].pols /\ wr'[w].touched = wr[w].touched
      BY <1>0, <2>1 DEF WrState
    <3>2. UNCHANGED rows /\ wr[w].pc = "findDirect"
      BY <1>3 DEF FindDirect
    <3>3. Pending(w) => Pending(w)'
      BY <2>2, <3>1, <3>2 DEF Pending, WillFind, ViaRole
    <3> QED
      BY <1>a, <2>1, <2>2, <3>2, <3>3
  <2> QED
    BY <2>1, <2>2, LimitedAway, NothingPending
<1>4. CASE FindRoles(w)
  <2> DEFINE holders == {role \in Roles : wr[w].pols \subseteq rolePols[role]}
             state(listed) == [wr[w] EXCEPT !.pc = "findViaRoles", !.roles = listed,
                                            !.pols = {}]
  <2>1. PICK listed \in Listed(holders) :
             /\ wr' = [wr EXCEPT ![w] = IF listed = {} THEN Conclude(wr[w].found)
                                        ELSE state(listed)]
             /\ cache' = Limited(holders, listed)
    BY <1>4 DEF FindRoles
  <2>2. CASE listed = holders /\ cache' = cache
    <3>1. UNCHANGED rows /\ wr[w].pc = "findRoles" /\ memRoles \subseteq Roles
      BY <1>4 DEF FindRoles, TypeOK
    <3>2. Pending(w) => wr[w].touched /\ (wr[w].found \/ holders \cap memRoles # {})
      BY <3>1 DEF Pending, WillFind, ViaRole
    <3>3. CASE listed = {}
      <4>1. wr'[w] = Conclude(wr[w].found)
        BY <1>0, <2>1, <3>3
      <4>2. Pending(w) => Pending(w)'
        BY <1>b, <2>2, <3>2, <3>3, <4>1 DEF Pending, WillFind
      <4> QED
        BY <1>a, <2>1, <2>2, <3>1, <4>2
    <3>4. CASE listed # {}
      <4>1. /\ wr'[w].pc = "findViaRoles" /\ wr'[w].roles = holders
            /\ wr'[w].found = wr[w].found /\ wr'[w].touched = wr[w].touched
        BY <1>0, <2>1, <2>2, <3>4 DEF WrState
      <4>2. Pending(w) => Pending(w)'
        BY <3>1, <3>2, <4>1 DEF Pending, WillFind
      <4> QED
        BY <1>a, <2>1, <2>2, <3>1, <4>2
    <3> QED
      BY <3>3, <3>4
  <2> QED
    BY <2>1, <2>2, LimitedAway, NothingPending
<1>5. CASE FindViaRoles(w)
  <2> DEFINE all == wr[w].roles \subseteq memRoles
             some == wr[w].roles \cap memRoles # {}
  <2>1. PICK found \in Found(all) :
             /\ wr' = [wr EXCEPT ![w] = Conclude(wr[w].found \/ found)]
             /\ cache' = IF some /\ ~all THEN Excused("severalRoles")
                         ELSE Limited(all, found)
    BY <1>5 DEF FindViaRoles
  <2>2. CASE ~(some /\ ~all) /\ found = all /\ cache' = cache
    <3>1. UNCHANGED rows /\ wr[w].pc = "findViaRoles"
      BY <1>5 DEF FindViaRoles
    <3>2. wr'[w] = Conclude(wr[w].found \/ found)
      BY <1>0, <2>1
    <3>3. Pending(w) => wr[w].found \/ found
      BY <2>2, <3>1 DEF Pending, WillFind
    <3>4. Pending(w) => Pending(w)'
      BY <1>b, <3>2, <3>3 DEF Pending, WillFind
    <3> QED
      BY <1>a, <2>1, <2>2, <3>1, <3>4
  <2> QED
    BY <2>1, <2>2, LimitedAway, ExcusedAway, NothingPending
<1>6. ASSUME NEW role \in Roles, NEW pols \in SUBSET Policies, UnlinkRole(w, role, pols)
      PROVE  ChangesArePending'
  <2>1. /\ wr'[w].pc \in {"findHolders", "linkRole"} /\ wr'[w].roles = {role}
        /\ wr'[w].touched
        /\ rolePols' = [rolePols EXCEPT ![role] = {}]
        /\ UNCHANGED <<body, direct, memRoles, cache>>
    BY <1>0, <1>6 DEF UnlinkRole, IdleWr
  <2>2. CASE role \in memRoles
    <3>1. Pending(w)'
      BY <2>1, <2>2 DEF Pending, WillFind
    <3> QED
      BY <3>1, SelfPending
  <2>3. CASE role \notin memRoles
    <3>1. \A held \in memRoles : rolePols'[held] = rolePols[held]
      BY <2>1, <2>3 DEF TypeOK
    <3>2. Effective' = Effective
      BY <2>1, <3>1 DEF Effective, Compiled
    <3>3. ~Pending(w) /\ \A v \in Writers : v # w => wr'[v] = wr[v]
      BY <1>0, <1>6 DEF UnlinkRole, Pending, WillFind
    <3> QED
      BY <2>1, <3>1, <3>2, <3>3, OthersPending
  <2> QED
    BY <2>2, <2>3
<1>7. CASE LinkRole(w)
  <2>1. PICK role \in Roles : wr[w].roles = {role}
    BY <1>7 DEF LinkRole, WritesTouch
  <2>2. /\ wr'[w].pc = "findHolders" /\ wr'[w].roles = {role} /\ wr'[w].touched
        /\ UNCHANGED <<body, direct, memRoles, cache>>
    BY <1>0, <1>7, <2>1 DEF LinkRole, WrState, WritesTouch
  <2>3. CASE role \in memRoles
    <3>1. Pending(w)'
      BY <2>2, <2>3 DEF Pending, WillFind
    <3> QED
      BY <3>1, SelfPending
  <2>4. CASE role \notin memRoles
    <3>1. \A held \in memRoles : rolePols'[held] = rolePols[held]
      BY <1>7, <2>1, <2>4 DEF LinkRole, TypeOK
    <3>2. Effective' = Effective
      BY <2>2, <3>1 DEF Effective, Compiled
    <3>3. ~Pending(w) /\ \A v \in Writers : v # w => wr'[v] = wr[v]
      BY <1>0, <1>7, <2>1, <2>4 DEF LinkRole, Pending, WillFind
    <3> QED
      BY <2>2, <3>1, <3>2, <3>3, OthersPending
  <2> QED
    BY <2>3, <2>4
<1>8. CASE FindHolders(w)
  <2> DEFINE holds == wr[w].roles \subseteq memRoles
  <2>1. PICK found \in Found(holds) :
             /\ wr' = [wr EXCEPT ![w] = Conclude(found)] /\ cache' = Limited(holds, found)
    BY <1>8 DEF FindHolders
  <2>2. CASE found = holds /\ cache' = cache
    <3>1. UNCHANGED rows /\ wr[w].pc = "findHolders"
      BY <1>8 DEF FindHolders
    <3>2. wr'[w] = Conclude(found)
      BY <1>0, <2>1
    <3>3. Pending(w) => found
      BY <2>2, <3>1 DEF Pending, WillFind
    <3>4. Pending(w) => Pending(w)'
      BY <1>b, <3>2, <3>3 DEF Pending, WillFind
    <3> QED
      BY <1>a, <2>1, <2>2, <3>1, <3>4
  <2> QED
    BY <2>1, <2>2, LimitedAway, NothingPending
<1>9. ASSUME NEW relinkRoles \in BOOLEAN, NEW relinkPols \in BOOLEAN,
             NEW roles \in SUBSET Roles, NEW pols \in SUBSET Policies,
             UpdateMembership(w, relinkRoles, roles, relinkPols, pols)
      PROVE  ChangesArePending'
  <2>1. ~Pending(w)
    BY <1>9 DEF UpdateMembership, Pending, WillFind
  <2> QED
    BY <1>9, <1>a, <2>1 DEF UpdateMembership
<1>10. CASE UnlinkMemRoles(w)
  <2>1. wr'[w].touched /\ wr'[w].pc \in {"linkMemRoles", "unlinkMemPols", "inval"}
    BY <1>0, <1>10 DEF UnlinkMemRoles, AfterRoles, WrState
  <2> QED
    BY <1>c, <2>1
<1>11. CASE LinkMemRoles(w)
  <2>1. wr'[w].touched /\ wr'[w].pc \in {"unlinkMemPols", "inval"}
    BY <1>0, <1>11 DEF LinkMemRoles, AfterRoles, WrState, WritesTouch
  <2> QED
    BY <1>c, <2>1
<1>12. CASE UnlinkMemPols(w)
  <2>1. wr'[w].touched /\ wr'[w].pc \in {"linkMemPols", "inval"}
    BY <1>0, <1>12 DEF UnlinkMemPols, WrState
  <2> QED
    BY <1>c, <2>1
<1>13. CASE LinkMemPols(w)
  <2>1. wr'[w] = Conclude(TRUE)
    BY <1>0, <1>13 DEF LinkMemPols
  <2> QED
    BY <1>b, <1>c, <2>1
<1>14. CASE Invalidate(w)
  BY <1>14, NothingPending DEF Invalidate, NoEntry
<1>15. CASE Abort(w)
  <2>1. CASE wr[w].touched
    BY <1>15, <2>1, NothingPending, ExcusedAway DEF Abort
  <2>2. CASE ~wr[w].touched
    BY <1>15, <1>a, <2>2 DEF Abort, Pending
  <2> QED
    BY <2>1, <2>2
<1> QED
  BY <1>1, <1>2, <1>3, <1>4, <1>5, <1>6, <1>7, <1>8, <1>9, <1>10, <1>11, <1>12, <1>13,
     <1>14, <1>15 DEF WriterStep

LEMMA NextPending ==
    TypeOK /\ WritesTouch /\ ReadsAreCurrent /\ ChangesArePending /\ [Next]_vars
        => ChangesArePending'
<1> SUFFICES ASSUME TypeOK, WritesTouch, ReadsAreCurrent, ChangesArePending, [Next]_vars
             PROVE  ChangesArePending'
  OBVIOUS
<1>a. ASSUME UNCHANGED <<rows, cache, wr>> PROVE ChangesArePending'
  BY <1>a DEF rows, ChangesArePending, Pending, WillFind, ViaRole, Effective, Compiled
<1>1. CASE UNCHANGED vars
  BY <1>1, <1>a DEF vars, rows
<1>2. ASSUME NEW r \in Requests, Fill(r) \/ FillUnacknowledged(r)
      PROVE  ChangesArePending'
  <2>1. /\ req[r].pc = "rolePols" /\ req[r].todo = {} /\ UNCHANGED rows
        /\ cache'.excuses = req[r].excuses /\ cache'.set = req[r].set
    BY <1>2 DEF Fill, FillUnacknowledged, At
  <2>2. memRoles \ {} = memRoles
    OBVIOUS
  <2>3. cache'.excuses = {} => cache'.set = Effective
    BY <2>1, <2>2, ReadAll DEF ReadsAreCurrent
  <2>4. Effective' = Effective
    BY <2>1 DEF rows, Effective, Compiled
  <2> QED
    BY <2>3, <2>4 DEF ChangesArePending
<1>3. ASSUME NEW r \in Requests, RequestStep(r) PROVE ChangesArePending'
  BY <1>3, <1>2, <1>a DEF RequestStep, FetchMiss, ReadRoles, ReadDirect, ReadRolePolicies,
     EndRequest
<1> QED
  BY <1>1, <1>3, WriterStepPending DEF Next

LEMMA InitPending == Init => WritesTouch /\ ReadsAreCurrent /\ ChangesArePending
BY DEF Init, WritesTouch, ReadsAreCurrent, ChangesArePending, IdleReq, IdleWr, NoEntry

\* The lookups reach the membership: without a request under way, an entry that
\* is not excused is the effective policy set.
THEOREM EntriesAreEffective == Spec => []CoherentUnlessExcused
<1>1. Init => CacheInv
  BY CacheInitType, InitPending DEF CacheInv
<1>2. CacheInv /\ [Next]_vars => CacheInv'
  BY CacheNextType, NextTouch, NextReads, NextPending DEF CacheInv
<1>3. CacheInv => CoherentUnlessExcused
  BY DEF CacheInv, ChangesArePending, CoherentUnlessExcused, Settled, Pending
<1> QED
  BY <1>1, <1>2, <1>3, PTL DEF Spec

-----------------------------------------------------------------------------
(***************************************************************************)
(* The rows and their runtime keys (PolicyKeys).                           *)
(***************************************************************************)

AdmState == {Idle} \cup Creating \cup Updating

LEMMA States ==
    ASSUME NEW state \in AdmState
    PROVE  /\ state.pc = "idle" <=> state = Idle
           /\ state.pc = "insert" <=> state \in Creating
           /\ state.pc \in {"list", "write"} <=> state \in Updating
           /\ state # Idle => [state EXCEPT !.blind = TRUE] \in AdmState
<1>1. CASE state = Idle
  <2>1. state.pc = "idle"
    BY <1>1 DEF Idle
  <2>2. state \notin Creating /\ state \notin Updating
    BY <2>1 DEF Creating, Updating
  <2> QED
    BY <1>1, <2>1, <2>2
<1>2. CASE state \in Creating
  <2>1. state.pc = "insert" /\ [state EXCEPT !.blind = TRUE] \in Creating
    BY <1>2 DEF Creating
  <2>2. state # Idle /\ state \notin Updating
    BY <2>1 DEF Idle, Updating
  <2> QED
    BY <1>2, <2>1, <2>2 DEF AdmState
<1>3. CASE state \in Updating
  <2>1. state.pc \in {"list", "write"} /\ [state EXCEPT !.blind = TRUE] \in Updating
    BY <1>3 DEF Updating
  <2>2. state # Idle /\ state \notin Creating
    BY <2>1 DEF Idle, Creating
  <2> QED
    BY <1>3, <2>1, <2>2 DEF AdmState
<1> QED
  BY <1>1, <1>2, <1>3 DEF AdmState

LEMMA MergeType ==
    ASSUME NEW content \in Body, NEW patch \in Patch
    PROVE  Merge(content, patch) \in Body
BY DEF Body, Patch, Merge

\* The keys compare what the policies say.
LEMMA KeysCompare ==
    ASSUME NEW content, NEW other, SaySame(content, other)
    PROVE  runtime_key(content) = runtime_key(other)
BY DEF SaySame, runtime_key

LEMMA SaySameSymmetric ==
    ASSUME NEW content, NEW other, SaySame(content, other)
    PROVE  SaySame(other, content)
BY DEF SaySame

\* What a write leaves.
LEMMA WriteRows ==
    ASSUME NEW w \in Admins, NEW p, NEW content, Write(w, p, content)
    PROVE  /\ Stored' = Stored \cup {p}
           /\ policy'[p] = [body |-> content, blind |-> adm[w].blind]
           /\ \A q \in Stored : q # p => policy'[q] = policy[q]
BY DEF Write, Stored

LEMMA WriteType ==
    ASSUME KeysTypeOK, NEW w \in Admins, NEW p \in Ids, NEW content \in Body,
           adm[w].blind \in BOOLEAN, Write(w, p, content),
           used' \subseteq Ids, used \cup {p} \subseteq used'
    PROVE  KeysTypeOK'
<1>1. policy' \in [Stored' -> Row]
  <2>1. ASSUME NEW q \in Stored \cup {p}
        PROVE  (IF q = p THEN [body |-> content, blind |-> adm[w].blind] ELSE policy[q]) \in Row
    BY DEF KeysTypeOK, Row
  <2>2. Stored' = Stored \cup {p}
    BY WriteRows
  <2>3. policy' = [q \in Stored \cup {p} |->
                   IF q = p THEN [body |-> content, blind |-> adm[w].blind] ELSE policy[q]]
    BY DEF Write
  <2> HIDE DEF Stored
  <2> QED
    BY <2>1, <2>2, <2>3
<1>2. adm' \in [Admins -> AdmState]
  <2>1. ASSUME NEW v \in Admins
        PROVE  (IF v = w \/ IsIdle(v) THEN Idle ELSE [adm[v] EXCEPT !.blind = TRUE])
                  \in AdmState
    <3>1. adm[v] \in AdmState
      BY DEF KeysTypeOK, AdmState
    <3>2. IsIdle(v) <=> adm[v] = Idle
      BY <3>1, States DEF IsIdle
    <3> QED
      BY <3>1, <3>2, States DEF AdmState
  <2> QED
    BY <2>1 DEF Write
<1>3. Stored' \subseteq used'
  BY WriteRows DEF KeysTypeOK
<1> QED
  BY <1>1, <1>2, <1>3 DEF KeysTypeOK, AdmState

-----------------------------------------------------------------------------
(* Types.                                                                  *)

LEMMA KeysInitType == KeysInit => KeysTypeOK
BY DEF KeysInit, KeysTypeOK, Stored

LEMMA KeysNextType == KeysTypeOK /\ [KeysNext]_keyVars => KeysTypeOK'
<1> SUFFICES ASSUME KeysTypeOK, [KeysNext]_keyVars PROVE KeysTypeOK'
  OBVIOUS
<1>0. ASSUME NEW w \in Admins PROVE adm[w] \in AdmState
  BY DEF KeysTypeOK, AdmState
\* Steps that only move one request along.
<1>a. ASSUME NEW w \in Admins, NEW state \in AdmState, Become(w, state),
             UNCHANGED <<policy, used>>
      PROVE  KeysTypeOK'
  BY <1>a DEF KeysTypeOK, AdmState, Become, Stored
<1>1. ASSUME NEW w \in Admins, NEW content \in Body, CheckNew(w, content) PROVE KeysTypeOK'
  <2>1. PICK listed \in Listings :
             Become(w, [pc |-> "insert", body |-> content, blind |-> listed # Stored])
    BY <1>1 DEF CheckNew
  <2>2. [pc |-> "insert", body |-> content, blind |-> listed # Stored] \in AdmState
    BY DEF AdmState, Creating
  <2> QED
    BY <1>1, <1>a, <2>1, <2>2 DEF CheckNew
<1>2. ASSUME NEW w \in Admins, NEW p \in Ids, Insert(w, p) PROVE KeysTypeOK'
  <2>1. adm[w] \in Creating
    BY <1>0, <1>2, States DEF Insert
  <2>2. adm[w].body \in Body /\ adm[w].blind \in BOOLEAN
    BY <2>1 DEF Creating
  <2>3. used' \subseteq Ids /\ used \cup {p} \subseteq used'
    BY <1>2 DEF Insert, KeysTypeOK
  <2> QED
    BY <1>2, <2>2, <2>3, WriteType DEF Insert
<1>3. ASSUME NEW w \in Admins, NEW p \in Ids, NEW patch \in Patch, ReadRow(w, p, patch)
      PROVE  KeysTypeOK'
  <2>1. policy[p].body \in Body
    BY <1>3 DEF ReadRow, KeysTypeOK, Row
  <2>2. Merge(policy[p].body, patch) \in Body
    BY <2>1, MergeType
  <2>3. [pc |-> "list", id |-> p, patch |-> patch,
         body |-> Merge(policy[p].body, patch), blind |-> FALSE] \in AdmState
    BY <2>2 DEF AdmState, Updating
  <2> QED
    BY <1>3, <1>a, <2>3 DEF ReadRow
<1>4. ASSUME NEW w \in Admins, CheckMerged(w) PROVE KeysTypeOK'
  <2>1. PICK listed \in Listings :
             Become(w, [adm[w] EXCEPT !.pc = "write", !.blind = @ \/ listed # Stored])
    BY <1>4 DEF CheckMerged
  <2>2. adm[w] \in Updating
    BY <1>0, <1>4, States DEF CheckMerged
  <2>3. [adm[w] EXCEPT !.pc = "write", !.blind = @ \/ listed # Stored] \in AdmState
    BY <2>2 DEF AdmState, Updating
  <2> QED
    BY <1>4, <1>a, <2>1, <2>3 DEF CheckMerged
<1>5. ASSUME NEW w \in Admins, Update(w) PROVE KeysTypeOK'
  <2>1. adm[w] \in Updating
    BY <1>0, <1>5, States DEF Update
  <2>2. /\ adm[w].id \in Ids /\ adm[w].patch \in Patch /\ adm[w].blind \in BOOLEAN
    BY <2>1 DEF Updating
  <2>3. policy[adm[w].id].body \in Body /\ adm[w].id \in used
    BY <1>5 DEF Update, KeysTypeOK, Row
  <2>4. Merge(policy[adm[w].id].body, adm[w].patch) \in Body
    BY <2>2, <2>3, MergeType
  <2>5. used' \subseteq Ids /\ used \cup {adm[w].id} \subseteq used'
    BY <1>5, <2>3 DEF Update, KeysTypeOK
  <2> QED
    BY <1>5, <2>2, <2>4, <2>5, WriteType DEF Update
<1>6. ASSUME NEW w \in Admins, NEW p \in Ids, Delete(w, p) PROVE KeysTypeOK'
  <2>1. policy' = [q \in Stored \ {p} |-> policy[q]]
    BY <1>6 DEF Delete
  <2>2. Stored' = Stored \ {p} /\ policy' \in [Stored' -> Row]
    BY <2>1 DEF Stored, KeysTypeOK
  <2> QED
    BY <1>6, <2>2 DEF Delete, KeysTypeOK
<1>7. ASSUME NEW w \in Admins, End(w) PROVE KeysTypeOK'
  BY <1>7, <1>a DEF End, AdmState
<1>8. CASE UNCHANGED keyVars
  BY <1>8 DEF keyVars, KeysTypeOK, Stored
<1> QED
  BY <1>1, <1>2, <1>3, <1>4, <1>5, <1>6, <1>7, <1>8 DEF KeysNext, AdminStep

\* Type correctness.
THEOREM KeysTypeCorrect == KeysSpec => []KeysTypeOK
<1> QED
  BY KeysInitType, KeysNextType, PTL DEF KeysSpec

-----------------------------------------------------------------------------
(* Uniqueness.                                                             *)

\* What a request that is not blind knows of the rows.
NoOther(content, id) ==
    \A q \in Stored : q # id => ~SaySame(policy[q].body, content)

Knows(w) ==
    /\ adm[w].pc = "insert" => \A q \in Stored : ~SaySame(policy[q].body, adm[w].body)
    /\ adm[w].pc \in {"list", "write"} /\ adm[w].id \in Stored
          => Merge(policy[adm[w].id].body, adm[w].patch) = adm[w].body
    /\ adm[w].pc = "write" => NoOther(adm[w].body, adm[w].id)

Knowing == \A w \in Admins : ~IsIdle(w) /\ ~adm[w].blind => Knows(w)

\* A check on all rows finds every policy that says the same.
LEMMA UniqueFinds ==
    ASSUME NEW content, NEW excluded, Unique(content, Stored, excluded),
           NEW q \in Stored \ excluded
    PROVE  ~SaySame(policy[q].body, content)
BY KeysCompare DEF Unique

LEMMA NextUnique ==
    KeysTypeOK /\ Knowing /\ UniqueUnlessBlind /\ [KeysNext]_keyVars
        => Knowing' /\ UniqueUnlessBlind'
<1> SUFFICES ASSUME KeysTypeOK, Knowing, UniqueUnlessBlind, [KeysNext]_keyVars
             PROVE  Knowing' /\ UniqueUnlessBlind'
  OBVIOUS
<1>0. ASSUME NEW w \in Admins PROVE adm[w] \in AdmState
  BY DEF KeysTypeOK, AdmState
\* Steps that only move one request along.
<1>a. ASSUME NEW w \in Admins, NEW state \in AdmState, Become(w, state),
             UNCHANGED <<policy, used>>,
             (state # Idle /\ ~state.blind) => Knows(w)'
      PROVE  Knowing' /\ UniqueUnlessBlind'
  <2>1. Stored' = Stored /\ policy' = policy /\ adm'[w] = state
    BY <1>a DEF Stored, Become, KeysTypeOK
  <2>2. UniqueUnlessBlind'
    BY <2>1 DEF UniqueUnlessBlind
  <2>3. ASSUME NEW v \in Admins, v # w, ~IsIdle(v)', ~adm'[v].blind
        PROVE  Knows(v)'
    <3>1. adm'[v] = adm[v]
      BY <1>a, <2>3 DEF Become, KeysTypeOK
    <3>2. Knows(v)
      BY <2>3, <3>1 DEF Knowing, IsIdle
    <3> QED
      BY <2>1, <3>1, <3>2 DEF Knows, NoOther
  <2>4. ASSUME ~IsIdle(w)', ~adm'[w].blind PROVE Knows(w)'
    BY <1>a, <2>1, <2>4 DEF IsIdle, Idle
  <2> QED
    BY <2>2, <2>3, <2>4 DEF Knowing
\* A write by a request that knows the other rows, or is blind.
<1>b. ASSUME NEW w \in Admins, NEW p \in Ids, NEW content, Write(w, p, content), ~IsIdle(w),
             ~adm[w].blind => NoOther(content, p)
      PROVE  Knowing' /\ UniqueUnlessBlind'
  <2>1. /\ Stored' = Stored \cup {p}
        /\ policy'[p] = [body |-> content, blind |-> adm[w].blind]
        /\ \A q \in Stored : q # p => policy'[q] = policy[q]
    BY <1>b, WriteRows
  <2>2. ASSUME NEW v \in Admins, ~IsIdle(v)' PROVE adm'[v].blind
    <3>1. adm'[v] = IF v = w \/ IsIdle(v) THEN Idle ELSE [adm[v] EXCEPT !.blind = TRUE]
      BY <1>b DEF Write
    <3>2. adm[v] \in Creating \cup Updating /\ adm'[v] = [adm[v] EXCEPT !.blind = TRUE]
      BY <1>0, <2>2, <3>1, States DEF IsIdle, Idle, AdmState
    <3> QED
      BY <3>2 DEF Creating, Updating
  <2>3. ASSUME NEW q \in Stored', q # p, SaySame(policy'[q].body, policy'[p].body)
        PROVE  policy'[p].blind
    BY <1>b, <2>1, <2>3 DEF NoOther
  <2>4. ASSUME NEW q \in Stored', NEW r \in Stored', q # r,
               SaySame(policy'[q].body, policy'[r].body)
        PROVE  policy'[q].blind \/ policy'[r].blind
    <3>1. CASE q = p
      BY <2>3, <2>4, <3>1, SaySameSymmetric
    <3>2. CASE r = p
      BY <2>3, <2>4, <3>2
    <3>3. CASE q # p /\ r # p
      BY <2>1, <2>4, <3>3 DEF UniqueUnlessBlind
    <3> QED
      BY <3>1, <3>2, <3>3
  <2>5. UniqueUnlessBlind'
    <3>1. \A x, y : SaySame(x, y)' <=> SaySame(x, y)
      BY DEF SaySame, Occurrences
    <3> QED
      BY <2>4 DEF UniqueUnlessBlind, SaySame, Occurrences
  <2> QED
    BY <2>2, <2>5 DEF Knowing
<1>1. ASSUME NEW w \in Admins, NEW content \in Body, CheckNew(w, content)
      PROVE  Knowing' /\ UniqueUnlessBlind'
  <2> DEFINE state(listed) == [pc |-> "insert", body |-> content, blind |-> listed # Stored]
  <2>1. PICK listed \in Listings : Unique(content, listed, {}) /\ Become(w, state(listed))
    BY <1>1 DEF CheckNew
  <2>2. state(listed) \in AdmState
    BY DEF AdmState, Creating
  <2>3. ASSUME ~state(listed).blind PROVE Knows(w)'
    <3>1. listed = Stored
      BY <2>3
    <3>2. \A q \in Stored : ~SaySame(policy[q].body, content)
      BY <2>1, <3>1, UniqueFinds
    <3>3. adm'[w] = state(listed) /\ policy' = policy /\ Stored' = Stored
      BY <1>1, <2>1 DEF CheckNew, Become, KeysTypeOK, Stored
    <3> QED
      BY <3>2, <3>3 DEF Knows
  <2> QED
    BY <1>1, <1>a, <2>1, <2>2, <2>3 DEF CheckNew
<1>2. ASSUME NEW w \in Admins, NEW p \in Ids, Insert(w, p)
      PROVE  Knowing' /\ UniqueUnlessBlind'
  <2>1. ~IsIdle(w) /\ Write(w, p, adm[w].body)
    BY <1>2 DEF Insert, IsIdle
  <2>2. ~adm[w].blind => NoOther(adm[w].body, p)
    BY <1>2, <2>1 DEF Insert, Knowing, Knows, NoOther
  <2> QED
    BY <1>b, <2>1, <2>2
<1>3. ASSUME NEW w \in Admins, NEW p \in Ids, NEW patch \in Patch, ReadRow(w, p, patch)
      PROVE  Knowing' /\ UniqueUnlessBlind'
  <2> DEFINE state == [pc |-> "list", id |-> p, patch |-> patch,
                       body |-> Merge(policy[p].body, patch), blind |-> FALSE]
  <2>1. policy[p].body \in Body
    BY <1>3 DEF ReadRow, KeysTypeOK, Row
  <2>2. state \in AdmState
    BY <2>1, MergeType DEF AdmState, Updating
  <2>3. adm'[w] = state /\ policy' = policy /\ Stored' = Stored
    BY <1>3 DEF ReadRow, Become, KeysTypeOK, Stored
  <2>4. Knows(w)'
    BY <2>3 DEF Knows
  <2> QED
    BY <1>3, <1>a, <2>2, <2>4 DEF ReadRow
<1>4. ASSUME NEW w \in Admins, CheckMerged(w)
      PROVE  Knowing' /\ UniqueUnlessBlind'
  <2> DEFINE state(listed) == [adm[w] EXCEPT !.pc = "write", !.blind = @ \/ listed # Stored]
  <2>1. PICK listed \in Listings :
             Unique(adm[w].body, listed, {adm[w].id}) /\ Become(w, state(listed))
    BY <1>4 DEF CheckMerged
  <2>2. adm[w] \in Updating
    BY <1>0, <1>4, States DEF CheckMerged
  <2>3. /\ state(listed) \in AdmState
        /\ state(listed).pc = "write" /\ state(listed).id = adm[w].id
        /\ state(listed).body = adm[w].body /\ state(listed).patch = adm[w].patch
        /\ state(listed).blind <=> adm[w].blind \/ listed # Stored
    BY <2>2 DEF AdmState, Updating
  <2>4. ASSUME ~state(listed).blind PROVE Knows(w)'
    <3>1. listed = Stored /\ ~adm[w].blind
      BY <2>3, <2>4
    <3>2. NoOther(adm[w].body, adm[w].id)
      BY <2>1, <3>1, UniqueFinds DEF NoOther
    <3>3. adm'[w] = state(listed) /\ policy' = policy /\ Stored' = Stored
      BY <1>4, <2>1 DEF CheckMerged, Become, KeysTypeOK, Stored
    <3>4. Knows(w) /\ adm[w].pc = "list"
      BY <1>4, <3>1 DEF CheckMerged, Knowing, IsIdle
    <3> HIDE DEF state
    <3> QED
      BY <2>3, <3>2, <3>3, <3>4 DEF Knows, NoOther
  <2> QED
    BY <1>4, <1>a, <2>1, <2>3, <2>4 DEF CheckMerged
<1>5. ASSUME NEW w \in Admins, Update(w)
      PROVE  Knowing' /\ UniqueUnlessBlind'
  <2> DEFINE p == adm[w].id
             content == Merge(policy[p].body, adm[w].patch)
  <2>1. /\ ~IsIdle(w) /\ Write(w, p, content) /\ p \in Stored /\ adm[w].pc = "write"
        /\ p \in Ids
    BY <1>5 DEF Update, IsIdle, KeysTypeOK
  <2>2. ~adm[w].blind => NoOther(content, p)
    BY <2>1 DEF Knowing, Knows
  <2> HIDE DEF p, content
  <2> QED
    BY <1>b, <2>1, <2>2
<1>6. ASSUME NEW w \in Admins, NEW p \in Ids, Delete(w, p)
      PROVE  Knowing' /\ UniqueUnlessBlind'
  <2>1. /\ Stored' = Stored \ {p} /\ adm' = adm
        /\ \A q \in Stored' : policy'[q] = policy[q]
    BY <1>6 DEF Delete, Stored
  <2>2. UniqueUnlessBlind'
    BY <2>1 DEF UniqueUnlessBlind
  <2>3. ASSUME NEW v \in Admins, Knows(v) PROVE Knows(v)'
    BY <2>1, <2>3 DEF Knows, NoOther
  <2> QED
    BY <2>1, <2>2, <2>3 DEF Knowing, IsIdle
<1>7. ASSUME NEW w \in Admins, End(w)
      PROVE  Knowing' /\ UniqueUnlessBlind'
  BY <1>7, <1>a DEF End, AdmState
<1>8. CASE UNCHANGED keyVars
  BY <1>8 DEF keyVars, Knowing, Knows, NoOther, UniqueUnlessBlind, Stored, IsIdle
<1> QED
  BY <1>1, <1>2, <1>3, <1>4, <1>5, <1>6, <1>7, <1>8 DEF KeysNext, AdminStep

LEMMA InitUnique == KeysInit => Knowing /\ UniqueUnlessBlind
BY DEF KeysInit, Knowing, UniqueUnlessBlind, Stored, IsIdle, Idle

\* Policies that say the same are the work of a request that could not know.
THEOREM KeysAreUnique == KeysSpec => []UniqueUnlessBlind
<1>1. KeysTypeOK /\ Knowing /\ UniqueUnlessBlind /\ [KeysNext]_keyVars
          => KeysTypeOK' /\ Knowing' /\ UniqueUnlessBlind'
  BY KeysNextType, NextUnique
<1> QED
  BY KeysInitType, InitUnique, <1>1, PTL DEF KeysSpec

\* An update leaves the row that was checked.
THEOREM UpdatesAreChecked == KeysSpec => UpdatesWhatWasChecked
<1> DEFINE Checked == \A w \in Admins :
                        Update(w) /\ ~adm[w].blind
                            => policy'[adm[w].id].body = adm[w].body
<1>1. KeysTypeOK /\ Knowing /\ [KeysNext]_keyVars => [Checked]_keyVars
  <2> SUFFICES ASSUME Knowing, NEW w \in Admins, Update(w), ~adm[w].blind
               PROVE  policy'[adm[w].id].body = adm[w].body
    OBVIOUS
  <2> DEFINE p == adm[w].id
             content == Merge(policy[p].body, adm[w].patch)
  <2>1. Write(w, p, content) /\ p \in Stored /\ adm[w].pc = "write"
    BY DEF Update
  <2>2. content = adm[w].body
    BY <2>1 DEF Knowing, Knows, IsIdle
  <2>3. policy'[p] = [body |-> content, blind |-> adm[w].blind]
    <3> HIDE DEF p, content
    <3> QED
      BY <2>1, WriteRows
  <2> QED
    BY <2>2, <2>3
<1>2. KeysTypeOK /\ Knowing /\ UniqueUnlessBlind /\ [KeysNext]_keyVars
          => KeysTypeOK' /\ Knowing' /\ UniqueUnlessBlind'
  BY KeysNextType, NextUnique
<1> QED
  BY KeysInitType, InitUnique, <1>1, <1>2, PTL DEF KeysSpec, UpdatesWhatWasChecked

=============================================================================
