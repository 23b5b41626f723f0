-------------------------- MODULE Resources_proofs --------------------------
(***************************************************************************)
(* The types of Resources, that it implements ScopedTable, and its safety  *)
(* properties, for every set of kinds, workspaces, requests, rows, targets *)
(* and inputs.                                                             *)
(*                                                                         *)
(* What is asked of a route is proved once, of each of the 47 routes       *)
(* (RoutesAreShaped), and so is what is asked of the columns of each kind  *)
(* (LayersConvey).  The invariants are about one request, the steps that   *)
(* it has behind it and the one it is at; a step of the system spares the  *)
(* request, begins it, halts it or lets it go on (Moves), and only the     *)
(* last has to be looked at step by step.                                  *)
(***************************************************************************)
EXTENDS Resources, TLAPS

(* The two halves of TypeOK *)
TableOK ==
    /\ kind \in Kinds
    /\ DOMAIN rows \subseteq Ids
    /\ rows \in [DOMAIN rows -> Row]
    /\ links \in [DOMAIN rows -> [Joins[kind] -> SUBSET Targets]]
PcOK ==
    /\ pc \in [Requests -> {"idle", "running", "answered", "refused", "dropped"}]
    /\ why \in [Requests -> Outcomes \cup {"none"}]
    /\ \A r \in Requests : why[r] # "none" <=> pc[r] = "refused"
    /\ step \in [Requests -> Nat]
CallersOK ==
    /\ input \in [Requests -> Input]
    /\ scope \in [Requests -> Workspaces \cup {Nowhere, Anywhere}]
    /\ joined \in [Requests -> [Joins[kind] -> SUBSET Targets]]
    /\ listed \in [Requests -> SUBSET Ids]

LEMMA Halves == TypeOK <=> TableOK /\ PcOK /\ CallersOK
BY DEF TypeOK, TableOK, PcOK, CallersOK

LEMMA TableKept == ASSUME TableOK, UNCHANGED <<kind, rows, links>> PROVE TableOK'
<1>1. Row' = Row
  BY DEF Row, Cols
<1>2. QED
  BY <1>1 DEF TableOK

LEMMA CallersKept == ASSUME CallersOK, UNCHANGED <<kind, input, scope, joined, listed>>
                     PROVE  CallersOK'
BY DEF CallersOK

(* A step that goes on leaves the request running or answered *)
LEMMA AdvanceTypes ==
    ASSUME PcOK, NEW r \in Requests, pc[r] = "running", Advance(r)
    PROVE  PcOK' /\ kind' = kind
BY DEF PcOK, Advance

LEMMA ProceedTypes ==
    ASSUME PcOK, NEW r \in Requests, pc[r] = "running", Proceed(r)
    PROVE  PcOK' /\ kind' = kind /\ input' = input
BY AdvanceTypes DEF Proceed

(* A refusal changes nothing but where the request is *)
LEMMA RefuseTypes ==
    ASSUME TypeOK, NEW r \in Requests, NEW reason \in Outcomes, pc[r] = "running",
           Refuse(r, reason)
    PROVE  TypeOK'
<1>1. UNCHANGED <<kind, rows, links, input, scope, joined, listed>>
  BY DEF Refuse, seen
<1>2. PcOK'
  BY DEF TypeOK, PcOK, Refuse, Outcomes
<1>3. TableOK' /\ CallersOK'
  BY <1>1, Halves, TableKept, CallersKept
<1>4. QED
  BY <1>2, <1>3 DEF TypeOK, TableOK, PcOK, CallersOK

LEMMA IdleType == Idle \in Input
<1>1. PICK w \in Workspaces : TRUE
  BY PlacesAssumption
<1>2. PICK id \in Stored : TRUE
  BY PlacesAssumption
<1>3. (CHOOSE v \in Workspaces : TRUE) \in Workspaces
  BY <1>1
<1>4. (CHOOSE v \in Stored : TRUE) \in Stored
  BY <1>2
<1>5. QED
  BY <1>3, <1>4, PlacesAssumption DEF Idle, Input, Ops

LEMMA AskedType == ASSUME NEW i \in Input PROVE Asked(i) \in Workspaces
BY DEF Asked, Input

LEMMA InitTypes == Init => TypeOK
<1> SUFFICES ASSUME Init PROVE TypeOK
  OBVIOUS
<1>1. ASSUME NEW id \in Stored PROVE rows[id] \in Row
  <2>1. Placed[kind][id] \in SUBSET Workspaces /\ id \in Values
    <3>1. kind \in Kinds
      BY DEF Init
    <3>2. Placed[kind] \in [Stored -> SUBSET Workspaces]
      BY <3>1, PlacesAssumption
    <3>3. QED
      BY <3>2, PlacesAssumption
  <2>2. rows[id] = [in |-> Placed[kind][id], cols |-> [f \in Cols(kind) |-> id]]
    BY DEF Init
  <2>3. QED
    BY <2>1, <2>2 DEF Row
<1>2. kind \in Kinds /\ rows \in [DOMAIN rows -> Row] /\ DOMAIN rows \subseteq Ids
  BY <1>1 DEF Init, Ids
<1>3. links \in [DOMAIN rows -> [Joins[kind] -> SUBSET Targets]]
  BY PlacesAssumption DEF Init
<1>4. QED
  BY <1>2, <1>3, IdleType DEF Init, TypeOK

(* The steps of a request that go on, each with what it changes *)
LEMMA StepTypes ==
    ASSUME TypeOK, NEW r \in Requests, Step(r)
    PROVE  TypeOK'
<1> USE DEF At
<1>1. TableOK /\ PcOK /\ CallersOK
  BY Halves
<1>2. CASE AskStep(r)
  <2>1. CASE Refuse(r, "forbidden")
    BY <1>2, <2>1, RefuseTypes DEF AskStep, Outcomes
  <2>2. CASE ~Refuse(r, "forbidden")
    <3>1. Proceed(r) /\ UNCHANGED <<rows, links, joined, listed>>
      BY <1>2, <2>2 DEF AskStep, seen
    <3>2. PcOK' /\ TableOK' /\ UNCHANGED <<kind, input>>
      BY <1>1, <1>2, <3>1, ProceedTypes, TableKept DEF AskStep
    <3>3. input[r] \in Input /\ input[r].home \in Workspaces
      BY DEF TypeOK, Input
    <3>4. scope' \in [Requests -> Workspaces \cup {Nowhere, Anywhere}]
      BY <1>2, <2>2, <3>3, AskedType DEF AskStep, TypeOK
    <3>5. CallersOK'
      BY <1>1, <3>1, <3>2, <3>4 DEF CallersOK
    <3>6. QED
      BY <3>2, <3>5 DEF TypeOK, TableOK, PcOK, CallersOK
  <2>3. QED
    BY <2>1, <2>2
<1>3. CASE EscalateStep(r)
  <2>1. TableOK' /\ PcOK'
    BY <1>1, <1>3, TableKept, AdvanceTypes DEF EscalateStep, seen
  <2> DEFINE i == input[r]
  <2>2. input'[r] \in Input
    <3>1. i \in Input /\ i.able \cup {"describe"} \in SUBSET Ops
      BY DEF TypeOK, Input, Ops
    <3>2. [i EXCEPT !.able = i.able \cup {"describe"}] \in Input
      BY <3>1 DEF Input
    <3>3. input'[r] = [i EXCEPT !.able = i.able \cup {"describe"}]
      BY <1>3 DEF EscalateStep, TypeOK
    <3>4. QED
      BY <3>2, <3>3
  <2>3. CallersOK'
    BY <1>1, <1>3, <2>1, <2>2, AdvanceTypes DEF EscalateStep, seen, CallersOK
  <2>4. QED
    BY <2>1, <2>3 DEF TypeOK, TableOK, PcOK, CallersOK
<1>4. CASE FindStep(r)
  <2>1. CASE Refuse(r, "notFound")
    BY <1>4, <2>1, RefuseTypes DEF FindStep, Outcomes
  <2>2. CASE ~(Refuse(r, "notFound"))
    <3>1. Proceed(r) /\ UNCHANGED <<rows, links, scope, joined, listed>>
      BY <1>4, <2>2 DEF FindStep, seen
    <3>2. PcOK' /\ UNCHANGED <<kind, input>>
      BY <1>1, <1>4, <3>1, ProceedTypes DEF FindStep
    <3>3. TableOK' /\ CallersOK'
      BY <1>1, <3>1, <3>2, TableKept, CallersKept
    <3>4. QED
      BY <3>2, <3>3 DEF TypeOK, TableOK, PcOK, CallersOK
  <2>3. QED
    BY <2>1, <2>2
<1>5. CASE ValidateStep(r)
  <2>1. CASE Refuse(r, "invalid")
    BY <1>5, <2>1, RefuseTypes DEF ValidateStep, Outcomes
  <2>2. CASE ~(Refuse(r, "invalid"))
    <3>1. Proceed(r) /\ UNCHANGED <<rows, links, scope, joined, listed>>
      BY <1>5, <2>2 DEF ValidateStep, seen
    <3>2. PcOK' /\ UNCHANGED <<kind, input>>
      BY <1>1, <1>5, <3>1, ProceedTypes DEF ValidateStep
    <3>3. TableOK' /\ CallersOK'
      BY <1>1, <3>1, <3>2, TableKept, CallersKept
    <3>4. QED
      BY <3>2, <3>3 DEF TypeOK, TableOK, PcOK, CallersOK
  <2>3. QED
    BY <2>1, <2>2
<1>6. CASE FreeStep(r)
  <2>1. CASE Refuse(r, "conflict")
    BY <1>6, <2>1, RefuseTypes DEF FreeStep, Outcomes
  <2>2. CASE ~(Refuse(r, "conflict"))
    <3>1. Proceed(r) /\ UNCHANGED <<rows, links, scope, joined, listed>>
      BY <1>6, <2>2 DEF FreeStep, seen
    <3>2. PcOK' /\ UNCHANGED <<kind, input>>
      BY <1>1, <1>6, <3>1, ProceedTypes DEF FreeStep
    <3>3. TableOK' /\ CallersOK'
      BY <1>1, <3>1, <3>2, TableKept, CallersKept
    <3>4. QED
      BY <3>2, <3>3 DEF TypeOK, TableOK, PcOK, CallersOK
  <2>3. QED
    BY <2>1, <2>2
<1>7. CASE MemberStep(r)
  <2>1. CASE Refuse(r, "forbidden")
    BY <1>7, <2>1, RefuseTypes DEF MemberStep, Outcomes
  <2>2. CASE ~(Refuse(r, "forbidden"))
    <3>1. Proceed(r) /\ UNCHANGED <<rows, links, scope, joined, listed>>
      BY <1>7, <2>2 DEF MemberStep, seen
    <3>2. PcOK' /\ UNCHANGED <<kind, input>>
      BY <1>1, <1>7, <3>1, ProceedTypes DEF MemberStep
    <3>3. TableOK' /\ CallersOK'
      BY <1>1, <3>1, <3>2, TableKept, CallersKept
    <3>4. QED
      BY <3>2, <3>3 DEF TypeOK, TableOK, PcOK, CallersOK
  <2>3. QED
    BY <2>1, <2>2
<1>8. CASE RolesStep(r)
  <2>1. CASE Refuse(r, "forbidden")
    BY <1>8, <2>1, RefuseTypes DEF RolesStep, Outcomes
  <2>2. CASE ~(Refuse(r, "forbidden"))
    <3>1. Proceed(r) /\ UNCHANGED <<rows, links, scope, joined, listed>>
      BY <1>8, <2>2 DEF RolesStep, seen
    <3>2. PcOK' /\ UNCHANGED <<kind, input>>
      BY <1>1, <1>8, <3>1, ProceedTypes DEF RolesStep
    <3>3. TableOK' /\ CallersOK'
      BY <1>1, <3>1, <3>2, TableKept, CallersKept
    <3>4. QED
      BY <3>2, <3>3 DEF TypeOK, TableOK, PcOK, CallersOK
  <2>3. QED
    BY <2>1, <2>2
<1>9. CASE CountStep(r)
  <2>1. Proceed(r) /\ UNCHANGED <<rows, links, scope, joined, listed>>
    BY <1>9 DEF CountStep
  <2>2. PcOK' /\ UNCHANGED <<kind, input>>
    BY <1>1, <1>9, <2>1, ProceedTypes DEF CountStep
  <2>3. TableOK' /\ CallersOK'
    BY <1>1, <2>1, <2>2, TableKept, CallersKept
  <2>4. QED
    BY <2>2, <2>3 DEF TypeOK, TableOK, PcOK, CallersOK
<1>10. CASE JoinStep(r)
  <2>1. CASE Refuse(r, "notFound")
    BY <1>10, <2>1, RefuseTypes DEF JoinStep, Outcomes
  <2>2. CASE ~Refuse(r, "notFound")
    <3>1. Proceed(r) /\ UNCHANGED <<rows, links, scope, listed>> /\ Subject(r) \in DOMAIN rows
      BY <1>10, <2>2 DEF JoinStep
    <3>2. PcOK' /\ TableOK' /\ UNCHANGED <<kind, input>>
      BY <1>1, <1>10, <3>1, ProceedTypes, TableKept DEF JoinStep
    <3>3. links[Subject(r)] \in [Joins[kind] -> SUBSET Targets]
      BY <3>1 DEF TypeOK
    <3>4. joined' \in [Requests -> [Joins[kind] -> SUBSET Targets]]
      <4> DEFINE new == [joined[r] EXCEPT ![Arg(r)] = links[Subject(r)][Arg(r)]]
      <4>1. joined[r] \in [Joins[kind] -> SUBSET Targets]
        BY DEF TypeOK
      <4>2. new \in [Joins[kind] -> SUBSET Targets]
        BY <3>3, <4>1
      <4>3. joined' = [joined EXCEPT ![r] = new]
        BY <1>10, <2>2 DEF JoinStep
      <4>4. QED
        BY <4>2, <4>3 DEF TypeOK
    <3>5. CallersOK'
      BY <1>1, <3>1, <3>2, <3>4 DEF CallersOK
    <3>6. QED
      BY <3>2, <3>5 DEF TypeOK, TableOK, PcOK, CallersOK
  <2>3. QED
    BY <2>1, <2>2
<1>11. CASE ListStep(r)
  <2>1. CASE Refuse(r, "broken")
    BY <1>11, <2>1, RefuseTypes DEF ListStep, Outcomes
  <2>2. CASE ~Refuse(r, "broken")
    <3>1. Proceed(r) /\ UNCHANGED <<rows, links, scope>>
      BY <1>11, <2>2 DEF ListStep
    <3>2. PcOK' /\ TableOK' /\ UNCHANGED <<kind, input>>
      BY <1>1, <1>11, <3>1, ProceedTypes, TableKept DEF ListStep
    <3>3. Listed(r) \subseteq DOMAIN rows
      BY DEF Listed, Visible
    <3>4. \A j \in Joins[kind] : UNION {links[id][j] : id \in Listed(r)} \subseteq Targets
      <4>1. ASSUME NEW j \in Joins[kind], NEW id \in Listed(r) PROVE links[id][j] \subseteq Targets
        BY <3>3 DEF TypeOK
      <4>2. QED
        BY <4>1
    <3>5. joined' \in [Requests -> [Joins[kind] -> SUBSET Targets]]
      <4> DEFINE new == [j \in Joins[kind] |-> UNION {links[id][j] : id \in Listed(r)}]
      <4>1. new \in [Joins[kind] -> SUBSET Targets]
        BY <3>4
      <4>2. joined' = [joined EXCEPT ![r] = new]
        BY <1>11, <2>2 DEF ListStep
      <4>3. QED
        BY <4>1, <4>2 DEF TypeOK
    <3>6. listed' \in [Requests -> SUBSET Ids]
      BY <1>11, <2>2, <3>3 DEF ListStep, TypeOK
    <3>7. CallersOK'
      BY <1>1, <3>1, <3>2, <3>5, <3>6 DEF CallersOK
    <3>8. QED
      BY <3>2, <3>7 DEF TypeOK, TableOK, PcOK, CallersOK
  <2>3. QED
    BY <2>1, <2>2
<1>12. CASE InsertStep(r)
  <2>1. CASE Refuse(r, "conflict") \/ Refuse(r, "invalid")
    BY <1>12, <2>1, RefuseTypes DEF InsertStep, Outcomes
  <2>2. CASE ~(Refuse(r, "conflict") \/ Refuse(r, "invalid"))
    <3> DEFINE new == [in |-> {scope[r]} \cap Workspaces,
                       cols |-> [f \in Cols(kind) |->
                            IF f \in Written(r) THEN input[r].text ELSE Unset]]
    <3>1. /\ Proceed(r) /\ UNCHANGED <<scope, joined, listed>>
          /\ rows' = [id \in DOMAIN rows \cup {r} |-> IF id = r THEN new ELSE rows[id]]
          /\ links' = [id \in DOMAIN links \cup {r} |->
                            IF id = r THEN [j \in Joins[kind] |-> {}] ELSE links[id]]
      BY <1>12, <2>2 DEF InsertStep
    <3>2. PcOK' /\ UNCHANGED <<kind, input>>
      BY <1>1, <1>12, <3>1, ProceedTypes DEF InsertStep
    <3>3. new \in Row /\ Row' = Row
      BY <3>2, PlacesAssumption DEF TypeOK, Row, Cols, Input
    <3>4. DOMAIN rows' = DOMAIN rows \cup {r} /\ DOMAIN links = DOMAIN rows
      BY <3>1 DEF TypeOK
    <3>5. rows' \in [DOMAIN rows' -> Row'] /\ DOMAIN rows' \subseteq Ids
      BY <3>1, <3>3, <3>4 DEF TypeOK, Ids
    <3>6. links' \in [DOMAIN rows' -> [Joins[kind] -> SUBSET Targets]]
      BY <3>1, <3>4 DEF TypeOK
    <3>7. TableOK' /\ CallersOK'
      BY <1>1, <3>1, <3>2, <3>5, <3>6, CallersKept DEF TableOK
    <3>8. QED
      BY <3>2, <3>7 DEF TypeOK, TableOK, PcOK, CallersOK
  <2>3. QED
    BY <2>1, <2>2
<1>13. CASE UpdateStep(r)
  <2> DEFINE no == \/ Refuse(r, "broken") \/ Refuse(r, "notFound")
                   \/ Refuse(r, "conflict") \/ Refuse(r, "invalid")
  <2>1. CASE no
    BY <1>13, <2>1, RefuseTypes DEF UpdateStep, Outcomes
  <2>2. CASE ~no
    <3> DEFINE id == Subject(r)
               new == [in |-> rows[id].in,
                       cols |-> [f \in Cols(kind) |-> IF f \in Written(r) THEN input[r].text
                                                      ELSE rows[id].cols[f]]]
    <3>1. /\ Proceed(r) /\ UNCHANGED <<links, scope, joined, listed>>
          /\ id \in Visible(scope[r])
          /\ rows' = [rows EXCEPT ![id] = new]
      BY <1>13, <2>2 DEF UpdateStep
    <3>2. PcOK' /\ UNCHANGED <<kind, input>>
      BY <1>1, <1>13, <3>1, ProceedTypes DEF UpdateStep
    <3>3. rows[id] \in Row
      BY <3>1 DEF TypeOK, Visible
    <3>4. new \in Row /\ Row' = Row
      BY <3>2, <3>3 DEF TypeOK, Row, Cols, Input
    <3>5. DOMAIN rows' = DOMAIN rows /\ rows' \in [DOMAIN rows' -> Row']
      BY <3>1, <3>4 DEF TypeOK
    <3>6. TableOK' /\ CallersOK'
      BY <1>1, <3>1, <3>2, <3>5, CallersKept DEF TableOK
    <3>7. QED
      BY <3>2, <3>6 DEF TypeOK, TableOK, PcOK, CallersOK
  <2>3. QED
    BY <2>1, <2>2
<1>14. CASE RemoveStep(r)
  <2>1. CASE Refuse(r, "inUse") \/ Refuse(r, "notFound")
    BY <1>14, <2>1, RefuseTypes DEF RemoveStep, Outcomes
  <2>2. CASE ~(Refuse(r, "inUse") \/ Refuse(r, "notFound"))
    <3> DEFINE id == Subject(r)
    <3>1. /\ Proceed(r) /\ UNCHANGED <<scope, joined, listed>>
          /\ rows' = [other \in DOMAIN rows \ {id} |-> rows[other]]
          /\ links' = [other \in DOMAIN links \ {id} |-> links[other]]
      BY <1>14, <2>2 DEF RemoveStep, seen
    <3>2. PcOK' /\ UNCHANGED <<kind, input>>
      BY <1>1, <1>14, <3>1, ProceedTypes DEF RemoveStep
    <3>3. Row' = Row
      BY <3>2 DEF Row, Cols
    <3>4. rows' \in [DOMAIN rows' -> Row'] /\ DOMAIN rows' \subseteq Ids
      BY <3>1, <3>3 DEF TypeOK
    <3>5. links' \in [DOMAIN rows' -> [Joins[kind] -> SUBSET Targets]]
      BY <3>1 DEF TypeOK
    <3>6. TableOK' /\ CallersOK'
      BY <1>1, <3>1, <3>2, <3>4, <3>5, CallersKept DEF TableOK
    <3>7. QED
      BY <3>2, <3>6 DEF TypeOK, TableOK, PcOK, CallersOK
  <2>3. QED
    BY <2>1, <2>2
<1>15. CASE UnlinkStep(r)
  <2>1. Proceed(r) /\ UNCHANGED <<rows, scope, joined, listed>>
    BY <1>15 DEF UnlinkStep, seen
  <2>2. PcOK' /\ UNCHANGED <<kind, input>>
    BY <1>1, <1>15, <2>1, ProceedTypes DEF UnlinkStep
  <2>3. links' \in [DOMAIN rows -> [Joins[kind] -> SUBSET Targets]]
    BY <1>15 DEF UnlinkStep, TypeOK
  <2>4. Row' = Row
    BY <2>2 DEF Row, Cols
  <2>5. TableOK' /\ CallersOK'
    BY <1>1, <2>1, <2>2, <2>3, <2>4, CallersKept DEF TableOK
  <2>6. QED
    BY <2>2, <2>5 DEF TypeOK, TableOK, PcOK, CallersOK
<1>16. CASE RelinkStep(r)
  <2>1. CASE Refuse(r, "conflict")
    BY <1>16, <2>1, RefuseTypes DEF RelinkStep, Outcomes
  <2>2. CASE ~Refuse(r, "conflict")
    <3>1. /\ Proceed(r) /\ UNCHANGED <<rows, scope, joined, listed>>
          /\ links' = [links EXCEPT ![Subject(r)][Arg(r)] = @ \cup input[r].list]
      BY <1>16, <2>2 DEF RelinkStep, seen
    <3>2. PcOK' /\ UNCHANGED <<kind, input>>
      BY <1>1, <1>16, <3>1, ProceedTypes DEF RelinkStep
    <3>3. input[r].list \subseteq Targets
      BY DEF TypeOK, Input
    <3>4. links' \in [DOMAIN rows -> [Joins[kind] -> SUBSET Targets]]
      <4> DEFINE id == Subject(r)
                 new == [links[id] EXCEPT ![Arg(r)] = @ \cup input[r].list]
      <4>1. links' = [links EXCEPT ![id] = new]
        BY <3>1
      <4>2. CASE id \in DOMAIN rows
        <5>1. links[id] \in [Joins[kind] -> SUBSET Targets]
          BY <4>2 DEF TypeOK
        <5>2. new \in [Joins[kind] -> SUBSET Targets]
          BY <3>3, <5>1
        <5>3. QED
          BY <4>1, <5>2 DEF TypeOK
      <4>3. CASE id \notin DOMAIN rows
        BY <4>1, <4>3 DEF TypeOK
      <4>4. QED
        BY <4>2, <4>3
    <3>5. Row' = Row
      BY <3>2 DEF Row, Cols
    <3>6. TableOK' /\ CallersOK'
      BY <1>1, <3>1, <3>2, <3>4, <3>5, CallersKept DEF TableOK
    <3>7. QED
      BY <3>2, <3>6 DEF TypeOK, TableOK, PcOK, CallersOK
  <2>3. QED
    BY <2>1, <2>2
<1>17. CASE PassStep(r)
  <2>1. Proceed(r) /\ UNCHANGED <<rows, links, scope, joined, listed>> /\ pc[r] = "running"
    BY <1>17 DEF PassStep, seen
  <2>2. PcOK' /\ UNCHANGED <<kind, input>>
    BY <1>1, <2>1, ProceedTypes
  <2>3. TableOK' /\ CallersOK'
    BY <1>1, <2>1, <2>2, TableKept, CallersKept
  <2>4. QED
    BY <2>2, <2>3 DEF TypeOK, TableOK, PcOK, CallersOK
<1>18. QED
  BY <1>17, <1>2, <1>3, <1>4, <1>5, <1>6, <1>7, <1>8, <1>9, <1>10, <1>11, <1>12, <1>13, <1>14,
     <1>15, <1>16 DEF Step

LEMMA NextTypes == TypeOK /\ [Next]_vars => TypeOK'
<1> SUFFICES ASSUME TypeOK, [Next]_vars PROVE TypeOK'
  OBVIOUS
<1>1. TableOK /\ PcOK /\ CallersOK
  BY Halves
<1>2. CASE UNCHANGED vars
  <2>1. TableOK' /\ CallersOK'
    BY <1>1, <1>2, TableKept, CallersKept DEF vars, seen
  <2>2. PcOK'
    BY <1>1, <1>2 DEF vars, PcOK
  <2>3. QED
    BY <2>1, <2>2 DEF TypeOK, TableOK, PcOK, CallersOK
<1>3. ASSUME NEW r \in Requests, Start(r) PROVE TypeOK'
  <2>1. TableOK'
    BY <1>1, <1>3, TableKept DEF Start
  <2>2. PcOK'
    BY <1>1, <1>3 DEF Start, PcOK
  <2>3. input' \in [Requests -> Input]
    <3>1. PICK i \in Inputs[r][kind] : input' = [input EXCEPT ![r] = i]
      BY <1>3 DEF Start
    <3>2. Inputs[r][kind] \in SUBSET Input
      BY InputsAssumption DEF TypeOK
    <3>3. QED
      BY <3>1, <3>2 DEF TypeOK
  <2>4. CallersOK'
    BY <1>1, <1>3, <2>3 DEF Start, seen, CallersOK
  <2>5. QED
    BY <2>1, <2>2, <2>4 DEF TypeOK, TableOK, PcOK, CallersOK
<1>4. ASSUME NEW r \in Requests, Drop(r) PROVE TypeOK'
  <2>1. TableOK' /\ CallersOK'
    BY <1>1, <1>4, TableKept, CallersKept DEF Drop, seen
  <2>2. PcOK'
    BY <1>1, <1>4 DEF Drop, PcOK
  <2>3. QED
    BY <2>1, <2>2 DEF TypeOK, TableOK, PcOK, CallersOK
<1>5. QED
  BY <1>2, <1>3, <1>4, StepTypes DEF Next

(* In every state the table, the requests and what they have read have their types *)
THEOREM TypeCorrect == Spec => []TypeOK
BY InitTypes, NextTypes, PTL DEF Spec


-----------------------------------------------------------------------------
(* A row of a table with a workspace column is in one workspace, and a request works in *)
(* none before it has asked and afterwards in the one that it may work in               *)
Within ==
    kind \notin Unscoped =>
        /\ \A id \in DOMAIN rows : \A v, w \in rows[id].in : v = w
        /\ \A r \in Requests :
            scope[r] # Nowhere => /\ pc[r] # "idle" /\ MayAsk(input[r])
                                  /\ scope[r] = Asked(input[r])

LEMMA InitWithin == Init => Within
<1> SUFFICES ASSUME Init, kind \notin Unscoped PROVE Within
  BY DEF Within
<1>1. ASSUME NEW id \in DOMAIN rows, NEW v \in rows[id].in, NEW w \in rows[id].in PROVE v = w
  <2>1. kind \in Kinds \ Unscoped /\ id \in Stored /\ rows[id].in = Placed[kind][id]
    BY DEF Init
  <2>2. \E x \in Workspaces : Placed[kind][id] = {x}
    BY <2>1, PlacesAssumption
  <2>3. QED
    BY <1>1, <2>1, <2>2
<1>2. QED
  BY <1>1 DEF Within, Init

(* A step that leaves rows, scopes and inputs alone keeps Within *)
LEMMA WithinKept ==
    ASSUME Within, UNCHANGED <<kind, rows, scope, input>>,
           \A r \in Requests : pc[r] # "idle" => pc'[r] # "idle"
    PROVE  Within'
BY DEF Within, MayAsk, Asked

(* An UPDATE that is not refused changes columns of the row it found *)
LEMMA UpdateEffect ==
    ASSUME TypeOK, NEW r \in Requests, UpdateStep(r), ~(\E reason : Refuse(r, reason))
    PROVE  LET id == Subject(r)
           IN  /\ Proceed(r) /\ pc[r] = "running" /\ UNCHANGED scope
               /\ id \in Visible(scope[r])
               /\ DOMAIN rows' = DOMAIN rows
               /\ rows'[id].in = rows[id].in
               /\ \A other \in DOMAIN rows \ {id} : rows'[other] = rows[other]
<1> DEFINE id == Subject(r)
           new == [in |-> rows[id].in,
                   cols |-> [f \in Cols(kind) |-> IF f \in Written(r) THEN input[r].text
                                                  ELSE rows[id].cols[f]]]
<1>1. /\ Proceed(r) /\ pc[r] = "running" /\ UNCHANGED scope
      /\ id \in Visible(scope[r])
      /\ rows' = [rows EXCEPT ![id] = new]
  BY DEF UpdateStep, At
<1>2. id \in DOMAIN rows
  BY <1>1 DEF Visible
<1>3. rows = [other \in DOMAIN rows |-> rows[other]]
  BY DEF TypeOK
<1>4. new.in = rows[id].in
  OBVIOUS
<1> HIDE DEF new
<1>5. DOMAIN rows' = DOMAIN rows /\ rows'[id] = new
      /\ \A other \in DOMAIN rows \ {id} : rows'[other] = rows[other]
  BY <1>1, <1>2, <1>3
<1>6. QED
  BY <1>1, <1>4, <1>5

LEMMA NextWithin == TypeOK /\ Within /\ [Next]_vars => Within'
<1> SUFFICES ASSUME TypeOK, Within, [Next]_vars, (kind \notin Unscoped)' PROVE Within'
  BY DEF Within
<1>1. CASE UNCHANGED vars
  BY <1>1, WithinKept DEF vars
<1>2. ASSUME NEW r \in Requests, Start(r) PROVE Within'
  <2>1. UNCHANGED <<kind, rows, scope>> /\ scope[r] = Nowhere
    BY <1>2 DEF Start, Within
  <2>2. \A q \in Requests \ {r} : input'[q] = input[q] /\ pc'[q] = pc[q]
    BY <1>2 DEF Start, TypeOK
  <2>3. QED
    BY <2>1, <2>2 DEF Within, MayAsk, Asked
<1>3. ASSUME NEW r \in Requests, Drop(r) PROVE Within'
  BY <1>3, WithinKept DEF Drop, TypeOK
<1>4. ASSUME NEW r \in Requests, Step(r) PROVE Within'
  <2> USE DEF At
  <2>1. CASE \E reason : Refuse(r, reason)
    BY <2>1, WithinKept DEF Refuse, TypeOK
  <2>2. CASE AskStep(r) /\ ~(\E reason : Refuse(r, reason))
    <3>1. MayAsk(input[r]) /\ scope' = [scope EXCEPT ![r] = Asked(input[r])]
      BY <1>4, <2>2 DEF AskStep, Proceed, Advance
    <3>2. pc' = [pc EXCEPT ![r] = IF step[r] = Len(Route(r)) THEN "answered" ELSE "running"]
          /\ UNCHANGED <<kind, rows, input>>
      BY <2>2 DEF AskStep, Proceed, Advance
    <3>3. /\ scope'[r] = Asked(input[r]) /\ pc'[r] # "idle"
          /\ \A q \in Requests \ {r} : scope'[q] = scope[q] /\ pc'[q] = pc[q]
      BY <3>1, <3>2 DEF TypeOK
    <3>4. \A q \in Requests : MayAsk(input[q])' = MayAsk(input[q])
                              /\ Asked(input[q])' = Asked(input[q])
      BY <3>2 DEF MayAsk, Asked
    <3>5. QED
      BY <3>1, <3>2, <3>3, <3>4 DEF Within
  <2>3. CASE EscalateStep(r)
    <3>1. /\ UNCHANGED <<kind, rows, scope>>
          /\ \A q \in Requests : /\ input'[q].admin = input[q].admin
                                 /\ input'[q].asked = input[q].asked
                                 /\ input'[q].home = input[q].home
      <4>1. /\ UNCHANGED <<kind, rows, scope>>
            /\ input' = [input EXCEPT ![r] =
                            [input[r] EXCEPT !.able = input[r].able \cup {"describe"}]]
        BY <2>3 DEF EscalateStep, Advance
      <4>2. input[r] \in Input /\ input \in [Requests -> Input]
        BY DEF TypeOK
      <4>3. QED
        BY <4>1, <4>2 DEF Input
    <3>2. \A q \in Requests : pc[q] # "idle" => pc'[q] # "idle"
      BY <2>3 DEF EscalateStep, Advance, TypeOK
    <3>3. QED
      BY <3>1, <3>2 DEF Within, MayAsk, Asked
  <2>4. CASE /\ UNCHANGED <<kind, scope, input>>
             /\ \A q \in Requests : pc[q] # "idle" => pc'[q] # "idle"
             /\ \A id \in DOMAIN rows' : \/ id \in DOMAIN rows /\ rows'[id].in = rows[id].in
                                         \/ rows'[id].in \subseteq {scope[r]}
    BY <2>4 DEF Within, MayAsk, Asked
  <2>5. CASE InsertStep(r) /\ ~(\E reason : Refuse(r, reason))
    <3>1. /\ UNCHANGED scope /\ Proceed(r) /\ DOMAIN rows' = DOMAIN rows \cup {r}
          /\ rows'[r].in = {scope[r]} \cap Workspaces
          /\ \A id \in DOMAIN rows \ {r} : rows'[id] = rows[id]
      BY <2>5 DEF InsertStep
    <3>2. QED
      BY <2>4, <3>1 DEF Proceed, Advance, TypeOK
  <2>6. CASE UpdateStep(r) /\ ~(\E reason : Refuse(r, reason))
    <3>1. /\ UNCHANGED scope /\ Proceed(r) /\ DOMAIN rows' = DOMAIN rows
          /\ \A id \in DOMAIN rows : rows'[id].in = rows[id].in
      BY <2>6, UpdateEffect
    <3>2. QED
      BY <2>4, <3>1 DEF Proceed, Advance, TypeOK
  <2>9. CASE RemoveStep(r) /\ ~(\E reason : Refuse(r, reason))
    <3>1. /\ UNCHANGED scope /\ Proceed(r) /\ DOMAIN rows' \subseteq DOMAIN rows
          /\ \A id \in DOMAIN rows' : rows'[id] = rows[id]
      BY <2>9 DEF RemoveStep
    <3>2. QED
      BY <2>4, <3>1 DEF Proceed, Advance, TypeOK
  <2>7. CASE Proceed(r) /\ UNCHANGED <<rows, scope>>
    BY <2>7, WithinKept DEF Proceed, Advance, TypeOK
  <2>8. QED
    BY <1>4, <2>1, <2>2, <2>3, <2>5, <2>6, <2>7, <2>9
       DEF Step, PassStep, FindStep, JoinStep, ValidateStep, FreeStep, MemberStep, RolesStep,
           UnlinkStep, RelinkStep, ListStep, CountStep
<1>5. QED
  BY <1>2, <1>3, <1>4, <1>1 DEF Next


-----------------------------------------------------------------------------
(* The refinement of ScopedTable *)

(* What a request sees in its scope is in the workspaces where it may write *)
LEMMA VisibleIsEntitled ==
    ASSUME TypeOK, Within, NEW r \in Requests, pc[r] = "running", NEW id \in Visible(scope[r])
    PROVE  id \in DOMAIN rows /\ rows[id].in \subseteq Entitled(r)
<1>1. id \in DOMAIN rows /\ rows[id].in \subseteq Workspaces
  BY DEF Visible, TypeOK, Row
<1>2. CASE kind \in Unscoped
  BY <1>1, <1>2 DEF Entitled
<1>3. CASE kind \notin Unscoped
  <2>1. input[r] \in Input /\ scope[r] \in Workspaces \cup {Nowhere, Anywhere}
    BY DEF TypeOK
  <2>2. CASE scope[r] = Nowhere
    BY <1>1, <2>2, PlacesAssumption DEF Visible, Nowhere, Anywhere
  <2>3. CASE scope[r] # Nowhere
    <3>1. MayAsk(input[r]) /\ scope[r] = Asked(input[r])
      BY <1>3, <2>3 DEF Within
    <3>2. scope[r] \in rows[id].in
      BY <2>1, <3>1, AskedType, PlacesAssumption DEF Visible
    <3>3. rows[id].in = {scope[r]}
      BY <1>1, <1>3, <3>2 DEF Within
    <3>4. QED
      BY <1>1, <1>3, <3>1, <3>3 DEF Entitled
  <2>4. QED
    BY <2>2, <2>3
<1>4. QED
  BY <1>2, <1>3

LEMMA Stutters ==
    ASSUME TypeOK, NEW r \in Requests, pc[r] # "idle", pc'[r] # "idle",
           UNCHANGED <<kind, rows, input>>, \A q \in Requests \ {r} : pc'[q] = pc[q]
    PROVE  UNCHANGED Table!vars
<1>1. \A q \in Requests : Entitled(q)' = Entitled(q)
  BY DEF Entitled, MayAsk, Asked
<1>2. QED
  BY <1>1 DEF Table!vars

LEMMA StepImplements ==
    ASSUME TypeOK, Within, NEW r \in Requests, Step(r)
    PROVE  [Table!Next]_Table!vars
<1> USE DEF At
<1> DEFINE may == [q \in Requests |-> Entitled(q)]
<1>1. CASE \E reason : Refuse(r, reason)
  <2>1. pc[r] # "idle"
    BY DEF Step, PassStep, AskStep, EscalateStep, FindStep, JoinStep, ValidateStep, FreeStep,
           MemberStep,
           RolesStep, InsertStep, UpdateStep, RemoveStep, UnlinkStep, RelinkStep, ListStep,
           CountStep
  <2>2. QED
    BY <1>1, <2>1, Stutters DEF Refuse, TypeOK
<1>2. CASE EscalateStep(r)
  <2>1. /\ UNCHANGED <<kind, rows>>
        /\ \A q \in Requests : /\ pc[q] = "idle" <=> pc'[q] = "idle"
                               /\ input'[q].admin = input[q].admin
                               /\ input'[q].asked = input[q].asked
                               /\ input'[q].home = input[q].home
    <3>1. /\ UNCHANGED <<kind, rows>>
          /\ \A q \in Requests : pc[q] = "idle" <=> pc'[q] = "idle"
          /\ input' = [input EXCEPT ![r] =
                          [input[r] EXCEPT !.able = input[r].able \cup {"describe"}]]
      BY <1>2 DEF EscalateStep, Advance, TypeOK
    <3>2. input[r] \in Input /\ input \in [Requests -> Input]
      BY DEF TypeOK
    <3>3. QED
      BY <3>1, <3>2 DEF Input
  <2>2. \A q \in Requests : Entitled(q)' = Entitled(q)
    BY <2>1 DEF Entitled, MayAsk, Asked
  <2>3. QED
    BY <2>1, <2>2 DEF Table!vars
<1>3. CASE Proceed(r) /\ UNCHANGED rows /\ pc[r] = "running"
  BY <1>3, Stutters DEF Proceed, Advance, TypeOK
<1>4. ASSUME Proceed(r), pc[r] = "running" PROVE may' = may
  <2>1. \A q \in Requests : Entitled(q)' = Entitled(q)
    BY <1>4 DEF Proceed, Advance, TypeOK, Entitled, MayAsk, Asked
  <2>2. QED
    BY <2>1
<1>5. CASE InsertStep(r) /\ ~(\E reason : Refuse(r, reason))
  <2>1. /\ Proceed(r) /\ pc[r] = "running" /\ r \notin DOMAIN rows
        /\ DOMAIN rows' = DOMAIN rows \cup {r}
        /\ rows'[r].in = {scope[r]} \cap Workspaces
        /\ \A id \in DOMAIN rows \ {r} : rows'[id] = rows[id]
    BY <1>5 DEF InsertStep
  <2>2. rows'[r].in \subseteq Entitled(r)
    <3>1. CASE kind \in Unscoped
      BY <2>1, <3>1 DEF Entitled
    <3>2. CASE kind \notin Unscoped
      BY <2>1, <3>2, PlacesAssumption DEF Entitled, Within
    <3>3. QED
      BY <3>1, <3>2
  <2>3. Table!Create(r)
    BY <1>4, <2>1, <2>2 DEF Table!Create, Table!Others
  <2>4. QED
    BY <2>3 DEF Table!Next
<1>6. CASE UpdateStep(r) /\ ~(\E reason : Refuse(r, reason))
  <2> DEFINE id == Subject(r)
  <2>1. /\ Proceed(r) /\ pc[r] = "running" /\ id \in Visible(scope[r])
        /\ DOMAIN rows' = DOMAIN rows /\ rows'[id].in = rows[id].in
        /\ \A other \in DOMAIN rows \ {id} : rows'[other] = rows[other]
    BY <1>6, UpdateEffect
  <2>2. id \in DOMAIN rows /\ rows[id].in \subseteq Entitled(r)
    BY <2>1, VisibleIsEntitled
  <2>3. Table!Change(r, id)
    BY <1>4, <2>1, <2>2 DEF Table!Change, Table!Others
  <2>4. QED
    BY <2>2, <2>3 DEF Table!Next
<1>7. CASE RemoveStep(r) /\ ~(\E reason : Refuse(r, reason))
  <2> DEFINE id == Subject(r)
  <2>1. /\ Proceed(r) /\ pc[r] = "running" /\ id \in Visible(scope[r])
        /\ DOMAIN rows' = DOMAIN rows \ {id}
        /\ \A other \in DOMAIN rows \ {id} : rows'[other] = rows[other]
    BY <1>7 DEF RemoveStep
  <2>2. id \in DOMAIN rows /\ rows[id].in \subseteq Entitled(r)
    BY <2>1, VisibleIsEntitled
  <2>3. Table!Remove(r, id)
    BY <1>4, <2>1, <2>2 DEF Table!Remove, Table!Others
  <2>4. QED
    BY <2>2, <2>3 DEF Table!Next
<1>8. QED
  BY <1>1, <1>2, <1>3, <1>5, <1>6, <1>7
     DEF Step, PassStep, AskStep, FindStep, JoinStep, ValidateStep, FreeStep, MemberStep, RolesStep,
         UnlinkStep, RelinkStep, ListStep, CountStep

LEMMA NextImplements == TypeOK /\ Within /\ [Next]_vars => [Table!Next]_Table!vars
<1> SUFFICES ASSUME TypeOK, Within, [Next]_vars PROVE [Table!Next]_Table!vars
  OBVIOUS
<1>1. CASE UNCHANGED vars
  BY <1>1 DEF vars, Table!vars, Entitled, MayAsk, Asked
<1>2. ASSUME NEW r \in Requests, Start(r) PROVE [Table!Next]_Table!vars
  <2> DEFINE may == [q \in Requests |-> Entitled(q)]
  <2>1. pc[r] = "idle" /\ UNCHANGED <<kind, rows>>
    BY <1>2 DEF Start
  <2>2. \A q \in Requests \ {r} : input'[q] = input[q] /\ pc'[q] = pc[q]
    BY <1>2 DEF Start, TypeOK
  <2>3. Entitled(r) = {} /\ \A q \in Requests \ {r} : Entitled(q)' = Entitled(q)
    BY <2>1, <2>2 DEF Entitled, MayAsk, Asked
  <2>4. Entitled(r)' \subseteq Workspaces
    <3>1. TypeOK'
      BY NextTypes
    <3>2. input'[r] \in Input
      BY <3>1 DEF TypeOK
    <3>3. Asked(input'[r]) \in Workspaces
      BY <3>2, AskedType
    <3>4. QED
      BY <3>3 DEF Entitled
  <2>5. Table!Receive(r)
    <3>1. may[r] = {} /\ may'[r] \subseteq Workspaces
      BY <2>3, <2>4
    <3>2. may' = [may EXCEPT ![r] = may'[r]]
      BY <2>3
    <3>3. QED
      BY <2>1, <3>1, <3>2 DEF Table!Receive
  <2>6. QED
    BY <2>5 DEF Table!Next
<1>3. ASSUME NEW r \in Requests, Drop(r) PROVE [Table!Next]_Table!vars
  BY <1>3, Stutters DEF Drop, TypeOK
<1>4. QED
  BY <1>1, <1>2, <1>3, StepImplements DEF Next

(* The services implement the scoped table: a row stays in the workspace it was created *)
(* in, and one that is created, changed or removed is where its request may write       *)
THEOREM Implements == Spec => ImplementsScopedTable
<1>1. Init => Table!Init
  BY InitTypes DEF Init, Table!Init, TypeOK, Row, Entitled
<1>2. QED
  BY <1>1, InitTypes, NextTypes, InitWithin, NextWithin, NextImplements, PTL
     DEF Spec, ImplementsScopedTable, Table!Spec

-----------------------------------------------------------------------------
(* What every route is like *)

(* The steps that write *)
Writes == {"insert", "update", "remove", "unlink", "relink"}

(* The names of the steps and what they are about *)
Named(k, op, s) ==
    \A n \in 1..Len(s) :
        /\ s[n][1] \in {"ask", "askHome"} => s[n][2] \in {op, "describe"}
        /\ s[n][1] = "find" =>
                s[n] \in {Find, FindHome, FindAnyhow} /\ k \notin {"role", "membership"}
        /\ s[n][1] = "member" => k = "account"
        /\ s[n][1] = "roles" => k = "membership"
        /\ s[n] = FindHome \/ s[n][1] = "freeHome" => k = "project"
        /\ s[n][1] = "free" => k \in {"project", "profile"} \/ (k = "account" /\ op = "create")
        /\ s[n][1] \in {"free", "freeHome"} => s[n][2] \in Cols(k)
        /\ s[n][1] = "insert" => op = "create"
        /\ s[n][1] = "update" => op = "update"
        /\ s[n][1] = "remove" => op = "delete" /\ n = Len(s)
        /\ s[n][1] \in {"list", "count"} => op = "list"
        /\ s[n][1] \in {"unlink", "relink"} =>
                op \in {"create", "update"} /\ k \in {"role", "membership"}
        /\ s[n][1] \in {"unlink", "relink", "join"} => s[n][2] \in Joins[k]

(* A statement in the scope comes after the question that sets it, and a route that *)
(* asks in another way does not ask in this one                                     *)
Scoped(s) ==
    \A n \in 1..Len(s) :
        /\ s[n][1] \in {"insert", "update", "remove", "free", "unlink"} \/ s[n] = Find =>
                \E m \in 1..(n - 1) : s[m][1] = "ask"
        /\ s[n][1] \in {"askHome", "askNobody"} => \A m \in 1..Len(s) : s[m][1] # "ask"
        /\ s[n][1] \in {"ask", "askHome", "askNobody"} =>
                \A m \in 1..(n - 1) : s[m][1] # "list"

(* A list is cleared right before it is filled, after the row was written or seen, and *)
(* once; what is checked is checked before anything is written                         *)
Ordered(k, op, s) ==
    \A n \in 1..Len(s) :
        /\ s[n][1] = "relink" => n > 1 /\ s[n - 1] = <<"unlink", s[n][2]>>
        /\ s[n][1] = "relink" => \E m \in 1..(n - 1) : s[m][1] \in {"insert", "update", "join"}
        /\ s[n][1] = "roles" => n > 1 /\ (s[n - 1] = Join("roles") \/ op = "list")
        /\ s[n][1] = "count" => n > 1 /\ s[n - 1] = List
        /\ \A m \in 1..(n - 1) :
            /\ s[m][1] \in Writes =>
                /\ s[n][1] \notin {"validate", "free", "freeHome", "member", "list", "insert",
                                   "remove", "askHome", "askNobody"}
                /\ s[n][1] = "ask" => s[n][2] = "describe"
                /\ s[n][1] = "find" => s[n] = Find
                /\ s[n][1] = "update" => k = "membership"
                /\ s[n][1] = "join" => \E l \in 1..(n - 1) : s[l][1] \in {"insert", "update", "join"}
                /\ s[n][1] = "roles" => \E l \in 1..(n - 1) : s[l][1] \in {"insert", "roles"}
            /\ s[m][1] = "relink" =>
                ~(s[n][1] \in {"unlink", "relink"} /\ s[n][2] = s[m][2])

(* The code of a project is looked up before it is written, where it is written *)
Checked(k, s) ==
    k = "project" =>
        \A n \in 1..Len(s) :
            /\ s[n][1] = "insert" => \E m \in 1..(n - 1) : s[m] = Free("code")
            /\ s[n][1] = "update" => /\ \E m \in 1..(n - 1) : s[m] = FreeHome("code")
                                     /\ \E m \in 1..(n - 1) : s[m] = FindHome

(* A creation inserts and an update updates, and the lists are filled and read again *)
Complete(k, op, s) ==
    /\ op \in {"create", "update"} =>
        /\ \E n \in 1..Len(s) : s[n][1] = IF op = "create" THEN "insert" ELSE "update"
        /\ \A j \in Joins[k] \ Ignored(k, op) :
            \E m, n \in 1..Len(s) : m < n /\ s[m] = <<"relink", j>> /\ s[n] = Join(j)
    /\ op = "list" => \E n \in 2..Len(s) : s[n - 1] = List /\ s[n] = Count

Shaped(k, op, s) ==
    /\ Len(s) \in Nat \ {0} /\ op \in Ops
    /\ Named(k, op, s) /\ Scoped(s) /\ Ordered(k, op, s) /\ Checked(k, s) /\ Complete(k, op, s)

LEMMA RoutesAreShaped ==
    \A k \in DOMAIN Protected : \A op \in DOMAIN Protected[k] : Shaped(k, op, Protected[k][op])
<1> USE DEF Shaped, Named, Scoped, Ordered, Checked, Complete, Joins, Ops, Writes, Ignored,
            Cols, Layers,
            Ask, AskHome, AskNobody, Escalate, Find, FindHome, FindAnyhow, Join, Rules, Free,
            FreeHome, Member, Exclusive, Roles, Insert, Update, Remove, Link, List, Count
<1>1. Shaped("role", "describe", RoleDescribe)
  BY DEF RoleDescribe
<1>2. Shaped("role", "create", RoleCreate)
  BY SMTT(30) DEF RoleCreate, RoleDescribe
<1>3. Shaped("role", "list", RoleList)
  BY DEF RoleList
<1>4. Shaped("role", "update", RoleUpdate)
  BY DEF RoleUpdate, RoleDescribe
<1>5. Shaped("role", "delete", RoleDelete)
  BY DEF RoleDelete, RoleDescribe
<1>6. Shaped("policy", "describe", PolicyDescribe)
  BY DEF PolicyDescribe
<1>7. Shaped("policy", "create", PolicyCreate)
  BY DEF PolicyCreate
<1>8. Shaped("policy", "list", PolicyList)
  BY DEF PolicyList
<1>9. Shaped("policy", "update", PolicyUpdate)
  BY DEF PolicyUpdate
<1>10. Shaped("policy", "delete", PolicyDelete)
  BY DEF PolicyDelete, PolicyDescribe
<1>11. Shaped("project", "describe", ProjectDescribe)
  BY DEF ProjectDescribe
<1>12. Shaped("project", "create", ProjectCreate)
  BY DEF ProjectCreate, ProjectLayers, ProjectRow
<1>13. Shaped("project", "list", ProjectList)
  BY DEF ProjectList
<1>14. Shaped("project", "update", ProjectUpdate)
  BY DEF ProjectUpdate, ProjectLayers, ProjectRow
<1>15. Shaped("project", "delete", ProjectDelete)
  BY DEF ProjectDelete
<1>16. Shaped("profile", "describe", ProfileDescribe)
  BY DEF ProfileDescribe
<1>17. Shaped("profile", "list", ProfileList)
  BY DEF ProfileList
<1>18. Shaped("profile", "update", ProfileUpdate)
  BY DEF ProfileUpdate, ProfileLayers, ProfileRow, Personal
<1>19. Shaped("profile", "delete", ProfileDelete)
  BY DEF ProfileDelete
<1>20. Shaped("permission", "describe", PermissionDescribe)
  BY DEF PermissionDescribe
<1>21. Shaped("permission", "create", PermissionCreate)
  BY DEF PermissionCreate
<1>22. Shaped("permission", "list", PermissionList)
  BY DEF PermissionList
<1>23. Shaped("permission", "update", PermissionUpdate)
  BY DEF PermissionUpdate, PermissionDescribe
<1>24. Shaped("permission", "delete", PermissionDelete)
  BY DEF PermissionDelete, PermissionDescribe
<1>25. Shaped("client", "describe", ClientDescribe)
  BY DEF ClientDescribe
<1>26. Shaped("client", "create", ClientCreate)
  BY DEF ClientCreate
<1>27. Shaped("client", "list", ClientList)
  BY DEF ClientList
<1>28. Shaped("client", "update", ClientUpdate)
  BY DEF ClientUpdate
<1>29. Shaped("client", "delete", ClientDelete)
  BY DEF ClientDelete, ClientDescribe
<1>30. Shaped("credential", "describe", CredentialDescribe)
  BY DEF CredentialDescribe
<1>31. Shaped("credential", "list", CredentialList)
  BY DEF CredentialList
<1>32. Shaped("credential", "update", CredentialUpdate)
  BY DEF CredentialUpdate, CredentialDescribe
<1>33. Shaped("credential", "delete", CredentialDelete)
  BY DEF CredentialDelete, CredentialDescribe
<1>34. Shaped("membership", "describe", MembershipDescribe)
  BY DEF MembershipDescribe
<1>35. Shaped("membership", "create", MembershipCreate)
  BY SMTT(30) DEF MembershipCreate, MembershipDescribe
<1>36. Shaped("membership", "list", MembershipList)
  BY DEF MembershipList
<1>37. Shaped("membership", "update", MembershipUpdate)
  BY SMTT(30) DEF MembershipUpdate, MembershipDescribe
<1>38. Shaped("membership", "delete", MembershipDelete)
  BY DEF MembershipDelete, MembershipDescribe
<1>39. Shaped("account", "describe", AccountDescribe)
  BY DEF AccountDescribe
<1>40. Shaped("account", "create", AccountCreate)
  BY DEF AccountCreate, AccountLayers, AccountRow
<1>41. Shaped("account", "list", AccountList)
  BY DEF AccountList
<1>42. Shaped("account", "update", AccountUpdate)
  BY DEF AccountUpdate
<1>43. Shaped("account", "delete", AccountDelete)
  BY DEF AccountDelete
<1>44. Shaped("workspace", "describe", WorkspaceDescribe)
  BY DEF WorkspaceDescribe
<1>45. Shaped("workspace", "list", WorkspaceList)
  BY DEF WorkspaceList
<1>46. Shaped("workspace", "update", WorkspaceUpdate)
  BY DEF WorkspaceUpdate
<1>47. Shaped("workspace", "delete", WorkspaceDelete)
  BY DEF WorkspaceDelete
<1> HIDE DEF Shaped, Layers
<1>48. \A op \in DOMAIN Protected["role"] : Shaped("role", op, Protected["role"][op])
  BY <1>1, <1>2, <1>3, <1>4, <1>5 DEF Protected, RoleHandlers
<1>49. \A op \in DOMAIN Protected["policy"] : Shaped("policy", op, Protected["policy"][op])
  BY <1>6, <1>7, <1>8, <1>9, <1>10 DEF Protected, PolicyHandlers
<1>50. \A op \in DOMAIN Protected["project"] : Shaped("project", op, Protected["project"][op])
  BY <1>11, <1>12, <1>13, <1>14, <1>15 DEF Protected, ProjectHandlers
<1>51. \A op \in DOMAIN Protected["profile"] : Shaped("profile", op, Protected["profile"][op])
  BY <1>16, <1>17, <1>18, <1>19 DEF Protected, ProfileHandlers
<1>52. \A op \in DOMAIN Protected["permission"] :
         Shaped("permission", op, Protected["permission"][op])
  BY <1>20, <1>21, <1>22, <1>23, <1>24 DEF Protected, PermissionHandlers
<1>53. \A op \in DOMAIN Protected["client"] : Shaped("client", op, Protected["client"][op])
  BY <1>25, <1>26, <1>27, <1>28, <1>29 DEF Protected, ClientHandlers
<1>54. \A op \in DOMAIN Protected["credential"] :
         Shaped("credential", op, Protected["credential"][op])
  BY <1>30, <1>31, <1>32, <1>33 DEF Protected, CredentialHandlers
<1>55. \A op \in DOMAIN Protected["membership"] :
         Shaped("membership", op, Protected["membership"][op])
  BY <1>34, <1>35, <1>36, <1>37, <1>38 DEF Protected, MembershipHandlers
<1>56. \A op \in DOMAIN Protected["account"] : Shaped("account", op, Protected["account"][op])
  BY <1>39, <1>40, <1>41, <1>42, <1>43 DEF Protected, AccountHandlers
<1>57. \A op \in DOMAIN Protected["workspace"] : Shaped("workspace", op, Protected["workspace"][op])
  BY <1>44, <1>45, <1>46, <1>47 DEF Protected, WorkspaceHandlers
<1>58. DOMAIN Protected = {"role", "policy", "project", "profile", "permission",
                            "client", "credential", "membership", "account", "workspace"}
  BY DEF Protected
<1>59. QED
  BY <1>48, <1>49, <1>50, <1>51, <1>52, <1>53, <1>54, <1>55, <1>56, <1>57, <1>58

-----------------------------------------------------------------------------
(* What the layers pass on *)
Conveyed(k) ==
    LET l == Layers[k]
    IN  /\ Unique[k] \subseteq Cols(k)
        /\ l.creates \ Joins[k] \subseteq l.inserts \cap Cols(k)
        /\ l.updates \ Joins[k] \subseteq l.sets
        /\ (l.updates \cap l.sets) \ Cols(k) \subseteq {f \in {"name"} : k = "permission"}
        /\ l.filter \ Cols(k) \subseteq {f \in {"name"} : k = "permission"}
        /\ ((l.creates \cup l.updates) \cap Cols(k)) \ Hidden(k) \subseteq l.shown
        /\ k = "membership" => Unique[k] = {}
        /\ k = "policy" => Joins[k] = {}
        /\ Joins[k] \cap Cols(k) = {}

LEMMA LayersConvey == \A k \in DOMAIN Protected : Conveyed(k)
<1> USE DEF Conveyed, Cols, Joins, Unique, Hidden, Labels, Layers
<1>1. Conveyed("role")
  BY DEF RoleLayers, RoleCreateBody, RoleCreateParams, RoleForCreate, RoleUpdateBody,
         RoleUpdateParams, RoleForUpdate, RoleRow, RoleFilter, RoleModel, RoleAnswer
<1>2. Conveyed("policy")
  BY DEF PolicyLayers, PolicyCreateBody, PolicyCreateParams, PolicyForCreate, PolicyUpdateBody,
         PolicyUpdateParams, PolicyForUpdate, PolicyRow, PolicyFilter, PolicyModel, PolicyAnswer,
         Statement
<1>3. Conveyed("project")
  BY DEF ProjectLayers, ProjectCreateBody, ProjectCreateParams, ProjectForCreate,
         ProjectUpdateBody, ProjectUpdateParams, ProjectForUpdate, ProjectRow, ProjectFilter,
         ProjectModel, ProjectAnswer
<1>4. Conveyed("profile")
  BY DEF ProfileLayers, ProfileUpdateBody, ProfileUpdateParams, ProfileForUpdate, ProfileRow,
         ProfileFilter, ProfileModel, ProfileAnswer, Personal
<1>5. Conveyed("permission")
  BY DEF PermissionLayers, PermissionCreateBody, PermissionCreateParams, PermissionForCreate,
         PermissionUpdateBody, PermissionUpdateParams, PermissionForUpdate, PermissionRow,
         PermissionFilter, PermissionModel, PermissionAnswer
<1>6. Conveyed("client")
  BY DEF ClientLayers, ClientCreateBody, ClientCreateParams, ClientForCreate, ClientUpdateBody,
         ClientUpdateParams, ClientForUpdate, ClientRow, ClientFilter, ClientModel, ClientAnswer
<1>7. Conveyed("credential")
  BY DEF CredentialLayers, CredentialUpdateBody, CredentialUpdateParams, CredentialForUpdate,
         CredentialRow, CredentialFilter, CredentialModel, CredentialAnswer, Identity
<1>8. Conveyed("membership")
  BY DEF MembershipLayers, MembershipCreateBody, MembershipCreateParams, MembershipForCreate,
         MembershipUpdateBody, MembershipUpdateParams, MembershipForUpdate, MembershipRow,
         MembershipFilter, MembershipModel, MembershipAnswer
<1>9. Conveyed("account")
  BY DEF AccountLayers, AccountCreateBody, AccountCreateParams, AccountForCreate,
         AccountUpdateBody, AccountUpdateParams, AccountForUpdate, AccountRow, AccountFilter,
         AccountModel, AccountAnswer, Flags
<1>10. Conveyed("workspace")
  BY DEF WorkspaceLayers, WorkspaceUpdateBody, WorkspaceUpdateParams, WorkspaceForUpdate,
         WorkspaceRow, WorkspaceFilter, WorkspaceModel, WorkspaceAnswer
<1> HIDE DEF Conveyed
<1>11. QED
  BY <1>1, <1>2, <1>3, <1>4, <1>5, <1>6, <1>7, <1>8, <1>9, <1>10 DEF Protected

-----------------------------------------------------------------------------
(* Where the requests are on their routes, and the types of their histories *)
Past == [touched : BOOLEAN, raced : BOOLEAN, after : BOOLEAN, open : SUBSET Joins[kind],
         filled : SUBSET Joins[kind], mixed : SUBSET Joins[kind]]
OnRoute(r) ==
    /\ input[r].op \in DOMAIN Protected[kind]
    /\ input[r].given \subseteq Fields(kind, input[r].op)
    /\ step[r] \in 1..(Len(Route(r)) + 1)
    /\ pc[r] = "idle" => /\ step[r] = 1 /\ past[r].open = {} /\ past[r].filled = {}
                         /\ ~past[r].touched /\ ~past[r].raced /\ ~past[r].after
    /\ pc[r] = "running" => step[r] <= Len(Route(r))
    /\ pc[r] = "answered" => step[r] = Len(Route(r)) + 1
HistoryOK ==
    /\ past \in [Requests -> Past] /\ \A r \in Requests : OnRoute(r)
    /\ shown = [r \in Requests |-> shown[r]] /\ total = [r \in Requests |-> total[r]]

(* A route that a request is on has the shape of routes *)
LEMMA RouteShape ==
    ASSUME TypeOK, NEW r \in Requests, OnRoute(r)
    PROVE  /\ Shaped(kind, input[r].op, Route(r)) /\ Conveyed(kind)
           /\ Len(Route(r)) \in Nat \ {0} /\ step[r] \in Nat \ {0}
<1>1. kind \in DOMAIN Protected
  BY KindsAssumption DEF TypeOK
<1>2. Shaped(kind, input[r].op, Route(r)) /\ Conveyed(kind)
  BY <1>1, RoutesAreShaped, LayersConvey DEF OnRoute, Route
<1>3. Len(Route(r)) \in Nat \ {0}
  BY <1>2 DEF Shaped
<1>4. QED
  BY <1>2, <1>3 DEF OnRoute

(* What a request asks does not change once it has started, but for what it may do *)
Same(r) ==
    /\ Subject(r)' = Subject(r) /\ Route(r)' = Route(r) /\ Asked(input'[r]) = Asked(input[r])
    /\ MayAsk(input'[r]) = MayAsk(input[r]) /\ Written(r)' = Written(r)
    /\ input'[r].op = input[r].op /\ input'[r].home = input[r].home
    /\ input'[r].admin = input[r].admin /\ input'[r].asked = input[r].asked
    /\ input'[r].given = input[r].given /\ input'[r].text = input[r].text
    /\ input'[r].list = input[r].list /\ kind' = kind
    /\ input[r].able \subseteq input'[r].able
    /\ \A s : Takes(input[r], s)' = Takes(input[r], s)

LEMMA SameInput ==
    ASSUME NEW r, UNCHANGED kind, input'[r] = input[r] PROVE Same(r)
<1>1. \A s : Takes(input[r], s)' = Takes(input[r], s)
  BY DEF Takes
<1>2. QED
  BY <1>1 DEF Same, Subject, Route, Asked, MayAsk, Written

LEMMA SameEscalated ==
    ASSUME TypeOK, NEW r \in Requests, EscalateStep(r) PROVE Same(r)
<1> DEFINE i == input[r]
<1>1. input'[r] = [i EXCEPT !.able = i.able \cup {"describe"}] /\ i \in Input /\ kind' = kind
  BY DEF EscalateStep, Advance, TypeOK
<1>2. /\ input'[r].op = i.op /\ input'[r].home = i.home /\ input'[r].id = i.id
      /\ input'[r].admin = i.admin /\ input'[r].asked = i.asked
      /\ input'[r].given = i.given /\ input'[r].text = i.text
      /\ input'[r].list = i.list /\ i.able \subseteq input'[r].able
  BY <1>1 DEF Input
<1>3. \A s : Takes(input[r], s)' = Takes(input[r], s)
  BY <1>1, <1>2 DEF Takes
<1>4. QED
  BY <1>1, <1>2, <1>3 DEF Same, Subject, Route, Asked, MayAsk, Written

(* What a step leaves alone of other requests, and of the one that takes it *)
Apart(q) ==
    /\ \A r \in Requests : Same(r)
    /\ \A r \in Requests \ {q} :
        /\ pc'[r] = pc[r] /\ step'[r] = step[r] /\ input'[r] = input[r]
        /\ scope'[r] = scope[r] /\ shown'[r] = shown[r] /\ joined'[r] = joined[r]
        /\ listed'[r] = listed[r] /\ total'[r] = total[r] /\ why'[r] = why[r]
Refused(q) == \E reason \in Outcomes : Refuse(q, reason)

LEMMA RefuseApart ==
    ASSUME TypeOK, NEW q \in Requests, NEW reason, Refuse(q, reason)
    PROVE  Apart(q) /\ UNCHANGED <<rows, links, past, scope, seen, step, input, kind>>
BY SameInput DEF Refuse, TypeOK, seen, Apart

LEMMA AdvanceApart ==
    ASSUME TypeOK, HistoryOK, NEW q \in Requests, Advance(q), UNCHANGED input,
           \A r \in Requests \ {q} :
                /\ scope'[r] = scope[r] /\ shown'[r] = shown[r] /\ joined'[r] = joined[r]
                /\ listed'[r] = listed[r] /\ total'[r] = total[r]
    PROVE  Apart(q)
BY SameInput DEF Advance, TypeOK, Apart

LEMMA StepApart ==
    ASSUME TypeOK, HistoryOK, NEW q \in Requests, Step(q)
    PROVE  pc[q] = "running" /\ Apart(q) /\ (Refused(q) \/ Advance(q))
<1> USE DEF At, seen
<1>1. DOMAIN shown = Requests /\ DOMAIN total = Requests
  BY DEF HistoryOK
<1>2. ASSUME NEW reason \in Outcomes, Refuse(q, reason) PROVE Apart(q) /\ Refused(q)
  BY <1>2, RefuseApart DEF Refused
<1> USE DEF Outcomes
<1>3. CASE PassStep(q)
  BY <1>3, AdvanceApart DEF PassStep, Proceed
<1>4. CASE EscalateStep(q)
  <2>1. /\ UNCHANGED <<scope, shown, joined, listed, total, kind, why>>
        /\ \A r \in Requests \ {q} :
            pc'[r] = pc[r] /\ step'[r] = step[r] /\ input'[r] = input[r]
    BY <1>4 DEF EscalateStep, Advance, TypeOK
  <2>2. \A r \in Requests : Same(r)
    BY <1>4, <2>1, SameInput, SameEscalated
  <2>3. QED
    BY <1>4, <2>1, <2>2 DEF EscalateStep, Apart
<1>5. CASE AskStep(q)
  <2>1. pc[q] = "running"
    BY <1>5 DEF AskStep
  <2>2. CASE Refuse(q, "forbidden")
    BY <1>2, <2>1, <2>2
  <2>3. CASE ~(Refuse(q, "forbidden"))
    BY <1>1, <1>5, <2>3, AdvanceApart DEF AskStep, Proceed, TypeOK
  <2>4. QED
    BY <2>1, <2>2, <2>3
<1>6. CASE FindStep(q)
  <2>1. pc[q] = "running"
    BY <1>6 DEF FindStep
  <2>2. CASE Refuse(q, "notFound")
    BY <1>2, <2>1, <2>2
  <2>3. CASE ~(Refuse(q, "notFound"))
    BY <1>1, <1>6, <2>3, AdvanceApart DEF FindStep, Proceed, TypeOK
  <2>4. QED
    BY <2>1, <2>2, <2>3
<1>7. CASE JoinStep(q)
  <2>1. pc[q] = "running"
    BY <1>7 DEF JoinStep
  <2>2. CASE Refuse(q, "notFound")
    BY <1>2, <2>1, <2>2
  <2>3. CASE ~(Refuse(q, "notFound"))
    BY <1>1, <1>7, <2>3, AdvanceApart DEF JoinStep, Proceed, TypeOK
  <2>4. QED
    BY <2>1, <2>2, <2>3
<1>8. CASE ValidateStep(q)
  <2>1. pc[q] = "running"
    BY <1>8 DEF ValidateStep
  <2>2. CASE Refuse(q, "invalid")
    BY <1>2, <2>1, <2>2
  <2>3. CASE ~(Refuse(q, "invalid"))
    BY <1>1, <1>8, <2>3, AdvanceApart DEF ValidateStep, Proceed, TypeOK
  <2>4. QED
    BY <2>1, <2>2, <2>3
<1>9. CASE FreeStep(q)
  <2>1. pc[q] = "running"
    BY <1>9 DEF FreeStep
  <2>2. CASE Refuse(q, "conflict")
    BY <1>2, <2>1, <2>2
  <2>3. CASE ~(Refuse(q, "conflict"))
    BY <1>1, <1>9, <2>3, AdvanceApart DEF FreeStep, Proceed, TypeOK
  <2>4. QED
    BY <2>1, <2>2, <2>3
<1>10. CASE MemberStep(q)
  <2>1. pc[q] = "running"
    BY <1>10 DEF MemberStep
  <2>2. CASE Refuse(q, "forbidden")
    BY <1>2, <2>1, <2>2
  <2>3. CASE ~(Refuse(q, "forbidden"))
    BY <1>1, <1>10, <2>3, AdvanceApart DEF MemberStep, Proceed, TypeOK
  <2>4. QED
    BY <2>1, <2>2, <2>3
<1>11. CASE RolesStep(q)
  <2>1. pc[q] = "running"
    BY <1>11 DEF RolesStep
  <2>2. CASE Refuse(q, "forbidden")
    BY <1>2, <2>1, <2>2
  <2>3. CASE ~(Refuse(q, "forbidden"))
    BY <1>1, <1>11, <2>3, AdvanceApart DEF RolesStep, Proceed, TypeOK
  <2>4. QED
    BY <2>1, <2>2, <2>3
<1>12. CASE InsertStep(q)
  <2>1. pc[q] = "running"
    BY <1>12 DEF InsertStep
  <2>2. CASE Refuse(q, "conflict") \/ Refuse(q, "invalid")
    BY <1>2, <2>1, <2>2
  <2>3. CASE ~(Refuse(q, "conflict") \/ Refuse(q, "invalid"))
    BY <1>1, <1>12, <2>3, AdvanceApart DEF InsertStep, Proceed, TypeOK
  <2>4. QED
    BY <2>1, <2>2, <2>3
<1>13. CASE UpdateStep(q)
  <2>1. pc[q] = "running"
    BY <1>13 DEF UpdateStep
  <2>2. CASE Refuse(q, "broken") \/ Refuse(q, "notFound") \/ Refuse(q, "conflict") \/ Refuse(q, "invalid")
    BY <1>2, <2>1, <2>2
  <2>3. CASE ~(Refuse(q, "broken") \/ Refuse(q, "notFound") \/ Refuse(q, "conflict") \/ Refuse(q, "invalid"))
    BY <1>1, <1>13, <2>3, AdvanceApart DEF UpdateStep, Proceed, TypeOK
  <2>4. QED
    BY <2>1, <2>2, <2>3
<1>14. CASE RemoveStep(q)
  <2>1. pc[q] = "running"
    BY <1>14 DEF RemoveStep
  <2>2. CASE Refuse(q, "inUse") \/ Refuse(q, "notFound")
    BY <1>2, <2>1, <2>2
  <2>3. CASE ~(Refuse(q, "inUse") \/ Refuse(q, "notFound"))
    BY <1>1, <1>14, <2>3, AdvanceApart DEF RemoveStep, Proceed, TypeOK
  <2>4. QED
    BY <2>1, <2>2, <2>3
<1>15. CASE UnlinkStep(q)
  BY <1>1, <1>15, AdvanceApart DEF UnlinkStep, Proceed, TypeOK
<1>16. CASE RelinkStep(q)
  <2>1. pc[q] = "running"
    BY <1>16 DEF RelinkStep
  <2>2. CASE Refuse(q, "conflict")
    BY <1>2, <2>1, <2>2
  <2>3. CASE ~(Refuse(q, "conflict"))
    BY <1>1, <1>16, <2>3, AdvanceApart DEF RelinkStep, Proceed, TypeOK
  <2>4. QED
    BY <2>1, <2>2, <2>3
<1>17. CASE ListStep(q)
  <2>1. pc[q] = "running"
    BY <1>17 DEF ListStep
  <2>2. CASE Refuse(q, "broken")
    BY <1>2, <2>1, <2>2
  <2>3. CASE ~(Refuse(q, "broken"))
    BY <1>1, <1>17, <2>3, AdvanceApart DEF ListStep, Proceed, TypeOK
  <2>4. QED
    BY <2>1, <2>2, <2>3
<1>18. CASE CountStep(q)
  BY <1>1, <1>18, AdvanceApart DEF CountStep, Proceed, TypeOK
<1>19. QED
  BY <1>3, <1>4, <1>5, <1>6, <1>7, <1>8, <1>9, <1>10, <1>11, <1>12, <1>13, <1>14, <1>15, <1>16,
     <1>17, <1>18 DEF Step

(* What a write does: it changes the row of its request and the links of it, brings back *)
(* no row, and is marked in the histories of the others                                  *)
Marked(q, r) ==
    LET same == Subject(q) = Subject(r)
    IN  /\ past'[r].touched = past[r].touched
        /\ past'[r].open = past[r].open /\ past'[r].filled = past[r].filled
        /\ past'[r].raced = (past[r].raced \/ pc[r] = "running")
        /\ past'[r].after = (past[r].after \/ (same /\ past[r].touched))
        /\ past[r].mixed \subseteq past'[r].mixed
RowKept(id) ==
    /\ id \in DOMAIN rows <=> id \in DOMAIN rows'
    /\ id \in DOMAIN rows => rows'[id] = rows[id] /\ links'[id] = links[id]
Writing(q) ==
    /\ Advance(q) /\ Takes(input[q], Here(q)) /\ Here(q)[1] \in Writes
    /\ past' \in [Requests -> Past]
    /\ past'[q].raced = past[q].raced /\ past'[q].after = past[q].after
    /\ past'[q].mixed = past[q].mixed
    /\ \A r \in Requests \ {q} : Marked(q, r)
    /\ \A id \in Ids \ {Subject(q)} : RowKept(id)
    /\ Subject(q) \in DOMAIN rows' => Subject(q) \in DOMAIN rows \/ Subject(q) = q

LEMMA WroteMarks ==
    ASSUME TypeOK, HistoryOK, NEW q \in Requests, kind' = kind,
           NEW cleared \in SUBSET Joins[kind], NEW mine \in Past, Wrote(q, cleared, mine)
    PROVE  /\ past' \in [Requests -> Past] /\ past'[q] = mine
           /\ \A r \in Requests \ {q} : Marked(q, r)
           /\ \A r \in Requests \ {q} : past'[r].mixed =
                    IF Subject(q) = Subject(r)
                    THEN past[r].mixed \cup (cleared \cap past[r].open) ELSE past[r].mixed
<1>1. past \in [Requests -> Past]
  BY DEF HistoryOK
<1> DEFINE same(r) == Subject(r) = Subject(q)
           new(r) == [past[r] EXCEPT !.raced = past[r].raced \/ pc[r] = "running",
                                 !.after = past[r].after \/ (same(r) /\ past[r].touched),
                                 !.mixed = IF same(r) THEN past[r].mixed \cup (cleared \cap past[r].open)
                                           ELSE past[r].mixed]
<1>2. past' = [r \in Requests |-> IF r = q THEN mine ELSE new(r)]
  BY DEF Wrote
<1>3. ASSUME NEW r \in Requests
      PROVE  /\ new(r) \in Past
             /\ new(r).touched = past[r].touched
             /\ new(r).open = past[r].open /\ new(r).filled = past[r].filled
             /\ new(r).raced = (past[r].raced \/ pc[r] = "running")
             /\ new(r).after = (past[r].after \/ (same(r) /\ past[r].touched))
             /\ new(r).mixed = IF same(r) THEN past[r].mixed \cup (cleared \cap past[r].open)
                               ELSE past[r].mixed
  <2>1. past[r] \in Past
    BY <1>1
  <2>2. QED
    BY <2>1 DEF Past
<1> HIDE DEF new
<1>4. QED
  BY <1>2, <1>3 DEF Marked

LEMMA InputTypes ==
    ASSUME TypeOK, HistoryOK, NEW r \in Requests
    PROVE  /\ input[r] \in Input /\ past[r] \in Past
           /\ Subject(r) \in Ids /\ (Subject(r) \in Requests => Subject(r) = r)
           /\ Asked(input[r]) \in Workspaces
           /\ (input[r].op = "create" => Subject(r) = r)
<1>1. input[r] \in Input /\ past[r] \in Past
  BY DEF TypeOK, HistoryOK
<1>2. input[r].id \in Stored
  BY <1>1 DEF Input
<1>3. QED
  BY <1>1, <1>2, AskedType, NamesAssumption DEF Subject, Ids

(* The step that a request is at is one of its route *)
LEMMA AtShape ==
    ASSUME TypeOK, HistoryOK, NEW r \in Requests, pc[r] = "running"
    PROVE  /\ step[r] \in 1..Len(Route(r)) /\ Here(r) = Route(r)[step[r]]
           /\ Shaped(kind, input[r].op, Route(r)) /\ Conveyed(kind)
<1>1. OnRoute(r)
  BY DEF HistoryOK
<1>2. QED
  BY <1>1, RouteShape DEF OnRoute, Here

LEMMA StepWrites ==
    ASSUME TypeOK, HistoryOK, NEW q \in Requests, Step(q)
    PROVE  UNCHANGED <<rows, links, past>> \/ Writing(q)
<1> USE DEF At
<1>0. pc[q] = "running" /\ Apart(q)
  BY StepApart
<1>1. past[q] \in Past /\ DOMAIN links = DOMAIN rows
  BY InputTypes DEF TypeOK
<1>2. /\ Here(q)[1] = "insert" => Subject(q) = q
      /\ Here(q)[1] \in {"unlink", "relink"} => Here(q)[2] \in Joins[kind]
  BY <1>0, AtShape, InputTypes DEF Shaped, Named
<1> DEFINE none == {}
<1>10. none \in SUBSET Joins[kind]
  OBVIOUS
<1> HIDE DEF none
<1>3. CASE InsertStep(q)
  <2>1. CASE Refuse(q, "conflict") \/ Refuse(q, "invalid")
    BY <2>1 DEF Refuse
  <2>2. CASE ~(Refuse(q, "conflict") \/ Refuse(q, "invalid"))
    <3> DEFINE mine == [past[q] EXCEPT !.touched = TRUE]
    <3>1. /\ Proceed(q) /\ At(q, "insert") /\ Wrote(q, none, mine)
          /\ \E new : rows' = [id \in DOMAIN rows \cup {q} |-> IF id = q THEN new ELSE rows[id]]
          /\ \E new : links' = [id \in DOMAIN links \cup {q} |-> IF id = q THEN new ELSE links[id]]
      BY <1>3, <2>2 DEF InsertStep, WroteRow, none
    <3>2. /\ mine \in Past /\ mine.raced = past[q].raced /\ mine.after = past[q].after
          /\ mine.mixed = past[q].mixed
      BY <1>1 DEF Past
    <3>3. kind' = kind
      BY <3>1 DEF Proceed, Advance
    <3> HIDE DEF mine
    <3>4. /\ past' \in [Requests -> Past] /\ past'[q] = mine
          /\ \A r \in Requests \ {q} : Marked(q, r)
      BY <1>10, <3>1, <3>2, <3>3, WroteMarks
    <3>5. \A id \in Ids \ {Subject(q)} : RowKept(id)
      BY <1>1, <1>2, <3>1 DEF RowKept
    <3>6. QED
      BY <1>2, <3>1, <3>2, <3>4, <3>5 DEF Writing, Proceed, Writes
  <2>3. QED
    BY <2>1, <2>2
<1>4. CASE UpdateStep(q)
  <2> DEFINE no == \/ Refuse(q, "broken") \/ Refuse(q, "notFound")
                   \/ Refuse(q, "conflict") \/ Refuse(q, "invalid")
  <2>1. CASE no
    BY <2>1 DEF Refuse
  <2>2. CASE ~no
    <3> DEFINE mine == [past[q] EXCEPT !.touched = TRUE]
    <3>1. /\ Proceed(q) /\ At(q, "update") /\ Wrote(q, none, mine) /\ UNCHANGED links
          /\ \E new : rows' = [rows EXCEPT ![Subject(q)] = new]
          /\ Subject(q) \in DOMAIN rows
      BY <1>4, <2>2 DEF UpdateStep, WroteRow, none, Visible
    <3>2. /\ mine \in Past /\ mine.raced = past[q].raced /\ mine.after = past[q].after
          /\ mine.mixed = past[q].mixed
      BY <1>1 DEF Past
    <3>3. kind' = kind
      BY <3>1 DEF Proceed, Advance
    <3> HIDE DEF mine
    <3>4. /\ past' \in [Requests -> Past] /\ past'[q] = mine
          /\ \A r \in Requests \ {q} : Marked(q, r)
      BY <1>10, <3>1, <3>2, <3>3, WroteMarks
    <3>5. \A id \in Ids \ {Subject(q)} : RowKept(id)
      BY <1>1, <3>1 DEF RowKept
    <3>6. QED
      BY <3>1, <3>2, <3>4, <3>5 DEF Writing, Proceed, Writes
  <2>3. QED
    BY <2>1, <2>2
<1>5. CASE RemoveStep(q)
  <2>1. CASE Refuse(q, "inUse") \/ Refuse(q, "notFound")
    BY <2>1 DEF Refuse
  <2>2. CASE ~(Refuse(q, "inUse") \/ Refuse(q, "notFound"))
    <3> DEFINE mine == [past[q] EXCEPT !.touched = TRUE]
    <3>1. /\ Proceed(q) /\ At(q, "remove") /\ Wrote(q, none, mine)
          /\ rows' = [other \in DOMAIN rows \ {Subject(q)} |-> rows[other]]
          /\ links' = [other \in DOMAIN links \ {Subject(q)} |-> links[other]]
      BY <1>5, <2>2 DEF RemoveStep, WroteRow, none
    <3>2. /\ mine \in Past /\ mine.raced = past[q].raced /\ mine.after = past[q].after
          /\ mine.mixed = past[q].mixed
      BY <1>1 DEF Past
    <3>3. kind' = kind
      BY <3>1 DEF Proceed, Advance
    <3> HIDE DEF mine
    <3>4. /\ past' \in [Requests -> Past] /\ past'[q] = mine
          /\ \A r \in Requests \ {q} : Marked(q, r)
      BY <1>10, <3>1, <3>2, <3>3, WroteMarks
    <3>5. \A id \in Ids \ {Subject(q)} : RowKept(id)
      BY <1>1, <3>1 DEF RowKept
    <3>6. QED
      BY <3>1, <3>2, <3>4, <3>5 DEF Writing, Proceed, Writes
  <2>3. QED
    BY <2>1, <2>2
<1>6. CASE UnlinkStep(q)
  <2> DEFINE mine == [past[q] EXCEPT !.touched = @ \/ Subject(q) \in DOMAIN links,
                                     !.open = @ \cup {Arg(q)}]
  <2>1. /\ Proceed(q) /\ At(q, "unlink") /\ Wrote(q, {Arg(q)}, mine) /\ UNCHANGED rows
        /\ \/ \E new : links' = [links EXCEPT ![Subject(q)] = new]
           \/ links' = links
    BY <1>6 DEF UnlinkStep
  <2>2. Arg(q) \in Joins[kind]
    BY <1>2, <2>1 DEF Arg
  <2>3. /\ mine \in Past /\ mine.raced = past[q].raced /\ mine.after = past[q].after
        /\ mine.mixed = past[q].mixed
    BY <1>1, <2>2 DEF Past
  <2>4. kind' = kind
    BY <2>1 DEF Proceed, Advance
  <2> HIDE DEF mine
  <2>5. /\ past' \in [Requests -> Past] /\ past'[q] = mine
        /\ \A r \in Requests \ {q} : Marked(q, r)
    BY <2>1, <2>2, <2>3, <2>4, WroteMarks
  <2>6. \A id \in Ids \ {Subject(q)} : RowKept(id)
    BY <1>1, <2>1 DEF RowKept
  <2>7. QED
    BY <2>1, <2>3, <2>5, <2>6 DEF Writing, Proceed, Writes
<1>7. CASE RelinkStep(q)
  <2>1. CASE Refuse(q, "conflict")
    BY <2>1 DEF Refuse
  <2>2. CASE ~Refuse(q, "conflict")
    <3> DEFINE mine == [past[q] EXCEPT !.open = @ \ {Arg(q)}, !.filled = @ \cup {Arg(q)}]
    <3>1. /\ Proceed(q) /\ At(q, "relink") /\ Wrote(q, none, mine) /\ UNCHANGED rows
          /\ \E new : links' = [links EXCEPT ![Subject(q)] = new]
      BY <1>7, <2>2 DEF RelinkStep, none
    <3>2. Arg(q) \in Joins[kind]
      BY <1>2, <3>1 DEF Arg
    <3>3. /\ mine \in Past /\ mine.raced = past[q].raced /\ mine.after = past[q].after
          /\ mine.mixed = past[q].mixed
      BY <1>1, <3>2 DEF Past
    <3>4. kind' = kind
      BY <3>1 DEF Proceed, Advance
    <3> HIDE DEF mine
    <3>5. /\ past' \in [Requests -> Past] /\ past'[q] = mine
          /\ \A r \in Requests \ {q} : Marked(q, r)
      BY <1>10, <3>1, <3>3, <3>4, WroteMarks
    <3>6. \A id \in Ids \ {Subject(q)} : RowKept(id)
      BY <1>1, <3>1 DEF RowKept
    <3>7. QED
      BY <3>1, <3>3, <3>5, <3>6 DEF Writing, Proceed, Writes
  <2>3. QED
    BY <2>1, <2>2
<1>8. CASE Refused(q)
  BY <1>8 DEF Refused, Refuse
<1>9. QED
  BY <1>3, <1>4, <1>5, <1>6, <1>7, <1>8
     DEF Step, PassStep, AskStep, EscalateStep, FindStep, JoinStep, ValidateStep, FreeStep,
         MemberStep, RolesStep, ListStep, CountStep, Refuse

LEMMA InitHistory == Init => HistoryOK
<1> SUFFICES ASSUME Init PROVE HistoryOK
  OBVIOUS
<1>1. Untouched \in Past
  BY DEF Untouched, Past
<1>2. ASSUME NEW r \in Requests PROVE OnRoute(r)
  <2>1. kind \in Kinds /\ input[r] = Idle /\ step[r] = 1 /\ pc[r] = "idle" /\ past[r] = Untouched
    BY DEF Init
  <2>2. kind \in DOMAIN Protected
    BY <2>1, KindsAssumption
  <2>3. "list" \in DOMAIN Protected[kind]
    BY <2>2 DEF Protected, RoleHandlers, PolicyHandlers, ProjectHandlers, ProfileHandlers,
           PermissionHandlers, ClientHandlers, CredentialHandlers, MembershipHandlers,
           AccountHandlers, WorkspaceHandlers
  <2>4. input[r].op = "list" /\ input[r].given = {}
    BY <2>1 DEF Idle
  <2>5. Shaped(kind, "list", Route(r))
    BY <2>2, <2>3, <2>4, RoutesAreShaped DEF Route
  <2>6. QED
    BY <2>1, <2>3, <2>4, <2>5 DEF OnRoute, Untouched, Shaped
<1>3. QED
  BY <1>1, <1>2 DEF HistoryOK, Init

(* The functions that hold what was read keep their domain *)
LEMMA SeenKept ==
    ASSUME HistoryOK, NEW q \in Requests, Step(q)
    PROVE  (shown = [r \in Requests |-> shown[r]] /\ total = [r \in Requests |-> total[r]])'
<1>1. shown' = shown \/ \E x : shown' = [shown EXCEPT ![q] = x]
  BY DEF Step, PassStep, AskStep, EscalateStep, FindStep, JoinStep, ValidateStep, FreeStep,
         MemberStep, RolesStep, InsertStep, UpdateStep, RemoveStep, UnlinkStep, RelinkStep,
         ListStep, CountStep, Refuse, seen
<1>2. total' = total \/ \E x : total' = [total EXCEPT ![q] = x]
  BY DEF Step, PassStep, AskStep, EscalateStep, FindStep, JoinStep, ValidateStep, FreeStep,
         MemberStep, RolesStep, InsertStep, UpdateStep, RemoveStep, UnlinkStep, RelinkStep,
         ListStep, CountStep, Refuse, seen
<1>3. QED
  BY <1>1, <1>2 DEF HistoryOK

LEMMA NextHistory == TypeOK /\ HistoryOK /\ [Next]_vars => HistoryOK'
<1> SUFFICES ASSUME TypeOK, HistoryOK, [Next]_vars PROVE HistoryOK'
  OBVIOUS
<1>1. CASE UNCHANGED vars
  BY <1>1 DEF vars, seen, HistoryOK, OnRoute, Past, Route
<1>2. ASSUME NEW q \in Requests, Start(q) PROVE HistoryOK'
  <2>1. PICK i \in Inputs[q][kind] : input' = [input EXCEPT ![q] = i]
    BY <1>2 DEF Start
  <2>2. UNCHANGED <<kind, step, past, shown, total>> /\ Past' = Past /\ pc[q] = "idle"
        /\ pc' = [pc EXCEPT ![q] = "running"]
    BY <1>2 DEF Start, seen, Past
  <2>3. kind \in Kinds /\ kind \in DOMAIN Protected
    BY KindsAssumption DEF TypeOK
  <2>4. i.op \in DOMAIN Protected[kind] /\ i.given \subseteq Fields(kind, i.op)
    BY <2>1, <2>3, InputsAssumption
  <2>5. input'[q] = i /\ pc'[q] = "running" /\ step'[q] = 1
    BY <2>1, <2>2 DEF TypeOK, HistoryOK, OnRoute
  <2>6. Route(q)' = Protected[kind][i.op]
    BY <2>2, <2>5 DEF Route
  <2>7. Shaped(kind, i.op, Route(q)')
    BY <2>3, <2>4, <2>6, RoutesAreShaped
  <2>8. Len(Route(q)') \in Nat \ {0}
    BY <2>7 DEF Shaped
  <2>9. OnRoute(q)'
    BY <2>2, <2>4, <2>5, <2>8 DEF OnRoute
  <2>10. ASSUME NEW r \in Requests \ {q} PROVE OnRoute(r)'
    <3>1. input'[r] = input[r] /\ pc'[r] = pc[r] /\ step'[r] = step[r] /\ past'[r] = past[r]
      BY <2>1, <2>2 DEF TypeOK
    <3>2. Route(r)' = Route(r)
      BY <2>2, <3>1 DEF Route
    <3>3. QED
      BY <2>2, <3>1, <3>2 DEF HistoryOK, OnRoute
  <2>11. QED
    BY <2>2, <2>9, <2>10 DEF HistoryOK
<1>3. ASSUME NEW q \in Requests, Drop(q) PROVE HistoryOK'
  <2>1. UNCHANGED <<kind, step, past, shown, total, input>> /\ Past' = Past
        /\ \A r \in Requests : pc'[r] = pc[r] \/ pc'[r] = "dropped"
    BY <1>3 DEF Drop, seen, Past, TypeOK
  <2>2. \A r \in Requests : Route(r)' = Route(r)
    BY <2>1 DEF Route
  <2>3. QED
    BY <2>1, <2>2 DEF HistoryOK, OnRoute
<1>4. ASSUME NEW q \in Requests, Step(q) PROVE HistoryOK'
  <2>1. pc[q] = "running" /\ Apart(q) /\ (Refused(q) \/ Advance(q))
    BY <1>4, StepApart
  <2>2. kind' = kind /\ Past' = Past
    BY <2>1 DEF Apart, Same, Past
  <2>3. past' \in [Requests -> Past']
        /\ \A r \in Requests \ {q} : past'[r] = past[r] \/ Marked(q, r)
    BY <1>4, <2>2, StepWrites DEF HistoryOK, Writing
  <2>4. ASSUME NEW r \in Requests PROVE OnRoute(r)'
    <3>1. OnRoute(r) /\ Len(Route(r)) \in Nat \ {0}
      BY RouteShape DEF HistoryOK
    <3>2. Route(r)' = Route(r) /\ input'[r].op = input[r].op /\ input'[r].given = input[r].given
      BY <2>1 DEF Apart, Same
    <3>3. CASE r # q
      BY <2>1, <2>2, <2>3, <3>1, <3>2, <3>3 DEF OnRoute, Apart, Marked
    <3>4. CASE r = q /\ Refused(q)
      BY <2>1, <2>2, <3>1, <3>2, <3>4 DEF OnRoute, Refused, Refuse, TypeOK
    <3>5. CASE r = q /\ Advance(q)
      <4>1. step'[q] = step[q] + 1
            /\ pc'[q] = IF step[q] = Len(Route(q)) THEN "answered" ELSE "running"
        BY <3>5 DEF Advance, TypeOK
      <4>2. QED
        BY <2>1, <2>2, <3>1, <3>2, <3>5, <4>1 DEF OnRoute
    <3>6. QED
      BY <2>1, <3>3, <3>4, <3>5
  <2>5. QED
    BY <1>4, <2>3, <2>4, SeenKept DEF HistoryOK
<1>5. QED
  BY <1>1, <1>2, <1>3, <1>4 DEF Next

-----------------------------------------------------------------------------
(* The four ways in which a step concerns a request *)

(* The steps that it has behind it *)
Done(r) == {Route(r)[m] : m \in 1..(step[r] - 1)}
Passed(r, name) == \E s \in Done(r) : s[1] = name

(* It is a step of another request, or of none *)
Spared(r) ==
    /\ Same(r) /\ Done(r)' = Done(r) /\ Here(r)' = Here(r) /\ input'[r] = input[r]
    /\ pc'[r] = pc[r] /\ step'[r] = step[r] /\ scope'[r] = scope[r] /\ why'[r] = why[r]
    /\ shown'[r] = shown[r] /\ joined'[r] = joined[r]
    /\ listed'[r] = listed[r] /\ total'[r] = total[r]
    /\ past'[r].touched = past[r].touched
    /\ past'[r].open = past[r].open /\ past'[r].filled = past[r].filled
    /\ past[r].mixed \subseteq past'[r].mixed
    /\ past[r].raced => past'[r].raced
    /\ past[r].after => past'[r].after
    /\ pc[r] = "running" /\ past'[r].after /\ ~past[r].after => past'[r].raced
    /\ pc[r] = "running" /\ ~past'[r].raced => UNCHANGED <<rows, links>>
    /\ past[r].touched /\ ~past'[r].after => RowKept(Subject(r))
    /\ \A id \in {r, Subject(r)} : id \in DOMAIN rows' => id \in DOMAIN rows

(* It is received *)
Begins(r) ==
    /\ Start(r) /\ pc[r] = "idle" /\ pc'[r] = "running" /\ Done(r)' = {} /\ kind' = kind
    /\ ~past'[r].touched /\ ~past'[r].raced /\ ~past'[r].after
    /\ past'[r].open = {} /\ past'[r].filled = {} /\ UNCHANGED <<rows, links>>

(* It is refused or dropped *)
Halts(r) ==
    /\ pc[r] = "running" /\ pc'[r] \in {"refused", "dropped"}
    /\ Same(r) /\ Done(r)' = Done(r) /\ Here(r)' = Here(r)
    /\ UNCHANGED <<kind, rows, links, input, step, scope, seen, past>>

(* It takes the step that it is at *)
Goes(r) ==
    /\ Step(r) /\ ~Refused(r) /\ Advance(r) /\ pc[r] = "running" /\ Same(r)
    /\ Done(r)' = Done(r) \cup {Here(r)}
    /\ pc'[r] \in {"running", "answered"} /\ why'[r] = why[r]

LEMMA DoneKept ==
    ASSUME NEW r, Same(r), step'[r] = step[r]
    PROVE  Done(r)' = Done(r) /\ Here(r)' = Here(r)
BY DEF Same, Done, Here

LEMMA OthersSpare ==
    ASSUME TypeOK, HistoryOK, NEW q \in Requests, NEW r \in Requests \ {q}, Step(q)
    PROVE  Spared(r)
<1>1. Apart(q)
  BY StepApart
<1>2. Same(r) /\ step'[r] = step[r]
  BY <1>1 DEF Apart
<1>3. Subject(r) \in Ids /\ (Subject(r) \in Requests => Subject(r) = r) /\ past[r] \in Past
  BY InputTypes
<1>4. CASE UNCHANGED <<rows, links, past>>
  BY <1>1, <1>2, <1>4, DoneKept DEF Spared, Apart, RowKept
<1>5. CASE Writing(q)
  <2>1. /\ Marked(q, r) /\ \A id \in Ids \ {Subject(q)} : RowKept(id)
        /\ Subject(q) \in DOMAIN rows' => Subject(q) \in DOMAIN rows \/ Subject(q) = q
    BY <1>5 DEF Writing
  <2>2. \A id \in {r, Subject(r)} : id \in DOMAIN rows' => id \in DOMAIN rows
    <3>1. Subject(q) \in Requests => Subject(q) = q
      BY InputTypes
    <3>2. QED
      BY <1>3, <2>1, <3>1 DEF RowKept, Ids
  <2>3. past[r].touched /\ ~past'[r].after => RowKept(Subject(r))
    BY <1>3, <2>1 DEF Marked
  <2>4. /\ past'[r].touched = past[r].touched
        /\ past'[r].open = past[r].open /\ past'[r].filled = past[r].filled
        /\ past[r].mixed \subseteq past'[r].mixed
        /\ past[r].raced => past'[r].raced
        /\ past[r].after => past'[r].after
        /\ pc[r] = "running" => past'[r].raced
    BY <1>3, <2>1 DEF Marked, Past
  <2>5. QED
    BY <1>1, <1>2, <2>2, <2>3, <2>4, DoneKept DEF Spared, Apart
<1>6. QED
  BY <1>4, <1>5, StepWrites

LEMMA Moves ==
    ASSUME TypeOK, HistoryOK, [Next]_vars, NEW r \in Requests
    PROVE  Spared(r) \/ Begins(r) \/ Halts(r) \/ Goes(r)
<1>1. ASSUME UNCHANGED <<kind, rows, links, past, step>>, input'[r] = input[r], pc'[r] = pc[r],
             scope'[r] = scope[r], shown'[r] = shown[r], joined'[r] = joined[r],
             listed'[r] = listed[r], total'[r] = total[r], why'[r] = why[r]
      PROVE  Spared(r)
  <2>1. Same(r)
    BY <1>1, SameInput
  <2>2. Done(r)' = Done(r) /\ Here(r)' = Here(r)
    BY <1>1, <2>1, DoneKept
  <2>3. QED
    BY <1>1, <2>1, <2>2 DEF Spared, RowKept
<1>2. CASE UNCHANGED vars
  BY <1>1, <1>2 DEF vars, seen
<1>3. ASSUME NEW q \in Requests, Start(q) PROVE Spared(r) \/ Begins(r)
  <2>1. CASE q = r
    <3>1. pc[r] = "idle" /\ pc'[r] = "running" /\ UNCHANGED <<kind, rows, links, step, past>>
      BY <1>3, <2>1 DEF Start, TypeOK
    <3>2. step'[r] = 1 /\ OnRoute(r)
      BY <3>1 DEF HistoryOK, OnRoute
    <3>3. Done(r)' = {}
      BY <3>2 DEF Done
    <3>4. QED
      BY <1>3, <2>1, <3>1, <3>2, <3>3 DEF Begins, OnRoute
  <2>2. CASE q # r
    <3>1. UNCHANGED <<kind, rows, links, past, step, seen, scope, why>>
          /\ input'[r] = input[r] /\ pc'[r] = pc[r]
      BY <1>3, <2>2 DEF Start, TypeOK
    <3>2. QED
      BY <1>1, <3>1 DEF seen
  <2>3. QED
    BY <2>1, <2>2
<1>4. ASSUME NEW q \in Requests, Drop(q) PROVE Spared(r) \/ Halts(r)
  <2>1. UNCHANGED <<kind, rows, links, past, step, seen, scope, why, input>>
    BY <1>4 DEF Drop
  <2>2. CASE q # r
    <3>1. pc'[r] = pc[r]
      BY <1>4, <2>2 DEF Drop, TypeOK
    <3>2. QED
      BY <1>1, <2>1, <3>1 DEF seen
  <2>3. CASE q = r
    <3>1. Same(r) /\ Done(r)' = Done(r) /\ Here(r)' = Here(r)
      BY <2>1, SameInput, DoneKept
    <3>2. QED
      BY <1>4, <2>1, <2>3, <3>1 DEF Drop, TypeOK, Halts
  <2>4. QED
    BY <2>2, <2>3
<1>5. ASSUME NEW q \in Requests, Step(q) PROVE Spared(r) \/ Halts(r) \/ Goes(r)
  <2>1. CASE q # r
    BY <1>5, <2>1, OthersSpare
  <2>2. CASE q = r /\ Refused(r)
    <3>1. PICK reason \in Outcomes : Refuse(r, reason)
      BY <2>2 DEF Refused
    <3>2. Apart(r) /\ UNCHANGED <<rows, links, past, scope, seen, step, input, kind>>
      BY <3>1, RefuseApart
    <3>3. Same(r) /\ Done(r)' = Done(r) /\ Here(r)' = Here(r)
      BY <3>2, DoneKept DEF Apart
    <3>4. pc[r] = "running" /\ pc'[r] = "refused"
      BY <1>5, <2>2, <3>1, StepApart DEF Refuse, TypeOK
    <3>5. QED
      BY <3>2, <3>3, <3>4 DEF Halts
  <2>3. CASE q = r /\ ~Refused(r)
    <3>1. pc[r] = "running" /\ Apart(r) /\ Advance(r)
      BY <1>5, <2>3, StepApart
    <3>2. step'[r] = step[r] + 1 /\ pc'[r] \in {"running", "answered"} /\ why'[r] = why[r]
      BY <3>1 DEF Advance, TypeOK
    <3>3. Same(r) /\ step[r] \in Nat \ {0}
      BY <3>1, RouteShape DEF Apart, HistoryOK
    <3>4. Done(r)' = Done(r) \cup {Here(r)}
      <4>1. Route(r)' = Route(r)
        BY <3>3 DEF Same
      <4>2. 1..(step[r] + 1 - 1) = 1..(step[r] - 1) \cup {step[r]}
        BY <3>3
      <4>3. QED
        BY <3>2, <4>1, <4>2 DEF Done, Here
    <3>5. QED
      BY <1>5, <2>3, <3>1, <3>2, <3>3, <3>4 DEF Goes
  <2>4. QED
    BY <2>1, <2>2, <2>3
<1>6. QED
  BY <1>2, <1>3, <1>4, <1>5 DEF Next

-----------------------------------------------------------------------------
(* What a request that goes on does, by the name of its step *)
LEMMA GoesBy ==
    ASSUME NEW r, Goes(r)
    PROVE  /\ ~Takes(input[r], Here(r)) => PassStep(r)
           /\ Takes(input[r], Here(r)) =>
                /\ Here(r)[1] \in {"ask", "askHome", "askNobody"} => AskStep(r)
                /\ Here(r)[1] = "escalate" => EscalateStep(r)
                /\ Here(r)[1] = "find" => FindStep(r)
                /\ Here(r)[1] = "join" => JoinStep(r)
                /\ Here(r)[1] = "validate" => ValidateStep(r)
                /\ Here(r)[1] \in {"free", "freeHome"} => FreeStep(r)
                /\ Here(r)[1] = "member" => MemberStep(r)
                /\ Here(r)[1] = "roles" => RolesStep(r)
                /\ Here(r)[1] = "insert" => InsertStep(r)
                /\ Here(r)[1] = "update" => UpdateStep(r)
                /\ Here(r)[1] = "remove" => RemoveStep(r)
                /\ Here(r)[1] = "unlink" => UnlinkStep(r)
                /\ Here(r)[1] = "relink" => RelinkStep(r)
                /\ Here(r)[1] = "list" => ListStep(r)
                /\ Here(r)[1] = "count" => CountStep(r)
           /\ \/ ~Takes(input[r], Here(r))
              \/ Here(r)[1] \in {"ask", "askHome", "askNobody", "escalate", "find", "join",
                                 "validate", "free", "freeHome", "member", "roles", "insert",
                                 "update", "remove", "unlink", "relink", "list", "count"}
BY DEF Goes, Step, At, PassStep, AskStep, EscalateStep, FindStep, JoinStep, ValidateStep,
       FreeStep, MemberStep, RolesStep, InsertStep, UpdateStep, RemoveStep, UnlinkStep,
       RelinkStep, ListStep, CountStep

(* Only some steps are ever passed by *)
LEMMA Taken ==
    ASSUME NEW i, NEW s, s[1] \notin {"unlink", "relink", "free", "freeHome"} PROVE Takes(i, s)
BY DEF Takes

(* A step that does not write *)
LEMMA GoesQuietly ==
    ASSUME NEW r, Goes(r), Here(r)[1] \notin Writes \/ ~Takes(input[r], Here(r))
    PROVE  UNCHANGED <<rows, links, past>>
BY GoesBy DEF Goes, Writes, PassStep, AskStep, EscalateStep, FindStep, JoinStep, ValidateStep,
       FreeStep, MemberStep, RolesStep, ListStep, CountStep, Refused, Outcomes

(* A step that does not ask leaves the scope as it is, and one that asks sets it *)
LEMMA GoesScope ==
    ASSUME TypeOK, NEW r \in Requests, Goes(r)
    PROVE  IF Here(r)[1] \in {"ask", "askHome", "askNobody"}
           THEN /\ MayAsk(input[r])
                /\ scope'[r] = IF kind \notin Unscoped THEN Asked(input[r])
                               ELSE IF Here(r)[1] = "askHome" THEN input[r].home ELSE Anywhere
           ELSE scope' = scope
<1>1. CASE Here(r)[1] \in {"ask", "askHome", "askNobody"}
  <2>1. AskStep(r) /\ ~Refuse(r, "forbidden")
    BY <1>1, GoesBy, Taken DEF Goes, Refused, Outcomes
  <2>2. QED
    BY <1>1, <2>1 DEF AskStep, TypeOK, At
<1>2. CASE Here(r)[1] \notin {"ask", "askHome", "askNobody"}
  BY <1>2, GoesBy DEF Goes, Writes, PassStep, EscalateStep, FindStep, JoinStep, ValidateStep,
       FreeStep, MemberStep, RolesStep, ListStep, CountStep, Refused, Outcomes, InsertStep,
       UpdateStep, RemoveStep, UnlinkStep, RelinkStep
<1>3. QED
  BY <1>1, <1>2

NewRow(r) == [in |-> {scope[r]} \cap Workspaces,
              cols |-> [f \in Cols(kind) |-> IF f \in Written(r) THEN input[r].text ELSE Unset]]
Renewed(r) == [in |-> rows[Subject(r)].in,
               cols |-> [f \in Cols(kind) |-> IF f \in Written(r) THEN input[r].text
                                              ELSE rows[Subject(r)].cols[f]]]

LEMMA GoesInsert ==
    ASSUME TypeOK, HistoryOK, NEW r \in Requests, Goes(r), Here(r)[1] = "insert"
    PROVE  /\ r \notin DOMAIN rows /\ ~Clashes(r, NewRow(r)) /\ Subject(r) = r
           /\ input[r].op = "create"
           /\ rows' = [id \in DOMAIN rows \cup {r} |-> IF id = r THEN NewRow(r) ELSE rows[id]]
           /\ links' = [id \in DOMAIN rows \cup {r} |->
                            IF id = r THEN [j \in Joins[kind] |-> {}] ELSE links[id]]
           /\ shown'[r] = Shown(NewRow(r)) /\ joined' = joined
           /\ past'[r] = [past[r] EXCEPT !.touched = TRUE]
<1>1. InsertStep(r) /\ ~Refuse(r, "conflict") /\ ~Refuse(r, "invalid")
  BY GoesBy, Taken DEF Goes, Refused, Outcomes
<1>2. Subject(r) = r /\ input[r].op = "create"
  BY AtShape, InputTypes DEF Goes, Shaped, Named
<1>3. shown = [q \in Requests |-> shown[q]] /\ DOMAIN links = DOMAIN rows
  BY DEF HistoryOK, TypeOK
<1>4. QED
  BY <1>1, <1>2, <1>3 DEF InsertStep, NewRow, WroteRow, Wrote

LEMMA GoesUpdate ==
    ASSUME TypeOK, HistoryOK, NEW r \in Requests, Goes(r), Here(r)[1] = "update"
    PROVE  /\ Subject(r) \in Visible(scope[r]) /\ Subject(r) \in DOMAIN rows
           /\ ~Clashes(Subject(r), Renewed(r))
           /\ input[r].op = "update" /\ Written(r) \subseteq Cols(kind)
           /\ kind = "policy" => Written(r) # {}
           /\ rows' = [rows EXCEPT ![Subject(r)] = Renewed(r)] /\ links' = links
           /\ shown'[r] = Shown(Renewed(r)) /\ joined' = joined
           /\ past'[r] = [past[r] EXCEPT !.touched = TRUE]
<1>1. UpdateStep(r) /\ ~Refuse(r, "conflict") /\ ~Refuse(r, "invalid")
      /\ ~Refuse(r, "broken") /\ ~Refuse(r, "notFound")
  BY GoesBy, Taken DEF Goes, Refused, Outcomes
<1>2. input[r].op = "update"
  BY AtShape DEF Goes, Shaped, Named
<1>3. shown = [q \in Requests |-> shown[q]]
  BY DEF HistoryOK
<1>4. QED
  BY <1>1, <1>2, <1>3 DEF UpdateStep, Renewed, WroteRow, Wrote, Visible

LEMMA GoesRemove ==
    ASSUME TypeOK, HistoryOK, NEW r \in Requests, Goes(r), Here(r)[1] = "remove"
    PROVE  /\ input[r].op = "delete" /\ pc'[r] = "answered"
           /\ rows' = [id \in DOMAIN rows \ {Subject(r)} |-> rows[id]]
           /\ links' = [id \in DOMAIN rows \ {Subject(r)} |-> links[id]]
           /\ past'[r] = [past[r] EXCEPT !.touched = TRUE]
<1>1. RemoveStep(r) /\ ~Refuse(r, "inUse") /\ ~Refuse(r, "notFound")
  BY GoesBy, Taken DEF Goes, Refused, Outcomes
<1>2. input[r].op = "delete" /\ step[r] = Len(Route(r)) /\ DOMAIN links = DOMAIN rows
  <2>1. /\ step[r] \in 1..Len(Route(r)) /\ Here(r) = Route(r)[step[r]]
        /\ Named(kind, input[r].op, Route(r))
    BY AtShape DEF Goes, Shaped
  <2>2. QED
    BY <2>1 DEF Named, TypeOK
<1>3. QED
  BY <1>1, <1>2 DEF RemoveStep, WroteRow, Wrote, Proceed, Advance, TypeOK

LEMMA GoesUnlink ==
    ASSUME TypeOK, HistoryOK, NEW r \in Requests, Goes(r), Here(r)[1] = "unlink",
           Takes(input[r], Here(r))
    PROVE  /\ Arg(r) \in Joins[kind] /\ UNCHANGED <<rows, joined, shown>>
           /\ links' = IF Subject(r) \in DOMAIN rows
                       THEN [links EXCEPT ![Subject(r)][Arg(r)] = {}] ELSE links
           /\ past'[r] = [past[r] EXCEPT !.touched = @ \/ Subject(r) \in DOMAIN rows,
                                         !.open = @ \cup {Arg(r)}]
           /\ Wrote(r, {Arg(r)}, past'[r])
<1>1. UnlinkStep(r) /\ DOMAIN links = DOMAIN rows
  BY GoesBy DEF TypeOK
<1>2. Arg(r) \in Joins[kind]
  BY AtShape DEF Goes, Shaped, Named, Arg
<1>3. QED
  BY <1>1, <1>2 DEF UnlinkStep, Wrote, seen

LEMMA GoesRelink ==
    ASSUME TypeOK, HistoryOK, NEW r \in Requests, Goes(r), Here(r)[1] = "relink",
           Takes(input[r], Here(r))
    PROVE  /\ Arg(r) \in Joins[kind] /\ UNCHANGED <<rows, joined, shown>>
           /\ Subject(r) \in DOMAIN rows
           /\ links' = [links EXCEPT ![Subject(r)][Arg(r)] =
                            links[Subject(r)][Arg(r)] \cup input[r].list]
           /\ past'[r] = [past[r] EXCEPT !.open = @ \ {Arg(r)}, !.filled = @ \cup {Arg(r)}]
           /\ Wrote(r, {}, past'[r])
<1>1. RelinkStep(r) /\ ~Refuse(r, "conflict") /\ DOMAIN links = DOMAIN rows
  BY GoesBy DEF TypeOK, Goes, Refused, Outcomes
<1>2. Arg(r) \in Joins[kind]
  BY AtShape DEF Goes, Shaped, Named, Arg
<1>3. QED
  BY <1>1, <1>2 DEF RelinkStep, Wrote, seen

-----------------------------------------------------------------------------
(* What a request knows and has left, by the steps that it has behind it: the workspace *)
(* it works in; whether its row is there; what its history says of it                   *)
WorkScope(r) == IF kind \in Unscoped THEN Anywhere ELSE Asked(input[r])
InScope(r) ==
    /\ Passed(r, "ask") => scope[r] = WorkScope(r) /\ MayAsk(input[r])
    /\ \A w \in Writes : Passed(r, w) => Passed(r, "ask")
Born(r) ==
    r \in DOMAIN rows => pc[r] # "idle" /\ input[r].op = "create" /\ Passed(r, "insert")
Recorded(r) ==
    /\ past[r].touched => \E w \in Writes : Passed(r, w)
    /\ Passed(r, "insert") \/ Passed(r, "update") => past[r].touched
    /\ past[r].open \cup past[r].filled # {} => Passed(r, "unlink")
    /\ pc[r] = "running" /\ past[r].after => past[r].raced
There(r) ==
    pc[r] = "running" /\ ~past[r].raced =>
        /\ Passed(r, "insert") \/ Passed(r, "update") => Subject(r) \in Visible(scope[r])
        /\ Passed(r, "join") => Subject(r) \in DOMAIN rows
Knows(r) == InScope(r) /\ Born(r) /\ Recorded(r) /\ There(r)
KnowsAll == \A r \in Requests : Knows(r)

LEMMA InitKnows == Init => KnowsAll
<1> SUFFICES ASSUME Init, NEW r \in Requests PROVE Knows(r)
  BY DEF KnowsAll
<1>1. Done(r) = {}
  BY DEF Init, Done
<1>2. r \notin DOMAIN rows
  BY NamesAssumption DEF Init
<1>3. QED
  BY <1>1, <1>2 DEF Init, Knows, InScope, Born, Recorded, There, Passed, Untouched

LEMMA PassedNext ==
    ASSUME NEW r, NEW name, Goes(r)
    PROVE  Passed(r, name)' <=> Passed(r, name) \/ Here(r)[1] = name
BY DEF Goes, Passed

(* What the route of a request says of the steps before the one that it is at *)
LEMMA Before ==
    ASSUME TypeOK, HistoryOK, NEW r \in Requests, pc[r] = "running"
    PROVE  /\ Here(r)[1] \in {"insert", "update", "remove", "free", "unlink"} \/ Here(r) = Find
                => Passed(r, "ask")
           /\ Here(r)[1] \in {"askHome", "askNobody"} => ~Passed(r, "ask")
           /\ Here(r)[1] \in {"ask", "askHome", "askNobody"} => ~Passed(r, "list")
           /\ Here(r)[1] = "count" => Passed(r, "list")
           /\ Here(r)[1] = "relink" =>
                /\ <<"unlink", Arg(r)>> \in Done(r)
                /\ Passed(r, "insert") \/ Passed(r, "update") \/ Passed(r, "join")
           /\ Here(r)[1] = "roles" => Join("roles") \in Done(r) \/ input[r].op = "list"
           /\ kind = "project" =>
                /\ Here(r)[1] = "insert" => Free("code") \in Done(r)
                /\ Here(r)[1] = "update" => FreeHome("code") \in Done(r) /\ FindHome \in Done(r)
<1> DEFINE s == Route(r)  n == step[r]
<1>1. n \in 1..Len(s) /\ Here(r) = s[n] /\ Scoped(s) /\ Ordered(kind, input[r].op, s)
      /\ Checked(kind, s)
  BY AtShape DEF Shaped
<1>2. Len(s) \in Nat
  BY AtShape DEF Shaped
<1>3. \A m \in 1..(n - 1) : m \in 1..Len(s) /\ s[m] \in Done(r)
  BY <1>1, <1>2 DEF Done
<1> HIDE DEF s, n
<1>4. Done(r) = {s[m] : m \in 1..(n - 1)}
  BY DEF Done, s, n
<1>5. /\ Here(r)[1] \in {"insert", "update", "remove", "free", "unlink"} \/ Here(r) = Find
                => Passed(r, "ask")
      /\ Here(r)[1] \in {"askHome", "askNobody"} => ~Passed(r, "ask")
      /\ Here(r)[1] \in {"ask", "askHome", "askNobody"} => ~Passed(r, "list")
  BY <1>1, <1>3, <1>4 DEF Scoped, Passed
<1>6. Here(r)[1] = "relink" =>
                /\ <<"unlink", Arg(r)>> \in Done(r)
                /\ Passed(r, "insert") \/ Passed(r, "update") \/ Passed(r, "join")
  <2> SUFFICES ASSUME Here(r)[1] = "relink"
               PROVE  /\ <<"unlink", Arg(r)>> \in Done(r)
                      /\ Passed(r, "insert") \/ Passed(r, "update") \/ Passed(r, "join")
    OBVIOUS
  <2>1. n > 1 /\ s[n - 1] = <<"unlink", s[n][2]>>
        /\ \E m \in 1..(n - 1) : s[m][1] \in {"insert", "update", "join"}
    BY <1>1 DEF Ordered
  <2>2. n - 1 \in 1..(n - 1)
    BY <1>1, <1>2, <2>1
  <2>3. QED
    BY <1>1, <1>3, <2>1, <2>2 DEF Arg, Passed
<1>7. n > 1 => n - 1 \in 1..(n - 1)
  BY <1>1, <1>2
<1>8. Here(r)[1] = "roles" => Join("roles") \in Done(r) \/ input[r].op = "list"
  <2>1. Here(r)[1] = "roles" => n > 1 /\ (s[n - 1] = Join("roles") \/ input[r].op = "list")
    BY <1>1 DEF Ordered
  <2>2. QED
    BY <1>3, <1>7, <2>1
<1>9. Here(r)[1] = "count" => Passed(r, "list")
  <2>1. Here(r)[1] = "count" => n > 1 /\ s[n - 1] = List
    BY <1>1 DEF Ordered
  <2>2. QED
    BY <1>3, <1>7, <2>1 DEF Passed, List
<1>10. kind = "project" =>
            /\ Here(r)[1] = "insert" => Free("code") \in Done(r)
            /\ Here(r)[1] = "update" => FreeHome("code") \in Done(r) /\ FindHome \in Done(r)
  BY <1>1, <1>3 DEF Checked
<1>11. QED
  BY <1>5, <1>6, <1>8, <1>9, <1>10

(* And of those after a write, and after a list was filled *)
LEMMA AfterWrites ==
    ASSUME TypeOK, HistoryOK, NEW r \in Requests, pc[r] = "running"
    PROVE  /\ \A w \in Writes : Passed(r, w) =>
                /\ Here(r)[1] \notin {"validate", "free", "freeHome", "member", "list", "insert",
                                      "remove", "askHome", "askNobody"}
                /\ Here(r)[1] = "ask" => Arg(r) = "describe"
                /\ Here(r)[1] = "find" => Here(r) = Find
                /\ Here(r)[1] = "update" => kind = "membership"
                /\ Here(r)[1] = "join" =>
                        Passed(r, "insert") \/ Passed(r, "update") \/ Passed(r, "join")
                /\ Here(r)[1] = "roles" => Passed(r, "insert") \/ Passed(r, "roles")
           /\ \A t \in Done(r) : t[1] = "relink" =>
                ~(Here(r)[1] \in {"unlink", "relink"} /\ Arg(r) = t[2])
<1> DEFINE s == Route(r)  n == step[r]
<1>1. n \in 1..Len(s) /\ Here(r) = s[n] /\ Ordered(kind, input[r].op, s)
  BY AtShape DEF Shaped
<1>2. Len(s) \in Nat
  BY AtShape DEF Shaped
<1>3. \A m \in 1..(n - 1) : m \in 1..Len(s) /\ s[m] \in Done(r)
  BY <1>1, <1>2 DEF Done
<1> HIDE DEF s, n
<1>4. Done(r) = {s[m] : m \in 1..(n - 1)}
  BY DEF Done, s, n
<1>5. ASSUME NEW m \in 1..(n - 1), s[m][1] \in Writes
      PROVE  /\ Here(r)[1] \notin {"validate", "free", "freeHome", "member", "list", "insert",
                                   "remove", "askHome", "askNobody"}
             /\ Here(r)[1] = "ask" => Arg(r) = "describe"
             /\ Here(r)[1] = "find" => Here(r) = Find
             /\ Here(r)[1] = "update" => kind = "membership"
             /\ Here(r)[1] = "join" => Passed(r, "insert") \/ Passed(r, "update") \/ Passed(r, "join")
             /\ Here(r)[1] = "roles" => Passed(r, "insert") \/ Passed(r, "roles")
  <2>1. /\ Here(r)[1] \notin {"validate", "free", "freeHome", "member", "list", "insert",
                                   "remove", "askHome", "askNobody"}
        /\ Here(r)[1] = "ask" => Arg(r) = "describe"
        /\ Here(r)[1] = "find" => Here(r) = Find
        /\ Here(r)[1] = "update" => kind = "membership"
    BY <1>1, <1>5 DEF Ordered, Arg
  <2>2. Here(r)[1] = "join" => \E l \in 1..(n - 1) : s[l][1] \in {"insert", "update", "join"}
    BY <1>1, <1>5 DEF Ordered
  <2>3. Here(r)[1] = "roles" => \E l \in 1..(n - 1) : s[l][1] \in {"insert", "roles"}
    BY <1>1, <1>5 DEF Ordered
  <2>4. QED
    BY <1>3, <2>1, <2>2, <2>3 DEF Passed
<1>6. ASSUME NEW m \in 1..(n - 1), s[m][1] = "relink"
      PROVE  ~(Here(r)[1] \in {"unlink", "relink"} /\ Arg(r) = s[m][2])
  BY <1>1, <1>6 DEF Ordered, Arg
<1>7. ASSUME NEW w \in Writes, Passed(r, w) PROVE \E m \in 1..(n - 1) : s[m][1] \in Writes
  BY <1>4, <1>7 DEF Passed
<1>8. QED
  BY <1>4, <1>5, <1>6, <1>7

(* The writes that a request can have behind it *)
LEMMA Behind ==
    ASSUME TypeOK, HistoryOK, NEW r \in Requests, pc[r] = "running"
    PROVE  /\ ~Passed(r, "remove")
           /\ Passed(r, "insert") => input[r].op = "create"
           /\ Passed(r, "update") => input[r].op = "update"
           /\ Passed(r, "unlink") \/ Passed(r, "relink") =>
                input[r].op \in {"create", "update"} /\ kind \in {"role", "membership"}
<1> DEFINE s == Route(r)  n == step[r]
<1>1. n \in 1..Len(s) /\ Named(kind, input[r].op, s) /\ Len(s) \in Nat
  BY AtShape DEF Shaped
<1> HIDE DEF s, n
<1>2. \A m \in 1..(n - 1) : m \in 1..Len(s) /\ m # Len(s)
  BY <1>1
<1>3. Done(r) = {s[m] : m \in 1..(n - 1)}
  BY DEF Done, s, n
<1>4. QED
  BY <1>1, <1>2, <1>3 DEF Named, Passed

(* What the step that a request comes to says of the one it took *)
LEMMA Onward ==
    ASSUME TypeOK, HistoryOK, HistoryOK', NEW r \in Requests, Goes(r), pc'[r] = "running"
    PROVE  /\ Here(r)'[1] = "relink" => Here(r) = <<"unlink", Arg(r)'>>
           /\ Here(r)'[1] = "roles" => Here(r) = Join("roles") \/ input[r].op = "list"
<1>1. step'[r] = step[r] + 1 /\ Route(r)' = Route(r) /\ step[r] \in Nat
  BY DEF Goes, Advance, Same, TypeOK
<1>2. Shaped(kind, input[r].op, Route(r)) /\ Here(r) = Route(r)[step[r]]
  BY AtShape DEF Goes
<1>3. step[r] + 1 \in 1..Len(Route(r))
  BY <1>1, <1>2 DEF HistoryOK, OnRoute, Shaped
<1>4. step[r] + 1 - 1 = step[r]
  BY <1>1
<1> DEFINE s == Route(r)  n == step[r] + 1
<1>5. Ordered(kind, input[r].op, s) /\ n \in 1..Len(s) /\ s[n - 1] = Here(r)
      /\ Here(r)' = s[n]
  BY <1>1, <1>2, <1>3, <1>4 DEF Shaped, Here
<1>6. Arg(r)' = s[n][2]
  BY <1>5 DEF Arg
<1> HIDE DEF s, n
<1>7. QED
  BY <1>5, <1>6, ZenonT(40) DEF Ordered

(* Each way in which a step concerns a request leaves it knowing *)
LEMMA SpareKnows ==
    ASSUME TypeOK, HistoryOK, NEW r \in Requests, Spared(r), Knows(r)
    PROVE  Knows(r)'
<1>1. \A name : Passed(r, name)' = Passed(r, name)
  BY DEF Spared, Passed
<1>2. WorkScope(r)' = WorkScope(r)
  BY DEF WorkScope, Spared, Same
<1>3. InScope(r)'
  BY <1>1, <1>2 DEF Knows, InScope, Spared, Same
<1>4. Born(r)'
  BY <1>1 DEF Knows, Born, Spared, Same
<1>5. Recorded(r)'
  BY <1>1 DEF Knows, Recorded, Spared
<1>6. There(r)'
  BY <1>1 DEF Knows, There, Spared, Same, Visible
<1>7. QED
  BY <1>3, <1>4, <1>5, <1>6 DEF Knows

LEMMA BeginKnows ==
    ASSUME NEW r \in Requests, Begins(r), Knows(r)
    PROVE  Knows(r)'
<1>1. \A name : ~Passed(r, name)'
  BY DEF Begins, Passed
<1>2. r \notin DOMAIN rows'
  BY DEF Begins, Knows, Born
<1>3. QED
  BY <1>1, <1>2 DEF Begins, Knows, InScope, Born, Recorded, There

LEMMA HaltKnows ==
    ASSUME NEW r \in Requests, Halts(r), Knows(r)
    PROVE  Knows(r)'
<1>1. \A name : Passed(r, name)' = Passed(r, name)
  BY DEF Halts, Passed
<1>2. QED
  BY <1>1 DEF Halts, Knows, InScope, WorkScope, Born, Recorded, There, Same, Visible

LEMMA GoKnows ==
    ASSUME TypeOK, HistoryOK, NEW r \in Requests, Goes(r), Knows(r)
    PROVE  Knows(r)'
<1>1. \A name : Passed(r, name)' <=> Passed(r, name) \/ Here(r)[1] = name
  BY PassedNext
<1>2. pc[r] = "running" /\ Same(r) /\ WorkScope(r)' = WorkScope(r)
  BY DEF Goes, Same, WorkScope
<1>3. past[r] \in Past /\ Subject(r) \in Ids /\ Asked(input[r]) \in Workspaces
  BY InputTypes
<1>4. InScope(r)'
  <2>1. ASSUME NEW w \in Writes, Passed(r, w)' PROVE Passed(r, "ask")'
    <3>1. Here(r)[1] = "relink" => Passed(r, "unlink")
      BY <1>2, Before DEF Passed
    <3>2. QED
      BY <1>1, <1>2, <2>1, <3>1, Before DEF Knows, InScope, Writes
  <2>2. Passed(r, "ask")' => scope'[r] = WorkScope(r)' /\ MayAsk(input[r])'
    <3>1. CASE Here(r)[1] \in {"ask", "askHome", "askNobody"}
      BY <1>1, <1>2, <3>1, GoesScope, Before DEF Knows, InScope, WorkScope, Same
    <3>2. CASE Here(r)[1] \notin {"ask", "askHome", "askNobody"}
      <4>1. scope' = scope /\ (Passed(r, "ask")' <=> Passed(r, "ask"))
        BY <1>1, <3>2, GoesScope
      <4>2. QED
        BY <1>2, <4>1 DEF Knows, InScope, Same
    <3>3. QED
      BY <3>1, <3>2
  <2>3. QED
    BY <2>1, <2>2 DEF InScope
<1>5. CASE Here(r)[1] \notin Writes \/ ~Takes(input[r], Here(r))
  <2>1. UNCHANGED <<rows, links, past>> /\ (Here(r)[1] \notin {"insert", "update", "remove"})
    BY <1>5, GoesQuietly, Taken DEF Writes
  <2>2. Born(r)'
    BY <1>1, <1>2, <2>1 DEF Knows, Born, Same, Goes
  <2>3. Recorded(r)'
    BY <1>1, <1>2, <2>1 DEF Knows, Recorded, Goes
  <2>4. There(r)'
    <3>1. ASSUME Passed(r, "insert") \/ Passed(r, "update"), ~past[r].raced
          PROVE  Subject(r)' \in Visible(scope[r])'
      <4>1. Subject(r) \in Visible(scope[r])
        BY <1>2, <3>1 DEF Knows, There
      <4>2. scope'[r] = scope[r]
        BY <1>1, <1>2, <1>4, <3>1 DEF Knows, InScope, Writes
      <4>3. QED
        BY <1>2, <2>1, <4>1, <4>2 DEF Visible, Same
    <3>2. ASSUME Passed(r, "join")', ~past[r].raced PROVE Subject(r) \in DOMAIN rows
      <4>1. CASE Here(r)[1] = "join"
        <5>1. JoinStep(r) /\ ~Refuse(r, "notFound")
          BY <4>1, GoesBy, Taken DEF Goes, Refused, Outcomes
        <5>2. QED
          BY <5>1 DEF JoinStep
      <4>2. CASE Here(r)[1] # "join"
        BY <1>1, <1>2, <3>2, <4>2 DEF Knows, There
      <4>3. QED
        BY <4>1, <4>2
    <3>3. QED
      BY <1>1, <1>2, <2>1, <3>1, <3>2 DEF There, Same
  <2>5. QED
    BY <1>4, <2>2, <2>3, <2>4 DEF Knows
<1>6. CASE Here(r)[1] = "insert"
  <2>1. /\ DOMAIN rows' = DOMAIN rows \cup {r} /\ rows'[r] = NewRow(r)
        /\ past'[r] = [past[r] EXCEPT !.touched = TRUE]
        /\ Subject(r) = r /\ input[r].op = "create"
    BY <1>6, GoesInsert
  <2>2. past'[r].touched /\ past'[r].open = past[r].open /\ past'[r].filled = past[r].filled
        /\ past'[r].raced = past[r].raced /\ past'[r].after = past[r].after
    BY <1>3, <2>1 DEF Past
  <2>3. Born(r)'
    BY <1>1, <1>2, <1>6, <2>1 DEF Born, Same, Goes
  <2>4. Recorded(r)'
    BY <1>1, <1>2, <1>6, <2>2 DEF Knows, Recorded, Writes
  <2>5. scope'[r] = scope[r] /\ scope[r] = WorkScope(r)
    BY <1>2, <1>6, GoesScope, Before DEF Knows, InScope
  <2>6. r \in Visible(scope[r])'
    BY <1>3, <2>1, <2>5 DEF Visible, NewRow, WorkScope
  <2>7. QED
    BY <1>2, <1>4, <2>1, <2>3, <2>4, <2>6 DEF Knows, There, Same
<1>7. CASE Here(r)[1] = "update"
  <2>1. /\ rows' = [rows EXCEPT ![Subject(r)] = Renewed(r)]
        /\ past'[r] = [past[r] EXCEPT !.touched = TRUE]
        /\ Subject(r) \in Visible(scope[r]) /\ Subject(r) \in DOMAIN rows
    BY <1>7, GoesUpdate
  <2>2. past'[r].touched /\ past'[r].open = past[r].open /\ past'[r].filled = past[r].filled
        /\ past'[r].raced = past[r].raced /\ past'[r].after = past[r].after
    BY <1>3, <2>1 DEF Past
  <2>3. Born(r)'
    BY <1>1, <1>2, <1>7, <2>1 DEF Knows, Born, Same, Goes
  <2>4. Recorded(r)'
    BY <1>1, <1>2, <1>7, <2>2 DEF Knows, Recorded, Writes
  <2>5. scope'[r] = scope[r]
    BY <1>7, GoesScope
  <2>6. DOMAIN rows' = DOMAIN rows /\ rows'[Subject(r)].in = rows[Subject(r)].in
    <3>1. rows = [id \in DOMAIN rows |-> rows[id]]
      BY DEF TypeOK
    <3>2. Renewed(r).in = rows[Subject(r)].in
      BY DEF Renewed
    <3>3. QED
      BY <2>1, <3>1, <3>2
  <2>7. Subject(r)' \in Visible(scope[r])' /\ Subject(r)' \in DOMAIN rows'
    BY <1>2, <2>1, <2>5, <2>6 DEF Visible, Same
  <2>8. QED
    BY <1>4, <2>3, <2>4, <2>7 DEF Knows, There
<1>8. CASE Here(r)[1] = "remove"
  <2>1. /\ pc'[r] = "answered" /\ DOMAIN rows' \subseteq DOMAIN rows
        /\ past'[r] = [past[r] EXCEPT !.touched = TRUE]
    <3>1. rows' = [id \in DOMAIN rows \ {Subject(r)} |-> rows[id]]
      BY <1>8, GoesRemove
    <3>2. DOMAIN rows' = DOMAIN rows \ {Subject(r)}
      BY <3>1
    <3>3. QED
      BY <1>8, <3>2, GoesRemove
  <2>2. past'[r].touched /\ past'[r].open = past[r].open /\ past'[r].filled = past[r].filled
        /\ past'[r].raced = past[r].raced /\ past'[r].after = past[r].after
    BY <1>3, <2>1 DEF Past
  <2>3. Born(r)'
    BY <1>1, <1>2, <1>8, <2>1 DEF Knows, Born, Same, Goes
  <2>4. Recorded(r)'
    BY <1>1, <1>2, <1>8, <2>1, <2>2 DEF Knows, Recorded, Writes
  <2>5. QED
    BY <1>4, <2>1, <2>3, <2>4 DEF Knows, There
<1>9. CASE Here(r)[1] \in {"unlink", "relink"} /\ Takes(input[r], Here(r))
  <2>1. /\ rows' = rows /\ past'[r].raced = past[r].raced /\ past'[r].after = past[r].after
        /\ past[r].touched => past'[r].touched
    BY <1>3, <1>9, GoesUnlink, GoesRelink, ZenonT(40) DEF Past
  <2>2. scope'[r] = scope[r] /\ pc'[r] # "idle"
    BY <1>9, GoesScope DEF Goes
  <2>3. Passed(r, "unlink")'
    BY <1>1, <1>2, <1>9, Before DEF Passed
  <2>4. \A name \in {"insert", "update", "join", "ask"} : Passed(r, name)' <=> Passed(r, name)
    BY <1>1, <1>9
  <2>5. Born(r)'
    BY <1>2, <2>1, <2>2, <2>4 DEF Knows, Born, Same
  <2>6. Recorded(r)'
    BY <1>2, <2>1, <2>3, <2>4 DEF Knows, Recorded, Writes
  <2>7. There(r)'
    BY <1>2, <2>1, <2>2, <2>4 DEF Knows, There, Same, Visible
  <2>8. QED
    BY <1>4, <2>5, <2>6, <2>7 DEF Knows
<1>10. QED
  BY <1>5, <1>6, <1>7, <1>8, <1>9 DEF Writes

LEMMA NextKnows == TypeOK /\ HistoryOK /\ KnowsAll /\ [Next]_vars => KnowsAll'
BY Moves, SpareKnows, BeginKnows, HaltKnows, GoKnows DEF KnowsAll

-----------------------------------------------------------------------------
(* No two rows have the same value in a column with a unique index *)
Alone(id) == ~Clashes(id, rows[id])
Distinct == \A id \in DOMAIN rows : Alone(id)

LEMMA InitDistinct == Init => Distinct
<1> SUFFICES ASSUME Init, NEW id \in DOMAIN rows, Clashes(id, rows[id]) PROVE FALSE
  BY DEF Distinct, Alone
<1>1. Unique[kind] \subseteq Cols(kind)
  BY KindsAssumption, LayersConvey DEF Init, Conveyed
<1>2. PICK f \in Unique[kind], other \in DOMAIN rows \ {id} : rows[id].cols[f] = rows[other].cols[f]
  BY DEF Clashes
<1>3. QED
  BY <1>1, <1>2 DEF Init

(* What a step does to the table, the links and the histories is what one request does *)
(* that goes on and takes its step                                                     *)
LEMMA WhoChanges ==
    ASSUME TypeOK, HistoryOK, [Next]_vars
    PROVE  \/ UNCHANGED <<kind, rows, links, past>>
           \/ \E q \in Requests : Step(q) /\ Goes(q) /\ Here(q)[1] \in Writes /\ Takes(input[q], Here(q))
<1>1. CASE UNCHANGED vars
  BY <1>1 DEF vars
<1>2. ASSUME NEW q \in Requests, Start(q) \/ Drop(q) PROVE UNCHANGED <<kind, rows, links, past>>
  BY <1>2 DEF Start, Drop
<1>3. ASSUME NEW q \in Requests, Step(q)
      PROVE  \/ UNCHANGED <<kind, rows, links, past>>
             \/ Goes(q) /\ Here(q)[1] \in Writes /\ Takes(input[q], Here(q))
  <2>1. CASE Refused(q)
    BY <2>1 DEF Refused, Refuse
  <2>2. CASE ~Refused(q)
    <3>1. Spared(q) \/ Begins(q) \/ Halts(q) \/ Goes(q)
      BY <1>3, Moves
    <3>2. Advance(q) /\ pc[q] = "running"
      BY <1>3, <2>2, StepApart
    <3>3. pc'[q] \in {"running", "answered"} /\ step'[q] = step[q] + 1 /\ step[q] \in Nat
      BY <3>2 DEF Advance, TypeOK
    <3>4. Goes(q)
      BY <3>1, <3>2, <3>3 DEF Spared, Begins, Halts
    <3>5. QED
      BY <3>4, GoesQuietly DEF Goes, Same
  <2>3. QED
    BY <2>1, <2>2
<1>4. QED
  BY <1>1, <1>2, <1>3 DEF Next

LEMMA WhoWrites ==
    ASSUME TypeOK, HistoryOK, [Next]_vars
    PROVE  \/ UNCHANGED <<kind, rows>>
           \/ \E q \in Requests : Goes(q) /\ Here(q)[1] \in {"insert", "update", "remove"}
BY WhoChanges, GoesUnlink, GoesRelink DEF Writes, Goes, Same

LEMMA NextDistinct == TypeOK /\ HistoryOK /\ Distinct /\ [Next]_vars => Distinct'
<1> SUFFICES ASSUME TypeOK, HistoryOK, Distinct, [Next]_vars PROVE Distinct'
  OBVIOUS
<1>1. CASE UNCHANGED <<kind, rows>>
  BY <1>1 DEF Distinct, Alone, Clashes
<1>2. ASSUME NEW q \in Requests, Goes(q), Here(q)[1] = "insert" PROVE Distinct'
  <2>1. /\ ~Clashes(q, NewRow(q)) /\ q \notin DOMAIN rows /\ kind' = kind
        /\ rows' = [id \in DOMAIN rows \cup {q} |-> IF id = q THEN NewRow(q) ELSE rows[id]]
    BY <1>2, GoesInsert DEF Goes, Same
  <2>2. /\ rows'[q] = NewRow(q)
        /\ \A id \in DOMAIN rows : rows'[id] = rows[id]
        /\ DOMAIN rows' = DOMAIN rows \cup {q}
    BY <2>1
  <2>3. Alone(q)'
    BY <2>1, <2>2 DEF Clashes, Alone
  <2>4. ASSUME NEW id \in DOMAIN rows PROVE Alone(id)'
    BY <2>1, <2>2, ZenonT(40) DEF Clashes, Distinct, Alone
  <2>5. QED
    <3>1. \A id \in DOMAIN rows' : Alone(id)'
      BY <2>2, <2>3, <2>4
    <3>2. QED
      BY <3>1 DEF Distinct
<1>3. ASSUME NEW q \in Requests, Goes(q), Here(q)[1] = "update" PROVE Distinct'
  <2>1. PICK it \in DOMAIN rows : /\ ~Clashes(it, Renewed(q)) /\ kind' = kind
                                  /\ rows' = [rows EXCEPT ![it] = Renewed(q)]
    BY <1>3, GoesUpdate DEF Goes, Same
  <2>2. /\ rows'[it] = Renewed(q)
        /\ \A id \in DOMAIN rows \ {it} : rows'[id] = rows[id]
        /\ DOMAIN rows' = DOMAIN rows
    BY <2>1 DEF TypeOK
  <2>3. Alone(it)'
    BY <2>1, <2>2 DEF Clashes, Alone
  <2>4. ASSUME NEW id \in DOMAIN rows \ {it} PROVE Alone(id)'
    BY <2>1, <2>2 DEF Clashes, Distinct, Alone
  <2>5. QED
    <3>1. \A id \in DOMAIN rows' : Alone(id)'
      BY <2>2, <2>3, <2>4
    <3>2. QED
      BY <3>1 DEF Distinct
<1>4. ASSUME NEW q \in Requests, Goes(q), Here(q)[1] = "remove" PROVE Distinct'
  <2>1. kind' = kind /\ rows' = [id \in DOMAIN rows \ {Subject(q)} |-> rows[id]]
    BY <1>4, GoesRemove DEF Goes, Same
  <2>2. QED
    BY <2>1 DEF Distinct, Alone, Clashes
<1>5. QED
  BY <1>1, <1>2, <1>3, <1>4, WhoWrites

-----------------------------------------------------------------------------
(* A request that is about to fill a list has cleared it, if its row is there *)
Cleared(r) ==
    pc[r] = "running" /\ Here(r)[1] = "relink" /\ Takes(input[r], <<"unlink", Arg(r)>>) =>
        /\ Arg(r) \in past[r].open
        /\ past[r].touched \/ Subject(r) \notin DOMAIN rows
        /\ ~past[r].after /\ Subject(r) \in DOMAIN rows => links[Subject(r)][Arg(r)] = {}

LEMMA NextCleared ==
    ASSUME TypeOK, HistoryOK, HistoryOK', [Next]_vars, NEW r \in Requests, Cleared(r)
    PROVE  Cleared(r)'
<1>1. CASE Spared(r)
  <2>1. Arg(r)' = Arg(r)
    BY <1>1 DEF Spared, Arg
  <2>2. Takes(input[r], <<"unlink", Arg(r)>>)' = Takes(input[r], <<"unlink", Arg(r)>>)
    BY <1>1, <2>1 DEF Spared, Same, Takes
  <2>3. Subject(r)' = Subject(r)
    BY <1>1 DEF Spared, Same
  <2>4. QED
    BY <1>1, <2>1, <2>2, <2>3 DEF Cleared, Spared, RowKept
<1>2. CASE Begins(r)
  <2>1. OnRoute(r)' /\ step'[r] = 1
    BY <1>2 DEF HistoryOK, Begins, OnRoute, Start
  <2>2. Here(r)'[1] # "relink"
    <3>1. /\ pc'[r] = "running"
          /\ Shaped(kind', input'[r].op, Route(r)') /\ Len(Route(r)') \in Nat \ {0}
      <4>1. kind' \in DOMAIN Protected
        BY <1>2, KindsAssumption DEF Begins, TypeOK
      <4>2. Shaped(kind', input'[r].op, Route(r)')
        BY <2>1, <4>1, RoutesAreShaped DEF OnRoute, Route
      <4>3. QED
        BY <1>2, <4>2 DEF Begins, Shaped
    <3>2. 1 \in 1..Len(Route(r)') /\ Here(r)' = Route(r)'[1]
      BY <2>1, <3>1 DEF Here
    <3>3. QED
      BY <3>1, <3>2 DEF Shaped, Ordered
  <2>3. QED
    BY <2>2 DEF Cleared
<1>3. CASE Halts(r)
  BY <1>3 DEF Halts, Cleared
<1>4. CASE Goes(r) /\ pc'[r] = "running" /\ Here(r)'[1] = "relink"
                   /\ Takes(input[r], <<"unlink", Arg(r)>>)'
  <2>1. Here(r) = <<"unlink", Arg(r)'>> /\ kind' = kind /\ Subject(r)' = Subject(r)
    BY <1>4, Onward DEF Goes, Same
  <2>2. Takes(input[r], Here(r)) /\ Arg(r)' = Arg(r) /\ Here(r)[1] = "unlink"
    BY <1>4, <2>1 DEF Goes, Same, Arg
  <2>3. /\ Arg(r) \in Joins[kind] /\ UNCHANGED rows
        /\ links' = IF Subject(r) \in DOMAIN rows
                    THEN [links EXCEPT ![Subject(r)][Arg(r)] = {}] ELSE links
        /\ past'[r] = [past[r] EXCEPT !.touched = @ \/ Subject(r) \in DOMAIN rows,
                                      !.open = @ \cup {Arg(r)}]
    BY <1>4, <2>2, GoesUnlink
  <2>4. past[r] \in Past
    BY InputTypes
  <2>5. Arg(r) \in past'[r].open /\ (past'[r].touched \/ Subject(r) \notin DOMAIN rows)
    BY <2>3, <2>4 DEF Past
  <2>6. Subject(r) \in DOMAIN rows => links'[Subject(r)][Arg(r)] = {}
    BY <2>3 DEF TypeOK
  <2>7. QED
    BY <2>1, <2>2, <2>3, <2>5, <2>6 DEF Cleared
<1>5. CASE Goes(r) /\ ~(pc'[r] = "running" /\ Here(r)'[1] = "relink"
                        /\ Takes(input[r], <<"unlink", Arg(r)>>)')
  BY <1>5 DEF Cleared
<1>6. QED
  BY <1>1, <1>2, <1>3, <1>4, <1>5, Moves

LEMMA InitCleared == ASSUME Init, NEW r \in Requests PROVE Cleared(r)
BY DEF Init, Cleared

-----------------------------------------------------------------------------
(* Refusals *)

LEMMA ScopeKnown ==
    ASSUME TypeOK, HistoryOK, NEW r \in Requests, Knows(r), Passed(r, "ask")
    PROVE  /\ scope[r] = WorkScope(r) /\ MayAsk(input[r]) /\ Asked(input[r]) \in Workspaces
           /\ \A id \in DOMAIN rows :
                id \in Visible(scope[r]) <=> kind \in Unscoped \/ Asked(input[r]) \in rows[id].in
<1>1. scope[r] = WorkScope(r) /\ MayAsk(input[r]) /\ Asked(input[r]) \in Workspaces
  BY InputTypes DEF Knows, InScope
<1>2. Anywhere \notin Workspaces
  BY PlacesAssumption
<1>3. QED
  BY <1>1, <1>2 DEF WorkScope, Visible

LEMMA NotSeen ==
    ASSUME TypeOK, HistoryOK, NEW r \in Requests, Knows(r), Passed(r, "ask"),
           Subject(r) \notin Visible(scope[r])
    PROVE  Cause(r, "notFound")
BY ScopeKnown DEF Cause

LEMMA StepCauses ==
    ASSUME TypeOK, HistoryOK, Within, Distinct, NEW r \in Requests, Knows(r), Cleared(r),
           Step(r), pc'[r] = "refused"
    PROVE  Cause(r, why'[r])
<1> USE DEF At
<1>1. pc[r] = "running" /\ Shaped(kind, input[r].op, Route(r)) /\ Conveyed(kind)
  BY StepApart, AtShape
<1>2. ~Advance(r) /\ ~Proceed(r)
  BY DEF Proceed, Advance, TypeOK
<1>3. \A reason : Refuse(r, reason) => why'[r] = reason
  BY DEF Refuse, TypeOK
<1>4. /\ input[r] \in Input /\ past[r] \in Past /\ Asked(input[r]) \in Workspaces
      /\ input[r].given \subseteq Fields(kind, input[r].op)
      /\ input[r].op = "create" => Subject(r) = r
  BY InputTypes DEF HistoryOK, OnRoute
<1>5. Named(kind, input[r].op, Route(r)) /\ Here(r) = Route(r)[step[r]] /\ step[r] \in 1..Len(Route(r))
  BY <1>1, AtShape DEF Shaped
<1>6. CASE AskStep(r)
  <2>1. /\ why'[r] = "forbidden" /\ Here(r)[1] \in {"ask", "askHome", "askNobody"}
        /\ ~(MayAsk(input[r]) /\ (Here(r)[1] # "askNobody" => Permitted(input[r], Arg(r))))
    BY <1>2, <1>3, <1>6 DEF AskStep
  <2>2. Here(r)[1] # "askNobody" => Arg(r) \in {input[r].op, "describe"}
    BY <1>5, <2>1 DEF Named, Arg
  <2>3. QED
    BY <2>1, <2>2 DEF Cause, MayAsk, Permitted
<1>7. CASE FindStep(r)
  <2>1. /\ why'[r] = "notFound" /\ Here(r)[1] = "find"
        /\ Arg(r) = "scope" => Subject(r) \notin Visible(scope[r])
        /\ Arg(r) = "home" => Subject(r) \notin Visible(input[r].home)
        /\ Arg(r) = "any" => Subject(r) \notin Visible(Anywhere)
    BY <1>2, <1>3, <1>7 DEF FindStep
  <2>2. Here(r) \in {Find, FindHome, FindAnyhow} /\ (Here(r) = FindHome => kind = "project")
    BY <1>5, <2>1 DEF Named
  <2>3. CASE Here(r) = Find
    <3>1. Passed(r, "ask")
      BY <1>1, <2>3, Before
    <3>2. Arg(r) = "scope"
      BY <2>3 DEF Arg, Find
    <3>3. QED
      BY <2>1, <3>1, <3>2, NotSeen
  <2>4. CASE Here(r) = FindHome
    BY <2>1, <2>2, <2>4 DEF Cause, Visible, Arg, FindHome
  <2>5. CASE Here(r) = FindAnyhow
    BY <2>1, <2>5 DEF Cause, Visible, Arg, FindAnyhow
  <2>6. QED
    BY <2>2, <2>3, <2>4, <2>5
<1>8. CASE JoinStep(r)
  <2>1. why'[r] = "notFound" /\ Subject(r) \notin DOMAIN rows
    BY <1>2, <1>3, <1>8 DEF JoinStep
  <2>2. QED
    BY <2>1 DEF Cause
<1>9. CASE ValidateStep(r)
  <2>1. why'[r] = "invalid"
    BY <1>2, <1>3, <1>9 DEF ValidateStep
  <2>2. QED
    BY <2>1 DEF Cause
<1>10. CASE FreeStep(r)
  <2>1. /\ Here(r)[1] \in {"free", "freeHome"} /\ Takes(input[r], Here(r)) /\ why'[r] = "conflict"
        /\ \E other \in Visible(scope[r]) \cup Visible(input[r].home) :
                rows[other].cols[Arg(r)] = input[r].text /\ (kind = "profile" => other # Subject(r))
    BY <1>2, <1>3, <1>10 DEF FreeStep
  <2>2. /\ Arg(r) \in Cols(kind) /\ Arg(r) \in input[r].given
        /\ kind \in {"project", "profile"} \/ input[r].op = "create"
    BY <1>5, <2>1 DEF Named, Arg, Takes
  <2>3. input[r].op = "create" => \A other \in Visible(scope[r]) \cup Visible(input[r].home) : other # Subject(r)
    <3>1. \A w \in Writes : ~Passed(r, w)
      BY <1>1, <2>1, AfterWrites
    <3>2. r \notin DOMAIN rows
      BY <3>1 DEF Knows, Born, Writes
    <3>3. QED
      BY <1>4, <3>2 DEF Visible
  <2>4. QED
    BY <2>1, <2>2, <2>3 DEF Cause
<1>11. CASE MemberStep(r)
  <2>1. /\ why'[r] = "forbidden" /\ Here(r)[1] = "member" /\ ~input[r].admin
        /\ Subject(r) \in DOMAIN rows => rows[Subject(r)].in # {input[r].home}
    BY <1>2, <1>3, <1>11 DEF MemberStep
  <2>2. kind = "account"
    BY <1>5, <2>1 DEF Named
  <2>3. QED
    BY <2>1, <2>2 DEF Cause
<1>12. CASE RolesStep(r)
  <2>1. /\ why'[r] = "forbidden" /\ Here(r)[1] = "roles" /\ ~input[r].admin
        /\ \E t \in joined[r]["roles"] : HomeOf[t] # input[r].home
    BY <1>2, <1>3, <1>12 DEF RolesStep
  <2>2. kind = "membership"
    BY <1>5, <2>1 DEF Named
  <2>3. QED
    BY <2>1, <2>2 DEF Cause
<1>13. CASE InsertStep(r)
  <2>1. /\ Here(r)[1] = "insert"
        /\ why'[r] = "invalid" \/ (why'[r] = "conflict" /\ (r \in DOMAIN rows \/ Clashes(r, NewRow(r))))
    BY <1>2, <1>3, <1>13 DEF InsertStep, NewRow
  <2>2. Passed(r, "ask") /\ input[r].op = "create" /\ r \notin DOMAIN rows
    <3>1. \A w \in Writes : ~Passed(r, w)
      BY <1>1, <2>1, AfterWrites
    <3>2. r \notin DOMAIN rows
      BY <3>1 DEF Knows, Born, Writes
    <3>3. QED
      BY <1>1, <1>5, <2>1, <3>2, Before DEF Named
  <2>3. CASE why'[r] = "conflict"
    <3>1. PICK f \in Unique[kind], other \in DOMAIN rows \ {r} :
            /\ NewRow(r).cols[f] = rows[other].cols[f] /\ NewRow(r).cols[f] # Unset
            /\ kind \in Unscoped \/ NewRow(r).in \cap rows[other].in # {}
      BY <2>1, <2>2, <2>3 DEF Clashes
    <3>2. f \in Cols(kind)
      BY <1>1 DEF Conveyed
    <3>3. f \in Written(r) /\ NewRow(r).cols[f] = input[r].text
      BY <3>1, <3>2 DEF NewRow
    <3>4. f \in input[r].given /\ rows[other].cols[f] = input[r].text
      BY <3>1, <3>3 DEF Written
    <3>5. kind \notin Unscoped => NewRow(r).in \subseteq {Asked(input[r])}
      BY <2>2, ScopeKnown DEF NewRow, WorkScope
    <3>6. other \in Visible(scope[r])
      BY <2>2, <3>1, <3>5, ScopeKnown
    <3>7. QED
      BY <1>4, <2>2, <2>3, <3>2, <3>4, <3>6 DEF Cause
  <2>4. CASE why'[r] = "invalid"
    BY <2>4 DEF Cause
  <2>5. QED
    BY <2>1, <2>3, <2>4
<1>14. CASE UpdateStep(r)
  <2> DEFINE id == Subject(r)
             broken == \/ ~(Written(r) \subseteq Cols(kind))
                       \/ kind = "policy" /\ Written(r) = {}
  <2>1. /\ Here(r)[1] = "update"
        /\ \/ why'[r] = "broken" /\ broken
           \/ why'[r] = "notFound" /\ id \notin Visible(scope[r])
           \/ why'[r] = "conflict" /\ id \in Visible(scope[r]) /\ Clashes(id, Renewed(r))
           \/ why'[r] = "invalid"
    BY <1>2, <1>3, <1>14 DEF UpdateStep, Renewed
  <2>2. Passed(r, "ask") /\ input[r].op = "update"
    BY <1>1, <1>5, <2>1, Before DEF Named
  <2>3. CASE why'[r] = "broken" /\ broken
    <3>1. input[r].given \subseteq Layers[kind].updates
      BY <1>4, <2>2 DEF Fields
    <3>2. Written(r) = input[r].given \cap Layers[kind].updates \cap Layers[kind].sets
      BY <2>2 DEF Written
    <3>3. CASE ~(Written(r) \subseteq Cols(kind))
      BY <1>1, <2>3, <3>2, <3>3 DEF Conveyed, Cause
    <3>4. CASE kind = "policy" /\ Written(r) = {}
      BY <1>1, <2>3, <3>1, <3>2, <3>4 DEF Conveyed, Cause
    <3>5. QED
      BY <2>3, <3>3, <3>4
  <2>4. CASE why'[r] = "notFound" /\ id \notin Visible(scope[r])
    BY <2>2, <2>4, NotSeen
  <2>5. CASE why'[r] = "conflict" /\ id \in Visible(scope[r]) /\ Clashes(id, Renewed(r))
    <3>1. PICK f \in Unique[kind], other \in DOMAIN rows \ {id} :
            /\ Renewed(r).cols[f] = rows[other].cols[f] /\ Renewed(r).cols[f] # Unset
            /\ kind \in Unscoped \/ rows[id].in \cap rows[other].in # {}
      BY <2>5 DEF Clashes, Renewed
    <3>2. f \in Cols(kind)
      BY <1>1 DEF Conveyed
    <3>3. id \in DOMAIN rows /\ Alone(id)
      BY <2>5 DEF Visible, Distinct
    <3>4. f \in Written(r) /\ Renewed(r).cols[f] = input[r].text
      <4>1. CASE f \notin Written(r)
        <5>1. Renewed(r).cols[f] = rows[id].cols[f]
          BY <3>2, <4>1 DEF Renewed
        <5>2. QED
          BY <3>1, <3>3, <5>1 DEF Alone, Clashes
      <4>2. QED
        BY <3>2, <4>1 DEF Renewed
    <3>5. f \in input[r].given /\ rows[other].cols[f] = input[r].text
      BY <3>1, <3>4 DEF Written
    <3>6. kind \notin Unscoped => Asked(input[r]) \in rows[id].in
      BY <2>2, <2>5, <3>3, ScopeKnown
    <3>7. kind \notin Unscoped => Asked(input[r]) \in rows[other].in
      BY <3>1, <3>3, <3>6 DEF Within
    <3>8. other \in Visible(scope[r])
      BY <2>2, <3>7, ScopeKnown
    <3>9. QED
      BY <2>5, <3>1, <3>2, <3>5, <3>8 DEF Cause
  <2>6. CASE why'[r] = "invalid"
    BY <2>6 DEF Cause
  <2>7. QED
    BY <2>1, <2>3, <2>4, <2>5, <2>6
<1>15. CASE RemoveStep(r)
  <2>1. /\ Here(r)[1] = "remove"
        /\ \/ why'[r] = "inUse" /\ kind \in Restricted
           \/ why'[r] = "notFound" /\ Subject(r) \notin Visible(scope[r])
    BY <1>2, <1>3, <1>15 DEF RemoveStep
  <2>2. Passed(r, "ask")
    BY <1>1, <2>1, Before
  <2>3. QED
    BY <2>1, <2>2, NotSeen DEF Cause
<1>16. CASE RelinkStep(r)
  <2>1. /\ Here(r)[1] = "relink" /\ Takes(input[r], Here(r)) /\ why'[r] = "conflict"
        /\ \/ Subject(r) \notin DOMAIN rows
           \/ input[r].list \cap links[Subject(r)][Arg(r)] # {}
           \/ \E t \in input[r].list : HomeOf[t] = Nowhere
    BY <1>2, <1>3, <1>16 DEF RelinkStep, TypeOK
  <2>2. Arg(r) \in Joins[kind] /\ input[r].op \in {"create", "update"}
    BY <1>5, <2>1 DEF Named, Arg
  <2>3. ASSUME ~past[r].raced, \A t \in input[r].list : HomeOf[t] # Nowhere PROVE FALSE
    <3>1. Passed(r, "insert") \/ Passed(r, "update") \/ Passed(r, "join")
      BY <1>1, <2>1, Before
    <3>2. Subject(r) \in DOMAIN rows
      BY <1>1, <2>3, <3>1 DEF Knows, There, Visible
    <3>3. ~past[r].after
      BY <1>1, <2>3 DEF Knows, Recorded
    <3>4. Takes(input[r], <<"unlink", Arg(r)>>)
      BY <2>1, <2>2 DEF Takes, Arg
    <3>5. links[Subject(r)][Arg(r)] = {}
      BY <1>1, <2>1, <3>2, <3>3, <3>4 DEF Cleared
    <3>6. QED
      BY <2>1, <2>3, <3>2, <3>5
  <2>4. QED
    BY <2>1, <2>2, <2>3 DEF Cause
<1>17. CASE ListStep(r)
  <2>1. Here(r)[1] = "list" /\ why'[r] = "broken" /\ ~(input[r].given \subseteq Cols(kind))
    BY <1>2, <1>3, <1>17 DEF ListStep
  <2>2. input[r].op = "list"
    BY <1>5, <2>1 DEF Named
  <2>3. input[r].given \subseteq Layers[kind].filter
    BY <1>4, <2>2 DEF Fields
  <2>4. QED
    BY <1>1, <2>1, <2>3 DEF Conveyed, Cause
<1>18. QED
  BY <1>2, <1>6, <1>7, <1>8, <1>9, <1>10, <1>11, <1>12, <1>13, <1>14, <1>15, <1>16, <1>17
     DEF Step, PassStep, EscalateStep, UnlinkStep, CountStep

(* Everything that the refusals rest on *)
Grounds == HistoryOK /\ Within /\ KnowsAll /\ Distinct /\ \A r \in Requests : Cleared(r)

LEMMA InitGrounds == Init => Grounds
BY InitHistory, InitWithin, InitKnows, InitDistinct, InitCleared DEF Grounds

LEMMA NextGrounds == TypeOK /\ Grounds /\ [Next]_vars => Grounds'
<1> SUFFICES ASSUME TypeOK, Grounds, [Next]_vars PROVE Grounds'
  OBVIOUS
<1>1. HistoryOK' /\ Within' /\ KnowsAll' /\ Distinct'
  BY NextHistory, NextWithin, NextKnows, NextDistinct DEF Grounds
<1>2. \A r \in Requests : Cleared(r)'
  BY <1>1, NextCleared DEF Grounds
<1>3. QED
  BY <1>1, <1>2 DEF Grounds

LEMMA NextCauses ==
    TypeOK /\ Grounds /\ [Next]_vars => \A r \in Requests : why'[r] # why[r] => Cause(r, why'[r])
<1> SUFFICES ASSUME TypeOK, Grounds, [Next]_vars, NEW r \in Requests, why'[r] # why[r]
             PROVE  Cause(r, why'[r])
  OBVIOUS
<1>1. PICK q \in Requests : Step(q)
  BY DEF Next, vars, Start, Drop
<1>2. Apart(q) /\ (Refused(q) \/ Advance(q))
  BY <1>1, StepApart DEF Grounds
<1>3. q = r /\ pc'[r] = "refused"
  BY <1>2 DEF Apart, Refused, Refuse, Advance, TypeOK
<1>4. QED
  BY <1>1, <1>3, StepCauses DEF Grounds, KnowsAll

(* A request is refused only for a cause, in the state in which it is refused *)
THEOREM RefusalsHaveCauses == Spec => RefusedForCause
<1>1. TypeOK /\ Grounds /\ [Next]_vars => [\A r \in Requests : why'[r] # why[r] => Cause(r, why'[r])]_vars
  BY NextCauses
<1>2. QED
  BY <1>1, InitTypes, NextTypes, InitGrounds, NextGrounds, PTL DEF Spec, RefusedForCause

-----------------------------------------------------------------------------
(* The codes of projects: what a request that gives one has found out, and that it *)
(* stands until the request writes, unless another one wrote                       *)
Writeless(r) == \A w \in Writes : ~Passed(r, w)
Coded(r) ==
    kind = "project" /\ pc[r] = "running" /\ ~past[r].raced /\ "code" \in input[r].given /\ Writeless(r) =>
        /\ Free("code") \in Done(r) => Passed(r, "ask") /\
            \A id \in Visible(scope[r]) : rows[id].cols["code"] # input[r].text
        /\ FreeHome("code") \in Done(r) =>
            \A id \in Visible(input[r].home) : rows[id].cols["code"] # input[r].text
        /\ FindHome \in Done(r) => Subject(r) \in Visible(input[r].home)

LEMMA NextCoded ==
    ASSUME TypeOK, HistoryOK, [Next]_vars, NEW r \in Requests, Knows(r), Knows(r)', Coded(r)
    PROVE  Coded(r)'
<1>1. CASE Spared(r)
  <2>1. \A w : Passed(r, w)' <=> Passed(r, w)
    BY <1>1 DEF Spared, Passed
  <2>2. Writeless(r)' <=> Writeless(r)
    BY <2>1 DEF Writeless
  <2>3. CASE pc[r] = "running" /\ ~past'[r].raced
    <3>1. ~past[r].raced /\ UNCHANGED rows /\ \A s : Visible(s)' = Visible(s)
      BY <1>1, <2>3 DEF Spared, Visible
    <3>2. Subject(r)' = Subject(r) /\ kind' = kind /\ input'[r] = input[r] /\ scope'[r] = scope[r]
          /\ Visible(scope[r])' = Visible(scope[r])
          /\ Visible(input[r].home)' = Visible(input[r].home)
      BY <1>1, <3>1 DEF Spared, Same, Visible
    <3>3. QED
      BY <1>1, <2>1, <2>2, <2>3, <3>1, <3>2 DEF Coded, Spared
  <2>4. CASE ~(pc[r] = "running" /\ ~past'[r].raced)
    BY <1>1, <2>4 DEF Spared, Coded
  <2>5. QED
    BY <2>3, <2>4
<1>2. CASE Begins(r)
  BY <1>2 DEF Begins, Coded
<1>3. CASE Halts(r)
  BY <1>3 DEF Halts, Coded
<1>4. CASE Goes(r)
  <2> SUFFICES ASSUME (kind = "project" /\ pc[r] = "running" /\ ~past[r].raced
                        /\ "code" \in input[r].given /\ Writeless(r))'
               PROVE  (/\ Free("code") \in Done(r) => Passed(r, "ask") /\
                            \A id \in Visible(scope[r]) : rows[id].cols["code"] # input[r].text
                       /\ FreeHome("code") \in Done(r) =>
                            \A id \in Visible(input[r].home) : rows[id].cols["code"] # input[r].text
                       /\ FindHome \in Done(r) => Subject(r) \in Visible(input[r].home))'
    BY DEF Coded
  <2>1. \A w : Passed(r, w)' <=> Passed(r, w) \/ Here(r)[1] = w
    BY <1>4, PassedNext
  <2>2. Writeless(r) /\ Here(r)[1] \notin Writes
    BY <2>1 DEF Writeless
  <2>3. UNCHANGED <<rows, links, past>> /\ pc[r] = "running"
    BY <1>4, <2>2, GoesQuietly DEF Goes
  <2>4. /\ Subject(r)' = Subject(r) /\ kind' = kind /\ input'[r].home = input[r].home
        /\ input'[r].text = input[r].text /\ input'[r].given = input[r].given
        /\ Done(r)' = Done(r) \cup {Here(r)}
    BY <1>4 DEF Goes, Same
  <2>5. Visible(input[r].home)' = Visible(input[r].home)
    BY <2>3, <2>4 DEF Visible
  <2>6. Passed(r, "ask") => scope'[r] = scope[r]
    BY <1>4, <2>1, <2>4 DEF Knows, InScope, WorkScope, Goes, Same
  <2>7. Passed(r, "ask") => Visible(scope[r])' = Visible(scope[r])
    BY <2>3, <2>6 DEF Visible
  <2>8. kind = "project" /\ "code" \in input[r].given /\ ~past[r].raced
    BY <2>3, <2>4
  <2>9. /\ Free("code") \in Done(r) => Passed(r, "ask") /\
            \A id \in Visible(scope[r]) : rows[id].cols["code"] # input[r].text
        /\ FreeHome("code") \in Done(r) =>
            \A id \in Visible(input[r].home) : rows[id].cols["code"] # input[r].text
        /\ FindHome \in Done(r) => Subject(r) \in Visible(input[r].home)
    BY <2>2, <2>3, <2>8 DEF Coded
  <2>10. ASSUME Here(r) = Free("code")
         PROVE  Passed(r, "ask") /\ \A id \in Visible(scope[r]) : rows[id].cols["code"] # input[r].text
    <3>1. Here(r)[1] = "free" /\ Here(r)[2] = "code" /\ Arg(r) = "code"
      BY <2>10 DEF Free, Arg
    <3>2. FreeStep(r) /\ ~Refuse(r, "conflict")
      <4>1. Takes(input[r], Here(r))
        BY <2>8, <3>1 DEF Takes
      <4>2. QED
        BY <1>4, <3>1, <4>1, GoesBy DEF Goes, Refused, Outcomes
    <3>3. QED
      BY <2>3, <2>8, <3>1, <3>2, Before DEF FreeStep, At
  <2>11. ASSUME Here(r) = FreeHome("code")
         PROVE  \A id \in Visible(input[r].home) : rows[id].cols["code"] # input[r].text
    <3>1. Here(r)[1] = "freeHome" /\ Here(r)[2] = "code" /\ Arg(r) = "code"
      BY <2>11 DEF FreeHome, Arg
    <3>2. FreeStep(r) /\ ~Refuse(r, "conflict")
      <4>1. Takes(input[r], Here(r))
        BY <2>8, <3>1 DEF Takes
      <4>2. QED
        BY <1>4, <3>1, <4>1, GoesBy DEF Goes, Refused, Outcomes
    <3>3. QED
      BY <2>8, <3>1, <3>2 DEF FreeStep, At
  <2>12. ASSUME Here(r) = FindHome PROVE Subject(r) \in Visible(input[r].home)
    <3>1. Here(r)[1] = "find" /\ Arg(r) = "home"
      BY <2>12 DEF FindHome, Arg
    <3>2. FindStep(r) /\ ~Refuse(r, "notFound")
      BY <1>4, <3>1, GoesBy, Taken DEF Goes, Refused, Outcomes
    <3>3. QED
      BY <3>1, <3>2 DEF FindStep
  <2>13. /\ Free("code") \in Done(r)' => Passed(r, "ask") /\
            \A id \in Visible(scope[r]) : rows[id].cols["code"] # input[r].text
         /\ FreeHome("code") \in Done(r)' =>
            \A id \in Visible(input[r].home) : rows[id].cols["code"] # input[r].text
         /\ FindHome \in Done(r)' => Subject(r) \in Visible(input[r].home)
    BY <2>4, <2>9, <2>10, <2>11, <2>12
  <2>14. QED
    BY <2>1, <2>3, <2>4, <2>5, <2>7, <2>13
<1>5. QED
  BY <1>1, <1>2, <1>3, <1>4, Moves

(* Two rows that have the same code, and that somebody wrote one of them while another *)
(* request wrote                                                                       *)
Equal(a, b) ==
    /\ rows[a].cols["code"] = rows[b].cols["code"]
    /\ rows[a].cols["code"] # Unset /\ rows[a].in \cap rows[b].in # {}
Disturbed(a, b) ==
    \E r \in Requests : pc[r] # "idle" /\ Subject(r) \in {a, b} /\ past[r].raced
Codes ==
    kind = "project" =>
        \A a, b \in DOMAIN rows : a # b /\ Equal(a, b) => Disturbed(a, b)

LEMMA DisturbedLasts ==
    ASSUME TypeOK, HistoryOK, [Next]_vars, NEW a, NEW b, Disturbed(a, b) PROVE Disturbed(a, b)'
<1>1. PICK r \in Requests : pc[r] # "idle" /\ Subject(r) \in {a, b} /\ past[r].raced
  BY DEF Disturbed
<1>2. Subject(r)' = Subject(r) /\ pc'[r] # "idle" /\ past'[r].raced
  <2>1. CASE Spared(r)
    BY <1>1, <2>1 DEF Spared, Same
  <2>2. CASE Begins(r)
    BY <1>1, <2>2 DEF Begins
  <2>3. CASE Halts(r)
    BY <1>1, <2>3 DEF Halts, Same
  <2>4. CASE Goes(r)
    <3>1. past'[r].raced = past[r].raced
      BY <2>4, StepWrites DEF Goes, Writing
    <3>2. QED
      BY <1>1, <2>4, <3>1 DEF Goes, Same
  <2>5. QED
    BY <2>1, <2>2, <2>3, <2>4, Moves
<1>3. QED
  BY <1>1, <1>2 DEF Disturbed

LEMMA InitCodes == Init => Codes /\ \A r \in Requests : Coded(r)
<1> SUFFICES ASSUME Init PROVE Codes /\ \A r \in Requests : Coded(r)
  OBVIOUS
<1>1. \A r \in Requests : Coded(r)
  BY DEF Init, Coded
<1>2. kind = "project" => "code" \in Cols(kind)
  BY DEF Cols, Layers, ProjectLayers, ProjectRow
<1>3. Codes
  BY <1>2 DEF Init, Codes, Equal
<1>4. QED
  BY <1>1, <1>3

LEMMA NextCodes ==
    ASSUME TypeOK, Grounds, Codes, \A r \in Requests : Coded(r), [Next]_vars PROVE Codes'
<1> SUFFICES ASSUME (kind = "project")', NEW a \in DOMAIN rows', NEW b \in DOMAIN rows', a # b,
                    Equal(a, b)'
             PROVE  Disturbed(a, b)'
  BY DEF Codes
<1> USE DEF Grounds
<1>1. CASE UNCHANGED <<kind, rows>>
  <2>1. Disturbed(a, b)
    BY <1>1 DEF Codes, Equal
  <2>2. QED
    BY <2>1, DisturbedLasts
<1>2. ASSUME NEW q \in Requests, Goes(q), Here(q)[1] \in {"insert", "update", "remove"}
      PROVE  Disturbed(a, b)'
  <2>1. kind = "project" /\ pc[q] = "running" /\ Subject(q)' = Subject(q) /\ Conveyed(kind)
        /\ "code" \in Cols(kind) /\ pc'[q] # "idle"
    BY <1>2, KindsAssumption, LayersConvey
       DEF Goes, Same, TypeOK, Cols, Layers, ProjectLayers, ProjectRow
  <2>2. CASE a \in DOMAIN rows /\ b \in DOMAIN rows /\ Equal(a, b)
    BY <2>1, <2>2, DisturbedLasts DEF Codes
  <2>3. past[q].raced => past'[q].raced
    BY <1>2, StepWrites DEF Goes, Writing
  <2>4. CASE Subject(q) \in {a, b} /\ past[q].raced
    BY <2>1, <2>3, <2>4 DEF Disturbed
  <2>5. CASE ~past[q].raced /\ ~(a \in DOMAIN rows /\ b \in DOMAIN rows /\ Equal(a, b))
    <3>1. CASE Here(q)[1] = "insert"
      <4>1. /\ q \notin DOMAIN rows /\ Subject(q) = q /\ input[q].op = "create"
            /\ rows' = [id \in DOMAIN rows \cup {q} |-> IF id = q THEN NewRow(q) ELSE rows[id]]
        BY <1>2, <3>1, GoesInsert
      <4>2. PICK o \in DOMAIN rows :
                /\ {a, b} = {q, o} /\ NewRow(q).cols["code"] = rows[o].cols["code"]
                /\ NewRow(q).cols["code"] # Unset /\ NewRow(q).in \cap rows[o].in # {}
        BY <2>5, <4>1 DEF Equal
      <4>3. "code" \in Written(q) /\ NewRow(q).cols["code"] = input[q].text
        BY <2>1, <4>2 DEF NewRow
      <4>4. "code" \in input[q].given
        BY <4>3 DEF Written
      <4>5. scope[q] \in rows[o].in
        BY <4>2 DEF NewRow
      <4>6. o \in Visible(scope[q])
        BY <4>5 DEF Visible
      <4>7. Writeless(q) /\ Free("code") \in Done(q)
        BY <2>1, <3>1, Before, AfterWrites DEF Writeless
      <4>8. rows[o].cols["code"] # input[q].text
        BY <2>1, <2>5, <4>4, <4>6, <4>7 DEF Coded
      <4>9. QED
        BY <4>2, <4>3, <4>8
    <3>2. CASE Here(q)[1] = "update"
      <4>1. PICK it \in DOMAIN rows :
                /\ it = Subject(q) /\ input[q].op = "update"
                /\ rows' = [rows EXCEPT ![it] = Renewed(q)]
        BY <1>2, <3>2, GoesUpdate
      <4>2. /\ DOMAIN rows' = DOMAIN rows /\ rows'[it] = Renewed(q)
            /\ \A id \in DOMAIN rows \ {it} : rows'[id] = rows[id]
        BY <4>1 DEF TypeOK
      <4>3. PICK o \in DOMAIN rows \ {it} :
                /\ {a, b} = {it, o} /\ Renewed(q).cols["code"] = rows[o].cols["code"]
                /\ Renewed(q).cols["code"] # Unset /\ Renewed(q).in \cap rows[o].in # {}
        BY <2>5, <4>2 DEF Equal
      <4>4. Renewed(q).in = rows[it].in
        BY <4>1 DEF Renewed
      <4>5. CASE "code" \notin Written(q)
        <5>1. Renewed(q).cols["code"] = rows[it].cols["code"]
          BY <2>1, <4>1, <4>5 DEF Renewed
        <5>2. Equal(a, b)
          BY <4>3, <4>4, <5>1 DEF Equal
        <5>3. QED
          BY <2>5, <4>3, <5>2
      <4>6. CASE "code" \in Written(q)
        <5>1. Renewed(q).cols["code"] = input[q].text /\ "code" \in input[q].given
          BY <2>1, <4>6 DEF Renewed, Written
        <5>2. Writeless(q) /\ FreeHome("code") \in Done(q) /\ FindHome \in Done(q)
          BY <2>1, <3>2, Before, AfterWrites DEF Writeless
        <5>3. /\ \A id \in Visible(input[q].home) : rows[id].cols["code"] # input[q].text
              /\ it \in Visible(input[q].home)
          BY <2>1, <2>5, <4>1, <5>1, <5>2 DEF Coded
        <5>4. input[q].home \in Workspaces /\ Anywhere \notin Workspaces
          BY PlacesAssumption DEF TypeOK, Input
        <5>5. rows[it].in = {input[q].home}
          BY <2>1, <5>3, <5>4 DEF Visible, Within, Unscoped
        <5>6. o \in Visible(input[q].home)
          BY <4>3, <4>4, <5>5 DEF Visible
        <5>7. QED
          BY <4>3, <5>1, <5>3, <5>6
      <4>7. QED
        BY <4>5, <4>6
    <3>3. CASE Here(q)[1] = "remove"
      <4>1. rows' = [id \in DOMAIN rows \ {Subject(q)} |-> rows[id]]
        BY <1>2, <3>3, GoesRemove
      <4>2. QED
        BY <2>5, <4>1 DEF Equal
    <3>4. QED
      BY <1>2, <3>1, <3>2, <3>3
  <2>6. CASE Subject(q) \notin {a, b}
    <3>1. a \in DOMAIN rows /\ b \in DOMAIN rows /\ rows'[a] = rows[a] /\ rows'[b] = rows[b]
      <4>1. a \in Ids \ {Subject(q)} /\ b \in Ids \ {Subject(q)}
        BY <2>6, NextTypes DEF TypeOK
      <4>2. RowKept(a) /\ RowKept(b)
        BY <1>2, <4>1, StepWrites DEF Goes, Writing, RowKept
      <4>3. QED
        BY <4>2 DEF RowKept
    <3>2. QED
      BY <2>2, <3>1 DEF Equal
  <2>7. QED
    BY <2>2, <2>4, <2>5, <2>6
<1>3. QED
  BY <1>1, <1>2, WhoWrites

LEMMA CodesSuffice == Codes => CodesUniqueUnlessRaced
BY DEF Codes, CodesUniqueUnlessRaced, Equal, Disturbed

(* Two projects of a workspace have the same code only if one was given it while another *)
(* request wrote                                                                         *)
THEOREM CodesAreUnique == Spec => []CodesUniqueUnlessRaced
<1> DEFINE CodesInv == Grounds /\ Codes /\ \A r \in Requests : Coded(r)
<1>1. Init => CodesInv
  BY InitGrounds, InitCodes
<1>2. TypeOK /\ CodesInv /\ [Next]_vars => CodesInv'
  <2> SUFFICES ASSUME TypeOK, CodesInv, [Next]_vars PROVE CodesInv'
    OBVIOUS
  <2>1. Grounds' /\ Codes'
    BY NextGrounds, NextCodes
  <2>2. \A r \in Requests : Coded(r)'
    BY <2>1, NextCoded DEF Grounds, KnowsAll
  <2>3. QED
    BY <2>1, <2>2
<1>3. CodesInv => CodesUniqueUnlessRaced
  BY CodesSuffice
<1> HIDE DEF CodesInv
<1>4. QED
  BY <1>1, <1>2, <1>3, InitTypes, NextTypes, PTL DEF Spec

-----------------------------------------------------------------------------
(* Refusals after a write.  The roles of a membership that a request has described or *)
(* linked are of its workspace, but for those of its own list, unless another wrote   *)
Described(r) ==
    /\ pc[r] = "running" /\ ~past[r].raced /\ kind = "membership"
    /\ input[r].op \in {"create", "update"}
Fair(r) ==
    ~input[r].admin /\ (Passed(r, "insert") \/ Passed(r, "roles")) /\ Subject(r) \in DOMAIN rows =>
        \A t \in links[Subject(r)]["roles"] : HomeOf[t] = input[r].home \/ t \in input[r].list
Fresh(r) ==
    Here(r)[1] = "roles" =>
        Subject(r) \in DOMAIN rows /\ joined[r]["roles"] = links[Subject(r)]["roles"]
Rolled(r) == Described(r) => Fair(r) /\ Fresh(r)

LEMMA GoesJoin ==
    ASSUME TypeOK, NEW r \in Requests, Goes(r), Here(r)[1] = "join", Arg(r) \in Joins[kind]
    PROVE  /\ Subject(r) \in DOMAIN rows /\ UNCHANGED <<rows, links, past>>
           /\ shown' = [shown EXCEPT ![r] = Shown(rows[Subject(r)])]
           /\ joined'[r] = [joined[r] EXCEPT ![Arg(r)] = links[Subject(r)][Arg(r)]]
<1>1. JoinStep(r) /\ ~Refuse(r, "notFound")
  BY GoesBy, Taken DEF Goes, Refused, Outcomes
<1>2. QED
  BY <1>1 DEF JoinStep, TypeOK

LEMMA NextRolled ==
    ASSUME TypeOK, HistoryOK, HistoryOK', [Next]_vars, NEW r \in Requests, Rolled(r)
    PROVE  Rolled(r)'
<1>1. CASE Spared(r)
  <2> SUFFICES ASSUME Described(r)' PROVE Fair(r)' /\ Fresh(r)'
    BY DEF Rolled
  <2>1. /\ Subject(r)' = Subject(r) /\ kind' = kind /\ input'[r] = input[r] /\ Here(r)' = Here(r)
        /\ joined'[r] = joined[r] /\ pc'[r] = pc[r]
    BY <1>1 DEF Spared, Same
  <2>2. ~past[r].raced /\ UNCHANGED <<rows, links>> /\ pc[r] = "running"
    BY <1>1, <2>1 DEF Spared, Described
  <2>3. \A w : Passed(r, w)' <=> Passed(r, w)
    BY <1>1 DEF Spared, Passed
  <2>4. Described(r)
    BY <2>1, <2>2 DEF Described
  <2>5. Fair(r) /\ Fresh(r)
    BY <2>4 DEF Rolled
  <2>6. QED
    BY <2>1, <2>2, <2>3, <2>5 DEF Fair, Fresh
<1>2. CASE Begins(r)
  <2> SUFFICES ASSUME Described(r)' PROVE Fair(r)' /\ Fresh(r)'
    BY DEF Rolled
  <2>1. OnRoute(r)' /\ step'[r] = 1 /\ pc'[r] = "running"
    BY <1>2 DEF HistoryOK, Begins, OnRoute, Start
  <2>2. Here(r)'[1] # "roles"
    <3>1. kind' \in DOMAIN Protected
      BY <1>2, KindsAssumption DEF Begins, TypeOK
    <3>2. Shaped(kind', input'[r].op, Route(r)')
      BY <2>1, <3>1, RoutesAreShaped DEF OnRoute, Route
    <3>3. 1 \in 1..Len(Route(r)') /\ Here(r)' = Route(r)'[1]
      BY <2>1, <3>2 DEF Here, Shaped
    <3>4. QED
      BY <3>2, <3>3 DEF Shaped, Ordered, Described
  <2>3. \A w : ~Passed(r, w)'
    BY <1>2 DEF Begins, Passed
  <2>4. QED
    BY <2>2, <2>3 DEF Fair, Fresh
<1>3. CASE Halts(r)
  BY <1>3 DEF Halts, Rolled, Described
<1>4. CASE Goes(r)
  <2> SUFFICES ASSUME Described(r)' PROVE Fair(r)' /\ Fresh(r)'
    BY DEF Rolled
  <2>1. /\ Subject(r)' = Subject(r) /\ kind' = kind /\ input'[r].home = input[r].home
        /\ input'[r].admin = input[r].admin /\ input'[r].list = input[r].list
        /\ input'[r].op = input[r].op /\ pc[r] = "running" /\ pc'[r] = "running"
    BY <1>4 DEF Goes, Same, Described
  <2>2. past'[r].raced = past[r].raced
    BY <1>4, StepWrites DEF Goes, Writing
  <2>3. Described(r) /\ Fair(r) /\ Fresh(r)
    BY <2>1, <2>2 DEF Described, Rolled
  <2>4. \A w : Passed(r, w)' <=> Passed(r, w) \/ Here(r)[1] = w
    BY <1>4, PassedNext
  <2>5. /\ Here(r)[1] \in {"join", "unlink", "relink"} => Arg(r) \in Joins[kind]
        /\ "roles" \in Joins[kind] /\ past[r] \in Past
    BY <2>1, <2>3, AtShape, InputTypes DEF Shaped, Named, Arg, Described, Joins
  <2>6. Fresh(r)'
    <3> SUFFICES ASSUME Here(r)'[1] = "roles"
                 PROVE  Subject(r) \in DOMAIN rows'
                        /\ joined'[r]["roles"] = links'[Subject(r)]["roles"]
      BY <2>1 DEF Fresh
    <3>1. Here(r) = Join("roles")
      BY <1>4, <2>1, <2>3, Onward DEF Described
    <3>2. Here(r)[1] = "join" /\ Arg(r) = "roles"
      BY <3>1 DEF Join, Arg
    <3>3. joined[r] \in [Joins[kind] -> SUBSET Targets]
      BY DEF TypeOK
    <3>4. QED
      BY <1>4, <2>5, <3>2, <3>3, GoesJoin, ZenonT(40)
  <2>7. Fair(r)'
    <3> SUFFICES ASSUME ~input[r].admin, (Passed(r, "insert") \/ Passed(r, "roles"))',
                        Subject(r) \in DOMAIN rows', NEW t \in links'[Subject(r)]["roles"]
                 PROVE  HomeOf[t] = input[r].home \/ t \in input[r].list
      BY <2>1 DEF Fair
    <3>1. CASE Here(r)[1] = "insert"
      <4>1. Subject(r) = r /\ links'[r] = [j \in Joins[kind] |-> {}]
        BY <1>4, <3>1, GoesInsert
      <4>2. QED
        BY <2>5, <4>1
    <3>2. CASE Here(r)[1] = "roles"
      <4>1. RolesStep(r) /\ ~Refuse(r, "forbidden") /\ UNCHANGED <<rows, links, past>>
        BY <1>4, <3>2, GoesBy, GoesQuietly, Taken DEF Goes, Refused, Outcomes, Writes
      <4>2. \A u \in joined[r]["roles"] : HomeOf[u] = input[r].home
        BY <4>1 DEF RolesStep
      <4>3. QED
        BY <2>3, <3>2, <4>1, <4>2 DEF Fresh
    <3>3. CASE Here(r)[1] \in {"unlink", "relink"} /\ Takes(input[r], Here(r))
      <4>1. UNCHANGED rows /\ (Passed(r, "insert") \/ Passed(r, "roles"))
        BY <1>4, <2>4, <3>3, GoesUnlink, GoesRelink
      <4>2. \A u \in links[Subject(r)]["roles"] : HomeOf[u] = input[r].home \/ u \in input[r].list
        BY <2>3, <4>1 DEF Fair
      <4>3. links[Subject(r)] \in [Joins[kind] -> SUBSET Targets] /\ Subject(r) \in DOMAIN links
        BY <4>1 DEF TypeOK
      <4>4. links'[Subject(r)]["roles"] \subseteq links[Subject(r)]["roles"] \cup input[r].list
        <5>1. CASE Here(r)[1] = "unlink"
          <6>1. links' = [links EXCEPT ![Subject(r)][Arg(r)] = {}]
            BY <1>4, <3>3, <4>1, <5>1, GoesUnlink
          <6>2. links'[Subject(r)] = [links[Subject(r)] EXCEPT ![Arg(r)] = {}]
            BY <4>3, <6>1
          <6>3. QED
            BY <2>5, <4>3, <6>2
        <5>2. CASE Here(r)[1] = "relink"
          <6>1. links' = [links EXCEPT ![Subject(r)][Arg(r)] =
                                links[Subject(r)][Arg(r)] \cup input[r].list]
            BY <1>4, <3>3, <5>2, GoesRelink
          <6>2. links'[Subject(r)] = [links[Subject(r)] EXCEPT ![Arg(r)] =
                                links[Subject(r)][Arg(r)] \cup input[r].list]
            BY <4>3, <6>1
          <6>3. QED
            BY <2>5, <4>3, <6>2
        <5>3. QED
          BY <3>3, <5>1, <5>2
      <4>5. QED
        BY <4>2, <4>4
    <3>4. CASE Here(r)[1] = "update"
      <4>1. rows' = [rows EXCEPT ![Subject(r)] = Renewed(r)] /\ links' = links
        BY <1>4, <3>4, GoesUpdate
      <4>2. DOMAIN rows' = DOMAIN rows
        BY <4>1
      <4>3. QED
        BY <2>3, <2>4, <3>4, <4>1, <4>2 DEF Fair
    <3>5. CASE Here(r)[1] = "remove"
      BY <1>4, <2>1, <3>5, GoesRemove
    <3>6. CASE /\ Here(r)[1] \notin {"insert", "update", "remove", "roles"}
               /\ ~(Here(r)[1] \in {"unlink", "relink"} /\ Takes(input[r], Here(r)))
      <4>1. UNCHANGED <<rows, links>> /\ (Passed(r, "insert") \/ Passed(r, "roles"))
        BY <1>4, <2>4, <3>6, GoesQuietly DEF Writes
      <4>2. QED
        BY <2>3, <4>1 DEF Fair
    <3>7. QED
      BY <3>1, <3>2, <3>3, <3>4, <3>5, <3>6
  <2>8. QED
    BY <2>6, <2>7
<1>5. QED
  BY <1>1, <1>2, <1>3, <1>4, Moves

LEMMA InitRolled == ASSUME Init, NEW r \in Requests PROVE Rolled(r)
BY DEF Init, Rolled, Described

(* The cases in which a request may be refused after it has written *)
Excuse(r, reason) ==
    \/ reason = "forbidden" /\ "describe" \notin input[r].able
    \/ reason = "forbidden" /\ ForeignRoles(r)
    \/ reason = "conflict" /\ \E t \in input[r].list : HomeOf[t] = Nowhere
    \/ reason \in {"conflict", "notFound", "forbidden"} /\ past[r].raced
    \/ kind = "membership" /\ input[r].op = "update" /\ reason \in {"invalid", "notFound"}
Excused == \A r \in Requests : pc[r] = "refused" /\ past[r].touched => Excuse(r, why[r])

LEMMA StepExcuses ==
    ASSUME TypeOK, Grounds, NEW r \in Requests, Rolled(r), Step(r), pc'[r] = "refused",
           past[r].touched
    PROVE  Excuse(r, why'[r])
<1> USE DEF At, Grounds
<1>1. pc[r] = "running" /\ Shaped(kind, input[r].op, Route(r)) /\ Conveyed(kind) /\ Knows(r)
  BY StepApart, AtShape DEF KnowsAll
<1>2. ~Advance(r) /\ ~Proceed(r)
  BY DEF Proceed, Advance, TypeOK
<1>3. \A reason : Refuse(r, reason) => why'[r] = reason
  BY DEF Refuse, TypeOK
<1>4. PICK w \in Writes : Passed(r, w)
  BY <1>1 DEF Knows, Recorded
<1>5. /\ Here(r)[1] \notin {"validate", "free", "freeHome", "member", "list", "insert",
                            "remove", "askHome", "askNobody"}
      /\ Here(r)[1] = "ask" => Arg(r) = "describe"
      /\ Here(r)[1] = "find" => Here(r) = Find
      /\ Here(r)[1] = "update" => kind = "membership"
      /\ Here(r)[1] = "join" => Passed(r, "insert") \/ Passed(r, "update") \/ Passed(r, "join")
      /\ Here(r)[1] = "roles" => Passed(r, "insert") \/ Passed(r, "roles")
  BY <1>1, <1>4, AfterWrites
<1>6. /\ ~Passed(r, "remove")
      /\ Passed(r, "insert") => input[r].op = "create"
      /\ Passed(r, "update") => input[r].op = "update"
      /\ Passed(r, "unlink") \/ Passed(r, "relink") =>
            input[r].op \in {"create", "update"} /\ kind \in {"role", "membership"}
  BY <1>1, Behind
<1>7. Named(kind, input[r].op, Route(r)) /\ Here(r) = Route(r)[step[r]] /\ step[r] \in 1..Len(Route(r))
  BY <1>1, AtShape DEF Shaped
<1>8. CASE AskStep(r)
  <2>1. /\ why'[r] = "forbidden" /\ Here(r)[1] = "ask"
        /\ ~(MayAsk(input[r]) /\ Permitted(input[r], Arg(r)))
    BY <1>2, <1>3, <1>5, <1>8 DEF AskStep
  <2>2. MayAsk(input[r])
    BY <1>1, <1>4 DEF Knows, InScope
  <2>3. QED
    BY <1>5, <2>1, <2>2 DEF Permitted, Excuse
<1>9. CASE FindStep(r)
  <2>1. Here(r) = Find /\ why'[r] = "notFound" /\ kind \notin {"role", "membership"}
    BY <1>2, <1>3, <1>5, <1>7, <1>9 DEF FindStep, Named
  <2>2. Arg(r) = "scope"
    BY <2>1 DEF Arg, Find
  <2>3. Subject(r) \notin Visible(scope[r])
    BY <1>2, <1>9, <2>2 DEF FindStep
  <2>4. Passed(r, "insert") \/ Passed(r, "update")
    BY <1>4, <1>6, <2>1 DEF Writes
  <2>5. past[r].raced
    BY <1>1, <2>3, <2>4 DEF Knows, There
  <2>6. QED
    BY <2>1, <2>5 DEF Excuse
<1>10. CASE JoinStep(r)
  <2>1. why'[r] = "notFound" /\ Subject(r) \notin DOMAIN rows /\ Here(r)[1] = "join"
    BY <1>2, <1>3, <1>10 DEF JoinStep
  <2>2. past[r].raced
    BY <1>1, <1>5, <2>1 DEF Knows, There, Visible
  <2>3. QED
    BY <2>1, <2>2 DEF Excuse
<1>11. CASE RolesStep(r)
  <2>1. /\ why'[r] = "forbidden" /\ Here(r)[1] = "roles" /\ ~input[r].admin
        /\ \E t \in joined[r]["roles"] : HomeOf[t] # input[r].home
    BY <1>2, <1>3, <1>11 DEF RolesStep
  <2>2. kind = "membership" /\ input[r].op \in {"create", "update"}
    BY <1>4, <1>6, <1>7, <2>1 DEF Named, Writes
  <2>3. ~past[r].raced => ForeignRoles(r)
    BY <1>1, <1>5, <2>1, <2>2 DEF Rolled, Described, Fair, Fresh, ForeignRoles
  <2>4. QED
    BY <2>1, <2>3 DEF Excuse
<1>12. CASE UpdateStep(r)
  <2>1. /\ Here(r)[1] = "update"
        /\ \/ why'[r] = "broken" /\ (~(Written(r) \subseteq Cols(kind)) \/ kind = "policy")
           \/ why'[r] = "notFound"
           \/ why'[r] = "conflict" /\ Clashes(Subject(r), Renewed(r))
           \/ why'[r] = "invalid"
    BY <1>2, <1>3, <1>12 DEF UpdateStep, Renewed
  <2>2. kind = "membership" /\ input[r].op = "update"
    BY <1>5, <1>7, <2>1 DEF Named
  <2>3. why'[r] # "conflict"
    BY <1>1, <2>1, <2>2 DEF Clashes, Conveyed
  <2>4. why'[r] # "broken"
    <3>1. Written(r) \subseteq Layers[kind].updates \cap Layers[kind].sets
      BY <2>2 DEF Written
    <3>2. QED
      BY <1>1, <2>1, <2>2, <3>1 DEF Conveyed
  <2>5. QED
    BY <2>1, <2>2, <2>3, <2>4 DEF Excuse
<1>13. CASE RelinkStep(r)
  <2>1. why'[r] = "conflict" /\ Here(r)[1] = "relink"
    BY <1>2, <1>3, <1>13 DEF RelinkStep
  <2>2. Takes(input[r], Here(r)) /\ Arg(r) \in Joins[kind] /\ input[r].op \in {"create", "update"}
    BY <1>7, <1>13, <2>1 DEF Named, Arg, RelinkStep
  <2>3. /\ \/ Subject(r) \notin DOMAIN rows
           \/ input[r].list \cap links[Subject(r)][Arg(r)] # {}
           \/ \E t \in input[r].list : HomeOf[t] = Nowhere
    BY <1>2, <1>13 DEF RelinkStep, TypeOK
  <2>4. ASSUME ~past[r].raced, \A t \in input[r].list : HomeOf[t] # Nowhere PROVE FALSE
    <3>1. Passed(r, "insert") \/ Passed(r, "update") \/ Passed(r, "join")
      BY <1>1, <2>1, Before
    <3>2. Subject(r) \in DOMAIN rows
      BY <1>1, <2>4, <3>1 DEF Knows, There, Visible
    <3>3. ~past[r].after
      BY <1>1, <2>4 DEF Knows, Recorded
    <3>4. Takes(input[r], <<"unlink", Arg(r)>>)
      BY <2>1, <2>2 DEF Takes, Arg
    <3>5. links[Subject(r)][Arg(r)] = {}
      BY <1>1, <2>1, <3>2, <3>3, <3>4 DEF Cleared
    <3>6. QED
      BY <2>3, <2>4, <3>2, <3>5
  <2>5. QED
    BY <2>1, <2>4 DEF Excuse
<1>14. QED
  BY <1>2, <1>5, <1>8, <1>9, <1>10, <1>11, <1>12, <1>13
     DEF Step, PassStep, EscalateStep, UnlinkStep, CountStep, ValidateStep, FreeStep, MemberStep,
         InsertStep, RemoveStep, ListStep

LEMMA NextExcused ==
    ASSUME TypeOK, Grounds, \A r \in Requests : Rolled(r), Excused, [Next]_vars
    PROVE  Excused'
<1> SUFFICES ASSUME NEW r \in Requests, (pc[r] = "refused" /\ past[r].touched)'
             PROVE  Excuse(r, why[r])'
  BY DEF Excused
<1> USE DEF Grounds
<1>1. CASE Spared(r)
  <2>1. /\ input'[r] = input[r] /\ why'[r] = why[r] /\ kind' = kind
        /\ past[r].raced => past'[r].raced
        /\ Excuse(r, why[r])
    BY <1>1 DEF Spared, Same, Excused
  <2>2. QED
    BY <2>1 DEF Excuse, ForeignRoles
<1>2. CASE Begins(r)
  BY <1>2 DEF Begins
<1>3. CASE Halts(r)
  <2>1. pc[r] = "running" /\ UNCHANGED <<past, input, kind>> /\ past[r].touched
    BY <1>3 DEF Halts
  <2>2. Step(r)
    <3>1. PICK q \in Requests : Start(q) \/ Step(q) \/ Drop(q)
      BY <2>1 DEF Next, vars
    <3>2. CASE Step(q)
      <4>1. q = r
        BY <2>1, <3>2, StepApart DEF Apart
      <4>2. QED
        BY <3>2, <4>1
    <3>3. CASE Start(q) \/ Drop(q)
      BY <2>1, <3>3 DEF Start, Drop, TypeOK
    <3>4. QED
      BY <3>1, <3>2, <3>3
  <2>3. Excuse(r, why'[r])
    BY <2>1, <2>2, StepExcuses
  <2>4. QED
    BY <2>1, <2>3 DEF Excuse, ForeignRoles
<1>4. CASE Goes(r)
  BY <1>4 DEF Goes
<1>5. QED
  BY <1>1, <1>2, <1>3, <1>4, Moves

(* A request that is refused has written nothing, but in the cases of Excuse *)
THEOREM RefusalsLeaveTheTable == Spec => []RefusalsLeaveNothing
<1> DEFINE RefusalInv == Grounds /\ Excused /\ \A r \in Requests : Rolled(r)
<1>1. Init => RefusalInv
  BY InitGrounds, InitRolled DEF Excused, Init
<1>2. TypeOK /\ RefusalInv /\ [Next]_vars => RefusalInv'
  <2> SUFFICES ASSUME TypeOK, RefusalInv, [Next]_vars PROVE RefusalInv'
    OBVIOUS
  <2>1. Grounds' /\ Excused'
    BY NextGrounds, NextExcused
  <2>2. \A r \in Requests : Rolled(r)'
    BY <2>1, NextRolled DEF Grounds
  <2>3. QED
    BY <2>1, <2>2
<1>3. RefusalInv => RefusalsLeaveNothing
  BY DEF Excused, RefusalsLeaveNothing, Excuse
<1> HIDE DEF RefusalInv
<1>4. QED
  BY <1>1, <1>2, <1>3, InitTypes, NextTypes, PTL DEF Spec

-----------------------------------------------------------------------------
(* Answers.  What a request has written is in its row and in what it shows; a list that it *)
(* has filled is what is linked, and what it has read again; what it has listed and        *)
(* counted is what there is to list                                                        *)
Going(r) == pc[r] \in {"running", "answered"} /\ input[r].op \in {"create", "update"}
RowShown(r) ==
    Going(r) /\ (Passed(r, "insert") \/ Passed(r, "update")) /\ ~past[r].after =>
        /\ Subject(r) \in DOMAIN rows /\ shown[r] = Shown(rows[Subject(r)])
        /\ \A f \in input[r].given \ Joins[kind] :
            f \in Cols(kind) /\ rows[Subject(r)].cols[f] = input[r].text
Linking(r, j) == j \in input[r].given \cap Joins[kind] /\ <<"relink", j>> \in Done(r)
ListsLinked(r) ==
    Going(r) => \A j \in Joins[kind] : Linking(r, j) =>
        /\ past[r].touched \/ Subject(r) \notin DOMAIN rows
        /\ ~past[r].after /\ Subject(r) \in DOMAIN rows => links[Subject(r)][j] = input[r].list
ListsRead(r) ==
    Going(r) /\ ~past[r].after => \A j \in input[r].given \cap Joins[kind] :
        \A n \in 1..(step[r] - 1) : \A m \in 1..(n - 1) :
            Route(r)[m] = <<"relink", j>> /\ Route(r)[n] = Join(j) => joined[r][j] = input[r].list
Counted(r) ==
    pc[r] \in {"running", "answered"} /\ input[r].op = "list" /\ ~past[r].raced =>
        /\ Passed(r, "count") => Passed(r, "list") /\ total[r] = Cardinality(listed[r])
        /\ pc[r] = "running" /\ Passed(r, "list") => listed[r] = Listed(r)
Answering(r) == RowShown(r) /\ ListsLinked(r) /\ ListsRead(r) /\ Counted(r)

LEMMA SpareAnswers ==
    ASSUME TypeOK, HistoryOK, NEW r \in Requests, Knows(r), Spared(r), Answering(r)
    PROVE  Answering(r)'
<1>1. /\ Subject(r)' = Subject(r) /\ kind' = kind /\ input'[r] = input[r] /\ pc'[r] = pc[r]
      /\ Done(r)' = Done(r) /\ Route(r)' = Route(r) /\ step'[r] = step[r]
      /\ past'[r].touched = past[r].touched /\ scope'[r] = scope[r]
      /\ past[r].raced => past'[r].raced
      /\ past[r].after => past'[r].after
      /\ shown'[r] = shown[r] /\ joined'[r] = joined[r] /\ total'[r] = total[r]
      /\ listed'[r] = listed[r]
  BY DEF Spared, Same
<1>2. /\ \A w : Passed(r, w)' <=> Passed(r, w)
      /\ Going(r)' <=> Going(r)
      /\ \A j : Linking(r, j)' <=> Linking(r, j)
  BY <1>1 DEF Passed, Going, Linking
<1>3. past[r].touched /\ ~past'[r].after => RowKept(Subject(r))
  BY DEF Spared
<1>4. RowShown(r)'
  <2>1. Passed(r, "insert") \/ Passed(r, "update") => past[r].touched
    BY DEF Knows, Recorded
  <2>2. QED
    BY <1>1, <1>2, <1>3, <2>1 DEF Answering, RowShown, RowKept, Shown
<1>5. ListsLinked(r)'
  <2>1. Subject(r) \in DOMAIN rows' => Subject(r) \in DOMAIN rows
    BY DEF Spared
  <2>2. QED
    BY <1>1, <1>2, <1>3, <2>1 DEF Answering, ListsLinked, RowKept
<1>6. ListsRead(r)'
  BY <1>1, <1>2 DEF Answering, ListsRead
<1>7. Counted(r)'
  <2>1. pc[r] = "running" /\ ~past'[r].raced => Listed(r)' = Listed(r)
    <3>1. pc[r] = "running" /\ ~past'[r].raced => UNCHANGED rows
      BY DEF Spared
    <3>2. QED
      BY <1>1, <3>1 DEF Listed, Visible
  <2>2. QED
    BY <1>1, <1>2, <2>1 DEF Answering, Counted
<1>8. QED
  BY <1>4, <1>5, <1>6, <1>7 DEF Answering

(* The columns that were given are written, and are columns of the table *)
LEMMA GivenWritten ==
    ASSUME TypeOK, HistoryOK, NEW r \in Requests, pc[r] = "running",
           input[r].op \in {"create", "update"}
    PROVE  /\ input[r].given \ Joins[kind] \subseteq Written(r)
           /\ input[r].op = "create" => input[r].given \ Joins[kind] \subseteq Cols(kind)
<1>1. input[r].given \subseteq Fields(kind, input[r].op) /\ Conveyed(kind)
  BY AtShape DEF HistoryOK, OnRoute
<1>2. QED
  BY <1>1 DEF Conveyed, Fields, Written

LEMMA GoAnswersRow ==
    ASSUME TypeOK, HistoryOK, NEW r \in Requests, Knows(r), Goes(r), RowShown(r)
    PROVE  RowShown(r)'
<1> SUFFICES ASSUME Going(r)', (Passed(r, "insert") \/ Passed(r, "update"))', ~past'[r].after
             PROVE  /\ Subject(r) \in DOMAIN rows' /\ shown'[r] = Shown(rows'[Subject(r)])
                    /\ \A f \in input[r].given \ Joins[kind] :
                        f \in Cols(kind) /\ rows'[Subject(r)].cols[f] = input[r].text
  BY DEF Goes, Same, RowShown, Shown, Cols
<1>1. /\ pc[r] = "running" /\ Going(r) /\ past'[r].after = past[r].after
      /\ \A w : Passed(r, w)' <=> Passed(r, w) \/ Here(r)[1] = w
  BY StepWrites, PassedNext DEF Goes, Same, Going, Writing
<1>2. CASE Here(r)[1] = "insert"
  <2>1. Subject(r) = r /\ rows'[r] = NewRow(r) /\ r \in DOMAIN rows' /\ shown'[r] = Shown(NewRow(r))
        /\ input[r].op = "create"
    <3>1. /\ Subject(r) = r /\ shown'[r] = Shown(NewRow(r)) /\ input[r].op = "create"
          /\ rows' = [id \in DOMAIN rows \cup {r} |-> IF id = r THEN NewRow(r) ELSE rows[id]]
      BY <1>2, GoesInsert
    <3>2. QED
      BY <3>1
  <2>2. QED
    BY <1>1, <2>1, GivenWritten DEF NewRow
<1>3. CASE Here(r)[1] = "update"
  <2>1. /\ rows' = [rows EXCEPT ![Subject(r)] = Renewed(r)] /\ Subject(r) \in DOMAIN rows
        /\ shown'[r] = Shown(Renewed(r)) /\ Written(r) \subseteq Cols(kind) /\ input[r].op = "update"
    BY <1>3, GoesUpdate
  <2>2. rows'[Subject(r)] = Renewed(r) /\ Subject(r) \in DOMAIN rows'
    BY <2>1 DEF TypeOK
  <2>3. QED
    BY <1>1, <2>1, <2>2, GivenWritten DEF Renewed
<1>4. CASE Here(r)[1] \notin {"insert", "update"}
  <2>1. /\ Subject(r) \in DOMAIN rows /\ shown[r] = Shown(rows[Subject(r)])
        /\ \A f \in input[r].given \ Joins[kind] :
                        f \in Cols(kind) /\ rows[Subject(r)].cols[f] = input[r].text
    BY <1>1, <1>4 DEF RowShown
  <2>2. UNCHANGED rows
    <3>1. Here(r)[1] # "remove"
      BY <1>1, GoesRemove DEF Going
    <3>2. CASE Here(r)[1] \in {"unlink", "relink"} /\ Takes(input[r], Here(r))
      BY <3>2, GoesUnlink, GoesRelink
    <3>3. CASE ~(Here(r)[1] \in {"unlink", "relink"} /\ Takes(input[r], Here(r)))
      BY <1>4, <3>1, <3>3, GoesQuietly DEF Writes
    <3>4. QED
      BY <3>2, <3>3
  <2>3. shown'[r] = Shown(rows[Subject(r)])
    <3>1. DOMAIN shown = Requests
      BY DEF HistoryOK
    <3>2. CASE Here(r)[1] = "find"
      <4>1. FindStep(r) /\ ~Refuse(r, "notFound")
        BY <3>2, GoesBy, Taken DEF Goes, Refused, Outcomes
      <4>2. QED
        BY <3>1, <4>1 DEF FindStep
    <3>3. CASE Here(r)[1] = "join"
      <4>1. JoinStep(r) /\ ~Refuse(r, "notFound")
        BY <3>3, GoesBy, Taken DEF Goes, Refused, Outcomes
      <4>2. QED
        BY <3>1, <4>1 DEF JoinStep
    <3>4. CASE Here(r)[1] \notin {"find", "join", "insert", "update"}
      <4>1. shown' = shown
        BY <3>4, GoesBy DEF Goes, PassStep, AskStep, EscalateStep, ValidateStep,
           FreeStep, MemberStep, RolesStep, ListStep, CountStep, RemoveStep, UnlinkStep,
           RelinkStep, Refused, Outcomes, seen
      <4>2. QED
        BY <2>1, <4>1
    <3>5. QED
      BY <1>4, <3>2, <3>3, <3>4
  <2>4. QED
    BY <2>1, <2>2, <2>3
<1>5. QED
  BY <1>2, <1>3, <1>4

LEMMA GoAnswersLinks ==
    ASSUME TypeOK, HistoryOK, NEW r \in Requests, Goes(r), Cleared(r), ListsLinked(r)
    PROVE  ListsLinked(r)'
<1> SUFFICES ASSUME Going(r)', NEW j \in Joins[kind], Linking(r, j)'
             PROVE  /\ past'[r].touched \/ Subject(r) \notin DOMAIN rows'
                    /\ ~past'[r].after /\ Subject(r) \in DOMAIN rows' =>
                            links'[Subject(r)][j] = input[r].list
  BY DEF Goes, Same, ListsLinked
<1>1. /\ pc[r] = "running" /\ Going(r) /\ past'[r].after = past[r].after
      /\ past[r] \in Past /\ j \in input[r].given
      /\ Done(r)' = Done(r) \cup {Here(r)} /\ <<"relink", j>> \in Done(r)'
  BY StepWrites, InputTypes DEF Goes, Same, Going, Writing, Linking
<1>2. Subject(r) \in DOMAIN rows => links[Subject(r)] \in [Joins[kind] -> SUBSET Targets]
                                    /\ Subject(r) \in DOMAIN links
  BY DEF TypeOK
<1>3. ASSUME Here(r) = <<"relink", j>>
      PROVE  /\ past'[r].touched \/ Subject(r) \notin DOMAIN rows'
             /\ ~past'[r].after /\ Subject(r) \in DOMAIN rows' =>
                            links'[Subject(r)][j] = input[r].list
  <2>1. Here(r)[1] = "relink" /\ Arg(r) = j
    BY <1>3 DEF Arg
  <2>2. Takes(input[r], <<"unlink", j>>)
    <3>1. input[r].op = "update" => input[r].given \subseteq Layers[kind].updates
      BY DEF HistoryOK, OnRoute, Fields
    <3>2. QED
      BY <1>1, <3>1 DEF Takes, Going
  <2>3. /\ past[r].touched \/ Subject(r) \notin DOMAIN rows
        /\ ~past[r].after /\ Subject(r) \in DOMAIN rows => links[Subject(r)][j] = {}
    BY <1>1, <2>1, <2>2 DEF Cleared
  <2>4. CASE Takes(input[r], Here(r))
    <3>1. /\ UNCHANGED rows /\ Subject(r) \in DOMAIN rows
          /\ links' = [links EXCEPT ![Subject(r)][Arg(r)] =
                            links[Subject(r)][Arg(r)] \cup input[r].list]
          /\ past'[r] = [past[r] EXCEPT !.open = @ \ {Arg(r)}, !.filled = @ \cup {Arg(r)}]
      BY <2>1, <2>4, GoesRelink
    <3>2. links'[Subject(r)] = [links[Subject(r)] EXCEPT ![j] = links[Subject(r)][j] \cup input[r].list]
      BY <1>2, <2>1, <3>1
    <3>3. past'[r].touched = past[r].touched
      BY <1>1, <3>1 DEF Past
    <3>4. links'[Subject(r)][j] = links[Subject(r)][j] \cup input[r].list
      BY <1>2, <3>1, <3>2
    <3>5. QED
      BY <1>1, <2>3, <3>1, <3>3, <3>4
  <2>5. CASE ~Takes(input[r], Here(r))
    <3>1. UNCHANGED <<rows, links, past>>
      BY <2>5, GoesQuietly
    <3>2. input[r].list = {}
      <4>1. input[r].given \subseteq (IF input[r].op = "create" THEN Layers[kind].creates
                                                              ELSE Layers[kind].updates)
        BY <1>1 DEF HistoryOK, OnRoute, Fields, Going
      <4>2. Takes(input[r], <<"relink", j>>) <=>
                /\ input[r].list # {}
                /\ j \in input[r].given \cap (IF input[r].op = "create" THEN Layers[kind].creates
                                              ELSE Layers[kind].updates)
        BY DEF Takes
      <4>3. QED
        BY <1>1, <1>3, <2>5, <4>1, <4>2
    <3>3. QED
      BY <2>3, <3>1, <3>2
  <2>6. QED
    BY <2>4, <2>5
<1>4. CASE Here(r) # <<"relink", j>>
  <2>1. <<"relink", j>> \in Done(r) /\ Linking(r, j)
    BY <1>1, <1>4 DEF Linking
  <2>2. /\ past[r].touched \/ Subject(r) \notin DOMAIN rows
        /\ ~past[r].after /\ Subject(r) \in DOMAIN rows => links[Subject(r)][j] = input[r].list
    BY <1>1, <2>1 DEF ListsLinked
  <2>3. ~(Here(r)[1] \in {"unlink", "relink"} /\ Arg(r) = j)
    BY <1>1, <2>1, AfterWrites
  <2>4. Here(r)[1] \notin {"insert", "remove"}
    BY <1>1, <2>1, AfterWrites DEF Passed, Writes
  <2>5. CASE Here(r)[1] = "update"
    <3>1. /\ rows' = [rows EXCEPT ![Subject(r)] = Renewed(r)] /\ links' = links
          /\ past'[r] = [past[r] EXCEPT !.touched = TRUE]
      BY <2>5, GoesUpdate
    <3>2. past'[r].touched /\ DOMAIN rows' = DOMAIN rows
      BY <1>1, <3>1 DEF Past
    <3>3. QED
      BY <1>1, <2>2, <3>1, <3>2
  <2>6. CASE Here(r)[1] = "unlink" /\ Takes(input[r], Here(r))
    <3>1. /\ UNCHANGED rows /\ Arg(r) # j
          /\ links' = IF Subject(r) \in DOMAIN rows
                       THEN [links EXCEPT ![Subject(r)][Arg(r)] = {}] ELSE links
          /\ past'[r] = [past[r] EXCEPT !.touched = @ \/ Subject(r) \in DOMAIN rows,
                                         !.open = @ \cup {Arg(r)}]
      BY <2>3, <2>6, GoesUnlink
    <3>2. past[r].touched => past'[r].touched
      BY <1>1, <3>1 DEF Past
    <3>3. Subject(r) \in DOMAIN rows => links'[Subject(r)][j] = links[Subject(r)][j]
      BY <1>2, <3>1
    <3>4. QED
      BY <1>1, <2>2, <3>1, <3>2, <3>3
  <2>7. CASE Here(r)[1] = "relink" /\ Takes(input[r], Here(r))
    <3>1. /\ UNCHANGED rows /\ Arg(r) # j
          /\ links' = [links EXCEPT ![Subject(r)][Arg(r)] =
                            links[Subject(r)][Arg(r)] \cup input[r].list]
          /\ past'[r] = [past[r] EXCEPT !.open = @ \ {Arg(r)}, !.filled = @ \cup {Arg(r)}]
      BY <2>3, <2>7, GoesRelink
    <3>2. past[r].touched => past'[r].touched
      BY <1>1, <3>1 DEF Past
    <3>3. Subject(r) \in DOMAIN rows => links'[Subject(r)][j] = links[Subject(r)][j]
      BY <1>2, <3>1
    <3>4. QED
      BY <1>1, <2>2, <3>1, <3>2, <3>3
  <2>8. CASE \/ Here(r)[1] \notin Writes
             \/ Here(r)[1] \in {"unlink", "relink"} /\ ~Takes(input[r], Here(r))
    <3>1. UNCHANGED <<rows, links, past>>
      BY <2>8, GoesQuietly
    <3>2. QED
      BY <2>2, <3>1
  <2>9. QED
    BY <2>4, <2>5, <2>6, <2>7, <2>8 DEF Writes
<1>5. QED
  BY <1>3, <1>4

(* What was joined changes by the steps that read it *)
LEMMA GoesUnjoined ==
    ASSUME NEW r, Goes(r), Here(r)[1] \notin {"join", "list"} PROVE joined' = joined
BY GoesBy DEF Goes, PassStep, AskStep, EscalateStep, FindStep, ValidateStep, FreeStep, MemberStep,
   RolesStep, InsertStep, UpdateStep, CountStep, RemoveStep, UnlinkStep, RelinkStep, Refused,
   Outcomes, seen

LEMMA GoAnswersLists ==
    ASSUME TypeOK, HistoryOK, NEW r \in Requests, Knows(r), Goes(r), ListsLinked(r), ListsRead(r)
    PROVE  ListsRead(r)'
<1> SUFFICES ASSUME Going(r)', ~past'[r].after, NEW j \in input[r].given \cap Joins[kind],
                    NEW n \in 1..step[r], NEW m \in 1..(n - 1),
                    Route(r)[m] = <<"relink", j>>, Route(r)[n] = Join(j)
             PROVE  joined'[r][j] = input[r].list
  <2>1. step'[r] - 1 = step[r]
    BY DEF Goes, Advance, TypeOK
  <2>2. QED
    BY <2>1 DEF Goes, Same, ListsRead
<1>1. /\ pc[r] = "running" /\ Going(r) /\ past'[r].after = past[r].after /\ step[r] \in Nat
      /\ joined[r] \in [Joins[kind] -> SUBSET Targets]
  BY StepWrites DEF Goes, Same, Going, Writing, TypeOK
<1>2. Linking(r, j)
  <2>1. m \in 1..(step[r] - 1)
    BY <1>1
  <2>2. QED
    BY <2>1 DEF Linking, Done
<1>3. Subject(r) \in DOMAIN rows => links[Subject(r)][j] = input[r].list
  BY <1>1, <1>2 DEF ListsLinked
<1>4. CASE Here(r)[1] = "join"
  <2>1. /\ Arg(r) \in Joins[kind] /\ Subject(r) \in DOMAIN rows
        /\ joined'[r] = [joined[r] EXCEPT ![Arg(r)] = links[Subject(r)][Arg(r)]]
    <3>1. Arg(r) \in Joins[kind]
      BY <1>1, <1>4, AtShape DEF Shaped, Named, Arg
    <3>2. QED
      BY <1>4, <3>1, GoesJoin
  <2>2. CASE Arg(r) = j
    BY <1>1, <1>3, <2>1, <2>2
  <2>3. CASE Arg(r) # j
    <3>1. n # step[r]
      BY <2>3 DEF Arg, Here, Join
    <3>2. joined[r][j] = input[r].list
      BY <1>1, <3>1 DEF ListsRead
    <3>3. QED
      BY <1>1, <2>1, <2>3, <3>2
  <2>4. QED
    BY <2>2, <2>3
<1>5. CASE Here(r)[1] # "join"
  <2>1. Here(r)[1] # "list"
    BY <1>1, AtShape DEF Shaped, Named, Going
  <2>2. joined' = joined
    BY <1>5, <2>1, GoesUnjoined
  <2>3. n # step[r]
    BY <1>5 DEF Here, Join
  <2>4. QED
    BY <1>1, <2>2, <2>3 DEF ListsRead
<1>6. QED
  BY <1>4, <1>5

LEMMA GoAnswersCount ==
    ASSUME TypeOK, HistoryOK, NEW r \in Requests, Knows(r), Goes(r), Counted(r)
    PROVE  Counted(r)'
<1> SUFFICES ASSUME input[r].op = "list", ~past'[r].raced
             PROVE  /\ Passed(r, "count")' => Passed(r, "list")'
                                                /\ total'[r] = Cardinality(listed'[r])
                    /\ Passed(r, "list")' => listed'[r] = Listed(r)'
  BY DEF Goes, Same, Counted
<1>1. /\ pc[r] = "running" /\ past'[r].raced = past[r].raced
      /\ \A w : Passed(r, w)' <=> Passed(r, w) \/ Here(r)[1] = w
  BY StepWrites, PassedNext DEF Goes, Writing
<1>2. /\ Passed(r, "count") => Passed(r, "list") /\ total[r] = Cardinality(listed[r])
      /\ Passed(r, "list") => listed[r] = Listed(r)
  BY <1>1 DEF Counted
<1>3. UNCHANGED <<rows, links>> /\ Here(r)[1] \notin Writes
  <2>1. Here(r)[1] \notin Writes
    BY <1>1, AtShape DEF Shaped, Named, Writes
  <2>2. QED
    BY <2>1, GoesQuietly
<1>4. Passed(r, "list") => Here(r)[1] \notin {"ask", "askHome", "askNobody"}
  BY <1>1, Before
<1>5. Here(r)[1] \notin {"ask", "askHome", "askNobody"} => Listed(r)' = Listed(r)
  <2>1. Here(r)[1] \notin {"ask", "askHome", "askNobody"} => scope' = scope
    BY GoesScope
  <2>2. QED
    BY <1>3, <2>1 DEF Listed, Visible, Goes, Same
<1>6. DOMAIN total = Requests /\ DOMAIN listed = Requests
  BY DEF HistoryOK, TypeOK
<1>7. CASE Here(r)[1] = "list"
  <2>1. ListStep(r) /\ ~Refuse(r, "broken")
    BY <1>7, GoesBy, Taken DEF Goes, Refused, Outcomes
  <2>2. listed'[r] = Listed(r) /\ total' = total
    BY <1>6, <2>1 DEF ListStep
  <2>3. QED
    BY <1>1, <1>2, <1>5, <1>7, <2>2
<1>8. CASE Here(r)[1] = "count"
  <2>1. CountStep(r)
    BY <1>8, GoesBy, Taken
  <2>2. total'[r] = Cardinality(Listed(r)) /\ listed' = listed /\ Passed(r, "list")
    BY <1>1, <1>6, <1>8, <2>1, Before DEF CountStep
  <2>3. QED
    BY <1>1, <1>2, <1>5, <1>8, <2>2
<1>9. CASE Here(r)[1] \notin {"list", "count"}
  <2>1. listed' = listed /\ total' = total
    BY <1>9, GoesBy DEF Goes, PassStep, AskStep, EscalateStep, FindStep, JoinStep, ValidateStep,
       FreeStep, MemberStep, RolesStep, InsertStep, UpdateStep, RemoveStep, UnlinkStep,
       RelinkStep, Refused, Outcomes, seen
  <2>2. QED
    BY <1>1, <1>2, <1>4, <1>5, <1>9, <2>1
<1>10. QED
  BY <1>7, <1>8, <1>9

LEMMA NextAnswering ==
    ASSUME TypeOK, Grounds, [Next]_vars, NEW r \in Requests, Answering(r)
    PROVE  Answering(r)'
<1> USE DEF Grounds, KnowsAll
<1>1. CASE Spared(r)
  BY <1>1, SpareAnswers
<1>2. CASE Begins(r)
  <2>1. Done(r)' = {} /\ \A w : ~Passed(r, w)'
    BY <1>2 DEF Begins, Passed
  <2>2. step'[r] = 1
    BY <1>2 DEF HistoryOK, Begins, OnRoute, Start
  <2>3. ListsRead(r)'
    BY <2>2 DEF ListsRead
  <2>4. QED
    BY <2>1, <2>3 DEF Answering, RowShown, ListsLinked, Linking, Counted
<1>3. CASE Halts(r)
  BY <1>3 DEF Halts, Answering, RowShown, ListsLinked, ListsRead, Counted, Going
<1>4. CASE Goes(r)
  BY <1>4, GoAnswersRow, GoAnswersLinks, GoAnswersLists, GoAnswersCount DEF Answering
<1>5. QED
  BY <1>1, <1>2, <1>3, <1>4, Moves

LEMMA InitAnswering == ASSUME Init, NEW r \in Requests PROVE Answering(r)
BY DEF Init, Answering, RowShown, ListsLinked, ListsRead, Counted, Going

(* What an answer owes holds when its request is at the end of its route *)
LEMMA AnswersSuffice ==
    TypeOK /\ HistoryOK /\ (\A r \in Requests : Answering(r)) => AnswersShowWhatWasAsked
<1> SUFFICES ASSUME TypeOK, HistoryOK, NEW r \in Requests, Answering(r), pc[r] = "answered"
             PROVE  LET i == input[r]
                        row == rows[Subject(r)]
                    IN  /\ i.op \in {"create", "update"} /\ ~past[r].after =>
                            /\ \A f \in i.given \ Joins[kind] :
                                /\ row.cols[f] = i.text
                                /\ f \notin Hidden(kind) =>
                                    f \in DOMAIN shown[r] /\ shown[r][f] = i.text
                            /\ \A j \in (i.given \cap Joins[kind]) \ Ignored(kind, i.op) :
                                links[Subject(r)][j] = i.list /\ joined[r][j] = i.list
                        /\ i.op = "list" /\ ~past[r].raced => total[r] = Cardinality(listed[r])
  BY DEF AnswersShowWhatWasAsked
<1> DEFINE s == Route(r)
<1>1. /\ Shaped(kind, input[r].op, s) /\ Conveyed(kind) /\ Len(s) \in Nat \ {0}
      /\ step[r] = Len(s) + 1 /\ input[r].given \subseteq Fields(kind, input[r].op)
  BY RouteShape DEF HistoryOK, OnRoute
<1>2. step[r] - 1 = Len(s) /\ Done(r) = {s[n] : n \in 1..Len(s)}
  BY <1>1 DEF Done
<1> HIDE DEF s
<1>3. ASSUME input[r].op \in {"create", "update"}, ~past[r].after
      PROVE  /\ \A f \in input[r].given \ Joins[kind] :
                    /\ rows[Subject(r)].cols[f] = input[r].text
                    /\ f \notin Hidden(kind) =>
                        f \in DOMAIN shown[r] /\ shown[r][f] = input[r].text
             /\ \A j \in (input[r].given \cap Joins[kind]) \ Ignored(kind, input[r].op) :
                    links[Subject(r)][j] = input[r].list /\ joined[r][j] = input[r].list
  <2>1. Passed(r, "insert") \/ Passed(r, "update")
    BY <1>1, <1>2, <1>3 DEF Shaped, Complete, Passed
  <2>2. /\ Subject(r) \in DOMAIN rows /\ shown[r] = Shown(rows[Subject(r)])
        /\ \A f \in input[r].given \ Joins[kind] :
            f \in Cols(kind) /\ rows[Subject(r)].cols[f] = input[r].text
    BY <1>3, <2>1 DEF Answering, RowShown, Going
  <2>3. DOMAIN rows[Subject(r)].cols = Cols(kind)
    BY <2>2 DEF TypeOK, Row
  <2>4. ASSUME NEW f \in input[r].given \ Joins[kind], f \notin Hidden(kind)
        PROVE  f \in DOMAIN shown[r] /\ shown[r][f] = input[r].text
    <3>1. f \in Layers[kind].creates \cup Layers[kind].updates
      BY <1>1, <1>3 DEF Fields
    <3>2. f \in Layers[kind].shown
      BY <1>1, <2>2, <2>4, <3>1 DEF Conveyed
    <3>3. QED
      BY <2>2, <2>3, <3>2 DEF Shown
  <2>5. ASSUME NEW j \in (input[r].given \cap Joins[kind]) \ Ignored(kind, input[r].op)
        PROVE  links[Subject(r)][j] = input[r].list /\ joined[r][j] = input[r].list
    <3>1. PICK m \in 1..Len(s), n \in 1..Len(s) :
                m < n /\ s[m] = <<"relink", j>> /\ s[n] = Join(j)
      BY <1>1, <1>3 DEF Shaped, Complete
    <3>2. Linking(r, j)
      BY <1>2, <3>1 DEF Linking
    <3>3. n \in 1..(step[r] - 1) /\ m \in 1..(n - 1)
      BY <1>1, <1>2, <3>1
    <3>4. joined[r][j] = input[r].list
      BY <1>3, <3>1, <3>3 DEF Answering, ListsRead, Going, s
    <3>5. QED
      BY <1>3, <2>2, <3>2, <3>4 DEF Answering, ListsLinked, Going
  <2>6. QED
    BY <2>2, <2>4, <2>5
<1>4. ASSUME input[r].op = "list", ~past[r].raced PROVE total[r] = Cardinality(listed[r])
  <2>1. Passed(r, "count")
    <3>1. PICK n \in 2..Len(s) : s[n] = Count
      BY <1>1, <1>4 DEF Shaped, Complete
    <3>2. n \in 1..Len(s) /\ s[n][1] = "count"
      BY <1>1, <3>1 DEF Count
    <3>3. QED
      BY <1>2, <3>2 DEF Passed
  <2>2. QED
    BY <1>4, <2>1 DEF Answering, Counted
<1>5. QED
  BY <1>3, <1>4

(* An answer shows what was asked, and what was asked is what is stored, unless another *)
(* request wrote the row; and a list agrees with its count unless another one wrote      *)
THEOREM AnswersAreTrue == Spec => []AnswersShowWhatWasAsked
<1> DEFINE AnswerInv == Grounds /\ \A r \in Requests : Answering(r)
<1>1. Init => AnswerInv
  BY InitGrounds, InitAnswering
<1>2. TypeOK /\ AnswerInv /\ [Next]_vars => AnswerInv'
  BY NextGrounds, NextAnswering
<1>3. TypeOK /\ AnswerInv => AnswersShowWhatWasAsked
  BY AnswersSuffice DEF Grounds
<1> HIDE DEF AnswerInv
<1>4. QED
  BY <1>1, <1>2, <1>3, InitTypes, NextTypes, PTL DEF Spec

-----------------------------------------------------------------------------
(* The links of a row.  Untouched: nobody has cleared or filled the list.  Last: it has been *)
(* cleared, the last time by `last`, and filled since by `writers`; who could fill it then   *)
(* beside the last is marked as mixed                                                        *)
Opens(q, id, j) == Subject(q) = id /\ j \in past[q].open
Fills(q, id, j) == Subject(q) = id /\ j \in past[q].filled
Original(id, j) ==
    /\ \A q \in Requests : ~Opens(q, id, j) /\ ~Fills(q, id, j)
    /\ links[id][j] = IF id \in Stored THEN Linked[id] ELSE {}
Replaced(id, j, writers, last) ==
    /\ \A q \in writers : Fills(q, id, j)
    /\ last \in writers \/ Opens(last, id, j)
    /\ \A q \in Requests \ {last} : q \in writers \/ Opens(q, id, j) => j \in past[q].mixed
    /\ links[id][j] = UNION {input[q].list : q \in writers}
OneList(id, j) ==
    Original(id, j) \/ \E writers \in SUBSET Requests, last \in Requests :
                            Replaced(id, j, writers, last)
Lists == \A id \in DOMAIN rows : \A j \in Joins[kind] : OneList(id, j)

LEMMA InitLists == Init => Lists
<1> SUFFICES ASSUME Init, NEW id \in DOMAIN rows, NEW j \in Joins[kind] PROVE Original(id, j)
  BY DEF Lists, OneList
<1>1. \A q \in Requests : past[q] = Untouched
  BY DEF Init
<1>2. QED
  BY <1>1 DEF Init, Original, Opens, Fills, Untouched

(* Nothing happens to a list that nobody clears or fills *)
LEMMA ListKept ==
    ASSUME NEW id, NEW j, OneList(id, j), links'[id][j] = links[id][j],
           \A q \in Requests :
                /\ Opens(q, id, j)' <=> Opens(q, id, j)
                /\ Fills(q, id, j)' <=> Fills(q, id, j)
                /\ Opens(q, id, j) \/ Fills(q, id, j) =>
                        input'[q].list = input[q].list /\ past[q].mixed \subseteq past'[q].mixed
    PROVE  OneList(id, j)'
<1>1. CASE Original(id, j)
  BY <1>1 DEF Original, OneList
<1>2. ASSUME NEW writers \in SUBSET Requests, NEW last \in Requests,
             Replaced(id, j, writers, last)
      PROVE  Replaced(id, j, writers, last)'
  <2>1. \A q \in writers : Fills(q, id, j) /\ input'[q].list = input[q].list
    BY <1>2 DEF Replaced
  <2>2. {input[q].list : q \in writers}' = {input[q].list : q \in writers}
    BY <2>1
  <2>3. \A q \in Requests \ {last} : q \in writers \/ Opens(q, id, j)' => j \in past'[q].mixed
    BY <1>2, <2>1 DEF Replaced
  <2>4. QED
    BY <1>2, <2>1, <2>2, <2>3 DEF Replaced
<1>3. QED
  BY <1>1, <1>2 DEF OneList

(* A request that has cleared or filled anything keeps its row and its list *)
LEMMA Steady ==
    ASSUME TypeOK, HistoryOK, [Next]_vars, NEW r \in Requests,
           past[r].open \cup past[r].filled \cup past'[r].open \cup past'[r].filled # {}
    PROVE  Subject(r)' = Subject(r) /\ input'[r].list = input[r].list
<1>1. CASE Begins(r)
  <2>1. past[r].open = {} /\ past[r].filled = {}
    BY <1>1 DEF Begins, HistoryOK, OnRoute
  <2>2. QED
    BY <1>1, <2>1 DEF Begins
<1>2. QED
  BY <1>1, Moves DEF Spared, Halts, Goes, Same

(* What the others have cleared and filled, and whether they are mixed *)
LEMMA OthersKept ==
    ASSUME TypeOK, HistoryOK, [Next]_vars, NEW q \in Requests, Step(q), Writing(q),
           NEW r \in Requests \ {q}, NEW id, NEW j
    PROVE  /\ Opens(r, id, j)' <=> Opens(r, id, j)
           /\ Fills(r, id, j)' <=> Fills(r, id, j)
           /\ input'[r].list = input[r].list /\ past[r].mixed \subseteq past'[r].mixed
BY StepApart DEF Writing, Marked, Apart, Same, Opens, Fills

LEMMA NextLists == ASSUME TypeOK, TypeOK', Grounds, Lists, [Next]_vars PROVE Lists'
<1> USE DEF Grounds, KnowsAll
<1>1. CASE UNCHANGED <<kind, rows, links, past>>
  <2> SUFFICES ASSUME NEW id \in DOMAIN rows, NEW j \in Joins[kind] PROVE OneList(id, j)'
    BY <1>1 DEF Lists
  <2>1. ASSUME NEW q \in Requests
        PROVE  /\ Opens(q, id, j)' <=> Opens(q, id, j)
               /\ Fills(q, id, j)' <=> Fills(q, id, j)
               /\ Opens(q, id, j) \/ Fills(q, id, j) =>
                        input'[q].list = input[q].list /\ past[q].mixed \subseteq past'[q].mixed
    BY <1>1, Steady DEF Opens, Fills
  <2>2. OneList(id, j) /\ links'[id][j] = links[id][j]
    BY <1>1 DEF Lists
  <2>3. QED
    BY <2>1, <2>2, ListKept
<1>2. ASSUME NEW q \in Requests, Step(q), Goes(q), Here(q)[1] \in Writes, Takes(input[q], Here(q))
      PROVE  Lists'
  <2> SUFFICES ASSUME NEW id \in DOMAIN rows', NEW j \in Joins[kind] PROVE OneList(id, j)'
    BY <1>2 DEF Lists, Goes, Same
  <2>1. /\ past[q] \in Past /\ pc[q] = "running" /\ Same(q) /\ id \in Ids
        /\ id \in DOMAIN rows => id \in DOMAIN links /\ links[id] \in [Joins[kind] -> SUBSET Targets]
    BY <1>2, InputTypes DEF Goes, TypeOK
  <2>2. Writing(q) \/ UNCHANGED <<rows, links, past>>
    BY <1>2, StepWrites
  <2>3. ASSUME NEW r \in Requests \ {q}
        PROVE  /\ Opens(r, id, j)' <=> Opens(r, id, j)
               /\ Fills(r, id, j)' <=> Fills(r, id, j)
               /\ input'[r].list = input[r].list /\ past[r].mixed \subseteq past'[r].mixed
    <3>1. CASE Writing(q)
      BY <1>2, <3>1, OthersKept
    <3>2. CASE UNCHANGED <<rows, links, past>>
      BY <1>2, <3>2, StepApart DEF Apart, Same, Opens, Fills
    <3>3. QED
      BY <2>2, <3>1, <3>2
  <2>4. input'[q].list = input[q].list /\ Subject(q)' = Subject(q)
    BY <2>1 DEF Same
  <2>5. CASE Here(q)[1] = "insert"
    <3>1. /\ Subject(q) = q /\ past'[q] = [past[q] EXCEPT !.touched = TRUE]
          /\ q \notin DOMAIN rows
          /\ rows' = [i \in DOMAIN rows \cup {q} |-> IF i = q THEN NewRow(q) ELSE rows[i]]
          /\ links' = [i \in DOMAIN rows \cup {q} |->
                            IF i = q THEN [k \in Joins[kind] |-> {}] ELSE links[i]]
      BY <1>2, <2>5, GoesInsert
    <3>2. /\ past'[q].open = past[q].open /\ past'[q].filled = past[q].filled
          /\ past'[q].mixed = past[q].mixed
      BY <2>1, <3>1 DEF Past
    <3>3. CASE id = q
      <4>1. past[q].open = {} /\ past[q].filled = {}
        <5>1. ~Passed(q, "unlink")
          BY <2>1, <2>5, AfterWrites DEF Writes
        <5>2. QED
          BY <5>1 DEF Knows, Recorded
      <4>2. \A r \in Requests \ {q} : Subject(r) # q
        BY InputTypes
      <4>3. \A r \in Requests : ~Opens(r, id, j)' /\ ~Fills(r, id, j)'
        BY <2>3, <3>2, <3>3, <4>1, <4>2 DEF Opens, Fills
      <4>4. links'[id][j] = {} /\ id \notin Stored
        BY <3>1, <3>3, NamesAssumption
      <4>5. QED
        BY <4>3, <4>4 DEF OneList, Original
    <3>4. CASE id # q
      <4>1. id \in DOMAIN rows /\ links'[id][j] = links[id][j] /\ OneList(id, j)
        BY <3>1, <3>4 DEF Lists
      <4>2. (Opens(q, id, j)' <=> Opens(q, id, j)) /\ (Fills(q, id, j)' <=> Fills(q, id, j))
        BY <2>4, <3>2 DEF Opens, Fills
      <4>3. QED
        BY <2>3, <2>4, <3>2, <4>1, <4>2, ListKept
    <3>5. QED
      BY <3>3, <3>4
  <2>6. CASE Here(q)[1] \in {"update", "remove"}
    <3>1. /\ past'[q] = [past[q] EXCEPT !.touched = TRUE]
          /\ id \in DOMAIN rows /\ links'[id] = links[id]
      <4>1. CASE Here(q)[1] = "update"
        <5>1. /\ rows' = [rows EXCEPT ![Subject(q)] = Renewed(q)] /\ links' = links
              /\ past'[q] = [past[q] EXCEPT !.touched = TRUE]
          BY <1>2, <4>1, GoesUpdate
        <5>2. DOMAIN rows' = DOMAIN rows
          BY <5>1
        <5>3. QED
          BY <5>1, <5>2
      <4>2. CASE Here(q)[1] = "remove"
        <5>1. /\ rows' = [i \in DOMAIN rows \ {Subject(q)} |-> rows[i]]
              /\ links' = [i \in DOMAIN rows \ {Subject(q)} |-> links[i]]
              /\ past'[q] = [past[q] EXCEPT !.touched = TRUE]
          BY <1>2, <4>2, GoesRemove
        <5>2. id \in DOMAIN rows \ {Subject(q)}
          BY <5>1
        <5>3. QED
          BY <5>1, <5>2
      <4>3. QED
        BY <2>6, <4>1, <4>2
    <3>2. /\ past'[q].open = past[q].open /\ past'[q].filled = past[q].filled
          /\ past'[q].mixed = past[q].mixed
      BY <2>1, <3>1 DEF Past
    <3>3. (Opens(q, id, j)' <=> Opens(q, id, j)) /\ (Fills(q, id, j)' <=> Fills(q, id, j))
      BY <2>4, <3>2 DEF Opens, Fills
    <3>4. OneList(id, j)
      BY <3>1 DEF Lists
    <3>5. QED
      BY <2>3, <2>4, <3>1, <3>2, <3>3, <3>4, ListKept
  <2>7. CASE Here(q)[1] = "unlink"
    <3>1. /\ Arg(q) \in Joins[kind] /\ UNCHANGED rows
          /\ links' = IF Subject(q) \in DOMAIN rows
                      THEN [links EXCEPT ![Subject(q)][Arg(q)] = {}] ELSE links
          /\ past'[q] = [past[q] EXCEPT !.touched = @ \/ Subject(q) \in DOMAIN rows,
                                        !.open = @ \cup {Arg(q)}]
          /\ Wrote(q, {Arg(q)}, past'[q])
      BY <1>2, <2>7, GoesUnlink
    <3>2. /\ past'[q].open = past[q].open \cup {Arg(q)} /\ past'[q].filled = past[q].filled
          /\ past'[q].mixed = past[q].mixed
      BY <2>1, <3>1 DEF Past
    <3>3. id \in DOMAIN rows /\ OneList(id, j)
      BY <3>1 DEF Lists
    <3>4. CASE Subject(q) = id /\ Arg(q) = j
      <4>1. links'[id][j] = {}
        BY <2>1, <3>1, <3>3, <3>4
      <4>2. ASSUME NEW r \in Requests \ {q}, Opens(r, id, j)' PROVE j \in past'[r].mixed
        <5>1. Subject(r) = id /\ j \in past[r].open
          BY <2>3, <4>2 DEF Opens
        <5>2. \A s \in Requests \ {q} : past'[s].mixed =
                    IF Subject(q) = Subject(s)
                    THEN past[s].mixed \cup ({Arg(q)} \cap past[s].open) ELSE past[s].mixed
          <6> DEFINE mine == past'[q]
                     cleared == {Arg(q)}
          <6>1. mine \in Past /\ kind' = kind /\ cleared \in SUBSET Joins[kind]
            BY <2>1, <2>2, <3>1 DEF Writing, Same, HistoryOK
          <6>2. Wrote(q, cleared, mine)
            BY <3>1
          <6> HIDE DEF mine, cleared
          <6>3. \A s \in Requests \ {q} : past'[s].mixed =
                    IF Subject(q) = Subject(s)
                    THEN past[s].mixed \cup (cleared \cap past[s].open) ELSE past[s].mixed
            BY <6>1, <6>2, WroteMarks
          <6>4. QED
            BY <6>3 DEF cleared
        <5>3. QED
          BY <3>4, <5>1, <5>2
      <4>3. Opens(q, id, j)'
        BY <2>4, <3>2, <3>4 DEF Opens
      <4>4. Replaced(id, j, {}, q)'
        BY <4>1, <4>2, <4>3 DEF Replaced
      <4>5. QED
        BY <4>4 DEF OneList
    <3>5. CASE ~(Subject(q) = id /\ Arg(q) = j)
      <4>1. links'[id][j] = links[id][j]
        BY <2>1, <3>1, <3>3, <3>5
      <4>2. (Opens(q, id, j)' <=> Opens(q, id, j)) /\ (Fills(q, id, j)' <=> Fills(q, id, j))
        BY <2>4, <3>2, <3>5 DEF Opens, Fills
      <4>3. QED
        BY <2>3, <2>4, <3>2, <3>3, <4>1, <4>2, ListKept
    <3>6. QED
      BY <3>4, <3>5
  <2>8. CASE Here(q)[1] = "relink"
    <3>1. /\ Arg(q) \in Joins[kind] /\ UNCHANGED rows /\ Subject(q) \in DOMAIN rows
          /\ links' = [links EXCEPT ![Subject(q)][Arg(q)] =
                            links[Subject(q)][Arg(q)] \cup input[q].list]
          /\ past'[q] = [past[q] EXCEPT !.open = @ \ {Arg(q)}, !.filled = @ \cup {Arg(q)}]
      BY <1>2, <2>8, GoesRelink
    <3>2. /\ past'[q].open = past[q].open \ {Arg(q)}
          /\ past'[q].filled = past[q].filled \cup {Arg(q)}
          /\ past'[q].mixed = past[q].mixed
      BY <2>1, <3>1 DEF Past
    <3>3. id \in DOMAIN rows /\ OneList(id, j)
      BY <3>1 DEF Lists
    <3>4. CASE Subject(q) = id /\ Arg(q) = j
      <4>1. links'[id][j] = links[id][j] \cup input[q].list
        BY <2>1, <3>1, <3>3, <3>4
      <4>2. Opens(q, id, j)
        <5>1. Takes(input[q], <<"unlink", j>>)
          <6>1. input[q].op \in {"create", "update"}
            BY <2>1, <2>8, AtShape DEF Shaped, Named
          <6>2. QED
            BY <1>2, <2>8, <3>4, <6>1 DEF Takes, Arg
        <5>2. QED
          BY <2>1, <2>8, <3>4, <5>1 DEF Cleared, Opens
      <4>3. ~Original(id, j)
        BY <4>2 DEF Original
      <4>4. PICK writers \in SUBSET Requests, last \in Requests : Replaced(id, j, writers, last)
        BY <3>3, <4>3 DEF OneList
      <4>5. Fills(q, id, j)'
        BY <2>4, <3>2, <3>4 DEF Fills
      <4>6. DEFINE more == writers \cup {q}
      <4>7. \A r \in more : Fills(r, id, j)'
        BY <2>3, <4>4, <4>5 DEF Replaced
      <4>8. last \in more \/ Opens(last, id, j)'
        BY <2>3, <4>4 DEF Replaced
      <4>9. \A r \in Requests \ {last} : r \in more \/ Opens(r, id, j)' => j \in past'[r].mixed
        BY <2>3, <3>2, <4>2, <4>4 DEF Replaced
      <4>10. links'[id][j] = UNION {input'[r].list : r \in more}
        <5>1. links[id][j] = UNION {input[r].list : r \in writers}
          BY <4>4 DEF Replaced
        <5>2. \A r \in more : input'[r].list = input[r].list
          BY <2>3, <2>4
        <5>3. QED
          BY <4>1, <5>1, <5>2
      <4>11. Replaced(id, j, more, last)' /\ more \in SUBSET Requests
        BY <4>7, <4>8, <4>9, <4>10 DEF Replaced
      <4>12. QED
        BY <4>11 DEF OneList
    <3>5. CASE ~(Subject(q) = id /\ Arg(q) = j)
      <4>1. links'[id][j] = links[id][j]
        BY <2>1, <3>1, <3>3, <3>5
      <4>2. (Opens(q, id, j)' <=> Opens(q, id, j)) /\ (Fills(q, id, j)' <=> Fills(q, id, j))
        BY <2>4, <3>2, <3>5 DEF Opens, Fills
      <4>3. QED
        BY <2>3, <2>4, <3>2, <3>3, <4>1, <4>2, ListKept
    <3>6. QED
      BY <3>4, <3>5
  <2>9. QED
    BY <1>2, <2>5, <2>6, <2>7, <2>8 DEF Writes
<1>3. QED
  BY <1>1, <1>2, WhoChanges

LEMMA ListsSuffice == TypeOK /\ Lists => LinksAreOneList
<1> SUFFICES ASSUME TypeOK, Lists, NEW id \in DOMAIN links, NEW j \in Joins[kind]
             PROVE  \/ id \in Stored /\ links[id][j] = Linked[id]
                    \/ links[id][j] = {} /\ (id \in Requests \/ \E r \in Requests :
                            Subject(r) = id /\ j \in past[r].open)
                    \/ \E writers \in SUBSET Requests :
                            /\ \A r \in writers : Subject(r) = id /\ j \in past[r].filled
                            /\ \A q, r \in writers : q # r => j \in past[q].mixed \cup past[r].mixed
                            /\ writers # {} /\ links[id][j] = UNION {input[r].list : r \in writers}
  BY DEF LinksAreOneList
<1>1. OneList(id, j) /\ id \in Stored \cup Requests
  BY DEF Lists, TypeOK, Ids
<1>2. CASE Original(id, j)
  BY <1>1, <1>2 DEF Original
<1>3. ASSUME NEW writers \in SUBSET Requests, NEW last \in Requests, Replaced(id, j, writers, last)
      PROVE  \/ links[id][j] = {} /\ \E r \in Requests : Subject(r) = id /\ j \in past[r].open
             \/ /\ \A r \in writers : Subject(r) = id /\ j \in past[r].filled
                /\ \A q, r \in writers : q # r => j \in past[q].mixed \cup past[r].mixed
                /\ writers # {} /\ links[id][j] = UNION {input[r].list : r \in writers}
  <2>1. CASE writers = {}
    BY <1>3, <2>1 DEF Replaced, Opens
  <2>2. CASE writers # {}
    BY <1>3, <2>2 DEF Replaced, Fills
  <2>3. QED
    BY <2>1, <2>2
<1>4. QED
  BY <1>1, <1>2, <1>3 DEF OneList

(* The links of a row are one list, unless requests mixed: of any two whose lists are both *)
(* there, one cleared the list while the other had cleared it and not filled it yet         *)
THEOREM ListsAreWhole == Spec => []LinksAreOneList
<1> DEFINE ListInv == Grounds /\ Lists
<1>1. Init => ListInv
  BY InitGrounds, InitLists
<1>2. TypeOK /\ TypeOK' /\ ListInv /\ [Next]_vars => ListInv'
  BY NextGrounds, NextLists
<1>3. TypeOK /\ ListInv => LinksAreOneList
  BY ListsSuffice
<1> HIDE DEF ListInv
<1>4. QED
  BY <1>1, <1>2, <1>3, InitTypes, NextTypes, PTL DEF Spec
=============================================================================
