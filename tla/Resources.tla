----------------------------- MODULE Resources -----------------------------
(***************************************************************************)
(* Requests over one table of resources.                                   *)
(*                                                                         *)
(* A request is received, takes the steps of its route (module Routes) one *)
(* at a time, and is answered, refused, or dropped: the layer that limits  *)
(* a request to 30 seconds and a failing statement end it wherever it is,  *)
(* and what it has written stays, for no route opens a transaction.  Each  *)
(* statement of SQL is one step, and the steps of several requests         *)
(* interleave.                                                             *)
(*                                                                         *)
(* A behaviour is about one kind of resource.  A row is the workspaces it  *)
(* is in (several for an account, by its memberships) and its columns; its *)
(* links are the rows of the join tables, to targets that have their own   *)
(* workspace or do not exist.  A request carries one value, `text`, for    *)
(* all the fields it gives and one list for all its links.                 *)
(***************************************************************************)
EXTENDS Columns, Routes, FiniteSets, Naturals

CONSTANTS Kinds,       \* the kinds of resource looked at
          Workspaces,
          Requests,    \* a row that a request creates has the name of the request
          Stored,      \* the ids of the rows that are there at first
          Targets,     \* what can be linked
          Placed,      \* for each kind, where the first rows are
          Linked,      \* for each of the first rows, what is linked to it
          HomeOf,      \* the workspace of a target, or Nowhere
          Values,      \* what a column can hold
          Inputs       \* for each request and kind, what it may ask

Nowhere == "nowhere"      \* no workspace
Anywhere == "anywhere"    \* no restriction to a workspace
Unset == "unset"          \* the value of a column that was not given

Unscoped == {"account", "workspace"}    \* the kinds whose table has no workspace column
Ops == {"create", "describe", "list", "update", "delete"}
Ids == Stored \cup Requests

(* The fields that the body of a request has, or its query; others are not read *)
Fields(k, op) ==
    CASE op = "create" -> Layers[k].creates
      [] op = "update" -> Layers[k].updates
      [] op = "list" -> Layers[k].filter
      [] OTHER -> {}
Input == [op : Ops, home : Workspaces, admin : BOOLEAN, asked : Workspaces \cup {Nowhere},
          able : SUBSET Ops, id : Stored, given : SUBSET STRING, text : Values,
          list : SUBSET Targets]

ASSUME KindsAssumption == Kinds \subseteq DOMAIN Protected
ASSUME PlacesAssumption ==
    /\ Placed \in [Kinds -> [Stored -> SUBSET Workspaces]]
    /\ Linked \in [Stored -> SUBSET Targets]
    /\ HomeOf \in [Targets -> Workspaces \cup {Nowhere}]
    /\ \A k \in Kinds \ Unscoped, id \in Stored : \E w \in Workspaces : Placed[k][id] = {w}
    /\ {Nowhere, Anywhere} \cap Workspaces = {}
    /\ Stored \cup {Unset} \subseteq Values
    /\ Workspaces # {} /\ Stored # {}
ASSUME InputsAssumption ==
    /\ Inputs \in [Requests -> [Kinds -> SUBSET Input]]
    /\ \A r \in Requests, k \in Kinds : \A i \in Inputs[r][k] :
            i.op \in DOMAIN Protected[k] /\ i.given \subseteq Fields(k, i.op)
ASSUME NamesAssumption == Stored \cap Requests = {}

VARIABLES kind,    \* the kind of resource
          rows,    \* the table: for each id there is, the workspaces and the columns
          links,   \* the join tables
          pc,      \* where a request is
          input,   \* what it asks
          step,    \* the number of the step that it is at
          scope,   \* the workspace its statements are restricted to
          shown,   \* the columns it has last read, which it answers
          joined,  \* the links it has last read, which it answers too
          listed,  \* the rows it lists
          total,   \* and the number of rows it counts
          why,     \* why it was refused
          past     \* a history variable: what it and others wrote while it ran

seen == <<shown, joined, listed, total>>
vars == <<kind, rows, links, pc, input, step, scope, seen, why, past>>

Joins == [role |-> {"permissions", "policies"}, membership |-> {"roles", "policies"},
          policy |-> {}, project |-> {}, profile |-> {}, permission |-> {}, client |-> {},
          credential |-> {}, account |-> {}, workspace |-> {}]

(* The columns with a unique index, within a workspace or, for the two tables *)
(* without a workspace column, over all rows.  The partial indexes over       *)
(* credentials and memberships are in Credentials and Onboarding.             *)
Unique == [role |-> {"name"}, policy |-> {"name"}, project |-> {"name"},
           profile |-> {"email"}, permission |-> {"key"}, client |-> {"name"},
           account |-> {"email"}, workspace |-> {"name"}, credential |-> {},
           membership |-> {}]

(* The kinds of which a row that others refer to is not removed *)
Restricted == {"role", "permission", "profile"}

Cols(k) == Layers[k].row
Row == [in : SUBSET Workspaces, cols : [Cols(kind) -> Values]]

-----------------------------------------------------------------------------
(* Requests *)

Subject(r) == IF input[r].op = "create" THEN r ELSE input[r].id

(* What of the given fields reaches the statement *)
Written(r) ==
    LET l == Layers[kind]
    IN  IF input[r].op = "create" THEN input[r].given \cap l.creates \cap l.inserts
        ELSE input[r].given \cap l.updates \cap l.sets

(* The caller's permission, and then the workspace it works in.  Those without *)
(* the rights of a system administrator work in the workspace of their context. *)
Permitted(i, p) == i.admin \/ p \in i.able
MayAsk(i) == i.admin \/ i.asked \in {Nowhere, i.home}
Asked(i) == IF i.asked # Nowhere THEN i.asked ELSE i.home

\* Mutant: the condition on the workspace is left out of the statement.
VisibleAnywhere(s) == DOMAIN rows
Visible(s) == {id \in DOMAIN rows : s = Anywhere \/ s \in rows[id].in}

(* Whether a unique index would find the row's value in another row *)
Clashes(id, row) ==
    \E f \in Unique[kind] : \E other \in DOMAIN rows \ {id} :
        /\ row.cols[f] = rows[other].cols[f]
        /\ row.cols[f] # Unset
        /\ kind \in Unscoped \/ row.in \cap rows[other].in # {}

(* Whether the request takes this step: no second statement for an empty list, no *)
(* links unless the list was given, no check of a value that was not given        *)
Takes(i, s) ==
    LET l == Layers[kind]
    IN  CASE s[1] = "unlink" -> i.op = "create" \/ s[2] \in i.given \cap l.updates
          [] s[1] = "relink" ->
                /\ i.list # {}
                /\ s[2] \in i.given \cap (IF i.op = "create" THEN l.creates ELSE l.updates)
          [] s[1] \in {"free", "freeHome"} -> s[2] \in i.given
          [] OTHER -> TRUE

Untouched == [touched |-> FALSE, raced |-> FALSE, after |-> FALSE, open |-> {}, filled |-> {},
              mixed |-> {}]

(* The step of its route that a request is at, which it takes or passes by *)
Route(r) == Protected[kind][input[r].op]
Here(r) == Route(r)[step[r]]
Arg(r) == Here(r)[2]
At(r, name) == pc[r] = "running" /\ Takes(input[r], Here(r)) /\ Here(r)[1] = name

Advance(r) ==
    /\ step' = [step EXCEPT ![r] = @ + 1]
    /\ pc' = [pc EXCEPT ![r] = IF step[r] = Len(Route(r)) THEN "answered" ELSE "running"]
    /\ UNCHANGED <<kind, why>>
Proceed(r) == Advance(r) /\ UNCHANGED input
Refuse(r, reason) ==
    /\ pc' = [pc EXCEPT ![r] = "refused"]
    /\ why' = [why EXCEPT ![r] = reason]
    /\ UNCHANGED <<kind, rows, links, input, step, scope, seen, past>>

(* What a write means for the requests that run beside it: another request wrote since *)
(* they began (raced), wrote their row after they did (after), or cleared a list that   *)
(* they had cleared and not yet filled (mixed).  `mine` is what it means for the writer. *)
Wrote(r, cleared, mine) ==
    past' = [q \in Requests |->
        IF q = r THEN mine
        ELSE LET same == Subject(q) = Subject(r)
             IN  [past[q] EXCEPT !.raced = @ \/ pc[q] = "running",
                                 !.after = @ \/ (same /\ past[q].touched),
                                 !.mixed = IF same THEN @ \cup (cleared \cap past[q].open)
                                           ELSE @]]
WroteRow(r) == Wrote(r, {}, [past[r] EXCEPT !.touched = TRUE])

Shown(row) == [f \in Layers[kind].shown \cap DOMAIN row.cols |-> row.cols[f]]

-----------------------------------------------------------------------------
(* The steps *)

Start(r) ==
    /\ pc[r] = "idle"
    /\ \E i \in Inputs[r][kind] : input' = [input EXCEPT ![r] = i]
    /\ pc' = [pc EXCEPT ![r] = "running"]
    /\ UNCHANGED <<kind, rows, links, step, scope, seen, why, past>>

PassStep(r) ==
    /\ pc[r] = "running" /\ ~Takes(input[r], Here(r))
    /\ Proceed(r)
    /\ UNCHANGED <<rows, links, scope, seen, past>>

AskStep(r) ==
    LET i == input[r]
        allowed == MayAsk(i) /\ (~At(r, "askNobody") => Permitted(i, Arg(r)))
    IN  /\ At(r, "ask") \/ At(r, "askHome") \/ At(r, "askNobody")
        /\ \/ /\ allowed
              /\ scope' = [scope EXCEPT ![r] =
                    IF kind \notin Unscoped THEN Asked(i)
                    ELSE IF At(r, "askHome") THEN i.home ELSE Anywhere]
              /\ Proceed(r)
              /\ UNCHANGED <<rows, links, seen, past>>
           \/ ~allowed /\ Refuse(r, "forbidden")

EscalateStep(r) ==
    /\ At(r, "escalate")
    /\ input' = [input EXCEPT ![r].able = @ \cup {"describe"}]
    /\ Advance(r)
    /\ UNCHANGED <<rows, links, scope, seen, past>>

(* A read of the row, in the scope, in the workspace of the context or by the id alone *)
FindStep(r) ==
    LET s == CASE Arg(r) = "scope" -> scope[r]
               [] Arg(r) = "home" -> input[r].home
               [] Arg(r) = "any" -> Anywhere
    IN  /\ At(r, "find")
        /\ \/ /\ Subject(r) \in Visible(s)
              /\ shown' = [shown EXCEPT ![r] = Shown(rows[Subject(r)])]
              /\ Proceed(r)
              /\ UNCHANGED <<rows, links, scope, joined, listed, total, past>>
           \/ /\ Subject(r) \notin Visible(s)
              /\ Refuse(r, "notFound")

(* A read of the row joined with its links, by the id alone *)
JoinStep(r) ==
    /\ At(r, "join")
    /\ \/ /\ Subject(r) \in DOMAIN rows
          /\ shown' = [shown EXCEPT ![r] = Shown(rows[Subject(r)])]
          /\ joined' = [joined EXCEPT ![r][Arg(r)] = links[Subject(r)][Arg(r)]]
          /\ Proceed(r)
          /\ UNCHANGED <<rows, links, scope, listed, total, past>>
       \/ /\ Subject(r) \notin DOMAIN rows
          /\ Refuse(r, "notFound")

(* The rules on the contents of a request pass or fail; their conditions are elsewhere *)
ValidateStep(r) ==
    /\ At(r, "validate")
    /\ \/ Proceed(r) /\ UNCHANGED <<rows, links, scope, seen, past>>
       \/ Refuse(r, "invalid")

(* A check that no row has the value; that of a profile's email skips its own row *)
FreeStep(r) ==
    LET s == IF At(r, "free") THEN scope[r] ELSE input[r].home
        held == {id \in Visible(s) : rows[id].cols[Arg(r)] = input[r].text}
        own == IF kind = "profile" THEN {Subject(r)} ELSE {}
    IN  /\ At(r, "free") \/ At(r, "freeHome")
        /\ \/ /\ held \subseteq own
              /\ Proceed(r)
              /\ UNCHANGED <<rows, links, scope, seen, past>>
           \/ /\ ~(held \subseteq own)
              /\ Refuse(r, "conflict")

(* An account is to be in the workspace of the context, or in no other *)
MemberStep(r) ==
    LET in == IF Subject(r) \in DOMAIN rows THEN rows[Subject(r)].in ELSE {}
        allowed == \/ input[r].admin
                   \/ IF Arg(r) = "only" THEN in = {input[r].home} ELSE input[r].home \in in
    IN  /\ At(r, "member")
        /\ \/ allowed /\ Proceed(r) /\ UNCHANGED <<rows, links, scope, seen, past>>
           \/ ~allowed /\ Refuse(r, "forbidden")

(* The roles that were read are described one by one, each in its own workspace *)
RolesStep(r) ==
    LET foreign == {t \in joined[r]["roles"] : HomeOf[t] # input[r].home}
        allowed == input[r].admin \/ foreign = {}
    IN  /\ At(r, "roles")
        /\ \/ allowed /\ Proceed(r) /\ UNCHANGED <<rows, links, scope, seen, past>>
           \/ ~allowed /\ Refuse(r, "forbidden")

(* The INSERT of the row; it may violate another constraint *)
InsertStep(r) ==
    LET new == [in |-> {scope[r]} \cap Workspaces,
                cols |-> [f \in Cols(kind) |->
                            IF f \in Written(r) THEN input[r].text ELSE Unset]]
    IN  /\ At(r, "insert")
        /\ \/ /\ r \notin DOMAIN rows /\ ~Clashes(r, new)
              /\ rows' = [id \in DOMAIN rows \cup {r} |-> IF id = r THEN new ELSE rows[id]]
              /\ links' = [id \in DOMAIN links \cup {r} |->
                            IF id = r THEN [j \in Joins[kind] |-> {}] ELSE links[id]]
              /\ shown' = [shown EXCEPT ![r] = Shown(new)]
              /\ WroteRow(r)
              /\ Proceed(r)
              /\ UNCHANGED <<scope, joined, listed, total>>
           \/ (r \in DOMAIN rows \/ Clashes(r, new)) /\ Refuse(r, "conflict")
           \/ Refuse(r, "invalid")

(* The UPDATE of the row; a statement for a column that does not exist, or with *)
(* nothing to set, is refused by the database whatever the rows are             *)
UpdateStep(r) ==
    LET id == Subject(r)
        broken == \/ ~(Written(r) \subseteq Cols(kind))
                  \/ kind = "policy" /\ Written(r) = {}
        new == [in |-> rows[id].in,
                cols |-> [f \in Cols(kind) |-> IF f \in Written(r) THEN input[r].text
                                               ELSE rows[id].cols[f]]]
    IN  /\ At(r, "update")
        /\ \/ broken /\ Refuse(r, "broken")
           \/ ~broken /\ id \notin Visible(scope[r]) /\ Refuse(r, "notFound")
           \/ ~broken /\ id \in Visible(scope[r]) /\ Clashes(id, new) /\ Refuse(r, "conflict")
           \/ ~broken /\ id \in Visible(scope[r]) /\ Refuse(r, "invalid")
           \/ /\ ~broken /\ id \in Visible(scope[r]) /\ ~Clashes(id, new)
              /\ rows' = [rows EXCEPT ![id] = new]
              /\ shown' = [shown EXCEPT ![r] = Shown(new)]
              /\ WroteRow(r)
              /\ Proceed(r)
              /\ UNCHANGED <<links, scope, joined, listed, total>>

\* Mutant: the foreign keys of the join tables do not cascade.
RemoveKeepsLinks(r) ==
    LET id == Subject(r)
    IN  /\ At(r, "remove")
        /\ id \in Visible(scope[r])
        /\ rows' = [other \in DOMAIN rows \ {id} |-> rows[other]]
        /\ WroteRow(r)
        /\ Proceed(r)
        /\ UNCHANGED <<links, scope, seen>>

(* The DELETE of the row, which takes its links along *)
RemoveStep(r) ==
    LET id == Subject(r)
    IN  /\ At(r, "remove")
        /\ \/ /\ id \in Visible(scope[r])
              /\ rows' = [other \in DOMAIN rows \ {id} |-> rows[other]]
              /\ links' = [other \in DOMAIN links \ {id} |-> links[other]]
              /\ WroteRow(r)
              /\ Proceed(r)
              /\ UNCHANGED <<scope, seen>>
           \/ id \in Visible(scope[r]) /\ kind \in Restricted /\ Refuse(r, "inUse")
           \/ id \notin Visible(scope[r]) /\ Refuse(r, "notFound")

(* A list of links is replaced by a DELETE of all and an INSERT of the new ones *)
UnlinkStep(r) ==
    LET id == Subject(r)
        j == Arg(r)
    IN  /\ At(r, "unlink")
        /\ links' = IF id \in DOMAIN links THEN [links EXCEPT ![id][j] = {}] ELSE links
        /\ Wrote(r, {j}, [past[r] EXCEPT !.touched = @ \/ id \in DOMAIN links,
                                         !.open = @ \cup {j}])
        /\ Proceed(r)
        /\ UNCHANGED <<rows, scope, seen>>

RelinkStep(r) ==
    LET id == Subject(r)
        j == Arg(r)
        list == input[r].list
        accepted == /\ id \in DOMAIN links
                    /\ list \cap links[id][j] = {}
                    /\ \A t \in list : HomeOf[t] # Nowhere
    IN  /\ At(r, "relink")
        /\ \/ /\ accepted
              /\ links' = [links EXCEPT ![id][j] = @ \cup list]
              /\ Wrote(r, {}, [past[r] EXCEPT !.open = @ \ {j}, !.filled = @ \cup {j}])
              /\ Proceed(r)
              /\ UNCHANGED <<rows, scope, seen>>
           \/ ~accepted /\ Refuse(r, "conflict")

(* The rows of the scope that pass the filter; the fields given are the filter.  With *)
(* memberships come the roles that are linked to them.                                *)
Listed(r) ==
    {id \in Visible(scope[r]) :
        \A f \in input[r].given \cap Cols(kind) : rows[id].cols[f] = input[r].text}
ListStep(r) ==
    LET broken == ~(input[r].given \subseteq Cols(kind))
    IN  /\ At(r, "list")
        /\ \/ /\ ~broken
              /\ listed' = [listed EXCEPT ![r] = Listed(r)]
              /\ joined' = [joined EXCEPT ![r] =
                    [j \in Joins[kind] |-> UNION {links[id][j] : id \in Listed(r)}]]
              /\ Proceed(r)
              /\ UNCHANGED <<rows, links, scope, shown, total, past>>
           \/ broken /\ Refuse(r, "broken")

CountStep(r) ==
    /\ At(r, "count")
    /\ total' = [total EXCEPT ![r] = Cardinality(Listed(r))]
    /\ Proceed(r)
    /\ UNCHANGED <<rows, links, scope, shown, joined, listed, past>>

Drop(r) ==
    /\ pc[r] = "running"
    /\ pc' = [pc EXCEPT ![r] = "dropped"]
    /\ UNCHANGED <<kind, rows, links, input, step, scope, seen, why, past>>

-----------------------------------------------------------------------------
Idle == [op |-> "list", home |-> CHOOSE w \in Workspaces : TRUE, admin |-> FALSE,
         asked |-> Nowhere, able |-> {}, id |-> CHOOSE id \in Stored : TRUE, given |-> {},
         text |-> Unset, list |-> {}]

Init ==
    /\ kind \in Kinds
    /\ rows = [id \in Stored |-> [in |-> Placed[kind][id], cols |-> [f \in Cols(kind) |-> id]]]
    /\ links = [id \in Stored |-> [j \in Joins[kind] |-> Linked[id]]]
    /\ pc = [r \in Requests |-> "idle"]
    /\ input = [r \in Requests |-> Idle]
    /\ step = [r \in Requests |-> 1]
    /\ scope = [r \in Requests |-> Nowhere]
    /\ shown = [r \in Requests |-> <<>>]
    /\ joined = [r \in Requests |-> [j \in Joins[kind] |-> {}]]
    /\ listed = [r \in Requests |-> {}]
    /\ total = [r \in Requests |-> 0]
    /\ why = [r \in Requests |-> "none"]
    /\ past = [r \in Requests |-> Untouched]

Step(r) ==
    \/ PassStep(r) \/ AskStep(r) \/ EscalateStep(r)
    \/ FindStep(r) \/ JoinStep(r) \/ ValidateStep(r) \/ FreeStep(r) \/ MemberStep(r)
    \/ RolesStep(r) \/ InsertStep(r) \/ UpdateStep(r) \/ RemoveStep(r)
    \/ UnlinkStep(r) \/ RelinkStep(r) \/ ListStep(r) \/ CountStep(r)

Next == \E r \in Requests : Start(r) \/ Step(r) \/ Drop(r)

Spec == Init /\ [][Next]_vars

-----------------------------------------------------------------------------
(* Properties *)

Outcomes == {"forbidden", "invalid", "notFound", "conflict", "inUse", "broken"}

(* The table, the requests and what they have read have their types: a row has the *)
(* columns of its kind, and there are links for exactly the rows there are         *)
TypeOK ==
    /\ kind \in Kinds
    /\ DOMAIN rows \subseteq Ids
    /\ rows \in [DOMAIN rows -> Row]
    /\ links \in [DOMAIN rows -> [Joins[kind] -> SUBSET Targets]]
    /\ pc \in [Requests -> {"idle", "running", "answered", "refused", "dropped"}]
    /\ input \in [Requests -> Input]
    /\ step \in [Requests -> Nat]
    /\ scope \in [Requests -> Workspaces \cup {Nowhere, Anywhere}]
    /\ joined \in [Requests -> [Joins[kind] -> SUBSET Targets]]
    /\ listed \in [Requests -> SUBSET Ids]
    /\ why \in [Requests -> Outcomes \cup {"none"}]
    /\ \A r \in Requests : why[r] # "none" <=> pc[r] = "refused"

(* What an update drops without a word, and what an answer does not show: a role's *)
(* permissions are not updated by the update of the role, and the model of a       *)
(* workspace is built without the config                                           *)
Ignored(k, op) == IF k = "role" /\ op = "update" THEN {"permissions"} ELSE {}
Hidden(k) ==
    CASE k = "project" -> {"owner"}
      [] k = "account" -> {"kind"}
      [] k = "credential" -> {"secret", "expires_at", "config"}
      [] k = "workspace" -> {"config"}
      [] OTHER -> {}

(* What was asked is what is stored and what is shown: when a creation or an update is  *)
(* answered and no other request wrote the row after it, every field that was given is  *)
(* in the row and in the answer, and every list that was given is what is linked, save  *)
(* for the fields that are ignored or hidden.  A layer that does not know a field, of   *)
(* the seven it passes, drops it silently.  A list and its count, two statements, agree *)
(* unless another request wrote                                                         *)
AnswersShowWhatWasAsked ==
    \A r \in Requests : pc[r] = "answered" =>
        LET i == input[r]
            row == rows[Subject(r)]
        IN  /\ i.op \in {"create", "update"} /\ ~past[r].after =>
                /\ \A f \in i.given \ Joins[kind] :
                    /\ row.cols[f] = i.text
                    /\ f \notin Hidden(kind) =>
                        f \in DOMAIN shown[r] /\ shown[r][f] = i.text
                /\ \A j \in (i.given \cap Joins[kind]) \ Ignored(kind, i.op) :
                    links[Subject(r)][j] = i.list /\ joined[r][j] = i.list
            /\ i.op = "list" /\ ~past[r].raced => total[r] = Cardinality(listed[r])

(* The roles that keep a membership from being described by a request of this context *)
ForeignRoles(r) ==
    kind = "membership" /\ ~input[r].admin
        /\ \E t \in input[r].list : HomeOf[t] # input[r].home

(* A refusal leaves nothing behind: a request that is refused has written nothing, but *)
(* in these cases, all of them after a write of the same request.  The description     *)
(* that closes the route is refused to the caller; a linked target does not exist, or  *)
(* another request came between; the roles just linked may not be described; the       *)
(* links of a membership are replaced before its row is updated, and the update of the *)
(* row is refused                                                                      *)
RefusalsLeaveNothing ==
    \A r \in Requests : pc[r] = "refused" /\ past[r].touched =>
        \/ why[r] = "forbidden" /\ "describe" \notin input[r].able
        \/ why[r] = "forbidden" /\ ForeignRoles(r)
        \/ why[r] = "conflict" /\ \E t \in input[r].list : HomeOf[t] = Nowhere
        \/ why[r] \in {"conflict", "notFound", "forbidden"} /\ past[r].raced
        \/ kind = "membership" /\ input[r].op = "update" /\ why[r] \in {"invalid", "notFound"}

(* The links of a row are one list: those it had, those of one request, none when a    *)
(* request cleared them and did not get to fill them, or those of several requests of  *)
(* which, of any two, one cleared the list when the other had cleared and not yet      *)
(* filled it.  Replacing a list is two statements                                      *)
LinksAreOneList ==
    \A id \in DOMAIN links : \A j \in Joins[kind] :
        \/ id \in Stored /\ links[id][j] = Linked[id]
        \/ links[id][j] = {} /\ (id \in Requests \/ \E r \in Requests :
                Subject(r) = id /\ j \in past[r].open)
        \/ \E writers \in SUBSET Requests :
                /\ \A r \in writers : Subject(r) = id /\ j \in past[r].filled
                /\ \A q, r \in writers : q # r => j \in past[q].mixed \cup past[r].mixed
                /\ writers # {} /\ links[id][j] = UNION {input[r].list : r \in writers}

(* Two projects of a workspace have the same code only if one was given it while another *)
(* request wrote: no index keeps codes apart, only a check that comes before the write   *)
CodesUniqueUnlessRaced ==
    kind = "project" =>
        \A a, b \in DOMAIN rows :
            a # b /\ rows[a].cols["code"] = rows[b].cols["code"]
                  /\ rows[a].cols["code"] # Unset /\ rows[a].in \cap rows[b].in # {}
                => \E r \in Requests : Subject(r) \in {a, b} /\ past[r].raced

(* What may cause a refusal.  Forbidden: the caller lacks a permission, asks for         *)
(* another workspace, or the row or a role is of another one.  Not found: the row is     *)
(* not there, or not in the scope, or not in the workspace of the context, where the     *)
(* code looks a project up.  Conflict: the value of a field that was given is taken, in  *)
(* one of these two workspaces, for a project by itself too; or, of links, a target does *)
(* not exist or another request came between.  Broken: a permission has no name to       *)
(* change or to filter by, and a policy has nothing to set                               *)
Cause(r, reason) ==
    LET i == input[r]
        id == Subject(r)
        inScope == id \in DOMAIN rows /\ (kind \in Unscoped \/ Asked(i) \in rows[id].in)
    IN  \/ /\ reason = "forbidden" /\ ~i.admin
           /\ \/ ~({i.op, "describe"} \subseteq i.able)
              \/ i.asked \notin {Nowhere, i.home}
              \/ kind = "account" /\ (id \in DOMAIN rows => rows[id].in # {i.home})
              \/ kind = "membership" /\ \E t \in joined[r]["roles"] : HomeOf[t] # i.home
        \/ /\ reason = "notFound"
           /\ inScope => kind = "project" /\ rows[id].in # {i.home}
        \/ /\ reason = "conflict"
           /\ \E f \in i.given \cap Cols(kind) :
                \E other \in Visible(scope[r]) \cup Visible(i.home) :
                    rows[other].cols[f] = i.text /\ (other # id \/ kind = "project")
        \/ /\ reason = "conflict" /\ Joins[kind] # {}
           /\ past[r].raced \/ (\E t \in i.list : HomeOf[t] = Nowhere)
        \/ /\ reason = "broken"
           /\ \/ kind = "permission" /\ "name" \in i.given
              \/ kind = "policy" /\ i.given = {}
        \/ reason = "inUse" /\ kind \in Restricted
        \/ reason = "invalid"

(* Every refusal has its cause, in the state in which the request is refused *)
RefusedForCause ==
    [][\A r \in Requests : why'[r] # why[r] => Cause(r, why'[r])]_vars

(* The workspaces in which a request may write: the one it works in, or all of them for *)
(* the tables that are the whole installation's                                         *)
Entitled(r) ==
    IF pc[r] = "idle" THEN {}
    ELSE IF kind \in Unscoped THEN Workspaces
    ELSE IF MayAsk(input[r]) THEN {Asked(input[r])} ELSE {}

Table == INSTANCE ScopedTable WITH table <- rows, may <- [r \in Requests |-> Entitled(r)]

(* The services implement the scoped table: whatever the requests, their routes and the  *)
(* order of their statements, a row stays in the workspace it was created in, and one    *)
(* that is created, changed or removed is in the workspace its request may work in       *)
ImplementsScopedTable == Table!Spec
=============================================================================
