---------------------------- MODULE MCResources -----------------------------
(***************************************************************************)
(* Two requests on a table with two rows, one in each of two workspaces,   *)
(* two projects in one, or two accounts of which one is in both.           *)
(* The first request has many forms, the second a few.                     *)
(***************************************************************************)
EXTENDS Resources

MCKinds == DOMAIN Protected
MCWorkspaces == {"sys", "w1", "w2"}
MCPlaced ==
    [k \in MCKinds |->
        [a |-> {"w1"}, b |-> CASE k = "account" -> {"w1", "w2"}
                               [] k = "project" -> {"w1"}
                               [] OTHER -> {"w2"}]]
MCLinked == [a |-> {"t1"}, b |-> {"t2"}]
MCValues == {"a", "b", "x", "y", Unset}
MCHomeOf == [t0 |-> Nowhere, t1 |-> "w1", t2 |-> "w2", t3 |-> "w1"]

(* The fields of a body, and those without which it is read too *)
Body(k, op) == IF op = "list" THEN {} ELSE Fields(k, op)
Optional == {"name", "code", "email"} \cup Flags
Givens(k, op) ==
    IF op = "update"
    THEN {Body(k, op), Body(k, op) \ Optional, Body(k, op) \cap {"code"}, {}}
    ELSE IF op = "create" THEN {Body(k, op), Body(k, op) \ Labels}
    ELSE IF op = "list" THEN {{}} \cup {{f} : f \in Layers[k].filter \cap {"name"}}
    ELSE {{}}
Lists(k, op) ==
    IF Joins[k] # {} /\ op \in {"create", "update"} THEN {{}, {"t0"}, {"t1"}, {"t2"}} ELSE {{}}

(* The caller, the workspace of the context, and the workspace asked for *)
Callers(k) ==
    {[home |-> "w1", admin |-> FALSE, asked |-> Nowhere]} \cup
    IF k \in Unscoped THEN {[home |-> "sys", admin |-> TRUE, asked |-> Nowhere]}
    ELSE {[home |-> "w1", admin |-> FALSE, asked |-> "w2"],
          [home |-> "sys", admin |-> TRUE, asked |-> "w1"],
          [home |-> "w1", admin |-> TRUE, asked |-> "w2"]}

Form(c, k, op, able, id, given, text, list) ==
    [op |-> op, home |-> c.home, admin |-> c.admin, asked |-> c.asked, able |-> able,
     id |-> id, given |-> given, text |-> text, list |-> list]

OpsOf(k) == DOMAIN Protected[k]
Own == [home |-> "w1", admin |-> FALSE, asked |-> Nowhere]

(* The first request: any caller, any row, any fields, any list, or not permitted to *)
(* describe, two of these at a time                                                  *)
Broad(k) ==
    UNION {LET form(c, able, id, given, list) == Form(c, k, op, able, id, given, "x", list)
               whole == Body(k, op)
               some == IF "t1" \in UNION Lists(k, op) THEN {"t1"} ELSE {}
           IN  {form(c, Ops, id, whole, some) : c \in Callers(k), id \in {"a", "b"}}
                \cup {form(c, Ops, "a", whole, list) : c \in Callers(k), list \in Lists(k, op)}
                \cup {form(Own, able, id, given, some) : id \in {"a", "b"},
                        able \in {Ops, Ops \ {"describe"}}, given \in Givens(k, op)}
            : op \in OpsOf(k)}

(* The second request: a change of the first row, or a creation, within a workspace *)
Narrow(k) ==
    UNION {{Form(Own, k, op, Ops, "a", given, text, list) :
                text \in {"x", "y"},
                given \in {Body(k, op)} \cup {Body(k, op) \cap {f} : f \in {"code"} \cap Body(k, op)},
                list \in IF Joins[k] = {} THEN {{}} ELSE {{"t3"}}}
            : op \in OpsOf(k) \cap {"create", "update", "delete"}}
MCInputs == [r1 |-> [k \in MCKinds |-> Broad(k)], r2 |-> [k \in MCKinds |-> Narrow(k)]]
=============================================================================
