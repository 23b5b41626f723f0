---------------------------- MODULE ScopedTable -----------------------------
(***************************************************************************)
(* What the services promise of a table: a row is for good in the          *)
(* workspaces it was created in, and a request creates, changes or removes *)
(* one row at a time, in the workspaces it may work in, which are settled  *)
(* when it is received.                                                    *)
(***************************************************************************)
CONSTANTS Requests, Workspaces

VARIABLES table,   \* for each id there is, the workspaces of the row and its columns
          may      \* the workspaces in which each request may write

vars == <<table, may>>

Init ==
    /\ \A id \in DOMAIN table : table[id].in \subseteq Workspaces
    /\ may = [r \in Requests |-> {}]

Others(id) == \A other \in DOMAIN table \ {id} : table'[other] = table[other]

Receive(r) ==
    /\ may[r] = {}
    /\ may'[r] \subseteq Workspaces
    /\ may' = [may EXCEPT ![r] = may'[r]]
    /\ UNCHANGED table

(* A row that a request creates is named after the request *)
Create(r) ==
    /\ r \notin DOMAIN table
    /\ DOMAIN table' = DOMAIN table \cup {r}
    /\ table'[r].in \subseteq may[r]
    /\ Others(r)
    /\ UNCHANGED may

Change(r, id) ==
    /\ table[id].in \subseteq may[r]
    /\ DOMAIN table' = DOMAIN table
    /\ table'[id].in = table[id].in
    /\ Others(id)
    /\ UNCHANGED may

Remove(r, id) ==
    /\ table[id].in \subseteq may[r]
    /\ DOMAIN table' = DOMAIN table \ {id}
    /\ Others(id)
    /\ UNCHANGED may

Next == \E r \in Requests :
    \/ Receive(r)
    \/ Create(r)
    \/ \E id \in DOMAIN table : Change(r, id) \/ Remove(r, id)

Spec == Init /\ [][Next]_vars
=============================================================================
