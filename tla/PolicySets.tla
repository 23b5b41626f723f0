----------------------------- MODULE PolicySets -----------------------------
(***************************************************************************)
(* What a set of policies decides (core/models/policy.rs).                 *)
(*                                                                         *)
(* PolicySet::from_policies compiles the effective policies of a           *)
(* membership, in whatever order the joins returned them and with those    *)
(* attached twice listed twice, into a table from lookup keys to effects:  *)
(* one entry per action, a denial staying where it is.  The table is what  *)
(* the cache keeps, and what PolicyEngine::evaluate and                    *)
(* PolicySet::allows_constraint look at; the latter scans it, in the order *)
(* of a hash map, and stops at the first denial.                           *)
(*                                                                         *)
(* A text is the sequence of its parts; Separator is the "|" between the   *)
(* three texts of a key.                                                   *)
(***************************************************************************)
EXTENDS Naturals, Sequences

CONSTANTS
    Actions,        \* texts
    Resources,      \* texts
    Constraints,    \* texts; <<>> when a policy has none
    Separator,
    MaxPolicies,    \* bound: policies of a membership
    MaxActions      \* bound: actions of a policy

ASSUME BoundsAssumption == MaxPolicies \in Nat /\ MaxActions \in Nat

VARIABLES
    policies,   \* what from_policies is given
    pc,         \* which loop is running
    at,         \* the policy whose turn it is
    action,     \* and its action
    table,      \* the PolicySet: effects by key
    wanted,     \* the constraint allows_constraint is asked about
    todo,       \* keys the scan has not come to
    allowed,    \* the scan has seen an Allow
    answer      \* what allows_constraint returned

vars == <<policies, pc, at, action, table, wanted, todo, allowed, answer>>
compiled == <<policies, at, action, table>>

Effects == {"allow", "deny"}
\* validate_actions lets no policy without actions pass.
Policy == [effect : Effects, actions : UNION {[1..n -> Actions] : n \in 1..MaxActions},
           resource : Resources, constraint : Constraints]

\* Mutant: the constraint is left out of the key.
KeyWithoutConstraint(act, resource, constraint) ==
    act \o <<Separator>> \o resource \o <<Separator>>

policy_lookup_key(act, resource, constraint) ==
    act \o <<Separator>> \o resource \o <<Separator>> \o constraint

\* What the n-th action of the i-th policy expands into.
Key(i, n) == policy_lookup_key(policies[i].actions[n], policies[i].resource,
                               policies[i].constraint)
Effect(i) == policies[i].effect

Expansions == {e \in (1..MaxPolicies) \X (1..MaxActions) :
                  e[1] <= Len(policies) /\ e[2] <= Len(policies[e[1]].actions)}
Keys == {Key(e[1], e[2]) : e \in Expansions}

EndsWith(text, suffix) ==
    /\ Len(suffix) <= Len(text)
    /\ SubSeq(text, Len(text) - Len(suffix) + 1, Len(text)) = suffix
HasConstraint(key, constraint) == EndsWith(key, <<Separator>> \o constraint)

TypeOK ==
    /\ policies \in Seq(Policy)
    /\ Len(policies) <= MaxPolicies
    /\ pc \in {"compile", "ready", "scan", "answered"}
    /\ at \in 1..Len(policies) + 1
    /\ action \in 1..MaxActions + 1
    /\ at <= Len(policies) => action <= Len(policies[at].actions) + 1
    /\ pc # "compile" => at = Len(policies) + 1
    /\ table \in [DOMAIN table -> Effects]
    /\ DOMAIN table \subseteq Keys
    /\ wanted \in Constraints \cup {<<>>}
    /\ todo \subseteq DOMAIN table
    /\ allowed \in BOOLEAN
    /\ answer \in BOOLEAN

Init ==
    /\ \E n \in 0..MaxPolicies : policies \in [1..n -> Policy]
    /\ pc = "compile"
    /\ at = 1
    /\ action = 1
    /\ table = [key \in {} |-> "allow"]
    /\ wanted = <<>>
    /\ todo = {}
    /\ allowed = FALSE
    /\ answer = FALSE

-----------------------------------------------------------------------------
(* from_policies                                                           *)

\* Mutant: the last policy wins.
InsertAlways(key, effect) ==
    table' = [k \in DOMAIN table \cup {key} |-> IF k = key THEN effect ELSE table[k]]

\* Deny wins on collision.
Insert(key, effect) ==
    IF key \in DOMAIN table /\ table[key] = "deny"
    THEN UNCHANGED table
    ELSE table' = [k \in DOMAIN table \cup {key} |->
                      IF k = key THEN effect ELSE table[k]]

CompileAction ==
    /\ pc = "compile"
    /\ at <= Len(policies)
    /\ action <= Len(policies[at].actions)
    /\ Insert(Key(at, action), Effect(at))
    /\ action' = action + 1
    /\ UNCHANGED <<policies, pc, at, wanted, todo, allowed, answer>>

NextPolicy ==
    /\ pc = "compile"
    /\ at <= Len(policies)
    /\ action > Len(policies[at].actions)
    /\ at' = at + 1
    /\ action' = 1
    /\ UNCHANGED <<policies, pc, table, wanted, todo, allowed, answer>>

\* Mutant: the loop stops before the last policy.
CompiledEarly ==
    /\ pc = "compile"
    /\ at >= Len(policies)
    /\ pc' = "ready"
    /\ UNCHANGED <<compiled, wanted, todo, allowed, answer>>

Compiled ==
    /\ pc = "compile"
    /\ at > Len(policies)
    /\ pc' = "ready"
    /\ UNCHANGED <<compiled, wanted, todo, allowed, answer>>

-----------------------------------------------------------------------------
(* Looking at the table.                                                   *)

\* PolicySet::get and PolicyEngine::evaluate: no entry is a denial.
evaluate(act, resource, constraint) ==
    LET key == policy_lookup_key(act, resource, constraint)
    IN  key \in DOMAIN table /\ table[key] = "allow"

\* allows_constraint
Ask(constraint) ==
    /\ pc \in {"ready", "answered"}
    /\ pc' = "scan"
    /\ wanted' = constraint
    /\ todo' = DOMAIN table
    /\ allowed' = FALSE
    /\ UNCHANGED <<compiled, answer>>

SkipKey(key) ==
    /\ pc = "scan"
    /\ key \in todo
    /\ ~HasConstraint(key, wanted)
    /\ todo' = todo \ {key}
    /\ UNCHANGED <<compiled, pc, wanted, allowed, answer>>

\* Mutant: the first entry with the constraint decides.
SeeAllowAtOnce(key) ==
    /\ pc = "scan"
    /\ key \in todo
    /\ HasConstraint(key, wanted)
    /\ table[key] = "allow"
    /\ pc' = "answered"
    /\ answer' = TRUE
    /\ UNCHANGED <<compiled, wanted, todo, allowed>>

SeeAllow(key) ==
    /\ pc = "scan"
    /\ key \in todo
    /\ HasConstraint(key, wanted)
    /\ table[key] = "allow"
    /\ todo' = todo \ {key}
    /\ allowed' = TRUE
    /\ UNCHANGED <<compiled, pc, wanted, answer>>

\* An explicit deny for the constraint overrides any allow.
SeeDeny(key) ==
    /\ pc = "scan"
    /\ key \in todo
    /\ HasConstraint(key, wanted)
    /\ table[key] = "deny"
    /\ pc' = "answered"
    /\ answer' = FALSE
    /\ UNCHANGED <<compiled, wanted, todo, allowed>>

ScanEnds ==
    /\ pc = "scan"
    /\ todo = {}
    /\ pc' = "answered"
    /\ answer' = allowed
    /\ UNCHANGED <<compiled, wanted, todo, allowed>>

Next ==
    \/ CompileAction
    \/ NextPolicy
    \/ Compiled
    \/ \E constraint \in Constraints : Ask(constraint)
    \/ \E key \in todo : SkipKey(key) \/ SeeAllow(key) \/ SeeDeny(key)
    \/ ScanEnds

Spec == Init /\ [][Next]_vars

-----------------------------------------------------------------------------
\* Expansions the loop has come to.
Seen == {e \in Expansions : e[1] < at \/ (e[1] = at /\ e[2] < action)}

Denied(key, expansions) ==
    \E e \in expansions : Key(e[1], e[2]) = key /\ Effect(e[1]) = "deny"

(***************************************************************************)
(* The table after any number of turns of from_policies' loops: it has an  *)
(* entry for every action expanded so far and no other, and the entry is a *)
(* denial exactly if one of the policies that share the key denies,        *)
(* however they were ordered and repeated.                                 *)
(***************************************************************************)
TableIsDenyOverrides ==
    /\ DOMAIN table = {Key(e[1], e[2]) : e \in Seen}
    /\ \A key \in DOMAIN table : table[key] = "deny" <=> Denied(key, Seen)

(***************************************************************************)
(* What PolicyEngine::evaluate decides, said of the policies themselves:   *)
(* an action on a resource under a constraint is allowed if a policy       *)
(* allows exactly that and none denies it.  Nothing else allows it, as     *)
(* long as the separator is in none of the texts.                          *)
(***************************************************************************)
Says(i, effect, act, resource, constraint) ==
    /\ policies[i].effect = effect
    /\ policies[i].resource = resource
    /\ policies[i].constraint = constraint
    /\ \E n \in 1..Len(policies[i].actions) : policies[i].actions[n] = act

EvaluateIsDefaultDeny ==
    pc # "compile" =>
        \A act \in Actions, resource \in Resources, constraint \in Constraints :
            evaluate(act, resource, constraint) <=>
                LET ps == 1..Len(policies)
                IN  /\ \E i \in ps : Says(i, "allow", act, resource, constraint)
                    /\ ~\E i \in ps : Says(i, "deny", act, resource, constraint)

(***************************************************************************)
(* What allows_constraint answers, said of the policies: yes exactly if    *)
(* one with the constraint allows something and none with the constraint   *)
(* denies anything.  The scan's order and its early return do not matter,  *)
(* nor that a denied key has lost the Allow it also had.                   *)
(***************************************************************************)
With(constraint, effect) ==
    \E e \in Expansions : /\ HasConstraint(Key(e[1], e[2]), constraint)
                          /\ Effect(e[1]) = effect

AnswerIsDenyOverrides ==
    pc = "answered" => (answer <=> With(wanted, "allow") /\ ~With(wanted, "deny"))

=============================================================================
