----------------------------- MODULE PolicyKeys -----------------------------
(***************************************************************************)
(* The policies of one workspace and their runtime keys                    *)
(* (core/services/policy.rs).                                              *)
(*                                                                         *)
(* No two policies of a workspace are to say the same.  The key that tells *)
(* is derived from the row and not stored, so no index can enforce it:     *)
(* create and update list the rows, compare, and write with a statement of *)
(* its own.  An update is a patch: it is checked as merged with a row read *)
(* before, and applied to whatever the row is when it is written.  A list  *)
(* without options returns ListLimit rows at most, in no given order.      *)
(*                                                                         *)
(* Resource and constraint are optional fields of a patch like the effect, *)
(* which stands for them.                                                  *)
(***************************************************************************)
EXTENDS Naturals, Sequences, FiniteSets

CONSTANTS
    Ids,            \* policy ids, a bound on the policies ever created
    Admins,         \* requests that create, update and delete policies
    Effects,
    Actions,
    ActionLists,    \* what a request may give as actions
    Keep,           \* stands for a field that a patch leaves out
    ListLimit       \* LIST_LIMIT_DEFAULT

VARIABLES
    policy,     \* the policy rows, by id
    used,       \* ids that were ever given to a row
    adm         \* the state of each request

keyVars == <<policy, used, adm>>

Stored == DOMAIN policy

Body == [effect : Effects, actions : ActionLists]
Patch == [effect : Effects \cup {Keep}, actions : ActionLists \cup {Keep}]

(***************************************************************************)
(* blind: the request that wrote the row had not seen all other rows as    *)
(* they were then, because its list was cut off at ListLimit or another    *)
(* request wrote one since it began to read.                               *)
(***************************************************************************)
Row == [body : Body, blind : BOOLEAN]

Idle == [pc |-> "idle"]
Creating == [pc : {"insert"}, body : Body, blind : BOOLEAN]
Updating == [pc : {"list", "write"}, id : Ids, patch : Patch, body : Body,
             blind : BOOLEAN]

IsIdle(w) == adm[w].pc = "idle"

KeysTypeOK ==
    /\ used \subseteq Ids
    /\ Stored \subseteq used
    /\ policy \in [Stored -> Row]
    /\ adm \in [Admins -> {Idle} \cup Creating \cup Updating]

KeysInit ==
    /\ policy = [p \in {} |-> Idle]
    /\ used = {}
    /\ adm = [w \in Admins |-> Idle]

-----------------------------------------------------------------------------
(* Helpers.                                                                *)

\* Mutant: what the patch leaves out is not taken from the row.
MergeNothing(body, patch) == patch

\* unwrap_or of each optional field
Merge(body, patch) ==
    [effect  |-> IF patch.effect = Keep THEN body.effect ELSE patch.effect,
     actions |-> IF patch.actions = Keep THEN body.actions ELSE patch.actions]

Occurrences(actions, action) ==
    Cardinality({n \in DOMAIN actions : actions[n] = action})

\* Mutant: the actions are joined without being sorted.
UnsortedKey(body) == <<body.effect, body.actions>>

\* Sorted and joined, two lists of actions are the same text if every action
\* occurs in both equally often.
runtime_key(body) ==
    <<body.effect, [action \in Actions |-> Occurrences(body.actions, action)]>>

\* What a list may return of the rows.
Listings ==
    {listed \in SUBSET Stored :
        \/ listed = Stored
        \/ Cardinality(listed) = ListLimit /\ Cardinality(Stored) > ListLimit}

\* ensure_runtime_key_unique, on a listing.
Unique(body, listed, excluded) ==
    \A p \in listed \ excluded : runtime_key(policy[p].body) # runtime_key(body)

Become(w, state) == adm' = [adm EXCEPT ![w] = state]

\* A row is written: the other requests have not seen it like that.
Write(w, p, body) ==
    /\ policy' = [q \in Stored \cup {p} |->
                  IF q = p THEN [body |-> body, blind |-> adm[w].blind] ELSE policy[q]]
    /\ adm' = [v \in Admins |-> IF v = w \/ IsIdle(v) THEN Idle
                                ELSE [adm[v] EXCEPT !.blind = TRUE]]

-----------------------------------------------------------------------------
(* PolicyService::create                                                   *)

CheckNew(w, body) ==
    /\ IsIdle(w)
    /\ \E listed \in Listings :
          /\ Unique(body, listed, {})
          /\ Become(w, [pc |-> "insert", body |-> body, blind |-> listed # Stored])
    /\ UNCHANGED <<policy, used>>

Insert(w, p) ==
    /\ adm[w].pc = "insert"
    /\ p \notin used
    /\ used' = used \cup {p}
    /\ Write(w, p, adm[w].body)

-----------------------------------------------------------------------------
(* PolicyService::update                                                   *)

\* The row as it is, merged with the patch.
ReadRow(w, p, patch) ==
    /\ IsIdle(w)
    /\ p \in Stored
    /\ Become(w, [pc |-> "list", id |-> p, patch |-> patch,
                  body |-> Merge(policy[p].body, patch), blind |-> FALSE])
    /\ UNCHANGED <<policy, used>>

\* Mutant: policies with the same effect are left out of the comparison.
CheckMergedLoosely(w) ==
    /\ adm[w].pc = "list"
    /\ \E listed \in Listings :
          /\ Unique(adm[w].body, listed,
                    {p \in Stored : policy[p].body.effect = adm[w].body.effect})
          /\ Become(w, [adm[w] EXCEPT !.pc = "write", !.blind = @ \/ listed # Stored])
    /\ UNCHANGED <<policy, used>>

CheckMerged(w) ==
    /\ adm[w].pc = "list"
    /\ \E listed \in Listings :
          /\ Unique(adm[w].body, listed, {adm[w].id})
          /\ Become(w, [adm[w] EXCEPT !.pc = "write", !.blind = @ \/ listed # Stored])
    /\ UNCHANGED <<policy, used>>

\* Mutant: the UPDATE takes the actions as they are in the request.
UpdateActionsOnly(w) ==
    /\ adm[w].pc = "write"
    /\ adm[w].id \in Stored
    /\ UNCHANGED used
    /\ Write(w, adm[w].id, Merge(policy[adm[w].id].body, [adm[w].patch EXCEPT !.effect = Keep]))

\* The UPDATE sets the fields of the patch.
Update(w) ==
    /\ adm[w].pc = "write"
    /\ adm[w].id \in Stored
    /\ UNCHANGED used
    /\ Write(w, adm[w].id, Merge(policy[adm[w].id].body, adm[w].patch))

-----------------------------------------------------------------------------
\* PolicyService::delete
Delete(w, p) ==
    /\ IsIdle(w)
    /\ p \in Stored
    /\ policy' = [q \in Stored \ {p} |-> policy[q]]
    /\ UNCHANGED <<used, adm>>

\* The key is taken, a statement fails or finds no row, the timeout comes.
End(w) ==
    /\ ~IsIdle(w)
    /\ Become(w, Idle)
    /\ UNCHANGED <<policy, used>>

AdminStep(w) ==
    \/ \E body \in Body : CheckNew(w, body)
    \/ \E p \in Ids : Insert(w, p)
    \/ \E p \in Ids, patch \in Patch : ReadRow(w, p, patch)
    \/ CheckMerged(w)
    \/ Update(w)
    \/ \E p \in Ids : Delete(w, p)
    \/ End(w)

KeysNext == \E w \in Admins : AdminStep(w)

KeysSpec == KeysInit /\ [][KeysNext]_keyVars

-----------------------------------------------------------------------------
SaySame(body, other) ==
    /\ body.effect = other.effect
    /\ \A action \in Actions :
          Occurrences(body.actions, action) = Occurrences(other.actions, action)

(***************************************************************************)
(* ensure_runtime_key_unique guards the workspace: two policies that say   *)
(* the same exist only if one of them was written by a request that had    *)
(* not seen all rows as they then were.  In particular the check of the    *)
(* merged row is enough although only a patch is written, and a policy is  *)
(* never in its own way.                                                   *)
(***************************************************************************)
UniqueUnlessBlind ==
    \A p, q \in Stored :
        p # q /\ SaySame(policy[p].body, policy[q].body)
            => policy[p].blind \/ policy[q].blind

(***************************************************************************)
(* An update leaves the row that was checked, field by field, unless       *)
(* another request wrote in between.                                       *)
(***************************************************************************)
UpdatesWhatWasChecked ==
    [][\A w \in Admins :
          Update(w) /\ ~adm[w].blind
              => policy'[adm[w].id].body = adm[w].body]_keyVars

=============================================================================
