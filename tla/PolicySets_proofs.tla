-------------------------- MODULE PolicySets_proofs -------------------------
(***************************************************************************)
(* Proofs about PolicySets, for any texts and any number of policies.      *)
(***************************************************************************)
EXTENDS PolicySets, SequenceTheorems, TLAPS

-----------------------------------------------------------------------------
(* What no step changes.                                                   *)

LEMMA PoliciesStay ==
    ASSUME [Next]_vars
    PROVE  /\ policies' = policies
           /\ Expansions' = Expansions
           /\ Keys' = Keys
           /\ \A i, n : Key(i, n)' = Key(i, n) /\ Effect(i)' = Effect(i)
<1>1. policies' = policies
  BY DEF Next, vars, compiled, CompileAction, NextPolicy, Compiled, Ask, SkipKey,
         SeeAllow, SeeDeny, ScanEnds
<1>2. Expansions' = Expansions
  BY <1>1 DEF Expansions
<1>3. \A i, n : Key(i, n)' = Key(i, n) /\ Effect(i)' = Effect(i)
  BY <1>1 DEF Key, Effect
<1>4. Keys' = Keys
  BY <1>2, <1>3 DEF Keys
<1> QED
  BY <1>1, <1>2, <1>3, <1>4

\* An action whose turn it is is one of the expansions.
LEMMA TurnIsExpansion ==
    ASSUME TypeOK, at <= Len(policies), action <= Len(policies[at].actions)
    PROVE  /\ <<at, action>> \in Expansions
           /\ Key(at, action) \in Keys
           /\ Effect(at) \in Effects
<1>1. /\ Len(policies) \in Nat /\ Len(policies) <= MaxPolicies
      /\ at \in 1..Len(policies) /\ action \in 1..MaxActions + 1
  BY DEF TypeOK
<1>2. policies[at] \in Policy
  BY <1>1 DEF TypeOK
<1>3. PICK n \in 1..MaxActions : policies[at].actions \in [1..n -> Actions]
  BY <1>2 DEF Policy
<1>4. Len(policies[at].actions) = n
  BY <1>3, BoundsAssumption
<1>5. at \in 1..MaxPolicies /\ action \in 1..MaxActions
  BY <1>1, <1>3, <1>4, BoundsAssumption
<1>6. <<at, action>> \in Expansions
  BY <1>5 DEF Expansions
<1> QED
  BY <1>2, <1>6 DEF Keys, Effect, Policy, Effects

\* Inserting an entry.
LEMMA InsertTable ==
    ASSUME TypeOK, NEW key, NEW effect \in Effects, Insert(key, effect)
    PROVE  /\ DOMAIN table' = DOMAIN table \cup {key}
           /\ table' \in [DOMAIN table' -> Effects]
           /\ \A k \in DOMAIN table : k # key => table'[k] = table[k]
           /\ table'[key] = "deny"
                <=> effect = "deny" \/ (key \in DOMAIN table /\ table[key] = "deny")
<1>1. CASE key \in DOMAIN table /\ table[key] = "deny"
  BY <1>1 DEF Insert, TypeOK
<1>2. CASE ~(key \in DOMAIN table /\ table[key] = "deny")
  <2>1. table' = [k \in DOMAIN table \cup {key} |-> IF k = key THEN effect ELSE table[k]]
    BY <1>2 DEF Insert
  <2> QED
    BY <1>2, <2>1 DEF TypeOK
<1> QED
  BY <1>1, <1>2

-----------------------------------------------------------------------------
(* Types.                                                                  *)

LEMMA InitType == Init => TypeOK
<1> SUFFICES ASSUME Init PROVE TypeOK
  OBVIOUS
<1>1. PICK n \in 0..MaxPolicies : policies \in [1..n -> Policy]
  BY DEF Init
<1>2. policies \in Seq(Policy) /\ Len(policies) = n
  BY <1>1, BoundsAssumption
<1>3. Len(policies) <= MaxPolicies /\ Len(policies) \in Nat
  BY <1>1, <1>2, BoundsAssumption
<1>4. at \in 1..Len(policies) + 1
  BY <1>3 DEF Init
<1>5. at <= Len(policies) => action <= Len(policies[at].actions) + 1
  <2> SUFFICES ASSUME at <= Len(policies)
               PROVE  action <= Len(policies[at].actions) + 1
    OBVIOUS
  <2>1. policies[at] \in Policy
    BY <1>2, <1>4
  <2>2. Len(policies[at].actions) \in Nat
    BY <2>1 DEF Policy
  <2> QED
    BY <2>2 DEF Init
<1>6. action \in 1..MaxActions + 1
  BY BoundsAssumption DEF Init
<1>7. DOMAIN table = {} /\ table \in [DOMAIN table -> Effects]
  BY DEF Init
<1> QED
  BY <1>2, <1>3, <1>4, <1>5, <1>6, <1>7 DEF Init, TypeOK

LEMMA NextType == TypeOK /\ [Next]_vars => TypeOK'
<1> SUFFICES ASSUME TypeOK, [Next]_vars PROVE TypeOK'
  OBVIOUS
<1>0. /\ policies' = policies /\ Keys' = Keys
      /\ Len(policies) \in Nat /\ MaxActions \in Nat
  BY PoliciesStay, BoundsAssumption DEF TypeOK
<1>1. CASE CompileAction
  <2>1. action' = action + 1 /\ action \in 1..MaxActions + 1
    BY <1>1 DEF CompileAction, TypeOK
  <2>2. <<at, action>> \in Expansions /\ Key(at, action) \in Keys /\ Effect(at) \in Effects
    BY <1>1, TurnIsExpansion DEF CompileAction
  <2>3. action \in 1..MaxActions /\ Len(policies[at].actions) \in Nat
    <3>1. at \in 1..Len(policies) /\ policies[at] \in Policy
      BY <1>1, <1>0 DEF CompileAction, TypeOK
    <3> QED
      BY <2>2, <3>1 DEF Expansions, Policy
  <2>4. action' <= Len(policies'[at'].actions) + 1
    BY <1>0, <1>1, <2>1, <2>3 DEF CompileAction
  <2>a. Insert(Key(at, action), Effect(at))
    BY <1>1 DEF CompileAction
  <2>b. /\ DOMAIN table' = DOMAIN table \cup {Key(at, action)}
        /\ table' \in [DOMAIN table' -> Effects]
    BY <2>2, <2>a, InsertTable
  <2>5. DOMAIN table' \subseteq Keys
    BY <2>2, <2>b DEF TypeOK
  <2>6. todo \subseteq DOMAIN table'
    BY <2>b DEF TypeOK
  <2> QED
    BY <1>0, <1>1, <2>1, <2>3, <2>4, <2>b, <2>5, <2>6 DEF CompileAction, TypeOK
<1>2. CASE NextPolicy
  <2>1. at' \in 1..Len(policies) + 1
    BY <1>0, <1>2 DEF NextPolicy, TypeOK
  <2>2. action' \in 1..MaxActions + 1
    BY <1>0, <1>2 DEF NextPolicy
  <2>3. at' <= Len(policies) => action' <= Len(policies[at'].actions) + 1
    <3> SUFFICES ASSUME at' <= Len(policies)
                 PROVE  action' <= Len(policies[at'].actions) + 1
      OBVIOUS
    <3>1. policies[at'] \in Policy
      BY <1>0, <2>1 DEF TypeOK
    <3>2. Len(policies[at'].actions) \in Nat
      BY <3>1 DEF Policy
    <3> QED
      BY <1>2, <3>2 DEF NextPolicy
  <2> QED
    BY <1>0, <1>2, <2>1, <2>2, <2>3 DEF NextPolicy, TypeOK
<1>3. CASE Compiled
  BY <1>0, <1>3 DEF Compiled, compiled, TypeOK
<1>4. CASE \E constraint \in Constraints : Ask(constraint)
  BY <1>0, <1>4 DEF Ask, compiled, TypeOK
<1>5. CASE \E key \in todo : SkipKey(key) \/ SeeAllow(key) \/ SeeDeny(key)
  BY <1>0, <1>5 DEF SkipKey, SeeAllow, SeeDeny, compiled, TypeOK
<1>6. CASE ScanEnds
  BY <1>0, <1>6 DEF ScanEnds, compiled, TypeOK
<1>7. CASE UNCHANGED vars
  BY <1>0, <1>7 DEF vars, TypeOK
<1> QED
  BY <1>1, <1>2, <1>3, <1>4, <1>5, <1>6, <1>7 DEF Next

\* Type correctness.
THEOREM TypeCorrect == Spec => []TypeOK
<1> QED
  BY InitType, NextType, PTL DEF Spec

-----------------------------------------------------------------------------
(* The table.                                                              *)

\* What has been seen after one more action.
LEMMA SeenGrows ==
    ASSUME TypeOK, CompileAction
    PROVE  Seen' = Seen \cup {<<at, action>>}
<1>1. /\ Expansions' = Expansions /\ at' = at /\ action' = action + 1
  BY PoliciesStay DEF CompileAction, Next
<1>2. <<at, action>> \in Expansions
  BY TurnIsExpansion DEF CompileAction
<1>3. ASSUME NEW e \in Expansions
      PROVE  /\ e[1] \in Nat /\ e[2] \in Nat /\ e = <<e[1], e[2]>>
  BY BoundsAssumption DEF Expansions
<1>4. at \in Nat /\ action \in Nat
  BY <1>2, <1>3
<1>5. ASSUME NEW e \in Expansions
      PROVE  e \in Seen' <=> e \in Seen \/ e = <<at, action>>
  BY <1>1, <1>3, <1>4, <1>5 DEF Seen
<1>6. Seen \subseteq Expansions /\ Seen' \subseteq Expansions
  BY <1>1 DEF Seen
<1> QED
  BY <1>2, <1>5, <1>6

\* Going on to the next policy changes nothing: all its actions were seen.
LEMMA SeenStays ==
    ASSUME TypeOK, NextPolicy
    PROVE  Seen' = Seen
<1>1. /\ Expansions' = Expansions /\ at' = at + 1 /\ action' = 1
  BY PoliciesStay DEF NextPolicy, Next
<1>2. ASSUME NEW e \in Expansions
      PROVE  /\ e[1] \in Nat /\ e[2] \in Nat /\ e[2] >= 1
             /\ e[2] <= Len(policies[e[1]].actions)
  BY BoundsAssumption DEF Expansions
<1>3. /\ at \in Nat /\ action \in Nat /\ policies[at] \in Policy
      /\ action > Len(policies[at].actions)
  BY BoundsAssumption DEF TypeOK, NextPolicy
<1>4. Len(policies[at].actions) \in Nat
  BY <1>3 DEF Policy
<1>5. ASSUME NEW e \in Expansions
      PROVE  e \in Seen' <=> e \in Seen
  BY <1>1, <1>2, <1>3, <1>4 DEF Seen
<1> QED
  BY <1>1, <1>5 DEF Seen

LEMMA InitTable == Init => TableIsDenyOverrides
<1> SUFFICES ASSUME Init PROVE TableIsDenyOverrides
  OBVIOUS
<1>1. Seen = {}
  BY BoundsAssumption DEF Init, Seen, Expansions
<1> QED
  BY <1>1 DEF Init, TableIsDenyOverrides

LEMMA NextTable ==
    TypeOK /\ TableIsDenyOverrides /\ [Next]_vars => TableIsDenyOverrides'
<1> SUFFICES ASSUME TypeOK, TableIsDenyOverrides, [Next]_vars
             PROVE  TableIsDenyOverrides'
  OBVIOUS
<1>0. /\ Expansions' = Expansions
      /\ \A i, n : Key(i, n)' = Key(i, n) /\ Effect(i)' = Effect(i)
  BY PoliciesStay
<1>1. CASE CompileAction
  <2> DEFINE key == Key(at, action)
  <2>1. Seen' = Seen \cup {<<at, action>>}
    BY <1>1, SeenGrows
  <2>2. Effect(at) \in Effects
    BY <1>1, TurnIsExpansion DEF CompileAction
  <2>3. Insert(key, Effect(at))
    BY <1>1 DEF CompileAction
  <2>4. /\ DOMAIN table' = DOMAIN table \cup {key}
        /\ \A k \in DOMAIN table : k # key => table'[k] = table[k]
        /\ table'[key] = "deny"
             <=> Effect(at) = "deny" \/ (key \in DOMAIN table /\ table[key] = "deny")
    BY <2>2, <2>3, InsertTable
  <2>5. DOMAIN table' = {Key(e[1], e[2])' : e \in Seen'}
    <3>1. {Key(e[1], e[2])' : e \in Seen'} = {Key(e[1], e[2]) : e \in Seen'}
      BY <1>0
    <3>2. <<at, action>>[1] = at /\ <<at, action>>[2] = action
      OBVIOUS
    <3>3. {Key(e[1], e[2]) : e \in Seen'} = {Key(e[1], e[2]) : e \in Seen} \cup {key}
      BY <2>1, <3>2
    <3> QED
      BY <2>4, <3>1, <3>3 DEF TableIsDenyOverrides
  <2>6. ASSUME NEW k \in DOMAIN table'
        PROVE  table'[k] = "deny" <=> Denied(k, Seen)'
    <3>0. /\ <<at, action>>[1] = at /\ <<at, action>>[2] = action
          /\ Denied(k, Seen)'
                <=> \E e \in Seen' : Key(e[1], e[2]) = k /\ Effect(e[1]) = "deny"
      BY <1>0 DEF Denied
    <3>1. Denied(k, Seen)' <=> Denied(k, Seen) \/ (k = key /\ Effect(at) = "deny")
      BY <2>1, <3>0 DEF Denied
    <3>2. k \in DOMAIN table => (table[k] = "deny" <=> Denied(k, Seen))
      BY DEF TableIsDenyOverrides
    <3>3. k \notin DOMAIN table => ~Denied(k, Seen)
      BY DEF TableIsDenyOverrides, Denied
    <3> QED
      BY <2>4, <3>1, <3>2, <3>3
  <2> QED
    BY <2>5, <2>6 DEF TableIsDenyOverrides
<1>2. ASSUME Seen' = Seen, table' = table
      PROVE  TableIsDenyOverrides'
  <2>1. \A k : Denied(k, Seen)' <=> Denied(k, Seen)
    BY <1>0, <1>2 DEF Denied
  <2>2. {Key(e[1], e[2])' : e \in Seen'} = {Key(e[1], e[2]) : e \in Seen}
    BY <1>0, <1>2
  <2> QED
    BY <1>2, <2>1, <2>2 DEF TableIsDenyOverrides
<1>3. CASE NextPolicy
  BY <1>2, <1>3, SeenStays DEF NextPolicy
<1>4. ASSUME UNCHANGED <<at, action, table>>
      PROVE  TableIsDenyOverrides'
  BY <1>0, <1>2, <1>4 DEF Seen
<1>5. CASE Compiled
  BY <1>4, <1>5 DEF Compiled, compiled
<1>6. CASE \E constraint \in Constraints : Ask(constraint)
  BY <1>4, <1>6 DEF Ask, compiled
<1>7. CASE \E key \in todo : SkipKey(key) \/ SeeAllow(key) \/ SeeDeny(key)
  BY <1>4, <1>7 DEF SkipKey, SeeAllow, SeeDeny, compiled
<1>8. CASE ScanEnds
  BY <1>4, <1>8 DEF ScanEnds, compiled
<1>9. CASE UNCHANGED vars
  BY <1>4, <1>9 DEF vars
<1> QED
  BY <1>1, <1>3, <1>5, <1>6, <1>7, <1>8, <1>9 DEF Next

\* from_policies lets a denial override whatever shares its key, at every
\* point of its loops.
THEOREM TablesAreDenyOverrides == Spec => []TableIsDenyOverrides
<1>1. TypeOK /\ TableIsDenyOverrides /\ [Next]_vars => TypeOK' /\ TableIsDenyOverrides'
  BY NextType, NextTable
<1> QED
  BY InitType, InitTable, <1>1, PTL DEF Spec

-----------------------------------------------------------------------------
(* The scan.                                                               *)

\* Where the scan stands: the keys it has passed deny nothing, and allowed
\* says whether one of them allows.
Passed == {key \in DOMAIN table \ todo : HasConstraint(key, wanted)}

ScanInvariant ==
    /\ pc = "scan" => /\ \A key \in Passed : table[key] = "allow"
                      /\ allowed <=> Passed # {}
    /\ pc = "answered" =>
          (answer <=> /\ \E key \in DOMAIN table :
                             HasConstraint(key, wanted) /\ table[key] = "allow"
                      /\ ~\E key \in DOMAIN table :
                             HasConstraint(key, wanted) /\ table[key] = "deny")

LEMMA NextScan == TypeOK /\ ScanInvariant /\ [Next]_vars => ScanInvariant'
<1> SUFFICES ASSUME TypeOK, ScanInvariant, [Next]_vars PROVE ScanInvariant'
  OBVIOUS
<1> DEFINE Has(key) == HasConstraint(key, wanted)
<1>0. \A key : HasConstraint(key, wanted)' <=> HasConstraint(key, wanted')
  BY DEF HasConstraint, EndsWith
<1>1. CASE CompileAction
  BY <1>1 DEF CompileAction, ScanInvariant
<1>2. CASE NextPolicy
  BY <1>2 DEF NextPolicy, ScanInvariant
<1>3. CASE Compiled
  BY <1>3 DEF Compiled, ScanInvariant
<1>4. CASE \E constraint \in Constraints : Ask(constraint)
  <2>1. pc' = "scan" /\ todo' = DOMAIN table /\ table' = table /\ allowed' = FALSE
    BY <1>4 DEF Ask, compiled
  <2>2. Passed' = {}
    BY <2>1 DEF Passed
  <2> QED
    BY <2>1, <2>2 DEF ScanInvariant
<1>5. ASSUME NEW key \in todo, SkipKey(key) PROVE ScanInvariant'
  <2>1. /\ UNCHANGED <<pc, table, wanted, allowed>> /\ todo' = todo \ {key}
        /\ pc = "scan" /\ ~Has(key)
    BY <1>5 DEF SkipKey, compiled
  <2>2. Passed' = Passed
    BY <1>0, <2>1 DEF Passed
  <2> QED
    BY <2>1, <2>2 DEF ScanInvariant
<1>6. ASSUME NEW key \in todo, SeeAllow(key) PROVE ScanInvariant'
  <2>1. /\ UNCHANGED <<pc, table, wanted>> /\ todo' = todo \ {key}
        /\ pc = "scan" /\ Has(key) /\ table[key] = "allow" /\ allowed' = TRUE
    BY <1>6 DEF SeeAllow, compiled
  <2>2. Passed' = Passed \cup {key}
    BY <1>0, <1>6, <2>1 DEF Passed, TypeOK
  <2> QED
    BY <2>1, <2>2 DEF ScanInvariant
<1>7. ASSUME NEW key \in todo, SeeDeny(key) PROVE ScanInvariant'
  <2>1. /\ UNCHANGED <<table, wanted>> /\ key \in DOMAIN table
        /\ pc' = "answered" /\ answer' = FALSE /\ Has(key) /\ table[key] = "deny"
    BY <1>7 DEF SeeDeny, compiled, TypeOK
  <2> QED
    BY <1>0, <2>1 DEF ScanInvariant
<1>8. CASE ScanEnds
  <2>1. /\ UNCHANGED <<table, wanted>> /\ todo = {} /\ pc = "scan"
        /\ pc' = "answered" /\ answer' = allowed
    BY <1>8 DEF ScanEnds, compiled
  <2>2. Passed = {key \in DOMAIN table : Has(key)}
    BY <2>1 DEF Passed
  <2>3. \A key \in Passed : table[key] = "allow" /\ table[key] # "deny"
    BY <2>1 DEF ScanInvariant
  <2>4. answer' <=> Passed # {}
    BY <2>1 DEF ScanInvariant
  <2> QED
    BY <1>0, <2>1, <2>2, <2>3, <2>4 DEF ScanInvariant
<1>9. CASE UNCHANGED vars
  <2>1. UNCHANGED <<pc, table, wanted, todo, allowed, answer>>
    BY <1>9 DEF vars
  <2>2. Passed' = Passed
    BY <1>0, <2>1 DEF Passed
  <2> QED
    BY <1>0, <2>1, <2>2 DEF ScanInvariant
<1> QED
  BY <1>1, <1>2, <1>3, <1>4, <1>5, <1>6, <1>7, <1>8, <1>9 DEF Next

\* When the loops are through, everything has been seen.
LEMMA AllSeen ==
    ASSUME TypeOK, pc # "compile"
    PROVE  Seen = Expansions
<1>1. at = Len(policies) + 1 /\ Len(policies) \in Nat
  BY DEF TypeOK
<1>2. ASSUME NEW e \in Expansions PROVE e[1] < at
  BY <1>1, BoundsAssumption DEF Expansions
<1> QED
  BY <1>2 DEF Seen

\* A key's entry speaks for the policies with that key.
LEMMA AnswerFollows ==
    ASSUME TypeOK, TableIsDenyOverrides, ScanInvariant
    PROVE  AnswerIsDenyOverrides
<1> SUFFICES ASSUME pc = "answered"
             PROVE  answer <=> With(wanted, "allow") /\ ~With(wanted, "deny")
  BY DEF AnswerIsDenyOverrides
<1> DEFINE Entry(effect) == \E key \in DOMAIN table :
                               HasConstraint(key, wanted) /\ table[key] = effect
<1>1. Seen = Expansions
  BY AllSeen
<1>2. /\ DOMAIN table = {Key(e[1], e[2]) : e \in Expansions}
      /\ \A key \in DOMAIN table : table[key] = "deny" <=> Denied(key, Expansions)
  BY <1>1 DEF TableIsDenyOverrides
<1>3. \A key \in DOMAIN table : table[key] \in {"allow", "deny"}
  BY DEF TypeOK, Effects
<1>4. ASSUME NEW e \in Expansions PROVE Effect(e[1]) \in {"allow", "deny"}
  <2>1. e[1] \in 1..Len(policies)
    BY BoundsAssumption DEF Expansions, TypeOK
  <2>2. policies[e[1]] \in Policy
    BY <2>1 DEF TypeOK
  <2> QED
    BY <2>2 DEF Policy, Effect, Effects
<1>5. With(wanted, "deny") <=> Entry("deny")
  BY <1>2 DEF With, Denied
<1>6. Entry("allow") /\ ~Entry("deny") => With(wanted, "allow")
  <2> SUFFICES ASSUME NEW key \in DOMAIN table, HasConstraint(key, wanted),
                      table[key] = "allow"
               PROVE  With(wanted, "allow")
    OBVIOUS
  <2>1. PICK e \in Expansions : Key(e[1], e[2]) = key
    BY <1>2
  <2>2. Effect(e[1]) # "deny"
    BY <1>2, <2>1 DEF Denied
  <2> QED
    BY <1>4, <2>1, <2>2 DEF With
<1>7. With(wanted, "allow") => Entry("allow") \/ Entry("deny")
  BY <1>2, <1>3 DEF With
<1>8. answer <=> Entry("allow") /\ ~Entry("deny")
  BY DEF ScanInvariant
<1> QED
  BY <1>5, <1>6, <1>7, <1>8

\* allows_constraint answers the same in every order of the scan.
THEOREM AnswersAreDenyOverrides == Spec => []AnswerIsDenyOverrides
<1>1. Init => TypeOK /\ TableIsDenyOverrides /\ ScanInvariant
  BY InitType, InitTable DEF Init, ScanInvariant
<1>2. TypeOK /\ TableIsDenyOverrides /\ ScanInvariant /\ [Next]_vars
          => TypeOK' /\ TableIsDenyOverrides' /\ ScanInvariant'
  BY NextType, NextTable, NextScan
<1>3. TypeOK /\ TableIsDenyOverrides /\ ScanInvariant => AnswerIsDenyOverrides
  BY AnswerFollows
<1> QED
  BY <1>1, <1>2, <1>3, PTL DEF Spec

-----------------------------------------------------------------------------
(* What the table's keys tell apart.                                       *)

\* Texts and their concatenation, opaque to the provers where there are many.
IsText(Parts, text) == text \in Seq(Parts)
Join(a, b) == a \o b

\* The separator is in no part of a text.
Without(text) == \A i \in 1..Len(text) : text[i] # Separator

LEMMA TextsJoin ==
    ASSUME NEW Parts, NEW a, NEW b, NEW c, IsText(Parts, a), IsText(Parts, b), IsText(Parts, c)
    PROVE  /\ IsText(Parts, Join(a, b))
           /\ Join(Join(a, b), c) = Join(a, Join(b, c))
<1>1. a \in Seq(Parts) /\ b \in Seq(Parts) /\ c \in Seq(Parts)
  BY DEF IsText
<1>2. a \o b \in Seq(Parts)
  BY <1>1
<1>3. a \o b \o c = a \o (b \o c)
  BY <1>1, ConcatAssociative
<1> QED
  BY <1>2, <1>3, Zenon DEF IsText, Join

LEMMA OnePart == ASSUME NEW Parts, NEW part \in Parts PROVE IsText(Parts, <<part>>)
BY DEF IsText

\* A text before a separator is read back from the two, whatever follows.
LEMMA TextsSplit ==
    ASSUME NEW Parts, NEW a \in Seq(Parts), NEW s \in Seq(Parts), NEW c \in Seq(Parts),
           NEW t \in Seq(Parts), Without(a), Without(c),
           Len(s) > 0, Len(t) > 0, s[1] = Separator, t[1] = Separator,
           a \o s = c \o t
    PROVE  a = c /\ s = t
<1>3. /\ Len(a \o s) = Len(a) + Len(s)
      /\ \A i \in 1..Len(a) : (a \o s)[i] = a[i]
      /\ (a \o s)[Len(a) + 1] = s[1]
  <2>1. Len(a \o s) = Len(a) + Len(s)
    OBVIOUS
  <2>2. \A i \in 1..Len(a) : (a \o s)[i] = a[i]
    OBVIOUS
  <2>3. (a \o s)[Len(a) + 1] = s[1]
    OBVIOUS
  <2> QED
    BY <2>1, <2>2, <2>3, Zenon
<1>4. /\ Len(c \o t) = Len(c) + Len(t)
      /\ \A i \in 1..Len(c) : (c \o t)[i] = c[i]
      /\ (c \o t)[Len(c) + 1] = t[1]
  OBVIOUS
<1>5. /\ Len(a) \in Nat /\ Len(c) \in Nat /\ Len(s) \in Nat /\ Len(t) \in Nat
  OBVIOUS
<1>6. ~(Len(a) < Len(c))
  <2> SUFFICES ASSUME Len(a) < Len(c) PROVE FALSE
    OBVIOUS
  <2>1. Len(a) + 1 \in 1..Len(c)
    BY <1>5
  <2>2. c[Len(a) + 1] # Separator
    BY <2>1, Zenon DEF Without
  <2>3. (c \o t)[Len(a) + 1] = c[Len(a) + 1]
    BY <1>4, <2>1, Zenon
  <2> QED
    BY <1>3, <2>2, <2>3, Zenon
<1>7. ~(Len(c) < Len(a))
  <2> SUFFICES ASSUME Len(c) < Len(a) PROVE FALSE
    OBVIOUS
  <2>1. Len(c) + 1 \in 1..Len(a)
    BY <1>5
  <2>2. a[Len(c) + 1] # Separator
    BY <2>1, Zenon DEF Without
  <2>3. (a \o s)[Len(c) + 1] = a[Len(c) + 1]
    BY <1>3, <2>1, Zenon
  <2> QED
    BY <1>4, <2>2, <2>3, Zenon
<1>8. a = c
  <2>1. Len(a) = Len(c)
    BY <1>5, <1>6, <1>7
  <2>2. ASSUME NEW i \in 1..Len(a) PROVE a[i] = c[i]
    <3>1. (a \o s)[i] = a[i] /\ (c \o t)[i] = c[i]
      BY <1>3, <1>4, <2>1, Zenon
    <3> QED
      BY <3>1, Zenon
  <2> QED
    BY <2>1, <2>2, SeqEqual
<1>9. s = t
  <2>1. a \o s = a \o t
    BY <1>8, Zenon
  <2> QED
    BY <2>1, ConcatSimplifications, Zenon
<1> QED
  BY <1>8, <1>9

\* The same with the separator and what follows it spelled out.
LEMMA FirstSplits ==
    ASSUME NEW Parts, NEW a, NEW b, NEW c, NEW d, Separator \in Parts,
           IsText(Parts, a), IsText(Parts, b), IsText(Parts, c), IsText(Parts, d),
           Without(a), Without(c),
           Join(a, Join(<<Separator>>, b)) = Join(c, Join(<<Separator>>, d))
    PROVE  a = c /\ b = d
<1>1. ASSUME NEW x \in Seq(Parts)
      PROVE  /\ <<Separator>> \o x \in Seq(Parts)
             /\ Len(<<Separator>> \o x) > 0
             /\ (<<Separator>> \o x)[1] = Separator
  OBVIOUS
<1>2. PICK s \in Seq(Parts) : s = <<Separator>> \o b /\ Len(s) > 0 /\ s[1] = Separator
  BY <1>1, Zenon DEF IsText
<1>3. PICK t \in Seq(Parts) : t = <<Separator>> \o d /\ Len(t) > 0 /\ t[1] = Separator
  BY <1>1, Zenon DEF IsText
<1>4. a = c /\ s = t
  BY <1>2, <1>3, TextsSplit, Zenon DEF IsText, Join
<1>5. <<Separator>> \in Seq(Parts)
  OBVIOUS
<1>6. b = d
  BY <1>2, <1>3, <1>4, <1>5, ConcatSimplifications, Zenon DEF IsText
<1> QED
  BY <1>4, <1>6, Zenon

\* The key of an action, a resource and a constraint determines the three.
LEMMA KeysAreInjective ==
    ASSUME NEW Parts, Separator \in Parts,
           NEW a1, NEW r1, NEW c1, NEW a2, NEW r2, NEW c2,
           IsText(Parts, a1), IsText(Parts, r1), IsText(Parts, c1),
           IsText(Parts, a2), IsText(Parts, r2), IsText(Parts, c2),
           Without(a1), Without(r1), Without(a2), Without(r2),
           policy_lookup_key(a1, r1, c1) = policy_lookup_key(a2, r2, c2)
    PROVE  a1 = a2 /\ r1 = r2 /\ c1 = c2
<1> DEFINE S == <<Separator>>
<1>1. IsText(Parts, S)
  BY OnePart
<1>2. \A a, r, c : policy_lookup_key(a, r, c) = Join(Join(Join(Join(a, S), r), S), c)
  BY Zenon DEF policy_lookup_key, Join
<1> HIDE DEF S
<1>3. ASSUME NEW a, NEW r, NEW c, IsText(Parts, a), IsText(Parts, r), IsText(Parts, c)
      PROVE  /\ policy_lookup_key(a, r, c) = Join(a, Join(S, Join(r, Join(S, c))))
             /\ IsText(Parts, Join(r, Join(S, c)))
  <2>1. IsText(Parts, Join(a, S)) /\ IsText(Parts, Join(S, c))
    BY <1>1, <1>3, TextsJoin
  <2>2. IsText(Parts, Join(Join(a, S), r)) /\ IsText(Parts, Join(r, Join(S, c)))
    BY <1>1, <1>3, <2>1, TextsJoin
  <2>3. Join(Join(Join(Join(a, S), r), S), c) = Join(Join(Join(a, S), r), Join(S, c))
    BY <1>1, <1>3, <2>2, TextsJoin
  <2>4. Join(Join(Join(a, S), r), Join(S, c)) = Join(Join(a, S), Join(r, Join(S, c)))
    BY <1>1, <1>3, <2>1, TextsJoin
  <2>5. Join(Join(a, S), Join(r, Join(S, c))) = Join(a, Join(S, Join(r, Join(S, c))))
    BY <1>1, <1>3, <2>2, TextsJoin
  <2> QED
    BY <1>2, <2>2, <2>3, <2>4, <2>5
<1>4. /\ Join(a1, Join(S, Join(r1, Join(S, c1)))) = Join(a2, Join(S, Join(r2, Join(S, c2))))
      /\ IsText(Parts, Join(r1, Join(S, c1))) /\ IsText(Parts, Join(r2, Join(S, c2)))
  BY <1>3
<1>5. a1 = a2 /\ Join(r1, Join(S, c1)) = Join(r2, Join(S, c2))
  BY <1>4, FirstSplits DEF S
<1>6. r1 = r2 /\ c1 = c2
  BY <1>5, FirstSplits DEF S
<1> QED
  BY <1>5, <1>6

\* Nothing in the actions and resources of policies is the separator.  The
\* constraint comes last in a key and may have it.
TextsOver(Parts) ==
    /\ Separator \notin Parts
    /\ Actions \subseteq Seq(Parts)
    /\ Resources \subseteq Seq(Parts)
    /\ Constraints \subseteq Seq(Parts \cup {Separator})

\* An expansion has a key exactly if its policy says it.
LEMMA KeyedPolicies ==
    ASSUME TypeOK, NEW Parts, TextsOver(Parts),
           NEW act \in Actions, NEW resource \in Resources, NEW constraint \in Constraints,
           NEW effect
    PROVE  (\E e \in Expansions : /\ Key(e[1], e[2]) = policy_lookup_key(act, resource, constraint)
                                  /\ Effect(e[1]) = effect)
               <=> \E i \in 1..Len(policies) : Says(i, effect, act, resource, constraint)
<1> DEFINE key == policy_lookup_key(act, resource, constraint)
<1>1. ASSUME NEW i \in 1..Len(policies)
      PROVE  /\ i \in 1..MaxPolicies /\ policies[i] \in Policy
             /\ Len(policies[i].actions) \in 1..MaxActions
             /\ \A n \in 1..Len(policies[i].actions) : policies[i].actions[n] \in Actions
             /\ policies[i].resource \in Resources /\ policies[i].constraint \in Constraints
  <2>1. policies[i] \in Policy /\ i \in 1..MaxPolicies
    BY <1>1, BoundsAssumption DEF TypeOK
  <2>2. PICK n \in 1..MaxActions : policies[i].actions \in [1..n -> Actions]
    BY <2>1 DEF Policy
  <2>3. Len(policies[i].actions) = n
    BY <2>2, BoundsAssumption
  <2> QED
    BY <2>1, <2>2, <2>3 DEF Policy
<1>2. ASSUME NEW i \in 1..Len(policies), NEW n \in 1..Len(policies[i].actions)
      PROVE  Key(i, n) = key <=> /\ policies[i].actions[n] = act
                                 /\ policies[i].resource = resource
                                 /\ policies[i].constraint = constraint
  <2> DEFINE a == policies[i].actions[n]
             r == policies[i].resource
             c == policies[i].constraint
  <2>1. a \in Actions /\ r \in Resources /\ c \in Constraints
    BY <1>1
  <2> HIDE DEF a, r, c
  <2>2. \A x \in Actions \cup Resources : x \in Seq(Parts \cup {Separator}) /\ Without(x)
    <3> SUFFICES ASSUME NEW x \in Seq(Parts)
                 PROVE  x \in Seq(Parts \cup {Separator}) /\ Without(x)
      BY DEF TextsOver
    <3>1. x \in Seq(Parts \cup {Separator})
      BY SeqMonotonic
    <3>2. Without(x)
      BY ElementOfSeq DEF TextsOver, Without
    <3> QED
      BY <3>1, <3>2
  <2>3. policy_lookup_key(a, r, c) = key => a = act /\ r = resource /\ c = constraint
    <3> DEFINE All == Parts \cup {Separator}
    <3>1. /\ Separator \in All
          /\ IsText(All, a) /\ IsText(All, r) /\ IsText(All, c)
          /\ IsText(All, act) /\ IsText(All, resource) /\ IsText(All, constraint)
          /\ Without(a) /\ Without(r) /\ Without(act) /\ Without(resource)
      BY <2>1, <2>2 DEF TextsOver, IsText
    <3> HIDE DEF All
    <3> QED
      BY <3>1, KeysAreInjective
  <2> QED
    BY <2>3 DEF Key, a, r, c
<1>3. ASSUME NEW e \in Expansions, Key(e[1], e[2]) = key, Effect(e[1]) = effect
      PROVE  \E i \in 1..Len(policies) : Says(i, effect, act, resource, constraint)
  <2>1. e[1] \in 1..Len(policies) /\ e[2] \in 1..Len(policies[e[1]].actions)
    <3>1. e[1] \in 1..Len(policies)
      BY BoundsAssumption DEF Expansions, TypeOK
    <3> QED
      BY <1>1, <3>1, BoundsAssumption DEF Expansions
  <2> QED
    BY <1>2, <1>3, <2>1 DEF Says, Effect
<1>4. ASSUME NEW i \in 1..Len(policies), Says(i, effect, act, resource, constraint)
      PROVE  \E e \in Expansions : Key(e[1], e[2]) = key /\ Effect(e[1]) = effect
  <2>1. PICK n \in 1..Len(policies[i].actions) : policies[i].actions[n] = act
    BY <1>4 DEF Says
  <2>2. Key(i, n) = key /\ Effect(i) = effect
    BY <1>2, <1>4, <2>1 DEF Says, Effect
  <2>3. <<i, n>> \in Expansions
    BY <1>1, <2>1, BoundsAssumption DEF Expansions, TypeOK
  <2> QED
    BY <2>2, <2>3
<1> QED
  BY <1>3, <1>4

\* evaluate looks at the entry of the policies that say what it is asked.
LEMMA EvaluationFollows ==
    ASSUME TypeOK, TableIsDenyOverrides, NEW Parts, TextsOver(Parts)
    PROVE  EvaluateIsDefaultDeny
<1> SUFFICES ASSUME pc # "compile",
                    NEW act \in Actions, NEW resource \in Resources,
                    NEW constraint \in Constraints
             PROVE  evaluate(act, resource, constraint) <=>
                        /\ \E i \in 1..Len(policies) : Says(i, "allow", act, resource, constraint)
                        /\ ~\E i \in 1..Len(policies) : Says(i, "deny", act, resource, constraint)
  BY DEF EvaluateIsDefaultDeny
<1> DEFINE key == policy_lookup_key(act, resource, constraint)
           Some(effect) == \E e \in Expansions : Key(e[1], e[2]) = key /\ Effect(e[1]) = effect
<1>1. Seen = Expansions
  BY AllSeen
<1>2. /\ DOMAIN table = {Key(e[1], e[2]) : e \in Expansions}
      /\ \A k \in DOMAIN table : table[k] = "deny" <=> Denied(k, Expansions)
  BY <1>1 DEF TableIsDenyOverrides
<1>3. ASSUME NEW e \in Expansions PROVE Effect(e[1]) \in {"allow", "deny"}
  <2>1. e[1] \in 1..Len(policies)
    BY BoundsAssumption DEF Expansions, TypeOK
  <2>2. policies[e[1]] \in Policy
    BY <2>1 DEF TypeOK
  <2> QED
    BY <2>2 DEF Policy, Effect, Effects
<1>4. key \in DOMAIN table <=> Some("allow") \/ Some("deny")
  BY <1>2, <1>3
<1>5. key \in DOMAIN table => (table[key] = "deny" <=> Some("deny"))
  BY <1>2 DEF Denied
<1>6. key \in DOMAIN table => table[key] \in {"allow", "deny"}
  BY DEF TypeOK, Effects
<1>7. evaluate(act, resource, constraint) <=> Some("allow") /\ ~Some("deny")
  BY <1>4, <1>5, <1>6 DEF evaluate
<1> QED
  BY <1>7, KeyedPolicies

\* evaluate allows exactly what a policy allows and none denies, as long as no
\* action and no resource has the separator in it.  validate_resource keeps it
\* out of the resources; of the actions it is what a deployment has to see to.
THEOREM EvaluationsAreDefaultDeny ==
    ASSUME NEW Parts, TextsOver(Parts)
    PROVE  Spec => []EvaluateIsDefaultDeny
<1>1. TypeOK /\ TableIsDenyOverrides => EvaluateIsDefaultDeny
  BY EvaluationFollows
<1>2. TypeOK /\ TableIsDenyOverrides /\ [Next]_vars => TypeOK' /\ TableIsDenyOverrides'
  BY NextType, NextTable
<1> QED
  BY InitType, InitTable, <1>1, <1>2, PTL DEF Spec

=============================================================================
