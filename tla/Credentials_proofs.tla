------------------------- MODULE Credentials_proofs -------------------------
(***************************************************************************)
(* Proofs about Credentials, for any number of credentials, requests and   *)
(* reset tokens.                                                           *)
(***************************************************************************)
EXTENDS Credentials, TLAPS

(* The parts of the type invariant, to be disturbed one at a time *)
StoreOK ==
    /\ DOMAIN rows \subseteq Credentials
    /\ rows \in [DOMAIN rows -> Row]
    /\ scopes \in [Workspaces -> 0..MaxScope]
    /\ now \in 0..MaxTime
    /\ expiry \in [Tokens -> Nat]
CacheOK ==
    /\ cache \in [Credentials -> Entry]
    /\ \A c \in Credentials : cache[c] = NoEntry \/ now < cache[c].ends
RequestsOK ==
    /\ pc \in [Requests -> Steps]
    /\ input \in [Requests -> Input]
    /\ id \in [Requests -> Credentials]
    /\ given \in [Requests -> SUBSET Fields]
    /\ to \in [Requests -> Row]
    /\ read \in [Requests -> Row]
    /\ grant \in [Requests -> Entry]
PastOK ==
    /\ late \subseteq Credentials
    /\ stale \in [Requests -> BOOLEAN]
    /\ raced \in [Requests -> BOOLEAN]

LEMMA Parts == TypeOK <=> StoreOK /\ CacheOK /\ RequestsOK /\ PastOK
BY DEF TypeOK, StoreOK, CacheOK, RequestsOK, PastOK

LEMMA StoreKept == ASSUME StoreOK, UNCHANGED <<rows, scopes, now, expiry>> PROVE StoreOK'
BY DEF StoreOK

LEMMA CacheKept == ASSUME CacheOK, UNCHANGED <<cache, now>> PROVE CacheOK'
BY DEF CacheOK

LEMMA PastKept == ASSUME PastOK, UNCHANGED past PROVE PastOK'
BY DEF PastOK, past

(* A request moves on and nothing else of it changes *)
LEMMA Moved ==
    ASSUME RequestsOK, NEW r \in Requests, NEW step \in Steps, Goto(r, step),
           UNCHANGED <<input, id, given, to, read, grant>>
    PROVE  RequestsOK'
BY DEF RequestsOK, Goto

LEMMA NoEntryType == NoEntry \in Entry
BY BoundsAssumption DEF NoEntry, Entry, Never

LEMMA IdleType == Idle \in Input /\ Idle.id \in Credentials /\ Idle.to \in Row
<1> DEFINE c == CHOOSE c \in Credentials : TRUE
           p == CHOOSE p \in Passwords : TRUE
           t == CHOOSE t \in Tokens : TRUE
<1>1. c \in Credentials /\ p \in Passwords /\ t \in Tokens
  BY CredentialsAssumption
<1>2. Seeded[c] \in Row /\ Seeded[c].workspace \in Workspaces
  BY <1>1, SeededAssumption DEF Row
<1> HIDE DEF c, p, t
<1>3. [op |-> "login", id |-> c, workspace |-> Seeded[c].workspace, password |-> p,
       token |-> t, given |-> {}, to |-> Seeded[c]] \in Input
  BY <1>1, <1>2 DEF Input
<1>4. Idle = [op |-> "login", id |-> c, workspace |-> Seeded[c].workspace, password |-> p,
              token |-> t, given |-> {}, to |-> Seeded[c]]
  BY DEF Idle, c, p, t
<1>5. QED
  BY <1>1, <1>2, <1>3, <1>4

LEMMA InitTypes == Init => TypeOK
<1> SUFFICES ASSUME Init PROVE TypeOK
  OBVIOUS
<1>1. StoreOK
  BY SeededAssumption, BoundsAssumption DEF Init, StoreOK, NotIssued
<1>2. CacheOK
  BY NoEntryType DEF Init, CacheOK
<1>3. RequestsOK
  BY IdleType, NoEntryType DEF Init, RequestsOK, Steps
<1>4. PastOK
  BY DEF Init, PastOK
<1>5. QED
  BY <1>1, <1>2, <1>3, <1>4, Parts

LEMMA RefuseTypes == ASSUME TypeOK, NEW r \in Requests, Refuse(r) PROVE TypeOK'
<1>1. "refused" \in Steps
  BY DEF Steps
<1>2. RequestsOK'
  BY <1>1, Parts, Moved DEF Refuse
<1>3. StoreOK' /\ CacheOK' /\ PastOK'
  BY Parts, StoreKept, CacheKept, PastKept DEF Refuse
<1>4. QED
  BY <1>2, <1>3 DEF TypeOK, StoreOK, CacheOK, RequestsOK, PastOK

(* A step that only moves the request on *)
LEMMA PassTypes ==
    ASSUME TypeOK, NEW r \in Requests, NEW step \in Steps, Goto(r, step),
           UNCHANGED <<rows, scopes, cache, now, expiry, input, id, given, to, read, grant, past>>
    PROVE  TypeOK'
<1>1. StoreOK' /\ CacheOK' /\ PastOK' /\ RequestsOK'
  BY Parts, StoreKept, CacheKept, PastKept, Moved
<1>2. QED
  BY <1>1 DEF TypeOK, StoreOK, CacheOK, RequestsOK, PastOK

LEMMA UpdatedType ==
    ASSUME NEW row \in Row, NEW fields, NEW new \in Row PROVE Updated(row, fields, new) \in Row
BY ZenonT(30) DEF Updated, Row

LEMMA ClearTypes ==
    ASSUME TypeOK, NEW r \in Requests, NEW step \in Steps, Goto(r, step),
           cache' = [cache EXCEPT ![id[r]] = NoEntry],
           UNCHANGED <<rows, scopes, now, expiry, input, id, given, to, read, grant, past>>
    PROVE  TypeOK'
<1>1. StoreOK' /\ PastOK' /\ RequestsOK'
  BY Parts, StoreKept, PastKept, Moved
<1>2. CacheOK'
  BY NoEntryType DEF TypeOK, CacheOK
<1>3. QED
  BY <1>1, <1>2 DEF TypeOK, StoreOK, CacheOK, RequestsOK, PastOK

LEMMA StepTypes == ASSUME TypeOK, NEW r \in Requests, Step(r) PROVE TypeOK'
<1> USE DEF At
<1>1. StoreOK /\ CacheOK /\ RequestsOK /\ PastOK
  BY Parts
<1>2. \A op : First(op) \in Steps
  BY DEF First, Steps
<1>3. CASE Refuse(r)
  BY <1>3, RefuseTypes
<1>4. CASE Receive(r)
  <2>1. PICK i \in Inputs[r] : /\ input' = [input EXCEPT ![r] = i]
                               /\ id' = [id EXCEPT ![r] = i.id]
                               /\ given' = [given EXCEPT ![r] = i.given]
                               /\ to' = [to EXCEPT ![r] = i.to]
                               /\ Goto(r, First(i.op))
    BY <1>4 DEF Receive
  <2>2. i \in Input
    BY InputsAssumption
  <2>3. RequestsOK'
    BY <1>1, <1>2, <1>4, <2>1, <2>2 DEF Receive, RequestsOK, Goto, Input
  <2>4. StoreOK' /\ CacheOK' /\ PastOK'
    BY <1>1, <1>4, StoreKept, CacheKept, PastKept DEF Receive
  <2>5. QED
    BY <2>3, <2>4 DEF TypeOK, StoreOK, CacheOK, RequestsOK, PastOK
<1>5. CASE Fail(r)
  BY <1>5, PassTypes DEF Fail, Steps
<1>6. CASE ReadCredential(r) /\ ~Refuse(r)
  <2>1. /\ read' = [read EXCEPT ![r] = rows[id[r]]] /\ id[r] \in DOMAIN rows
        /\ stale' = [stale EXCEPT ![r] = FALSE] /\ Goto(r, "check")
        /\ UNCHANGED <<rows, scopes, cache, now, expiry, input, id, given, to, grant, late, raced>>
    BY <1>6 DEF ReadCredential
  <2>2. RequestsOK' /\ PastOK'
    BY <1>1, <2>1 DEF StoreOK, RequestsOK, PastOK, Goto, Steps
  <2>3. StoreOK' /\ CacheOK'
    BY <1>1, <2>1, StoreKept, CacheKept
  <2>4. QED
    BY <2>2, <2>3 DEF TypeOK, StoreOK, CacheOK, RequestsOK, PastOK
<1>7. CASE CheckCredential(r) /\ ~Refuse(r)
  BY <1>7, PassTypes DEF CheckCredential, Steps
<1>8. CASE BuildGrant(r) /\ ~Refuse(r)
  <2> DEFINE row == read[r]
             new == [scope |-> scopes[row.workspace], status |-> row.status,
                     until |-> row.until,
                     ends |-> IF row.until = Never THEN Never
                              ELSE IF row.until > now THEN row.until - now ELSE 0]
  <2>1. /\ grant' = [grant EXCEPT ![r] = new] /\ Goto(r, "store")
        /\ UNCHANGED <<rows, scopes, cache, now, expiry, input, id, given, to, read, past>>
    BY <1>8 DEF BuildGrant
  <2>2. new \in Entry
    <3>1. row \in Row
      BY <1>1 DEF RequestsOK
    <3>2. /\ row.workspace \in Workspaces /\ row.status \in Statuses /\ row.until \in 0..Never
          /\ Never \in Nat /\ now \in Nat
      BY <1>1, <3>1, BoundsAssumption DEF Row, StoreOK, Never
    <3>3. scopes[row.workspace] \in 0..MaxScope
      BY <1>1, <3>2 DEF StoreOK
    <3>4. (IF row.until = Never THEN Never
           ELSE IF row.until > now THEN row.until - now ELSE 0) \in Nat
      BY <3>2
    <3>5. QED
      BY <3>2, <3>3, <3>4 DEF Entry
  <2> HIDE DEF new
  <2>3. RequestsOK'
    BY <1>1, <2>1, <2>2 DEF RequestsOK, Goto, Steps
  <2>4. StoreOK' /\ CacheOK' /\ PastOK'
    BY <1>1, <2>1, StoreKept, CacheKept, PastKept
  <2>5. QED
    BY <2>3, <2>4 DEF TypeOK, StoreOK, CacheOK, RequestsOK, PastOK
<1>9. CASE StoreGrant(r) /\ ~Refuse(r)
  <2> DEFINE ttl == grant[r].ends
             new == [grant[r] EXCEPT !.ends = IF ttl = Never THEN Never ELSE now + ttl]
  <2>1. /\ ttl > 0 /\ cache' = [cache EXCEPT ![id[r]] = new] /\ Late(id[r], r)
        /\ Goto(r, "answered")
        /\ UNCHANGED <<rows, scopes, now, expiry, input, id, given, to, read, grant, stale, raced>>
    BY <1>9 DEF StoreGrant
  <2>2. new \in Entry /\ now < new.ends
    <3>1. grant[r] \in Entry /\ now \in 0..MaxTime
      BY <1>1 DEF RequestsOK, StoreOK
    <3>2. ttl \in Nat /\ (IF ttl = Never THEN Never ELSE now + ttl) \in Nat
          /\ now < (IF ttl = Never THEN Never ELSE now + ttl)
      BY <2>1, <3>1, BoundsAssumption DEF Entry, Never
    <3>3. QED
      BY <3>1, <3>2 DEF Entry
  <2> HIDE DEF new
  <2>3. CacheOK'
    BY <1>1, <2>1, <2>2 DEF CacheOK, RequestsOK
  <2>4. RequestsOK'
    BY <1>1, <2>1 DEF RequestsOK, Goto, Steps
  <2>5. StoreOK' /\ PastOK'
    BY <1>1, <2>1, StoreKept DEF PastOK, Late, RequestsOK
  <2>6. QED
    BY <2>3, <2>4, <2>5 DEF TypeOK, StoreOK, CacheOK, RequestsOK, PastOK
<1>10. CASE Present(r) /\ ~Refuse(r)
  BY <1>10, PassTypes DEF Present, Steps
<1>11. CASE Choose(r) /\ ~Refuse(r)
  <2>1. PICK c \in Newest(Local(Workspaces)) :
            /\ id' = [id EXCEPT ![r] = c]
            /\ given' = [given EXCEPT ![r] = {"secret"}]
            /\ to' = [to EXCEPT ![r] = [rows[c] EXCEPT !.secret = Hash(input[r].password)]]
            /\ raced' = [raced EXCEPT ![r] = FALSE]
            /\ Goto(r, "find")
            /\ UNCHANGED <<rows, scopes, cache, now, expiry, input, read, grant, late, stale>>
    BY <1>11 DEF Choose
  <2>2. c \in Credentials /\ rows[c] \in Row /\ {"secret"} \in SUBSET Fields
    BY <1>1 DEF Newest, Local, StoreOK, Fields
  <2>3. [rows[c] EXCEPT !.secret = Hash(input[r].password)] \in Row
    <3>1. input[r].password \in Passwords
      BY <1>1 DEF RequestsOK, Input
    <3>2. Hash(input[r].password) \in Secrets
      BY <3>1 DEF Secrets
    <3>3. QED
      BY <2>2, <3>2 DEF Row
  <2>4. RequestsOK' /\ PastOK'
    BY <1>1, <2>1, <2>2, <2>3 DEF RequestsOK, PastOK, Goto, Steps
  <2>5. StoreOK' /\ CacheOK'
    BY <1>1, <2>1, StoreKept, CacheKept
  <2>6. QED
    BY <2>4, <2>5 DEF TypeOK, StoreOK, CacheOK, RequestsOK, PastOK
<1>12. CASE Find(r) /\ ~Refuse(r)
  BY <1>12, PassTypes DEF Find, Steps
<1>13. CASE Clear(r)
  BY <1>13, ClearTypes DEF Clear, Steps
<1>14. CASE Write(r) /\ ~Refuse(r)
  <2> DEFINE c == id[r]
             new == Updated(rows[c], given[r], to[r])
  <2>1. /\ c \in DOMAIN rows /\ Wrote({c}, {r}) /\ Goto(r, "clearAgain")
        /\ \/ rows' = [other \in DOMAIN rows \ {c} |-> rows[other]]
           \/ rows' = [rows EXCEPT ![c] = new]
        /\ UNCHANGED <<scopes, cache, now, expiry, input, id, given, to, read, grant>>
    BY <1>14 DEF Write
  <2>2. new \in Row
    BY <1>1, <2>1, UpdatedType DEF StoreOK, RequestsOK
  <2> HIDE DEF new
  <2>3. StoreOK'
    BY <1>1, <2>1, <2>2 DEF StoreOK
  <2>4. RequestsOK' /\ CacheOK'
    BY <1>1, <2>1, CacheKept DEF RequestsOK, Goto, Steps
  <2>5. PastOK'
    BY <1>1, <2>1 DEF PastOK, Wrote
  <2>6. QED
    BY <2>3, <2>4, <2>5 DEF TypeOK, StoreOK, CacheOK, RequestsOK, PastOK
<1>15. CASE ClearAgain(r)
  BY <1>15, ClearTypes DEF ClearAgain, Steps
<1>16. CASE Describe(r) /\ ~Refuse(r)
  BY <1>16, PassTypes DEF Describe, Steps
<1>17. CASE Login(r) /\ ~Refuse(r)
  BY <1>17, PassTypes DEF Login, Steps
<1>18. QED
  BY <1>3, <1>4, <1>5, <1>6, <1>7, <1>8, <1>9, <1>10, <1>11, <1>12, <1>13, <1>14, <1>15,
     <1>16, <1>17 DEF Step

LEMMA NextTypes == TypeOK /\ [Next]_vars => TypeOK'
<1> SUFFICES ASSUME TypeOK, [Next]_vars PROVE TypeOK'
  OBVIOUS
<1>1. StoreOK /\ CacheOK /\ RequestsOK /\ PastOK
  BY Parts
<1>2. CASE UNCHANGED vars
  BY <1>2 DEF vars, reqs, past, TypeOK
<1>3. ASSUME NEW t \in Tokens, RequestReset(t) PROVE TypeOK'
  <2>1. StoreOK'
    BY <1>1, <1>3, BoundsAssumption DEF RequestReset, StoreOK
  <2>2. CacheOK' /\ RequestsOK' /\ PastOK'
    BY <1>1, <1>3, CacheKept, PastKept DEF RequestReset, reqs, RequestsOK
  <2>3. QED
    BY <2>1, <2>2 DEF TypeOK, StoreOK, CacheOK, RequestsOK, PastOK
<1>4. ASSUME NEW w \in Workspaces, ChangeScope(w) PROVE TypeOK'
  <2>1. StoreOK'
    BY <1>1, <1>4, BoundsAssumption DEF ChangeScope, StoreOK
  <2>2. CacheOK' /\ RequestsOK' /\ PastOK'
    BY <1>1, <1>4, CacheKept, PastKept DEF ChangeScope, reqs, RequestsOK
  <2>3. QED
    BY <2>1, <2>2 DEF TypeOK, StoreOK, CacheOK, RequestsOK, PastOK
<1>5. ASSUME NEW w \in Workspaces, RemoveMembership(w) PROVE TypeOK'
  <2>1. StoreOK'
    BY <1>1, <1>5, BoundsAssumption DEF RemoveMembership, StoreOK
  <2>2. CacheOK' /\ RequestsOK'
    BY <1>1, <1>5, CacheKept DEF RemoveMembership, reqs, RequestsOK
  <2>3. PastOK'
    BY <1>1, <1>5 DEF RemoveMembership, Wrote, PastOK
  <2>4. QED
    BY <2>1, <2>2, <2>3 DEF TypeOK, StoreOK, CacheOK, RequestsOK, PastOK
<1>6. CASE Tick
  <2>1. StoreOK' /\ RequestsOK' /\ PastOK'
    BY <1>1, <1>6, PastKept, BoundsAssumption DEF Tick, StoreOK, reqs, RequestsOK
  <2>2. cache' \in [Credentials -> Entry]
    BY <1>1, <1>6, NoEntryType DEF Tick, CacheOK
  <2>3. ASSUME NEW c \in Credentials, cache'[c] # NoEntry PROVE now' < cache'[c].ends
    <3>1. cache'[c] = cache[c] /\ ~(cache[c].ends <= now + 1) /\ now' = now + 1
      BY <1>6, <2>3 DEF Tick
    <3>2. cache[c].ends \in Nat /\ now \in Nat
      BY <1>1 DEF CacheOK, Entry, StoreOK
    <3>3. QED
      BY <3>1, <3>2
  <2>4. QED
    BY <2>1, <2>2, <2>3 DEF TypeOK, StoreOK, CacheOK, RequestsOK, PastOK
<1>7. QED
  BY <1>2, <1>3, <1>4, <1>5, <1>6, StepTypes DEF Next

(* In every state the rows, the grants and the requests have their types, and no stored *)
(* grant has a lifetime that is over                                                    *)
THEOREM TypeCorrect == Spec => []TypeOK
BY InitTypes, NextTypes, PTL DEF Spec

-----------------------------------------------------------------------------
(* OAuth identities *)

(* An update on its way to the row of an OAuth credential changes nothing of what *)
(* identifies it: the row it was compared with had the identity of the first one  *)
UpdatesKeepIdentity ==
    \A r \in Requests :
        pc[r] \in {"clear", "write"} /\ input[r].op # "delete" /\ Seeded[id[r]].kind = "oauth"
            => SameIdentity(Seeded[id[r]], given[r], to[r])

(* A step that changes no row, and lets no update on its way, keeps both *)
LEMMA IdentityKept ==
    ASSUME OAuthIdentityIsForGood, UpdatesKeepIdentity,
           \A c \in DOMAIN rows' : c \in DOMAIN rows /\ rows'[c] = rows[c],
           \A q \in Requests :
               pc'[q] \in {"clear", "write"} =>
                   /\ pc[q] \in {"clear", "write"} /\ input'[q] = input[q]
                   /\ id'[q] = id[q] /\ given'[q] = given[q] /\ to'[q] = to[q]
    PROVE  OAuthIdentityIsForGood' /\ UpdatesKeepIdentity'
BY DEF OAuthIdentityIsForGood, UpdatesKeepIdentity, SameIdentity

(* A step of one request after which it is not on its way to a row *)
LEMMA IdentityPassed ==
    ASSUME TypeOK, OAuthIdentityIsForGood, UpdatesKeepIdentity, NEW r \in Requests,
           NEW step, step \notin {"clear", "write"}, Goto(r, step), UNCHANGED <<rows, input>>,
           \A q \in Requests \ {r} :
               id'[q] = id[q] /\ given'[q] = given[q] /\ to'[q] = to[q]
    PROVE  OAuthIdentityIsForGood' /\ UpdatesKeepIdentity'
<1>1. \A q \in Requests : pc'[q] \in {"clear", "write"} => q # r /\ pc'[q] = pc[q]
  BY DEF Goto, TypeOK
<1>2. QED
  BY <1>1, IdentityKept

LEMMA StepIdentity ==
    ASSUME TypeOK, OAuthIdentityIsForGood, UpdatesKeepIdentity, NEW r \in Requests, Step(r)
    PROVE  OAuthIdentityIsForGood' /\ UpdatesKeepIdentity'
<1> USE DEF At
<1>1. CASE Refuse(r)
  BY <1>1, IdentityPassed DEF Refuse
<1>2. CASE Receive(r)
  <2>1. PICK i \in Inputs[r] : /\ input' = [input EXCEPT ![r] = i]
                               /\ id' = [id EXCEPT ![r] = i.id]
                               /\ given' = [given EXCEPT ![r] = i.given]
                               /\ to' = [to EXCEPT ![r] = i.to]
                               /\ Goto(r, First(i.op))
    BY <1>2 DEF Receive
  <2>2. First(i.op) \notin {"clear", "write"}
    BY DEF First
  <2>3. \A q \in Requests : pc'[q] \in {"clear", "write"} =>
            /\ q # r /\ pc'[q] = pc[q] /\ input'[q] = input[q]
            /\ id'[q] = id[q] /\ given'[q] = given[q] /\ to'[q] = to[q]
    BY <2>1, <2>2 DEF Goto, TypeOK
  <2>4. UNCHANGED rows
    BY <1>2 DEF Receive
  <2>5. QED
    BY <2>3, <2>4, IdentityKept
<1>3. CASE /\ UNCHANGED <<rows, input, id, given, to>>
           /\ \E step : step \notin {"clear", "write"} /\ Goto(r, step)
  BY <1>3, IdentityPassed
<1>4. CASE Choose(r) /\ ~Refuse(r)
  <2>1. PICK c \in Newest(Local(Workspaces)) :
            /\ id' = [id EXCEPT ![r] = c]
            /\ given' = [given EXCEPT ![r] = {"secret"}]
            /\ to' = [to EXCEPT ![r] = [rows[c] EXCEPT !.secret = Hash(input[r].password)]]
            /\ Goto(r, "find")
            /\ UNCHANGED <<rows, input>>
    BY <1>4 DEF Choose
  <2>2. \A q \in Requests \ {r} : id'[q] = id[q] /\ given'[q] = given[q] /\ to'[q] = to[q]
    BY <2>1 DEF TypeOK
  <2>3. QED
    BY <2>1, <2>2, IdentityPassed
<1>5. CASE Find(r) /\ ~Refuse(r)
  <2>1. /\ id[r] \in DOMAIN rows /\ Goto(r, "clear")
        /\ input[r].op # "delete" => SameIdentity(rows[id[r]], given[r], to[r])
        /\ UNCHANGED <<rows, input, id, given, to>>
    BY <1>5 DEF Find
  <2>2. OAuthIdentityIsForGood'
    BY <2>1 DEF OAuthIdentityIsForGood
  <2>3. Seeded[id[r]].kind = "oauth" /\ input[r].op # "delete"
            => SameIdentity(Seeded[id[r]], given[r], to[r])
    BY <2>1 DEF OAuthIdentityIsForGood, SameIdentity
  <2>4. \A q \in Requests \ {r} : pc'[q] = pc[q]
    BY <2>1 DEF Goto, TypeOK
  <2>5. UpdatesKeepIdentity'
    BY <2>1, <2>3, <2>4 DEF UpdatesKeepIdentity, SameIdentity
  <2>6. QED
    BY <2>2, <2>5
<1>6. CASE Clear(r)
  <2>1. /\ pc[r] = "clear" /\ UNCHANGED <<rows, input, id, given, to>>
        /\ \A q \in Requests \ {r} : pc'[q] = pc[q]
    BY <1>6 DEF Clear, Goto, TypeOK
  <2>2. QED
    BY <2>1, IdentityKept
<1>7. CASE Write(r) /\ ~Refuse(r)
  <2> DEFINE c == id[r]
             new == Updated(rows[c], given[r], to[r])
  <2>1. /\ pc[r] = "write" /\ c \in DOMAIN rows /\ Goto(r, "clearAgain")
        /\ \/ rows' = [other \in DOMAIN rows \ {c} |-> rows[other]]
           \/ input[r].op # "delete" /\ rows' = [rows EXCEPT ![c] = new]
        /\ UNCHANGED <<input, id, given, to>>
    BY <1>7 DEF Write
  <2>2. \A q \in Requests : pc'[q] \in {"clear", "write"} => pc'[q] = pc[q]
    BY <2>1 DEF Goto, TypeOK
  <2>3. UpdatesKeepIdentity'
    BY <2>1, <2>2 DEF UpdatesKeepIdentity, SameIdentity
  <2>4. CASE rows' = [other \in DOMAIN rows \ {c} |-> rows[other]]
    <3>1. \A other \in DOMAIN rows' : other \in DOMAIN rows /\ rows'[other] = rows[other]
      BY <2>4
    <3>2. QED
      BY <2>3, <3>1 DEF OAuthIdentityIsForGood
  <2>5. CASE input[r].op # "delete" /\ rows' = [rows EXCEPT ![c] = new]
    <3>1. rows[c] \in Row /\ to[r] \in Row
      BY <2>1 DEF TypeOK
    <3>2. Seeded[c].kind = "oauth" =>
              /\ new.kind = rows[c].kind /\ new.provider = rows[c].provider
              /\ new.identity = rows[c].identity
      BY <2>1, <2>5, <3>1
         DEF OAuthIdentityIsForGood, UpdatesKeepIdentity, SameIdentity, Updated, Row
    <3> HIDE DEF new
    <3>3. rows = [other \in DOMAIN rows |-> rows[other]]
      BY DEF TypeOK
    <3>4. /\ DOMAIN rows' = DOMAIN rows /\ rows'[c] = new
          /\ \A other \in DOMAIN rows \ {c} : rows'[other] = rows[other]
      BY <2>1, <2>5, <3>3
    <3>5. QED
      BY <2>1, <2>3, <3>2, <3>4 DEF OAuthIdentityIsForGood
  <2>6. QED
    BY <2>1, <2>3, <2>4, <2>5
<1>8. QED
  BY <1>1, <1>2, <1>3, <1>4, <1>5, <1>6, <1>7
     DEF Step, Fail, ReadCredential, CheckCredential, BuildGrant, StoreGrant, Present,
         ClearAgain, Describe, Login

(* Whatever the updates and their order, an OAuth credential identifies for good whom it *)
(* did at first                                                                          *)
THEOREM IdentityIsForGood == Spec => []OAuthIdentityIsForGood
<1> DEFINE IInv == TypeOK /\ OAuthIdentityIsForGood /\ UpdatesKeepIdentity
<1>1. Init => IInv
  BY InitTypes DEF Init, OAuthIdentityIsForGood, UpdatesKeepIdentity
<1>2. IInv /\ [Next]_vars => IInv'
  <2> SUFFICES ASSUME IInv, [Next]_vars PROVE OAuthIdentityIsForGood' /\ UpdatesKeepIdentity'
    BY NextTypes
  <2>1. CASE UNCHANGED vars
    BY <2>1, IdentityKept DEF vars, reqs
  <2>2. ASSUME NEW t \in Tokens, RequestReset(t)
        PROVE  OAuthIdentityIsForGood' /\ UpdatesKeepIdentity'
    BY <2>2, IdentityKept DEF RequestReset, reqs
  <2>3. ASSUME NEW w \in Workspaces, ChangeScope(w) \/ RemoveMembership(w)
        PROVE  OAuthIdentityIsForGood' /\ UpdatesKeepIdentity'
    BY <2>3, IdentityKept DEF ChangeScope, RemoveMembership, reqs
  <2>4. CASE Tick
    BY <2>4, IdentityKept DEF Tick, reqs
  <2>5. QED
    BY <2>1, <2>2, <2>3, <2>4, StepIdentity DEF Next
<1>3. QED
  BY <1>1, <1>2, PTL DEF Spec

-----------------------------------------------------------------------------
(* Grants *)

(* What is read and built for a grant is the row as long as nobody has written it *)
ReadsAreRows ==
    \A r \in Requests :
        /\ pc[r] \in {"check", "build", "store"} /\ ~stale[r]
                => id[r] \in DOMAIN rows /\ rows[id[r]] = read[r]
        /\ pc[r] = "store" => grant[r].status = read[r].status /\ grant[r].until = read[r].until

Anchored == \A c \in DOMAIN rows : rows[c].workspace = Seeded[c].workspace

GrantInv == GrantsAgreeUnlessExcused /\ ReadsAreRows /\ Anchored

(* A step that writes no row, stores no grant and brings no request closer to one *)
LEMMA GrantsKept ==
    ASSUME GrantInv, UNCHANGED <<rows, late>>,
           \A w : scopes[w] = 0 => scopes'[w] = 0,
           \A c \in Credentials : cache'[c] = NoEntry \/ cache'[c] = cache[c],
           \A q \in Requests :
               pc[q] \in {"clearAgain", "abandoned"} =>
                   \/ cache'[id[q]] = NoEntry
                   \/ id'[q] = id[q] /\ pc'[q] \in {"clearAgain", "abandoned"},
           \A q \in Requests :
               pc'[q] \in {"check", "build", "store"} =>
                   /\ pc[q] \in {"check", "build", "store"} /\ (pc'[q] = "store" => pc[q] = "store")
                   /\ id'[q] = id[q] /\ read'[q] = read[q] /\ stale'[q] = stale[q]
                   /\ grant'[q] = grant[q]
    PROVE  GrantInv'
<1>1. Anchored'
  BY DEF GrantInv, Anchored
<1>2. ReadsAreRows'
  BY DEF GrantInv, ReadsAreRows
<1>3. ASSUME NEW c \in Credentials, cache'[c] # NoEntry
      PROVE  \/ c \in DOMAIN rows' /\ rows'[c].status = cache'[c].status
                                  /\ rows'[c].until = cache'[c].until
             \/ c \in late'
             \/ scopes'[Seeded[c].workspace] = 0
             \/ \E r \in Requests : id'[r] = c /\ pc'[r] \in {"clearAgain", "abandoned"}
  <2>1. cache'[c] = cache[c] /\ cache[c] # NoEntry
    BY <1>3
  <2>2. ASSUME NEW r \in Requests, id[r] = c, pc[r] \in {"clearAgain", "abandoned"}
        PROVE  id'[r] = c /\ pc'[r] \in {"clearAgain", "abandoned"}
    BY <1>3, <2>2
  <2>3. QED
    BY <2>1, <2>2 DEF GrantInv, GrantsAgreeUnlessExcused
<1>4. QED
  BY <1>1, <1>2, <1>3 DEF GrantInv, GrantsAgreeUnlessExcused

(* The same for a step of one request that moves it on to no such step *)
LEMMA GrantsPassed ==
    ASSUME TypeOK, GrantInv, NEW r \in Requests, pc[r] \notin {"clearAgain", "abandoned"},
           NEW step, step \notin {"check", "build", "store"}, Goto(r, step),
           UNCHANGED <<rows, scopes, cache, read, grant, late, stale>>,
           \A q \in Requests \ {r} : id'[q] = id[q]
    PROVE  GrantInv'
<1>1. \A q \in Requests \ {r} : pc'[q] = pc[q]
  BY DEF Goto, TypeOK
<1>2. pc'[r] = step
  BY DEF Goto, TypeOK
<1>3. QED
  BY <1>1, <1>2, GrantsKept

(* The writes of rows: those of other credentials stay, and the readers of these are told *)
LEMMA GrantsWritten ==
    ASSUME TypeOK, GrantInv, NEW cs, NEW writers, Wrote(cs, writers),
           UNCHANGED <<cache, id, read, grant>>,
           \A w \in Workspaces : scopes[w] = 0 => scopes'[w] = 0,
           \A q \in Requests : pc[q] \in {"clearAgain", "abandoned"} => pc'[q] = pc[q],
           \A q \in Requests : pc'[q] \in {"check", "build", "store"} => pc'[q] = pc[q],
           \A c \in DOMAIN rows \ cs : c \in DOMAIN rows' /\ rows'[c] = rows[c],
           \A c \in DOMAIN rows' : c \in DOMAIN rows /\ rows'[c].workspace = rows[c].workspace,
           \A c \in cs : \/ scopes'[Seeded[c].workspace] = 0
                         \/ \E r \in Requests : id[r] = c /\ pc'[r] = "clearAgain"
    PROVE  GrantInv'
<1>1. Anchored'
  BY DEF GrantInv, Anchored
<1>2. \A q \in Requests : stale'[q] = (stale[q] \/ id[q] \in cs)
  BY DEF Wrote
<1>3. ReadsAreRows'
  <2>1. ASSUME NEW q \in Requests, pc'[q] \in {"check", "build", "store"}, ~stale'[q]
        PROVE  id[q] \in DOMAIN rows' /\ rows'[id[q]] = read[q]
    <3>1. ~stale[q] /\ id[q] \notin cs
      BY <1>2, <2>1
    <3>2. pc[q] \in {"check", "build", "store"}
      BY <2>1
    <3>3. id[q] \in DOMAIN rows /\ rows[id[q]] = read[q]
      BY <3>1, <3>2 DEF GrantInv, ReadsAreRows
    <3>4. QED
      BY <3>1, <3>3
  <2>2. ASSUME NEW q \in Requests, pc'[q] = "store"
        PROVE  grant[q].status = read[q].status /\ grant[q].until = read[q].until
    <3>1. pc[q] = "store"
      BY <2>2
    <3>2. QED
      BY <3>1 DEF GrantInv, ReadsAreRows
  <2>3. QED
    BY <2>1, <2>2 DEF ReadsAreRows
<1>4. ASSUME NEW c \in Credentials, cache'[c] # NoEntry
      PROVE  \/ c \in DOMAIN rows' /\ rows'[c].status = cache'[c].status
                                  /\ rows'[c].until = cache'[c].until
             \/ c \in late'
             \/ scopes'[Seeded[c].workspace] = 0
             \/ \E r \in Requests : id'[r] = c /\ pc'[r] \in {"clearAgain", "abandoned"}
  <2>1. CASE c \in cs
    BY <2>1
  <2>2. CASE c \notin cs
    <3>1. Seeded[c].workspace \in Workspaces /\ late' = late
      BY SeededAssumption DEF Row, Wrote
    <3>2. QED
      BY <1>4, <2>2, <3>1 DEF GrantInv, GrantsAgreeUnlessExcused
  <2>3. QED
    BY <2>1, <2>2
<1>5. QED
  BY <1>1, <1>3, <1>4 DEF GrantInv, GrantsAgreeUnlessExcused

LEMMA StepGrants == ASSUME TypeOK, GrantInv, NEW r \in Requests, Step(r) PROVE GrantInv'
<1> USE DEF At
<1>1. CASE Refuse(r) /\ pc[r] \notin {"clearAgain", "abandoned"}
  BY <1>1, GrantsPassed DEF Refuse, past
<1>2. CASE Receive(r)
  <2>1. PICK i \in Inputs[r] : id' = [id EXCEPT ![r] = i.id] /\ Goto(r, First(i.op))
    BY <1>2 DEF Receive
  <2>2. First(i.op) \notin {"check", "build", "store"}
    BY DEF First
  <2>3. UNCHANGED <<rows, scopes, cache, read, grant, late, stale>> /\ pc[r] = "idle"
        /\ \A q \in Requests \ {r} : id'[q] = id[q]
    BY <1>2, <2>1 DEF Receive, past, TypeOK
  <2>4. QED
    BY <2>1, <2>2, <2>3, GrantsPassed
<1>3. CASE Fail(r)
  <2>1. CASE pc[r] = "clearAgain"
    <3>1. UNCHANGED <<rows, scopes, cache, id, read, grant, late, stale>>
          /\ pc'[r] = "abandoned" /\ \A q \in Requests \ {r} : pc'[q] = pc[q]
      BY <1>3, <2>1 DEF Fail, Goto, past, TypeOK
    <3>2. QED
      BY <3>1, GrantsKept
  <2>2. CASE pc[r] # "clearAgain"
    BY <1>3, <2>2, GrantsPassed DEF Fail, past
  <2>3. QED
    BY <2>1, <2>2
<1>4. CASE ReadCredential(r) /\ ~Refuse(r)
  <2>1. /\ id[r] \in DOMAIN rows /\ read' = [read EXCEPT ![r] = rows[id[r]]]
        /\ stale' = [stale EXCEPT ![r] = FALSE] /\ Goto(r, "check") /\ pc[r] = "read"
        /\ UNCHANGED <<rows, scopes, cache, id, grant, late>>
    BY <1>4 DEF ReadCredential
  <2>2. /\ pc'[r] = "check" /\ read'[r] = rows[id[r]]
        /\ \A q \in Requests \ {r} : pc'[q] = pc[q] /\ read'[q] = read[q] /\ stale'[q] = stale[q]
    BY <2>1 DEF Goto, TypeOK
  <2>3. ReadsAreRows' /\ Anchored'
    BY <2>1, <2>2 DEF GrantInv, ReadsAreRows, Anchored
  <2>4. GrantsAgreeUnlessExcused'
    <3>1. \A q \in Requests : pc[q] \in {"clearAgain", "abandoned"} => pc'[q] = pc[q]
      BY <2>1, <2>2
    <3>2. QED
      BY <2>1, <3>1 DEF GrantInv, GrantsAgreeUnlessExcused
  <2>5. QED
    BY <2>3, <2>4 DEF GrantInv
<1>5. CASE CheckCredential(r) /\ ~Refuse(r)
  <2>1. UNCHANGED <<rows, scopes, cache, id, read, grant, late, stale>>
        /\ pc[r] = "check" /\ pc'[r] = "build" /\ \A q \in Requests \ {r} : pc'[q] = pc[q]
    BY <1>5 DEF CheckCredential, Goto, past, TypeOK
  <2>2. QED
    BY <2>1, GrantsKept
<1>6. CASE BuildGrant(r) /\ ~Refuse(r)
  <2> DEFINE new == [scope |-> scopes[read[r].workspace], status |-> read[r].status,
                     until |-> read[r].until,
                     ends |-> IF read[r].until = Never THEN Never
                              ELSE IF read[r].until > now THEN read[r].until - now ELSE 0]
  <2>1. /\ grant' = [grant EXCEPT ![r] = new] /\ Goto(r, "store") /\ pc[r] = "build"
        /\ UNCHANGED <<rows, scopes, cache, id, read, late, stale>>
    BY <1>6 DEF BuildGrant, past
  <2>2. new.status = read[r].status /\ new.until = read[r].until
    OBVIOUS
  <2> HIDE DEF new
  <2>3. /\ pc'[r] = "store" /\ grant'[r] = new
        /\ \A q \in Requests \ {r} : pc'[q] = pc[q] /\ grant'[q] = grant[q]
    BY <2>1 DEF Goto, TypeOK
  <2>4. ReadsAreRows' /\ Anchored'
    BY <2>1, <2>2, <2>3 DEF GrantInv, ReadsAreRows, Anchored
  <2>5. GrantsAgreeUnlessExcused'
    <3>1. \A q \in Requests : pc[q] \in {"clearAgain", "abandoned"} => pc'[q] = pc[q]
      BY <2>1, <2>3
    <3>2. QED
      BY <2>1, <3>1 DEF GrantInv, GrantsAgreeUnlessExcused
  <2>6. QED
    BY <2>4, <2>5 DEF GrantInv
<1>7. CASE StoreGrant(r) /\ ~Refuse(r)
  <2> DEFINE ttl == grant[r].ends
             new == [grant[r] EXCEPT !.ends = IF ttl = Never THEN Never ELSE now + ttl]
  <2>1. /\ cache' = [cache EXCEPT ![id[r]] = new] /\ Late(id[r], r)
        /\ Goto(r, "answered") /\ pc[r] = "store"
        /\ UNCHANGED <<rows, scopes, id, read, grant, stale>>
    BY <1>7 DEF StoreGrant
  <2>2. new.status = grant[r].status /\ new.until = grant[r].until
    <3>1. grant[r] \in Entry
      BY DEF TypeOK
    <3>2. QED
      BY <3>1 DEF Entry
  <2> HIDE DEF new
  <2>3. /\ pc'[r] = "answered" /\ \A q \in Requests \ {r} : pc'[q] = pc[q]
        /\ id[r] \in Credentials
        /\ cache'[id[r]] = new /\ \A c \in Credentials \ {id[r]} : cache'[c] = cache[c]
    BY <2>1 DEF Goto, TypeOK
  <2>4. ReadsAreRows' /\ Anchored'
    BY <2>1, <2>3 DEF GrantInv, ReadsAreRows, Anchored
  <2>5. CASE stale[r]
    <3>1. id[r] \in late' /\ late \subseteq late'
      BY <2>1, <2>5 DEF Late
    <3>2. \A q \in Requests : pc[q] \in {"clearAgain", "abandoned"} => pc'[q] = pc[q]
      BY <2>1, <2>3
    <3>3. QED
      BY <2>1, <2>3, <2>4, <3>1, <3>2 DEF GrantInv, GrantsAgreeUnlessExcused
  <2>6. CASE ~stale[r]
    <3>1. \A c \in late : c # id[r] => c \in late'
      BY <2>1, <2>6 DEF Late
    <3>2. id[r] \in DOMAIN rows /\ rows[id[r]].status = new.status /\ rows[id[r]].until = new.until
      BY <2>1, <2>2, <2>6 DEF GrantInv, ReadsAreRows
    <3>3. \A q \in Requests : pc[q] \in {"clearAgain", "abandoned"} => pc'[q] = pc[q]
      BY <2>1, <2>3
    <3>4. QED
      BY <2>1, <2>3, <2>4, <3>1, <3>2, <3>3 DEF GrantInv, GrantsAgreeUnlessExcused
  <2>7. QED
    BY <2>5, <2>6
<1>8. CASE Choose(r) /\ ~Refuse(r)
  <2>1. PICK c \in Newest(Local(Workspaces)) :
            /\ id' = [id EXCEPT ![r] = c] /\ Goto(r, "find") /\ pc[r] = "choose"
            /\ UNCHANGED <<rows, scopes, cache, read, grant, late, stale>>
    BY <1>8 DEF Choose
  <2>2. \A q \in Requests \ {r} : id'[q] = id[q]
    BY <2>1 DEF TypeOK
  <2>3. QED
    BY <2>1, <2>2, GrantsPassed
<1>9. CASE Present(r) /\ ~Refuse(r)
  BY <1>9, GrantsPassed DEF Present, past
<1>10. CASE Find(r) /\ ~Refuse(r)
  BY <1>10, GrantsPassed DEF Find, past
<1>11. CASE Clear(r) \/ ClearAgain(r)
  <2>1. /\ cache' = [cache EXCEPT ![id[r]] = NoEntry] /\ id[r] \in Credentials
        /\ UNCHANGED <<rows, scopes, id, read, grant, late, stale>>
        /\ pc'[r] \in {"write", "answered", "describe"}
        /\ \A q \in Requests \ {r} : pc'[q] = pc[q]
    BY <1>11 DEF Clear, ClearAgain, Goto, past, TypeOK
  <2>2. cache'[id[r]] = NoEntry
        /\ \A c \in Credentials : cache'[c] = NoEntry \/ cache'[c] = cache[c]
    BY <2>1 DEF TypeOK
  <2>3. QED
    BY <2>1, <2>2, GrantsKept
<1>12. CASE Write(r) /\ ~Refuse(r)
  <2> DEFINE c == id[r]
             new == Updated(rows[c], given[r], to[r])
  <2>1. /\ pc[r] = "write" /\ c \in DOMAIN rows /\ Wrote({c}, {r}) /\ Goto(r, "clearAgain")
        /\ \/ rows' = [other \in DOMAIN rows \ {c} |-> rows[other]]
           \/ rows' = [rows EXCEPT ![c] = new]
        /\ UNCHANGED <<scopes, cache, id, read, grant>>
    BY <1>12 DEF Write
  <2>2. pc'[r] = "clearAgain" /\ \A q \in Requests \ {r} : pc'[q] = pc[q]
    BY <2>1 DEF Goto, TypeOK
  <2>3. new.workspace = rows[c].workspace
    <3>1. rows[c] \in Row
      BY <2>1 DEF TypeOK
    <3>2. QED
      BY <3>1 DEF Updated, Row
  <2> HIDE DEF new
  <2>4. rows = [other \in DOMAIN rows |-> rows[other]]
    BY DEF TypeOK
  <2>5. /\ \A other \in DOMAIN rows \ {c} : other \in DOMAIN rows' /\ rows'[other] = rows[other]
        /\ \A other \in DOMAIN rows' : other \in DOMAIN rows
                                        /\ rows'[other].workspace = rows[other].workspace
    <3>1. CASE rows' = [other \in DOMAIN rows \ {c} |-> rows[other]]
      BY <3>1
    <3>2. CASE rows' = [rows EXCEPT ![c] = new]
      BY <2>1, <2>3, <2>4, <3>2
    <3>3. QED
      BY <2>1, <3>1, <3>2
  <2>6. QED
    BY <2>1, <2>2, <2>5, GrantsWritten
<1>13. CASE Describe(r) /\ ~Refuse(r)
  BY <1>13, GrantsPassed DEF Describe, past
<1>14. CASE Login(r) /\ ~Refuse(r)
  BY <1>14, GrantsPassed DEF Login, past
<1>15. QED
  BY <1>1, <1>2, <1>3, <1>4, <1>5, <1>6, <1>7, <1>8, <1>9, <1>10, <1>11, <1>12, <1>13, <1>14
     DEF Step, ReadCredential, CheckCredential, BuildGrant, StoreGrant, Choose, Present, Find,
         Write, Describe, Login

LEMMA NextGrants == TypeOK /\ GrantInv /\ [Next]_vars => GrantInv'
<1> SUFFICES ASSUME TypeOK, GrantInv, [Next]_vars PROVE GrantInv'
  OBVIOUS
<1>1. CASE UNCHANGED vars
  BY <1>1, GrantsKept DEF vars, reqs, past
<1>2. ASSUME NEW t \in Tokens, RequestReset(t) PROVE GrantInv'
  BY <1>2, GrantsKept DEF RequestReset, reqs, past
<1>3. ASSUME NEW w \in Workspaces, ChangeScope(w) PROVE GrantInv'
  <2>1. \A v : scopes[v] = 0 => scopes'[v] = 0
    BY <1>3 DEF ChangeScope, TypeOK
  <2>2. QED
    BY <1>3, <2>1, GrantsKept DEF ChangeScope, reqs, past
<1>4. ASSUME NEW w \in Workspaces, RemoveMembership(w) PROVE GrantInv'
  <2> DEFINE gone == {c \in DOMAIN rows : rows[c].workspace = w}
  <2>1. /\ scopes' = [scopes EXCEPT ![w] = 0] /\ Wrote(gone, {})
        /\ rows' = [c \in DOMAIN rows \ gone |-> rows[c]]
        /\ UNCHANGED <<cache, pc, id, read, grant>>
    BY <1>4 DEF RemoveMembership, reqs
  <2>2. \A c \in gone : Seeded[c].workspace = w
    BY DEF GrantInv, Anchored
  <2>3. scopes'[w] = 0 /\ \A v \in Workspaces : scopes[v] = 0 => scopes'[v] = 0
    BY <2>1 DEF TypeOK
  <2> HIDE DEF gone
  <2>4. /\ \A c \in DOMAIN rows \ gone : c \in DOMAIN rows' /\ rows'[c] = rows[c]
        /\ \A c \in DOMAIN rows' : c \in DOMAIN rows /\ rows'[c].workspace = rows[c].workspace
    BY <2>1
  <2>5. QED
    BY <2>1, <2>2, <2>3, <2>4, GrantsWritten
<1>5. CASE Tick
  <2>1. \A c \in Credentials : cache'[c] = NoEntry \/ cache'[c] = cache[c]
    BY <1>5 DEF Tick
  <2>2. QED
    BY <1>5, <2>1, GrantsKept DEF Tick, reqs, past
<1>6. QED
  BY <1>1, <1>2, <1>3, <1>4, <1>5, StepGrants DEF Next

(* A stored grant agrees with its credential, unless it was stored late, went with its *)
(* membership, or its writer is at, or did not get to, its second removal              *)
THEOREM GrantsAgree == Spec => []GrantsAgreeUnlessExcused
<1>1. Init => TypeOK /\ GrantInv
  BY InitTypes DEF Init, GrantInv, GrantsAgreeUnlessExcused, ReadsAreRows, Anchored
<1>2. TypeOK /\ GrantInv /\ [Next]_vars => TypeOK' /\ GrantInv'
  BY NextTypes, NextGrants
<1>3. QED
  BY <1>1, <1>2, PTL DEF Spec, GrantInv
-----------------------------------------------------------------------------
(* Resets *)

(* The credential a reset chose is the newest until someone else writes; the update on *)
(* its way to it gives the new secret alone, and has given it after the write          *)
BeforeWrite == {"find", "clear", "write"}
AfterWrite == {"clearAgain", "describe", "answered"}

ChosenIsNewest(r) == id[r] \in Newest(Local(Workspaces))

ResetInv ==
    \A r \in Requests : input[r].op = "reset" =>
        /\ pc[r] \notin {"read", "check", "build", "store", "login"}
        /\ pc[r] \in BeforeWrite =>
               /\ given[r] = {"secret"} /\ to[r].secret = Hash(input[r].password)
               /\ ~raced[r] => ChosenIsNewest(r)
        /\ pc[r] \in AfterWrite /\ ~raced[r] =>
               ChosenIsNewest(r) /\ rows[id[r]].secret = Hash(input[r].password)

(* The newest of all workspaces is the newest of its own *)
LEMMA NewestOfItsOwn ==
    ASSUME TypeOK, NEW c \in Newest(Local(Workspaces))
    PROVE  c \in Newest(Local({rows[c].workspace}))
<1>1. c \in DOMAIN rows /\ rows[c] \in Row
  BY DEF Newest, Local, TypeOK
<1>2. rows[c].workspace \in Workspaces
  BY <1>1 DEF Row
<1>3. Local({rows[c].workspace}) \subseteq Local(Workspaces) /\ c \in Local({rows[c].workspace})
  BY <1>1, <1>2 DEF Local, Newest
<1>4. QED
  BY <1>3 DEF Newest

LEMMA ResetsReach == ASSUME TypeOK, ResetInv PROVE ResetReachesLogin
<1> SUFFICES ASSUME NEW r \in Requests, input[r].op = "reset", pc[r] = "answered", ~raced[r]
             PROVE  Accepts(rows[id[r]].workspace, input[r].password)
  BY DEF ResetReachesLogin
<1>1. id[r] \in Newest(Local(Workspaces)) /\ rows[id[r]].secret = Hash(input[r].password)
  BY DEF ResetInv, ChosenIsNewest, AfterWrite
<1>2. QED
  BY <1>1, NewestOfItsOwn DEF Accepts, Verifies

(* A step that writes no row and leaves every reset on its side of the write *)
LEMMA ResetKept ==
    ASSUME ResetInv, rows' = rows, raced' = raced,
           \A q \in Requests :
               \/ pc'[q] \in {"idle", "present", "choose", "refused", "abandoned"}
               \/ /\ input'[q] = input[q]
                  /\ \/ input[q].op # "reset"
                     \/ /\ id'[q] = id[q] /\ given'[q] = given[q] /\ to'[q] = to[q]
                        /\ \/ pc'[q] = pc[q]
                           \/ pc[q] \in BeforeWrite /\ pc'[q] \in BeforeWrite
                           \/ pc[q] \in AfterWrite /\ pc'[q] \in AfterWrite
               \/ input'[q].op # "reset"
    PROVE  ResetInv'
<1> SUFFICES ASSUME NEW q \in Requests, input'[q].op = "reset"
             PROVE  /\ pc'[q] \notin {"read", "check", "build", "store", "login"}
                    /\ pc'[q] \in BeforeWrite =>
                           /\ given'[q] = {"secret"} /\ to'[q].secret = Hash(input'[q].password)
                           /\ ~raced'[q] => ChosenIsNewest(q)'
                    /\ pc'[q] \in AfterWrite /\ ~raced'[q] =>
                           ChosenIsNewest(q)' /\ rows'[id'[q]].secret = Hash(input'[q].password)
  BY DEF ResetInv
<1>1. CASE pc'[q] \in {"idle", "present", "choose", "refused", "abandoned"}
  BY <1>1 DEF BeforeWrite, AfterWrite
<1>2. CASE /\ input'[q] = input[q] /\ id'[q] = id[q] /\ given'[q] = given[q] /\ to'[q] = to[q]
           /\ \/ pc'[q] = pc[q]
              \/ pc[q] \in BeforeWrite /\ pc'[q] \in BeforeWrite
              \/ pc[q] \in AfterWrite /\ pc'[q] \in AfterWrite
  <2>1. ChosenIsNewest(q)' <=> ChosenIsNewest(q)
    BY <1>2 DEF ChosenIsNewest, Newest, Local
  <2>2. QED
    BY <1>2, <2>1 DEF ResetInv, BeforeWrite, AfterWrite
<1>3. QED
  BY <1>1, <1>2

(* A write by others: no reset that was on its way is left without the mark *)
LEMMA ResetRaced ==
    ASSUME TypeOK, ResetInv, NEW q \in Requests, raced'[q],
           UNCHANGED <<input, id, given, to>>, pc'[q] = pc[q], input[q].op = "reset"
    PROVE  /\ pc'[q] \notin {"read", "check", "build", "store", "login"}
           /\ pc'[q] \in BeforeWrite =>
                  /\ given'[q] = {"secret"} /\ to'[q].secret = Hash(input'[q].password)
                  /\ ~raced'[q] => ChosenIsNewest(q)'
           /\ pc'[q] \in AfterWrite /\ ~raced'[q] =>
                  ChosenIsNewest(q)' /\ rows'[id'[q]].secret = Hash(input'[q].password)
BY DEF ResetInv

LEMMA StepReset == ASSUME TypeOK, ResetInv, NEW r \in Requests, Step(r) PROVE ResetInv'
<1> USE DEF At
<1> DEFINE Others == \A q \in Requests \ {r} : pc'[q] = pc[q]
<1>0. ASSUME NEW step, Goto(r, step) PROVE Others /\ pc'[r] = step
  BY <1>0 DEF Goto, TypeOK
<1> HIDE DEF Others
<1>1. ASSUME NEW step, Goto(r, step), UNCHANGED <<rows, input, id, given, to, raced>>,
             \/ step \in {"idle", "present", "choose", "refused", "abandoned"}
             \/ input[r].op # "reset"
             \/ pc[r] \in BeforeWrite /\ step \in BeforeWrite
             \/ pc[r] \in AfterWrite /\ step \in AfterWrite
      PROVE  ResetInv'
  BY <1>0, <1>1, ResetKept DEF Others
<1>2. CASE Refuse(r)
  BY <1>1, <1>2 DEF Refuse, past
<1>3. CASE Fail(r)
  BY <1>1, <1>3 DEF Fail, past
<1>4. CASE Receive(r)
  <2>1. PICK i \in Inputs[r] : /\ input' = [input EXCEPT ![r] = i]
                               /\ id' = [id EXCEPT ![r] = i.id]
                               /\ given' = [given EXCEPT ![r] = i.given]
                               /\ to' = [to EXCEPT ![r] = i.to]
                               /\ Goto(r, First(i.op))
                               /\ rows' = rows /\ raced' = raced
    BY <1>4 DEF Receive, past
  <2>2. Others /\ pc'[r] = First(i.op) /\ input'[r] = i
    BY <1>0, <2>1 DEF TypeOK
  <2>3. \A q \in Requests \ {r} : /\ pc'[q] = pc[q] /\ input'[q] = input[q] /\ id'[q] = id[q]
                                  /\ given'[q] = given[q] /\ to'[q] = to[q]
    BY <2>1, <2>2 DEF TypeOK, Others
  <2>4. pc'[r] = "present" \/ input'[r].op # "reset"
    BY <2>2 DEF First
  <2>5. QED
    BY <2>1, <2>3, <2>4, ResetKept
<1>5. CASE ReadCredential(r) /\ ~Refuse(r)
  <2>1. /\ pc[r] = "read" /\ Goto(r, "check")
        /\ UNCHANGED <<rows, input, id, given, to, raced>>
    BY <1>5 DEF ReadCredential
  <2>2. input[r].op # "reset"
    BY <2>1 DEF ResetInv
  <2>3. QED
    BY <1>1, <2>1, <2>2
<1>6. CASE (CheckCredential(r) \/ BuildGrant(r) \/ StoreGrant(r) \/ Login(r)) /\ ~Refuse(r)
  <2>1. /\ pc[r] \in {"check", "build", "store", "login"}
        /\ Goto(r, "build") \/ Goto(r, "store") \/ Goto(r, "answered")
        /\ UNCHANGED <<rows, input, id, given, to, raced>>
    BY <1>6 DEF CheckCredential, BuildGrant, StoreGrant, Login, past
  <2>2. input[r].op # "reset"
    BY <2>1 DEF ResetInv
  <2>3. QED
    BY <1>1, <2>1, <2>2
<1>7. CASE Present(r) /\ ~Refuse(r)
  BY <1>1, <1>7 DEF Present, past
<1>8. CASE Choose(r) /\ ~Refuse(r)
  <2>1. PICK c \in Newest(Local(Workspaces)) :
            /\ id' = [id EXCEPT ![r] = c]
            /\ given' = [given EXCEPT ![r] = {"secret"}]
            /\ to' = [to EXCEPT ![r] = [rows[c] EXCEPT !.secret = Hash(input[r].password)]]
            /\ raced' = [raced EXCEPT ![r] = FALSE]
            /\ Goto(r, "find")
            /\ UNCHANGED <<rows, input>>
    BY <1>8 DEF Choose
  <2>2. rows[c] \in Row
    BY DEF Newest, Local, TypeOK
  <2>3. /\ id'[r] = c /\ given'[r] = {"secret"} /\ to'[r].secret = Hash(input[r].password)
        /\ pc'[r] = "find" /\ Others
    BY <1>0, <2>1, <2>2 DEF TypeOK, Row
  <2>4. ChosenIsNewest(r)'
    BY <2>1, <2>3 DEF ChosenIsNewest, Newest, Local
  <2>5. \A q \in Requests \ {r} :
            /\ pc'[q] = pc[q] /\ id'[q] = id[q] /\ given'[q] = given[q]
            /\ to'[q] = to[q] /\ raced'[q] = raced[q] /\ (ChosenIsNewest(q)' <=> ChosenIsNewest(q))
    BY <2>1, <2>3 DEF TypeOK, Others, ChosenIsNewest, Newest, Local
  <2>6. QED
    BY <2>1, <2>3, <2>4, <2>5 DEF ResetInv, BeforeWrite, AfterWrite
<1>9. CASE (Find(r) \/ Clear(r)) /\ ~Refuse(r)
  BY <1>1, <1>9 DEF Find, Clear, past, BeforeWrite
<1>10. CASE Write(r) /\ ~Refuse(r)
  <2> DEFINE c == id[r]
             new == Updated(rows[c], given[r], to[r])
  <2>1. /\ pc[r] = "write" /\ c \in DOMAIN rows /\ Wrote({c}, {r}) /\ Goto(r, "clearAgain")
        /\ input[r].op # "delete" => rows' = [rows EXCEPT ![c] = new]
        /\ UNCHANGED <<input, id, given, to>>
    BY <1>10 DEF Write
  <2>2. \A q \in Requests \ {r} : raced'[q] /\ pc'[q] = pc[q]
    BY <1>0, <2>1 DEF Wrote, Others
  <2>3. ASSUME NEW q \in Requests \ {r}, input'[q].op = "reset"
        PROVE  /\ pc'[q] \notin {"read", "check", "build", "store", "login"}
               /\ pc'[q] \in BeforeWrite =>
                      /\ given'[q] = {"secret"} /\ to'[q].secret = Hash(input'[q].password)
                      /\ ~raced'[q] => ChosenIsNewest(q)'
               /\ pc'[q] \in AfterWrite /\ ~raced'[q] =>
                      ChosenIsNewest(q)' /\ rows'[id'[q]].secret = Hash(input'[q].password)
    BY <2>1, <2>2, <2>3, ResetRaced
  <2>4. ASSUME input[r].op = "reset", ~raced'[r]
        PROVE  ChosenIsNewest(r)' /\ rows'[c].secret = Hash(input[r].password)
    <3>1. /\ given[r] = {"secret"} /\ to[r].secret = Hash(input[r].password)
          /\ ~raced[r] /\ c \in Newest(Local(Workspaces)) /\ rows' = [rows EXCEPT ![c] = new]
      BY <2>1, <2>4 DEF ResetInv, BeforeWrite, Wrote, ChosenIsNewest
    <3>2. rows[c] \in Row /\ rows = [other \in DOMAIN rows |-> rows[other]]
      BY <2>1 DEF TypeOK
    <3>3. /\ new.secret = Hash(input[r].password) /\ new.provider = rows[c].provider
          /\ new.workspace = rows[c].workspace /\ Hash(input[r].password) # NoSecret
      BY <3>1, <3>2 DEF Updated, Row, Hash, NoSecret
    <3> HIDE DEF new
    <3>4. DOMAIN rows' = DOMAIN rows /\ rows'[c] = new
          /\ \A other \in DOMAIN rows \ {c} : rows'[other] = rows[other]
      BY <2>1, <3>1, <3>2
    <3>5. Local(Workspaces)' = Local(Workspaces)
      <4>1. ASSUME NEW other \in DOMAIN rows
            PROVE  other \in Local(Workspaces)' <=> other \in Local(Workspaces)
        <5>1. CASE other = c
          <6>1. c \in Local(Workspaces)
            BY <3>1 DEF Newest
          <6>2. c \in Local(Workspaces)'
            BY <3>3, <3>4, <6>1 DEF Local
          <6>3. QED
            BY <5>1, <6>1, <6>2
        <5>2. CASE other # c
          BY <3>4, <5>2 DEF Local
        <5>3. QED
          BY <5>1, <5>2
      <4>2. QED
        BY <3>4, <4>1 DEF Local
    <3>6. QED
      BY <2>1, <3>1, <3>3, <3>4, <3>5 DEF ChosenIsNewest, Newest
  <2>5. pc'[r] = "clearAgain"
    BY <1>0, <2>1
  <2>6. QED
    BY <2>1, <2>3, <2>4, <2>5 DEF ResetInv, BeforeWrite
<1>11. CASE (ClearAgain(r) \/ Describe(r)) /\ ~Refuse(r)
  BY <1>1, <1>11 DEF ClearAgain, Describe, past, AfterWrite
<1>12. QED
  BY <1>2, <1>3, <1>4, <1>5, <1>6, <1>7, <1>8, <1>9, <1>10, <1>11
     DEF Step, Refuse

LEMMA NextReset == TypeOK /\ ResetInv /\ [Next]_vars => ResetInv'
<1> SUFFICES ASSUME TypeOK, ResetInv, [Next]_vars PROVE ResetInv'
  OBVIOUS
<1>1. CASE UNCHANGED vars \/ Tick \/ (\E t \in Tokens : RequestReset(t))
           \/ (\E w \in Workspaces : ChangeScope(w))
  <2>1. UNCHANGED <<rows, raced, pc, input, id, given, to>>
    BY <1>1 DEF vars, Tick, RequestReset, ChangeScope, reqs, past
  <2>2. QED
    BY <2>1, ResetKept
<1>2. ASSUME NEW w \in Workspaces, RemoveMembership(w) PROVE ResetInv'
  <2>1. UNCHANGED <<pc, input, id, given, to>> /\ \A q \in Requests : raced'[q]
    BY <1>2 DEF RemoveMembership, Wrote, reqs
  <2>2. QED
    BY <2>1, ResetRaced DEF ResetInv
<1>3. QED
  BY <1>1, <1>2, StepReset DEF Next

(* A reset that nobody wrote beside reaches the login of the workspace whose credential *)
(* it chose: the credential update_password takes is the one login takes                *)
THEOREM ResetsReachLogin == Spec => []ResetReachesLogin
<1>1. Init => TypeOK /\ ResetInv
  BY InitTypes DEF Init, ResetInv, BeforeWrite, AfterWrite
<1>2. TypeOK /\ ResetInv /\ [Next]_vars => TypeOK' /\ ResetInv'
  BY NextTypes, NextReset
<1>3. QED
  BY <1>1, <1>2, ResetsReach, PTL DEF Spec
=============================================================================
