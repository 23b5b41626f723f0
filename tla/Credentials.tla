---------------------------- MODULE Credentials -----------------------------
(***************************************************************************)
(* The credentials of one account, in the workspaces it is a member of:    *)
(* authentication of clients with its cache of grants, the update and the  *)
(* deletion of a credential, the reset of a password, and the part of      *)
(* login that looks the password up.                                       *)
(*                                                                         *)
(* A credential is authenticated against its row, and what it grants is    *)
(* stored in Redis under its id.  An update and a deletion remove the      *)
(* stored grant before and after their statement.  A reset token is not    *)
(* stored anywhere: whoever holds it presents it, any number of times.     *)
(* Every statement and every Redis command is a step, the steps of the     *)
(* requests interleave, and a request may end at any of them.              *)
(*                                                                         *)
(* The rows are there from the start, any that the indexes allow: the seed *)
(* makes them, and no route does but the registrations of Onboarding.      *)
(* Whether the caller may do what it asks is in Resources.                 *)
(***************************************************************************)
EXTENDS Naturals

CONSTANTS Credentials,  \* ids, numbers in the order of creation
          Workspaces,
          Requests,
          Tokens,       \* ids of reset tokens
          Passwords,
          Identities,   \* provider_id and email, in canonical form
          Seeded,       \* the row of each credential at first
          Inputs,       \* what each request may ask
          TokenLife,    \* the life of a reset token, in ticks: 24 hours
          MaxTime,      \* bound of the clock
          MaxScope      \* bound of the changes of a membership's roles

NoEntry == [scope |-> 0, status |-> "none", until |-> 0, ends |-> 0]
Never == MaxTime + 1    \* the expiry of what does not expire
NotIssued == 0

Kinds == {"password", "oauth", "sso", "api_key"}
Providers == {"local", "google", "github"}
Statuses == {"active", "revoked", "pending", "disabled"}

(* A secret is the hash of a password; the body of an update is stored as it is *)
Hash(p) == <<"hash", p>>
Plain(p) == <<"plain", p>>
NoSecret == <<"none", "">>
Secrets == {Hash(p) : p \in Passwords} \cup {Plain(p) : p \in Passwords} \cup {NoSecret}

Row == [workspace : Workspaces, kind : Kinds, provider : Providers, identity : Identities,
        secret : Secrets, status : Statuses, until : 0..Never]
Entry == [scope : 0..MaxScope, status : Statuses \cup {"none"}, until : 0..Never, ends : Nat]
(* The fields an update gives are `given`, and their values those of the row `to` *)
Fields == {"kind", "provider", "identity", "secret", "status", "until"}
Input == [op : {"authenticate", "update", "delete", "reset", "login"}, id : Credentials,
          workspace : Workspaces, password : Passwords, token : Tokens,
          given : SUBSET Fields, to : Row]

ASSUME CredentialsAssumption ==
    Credentials \subseteq Nat /\ Credentials # {} /\ Passwords # {} /\ Tokens # {}
ASSUME SeededAssumption == Seeded \in [Credentials -> Row]
ASSUME InputsAssumption == Inputs \in [Requests -> SUBSET Input]
ASSUME BoundsAssumption == TokenLife \in Nat \ {0} /\ MaxTime \in Nat /\ MaxScope \in Nat \ {0}

VARIABLES rows,     \* the table
          scopes,   \* the version of the membership and roles in each workspace, 0 when gone
          cache,    \* the stored grants
          now,
          expiry,   \* of the reset tokens
          pc, input,
          id,       \* the credential a request is about
          given, to,   \* the update it makes
          read,     \* the row it has read
          grant,    \* the grant it has built
          late,     \* a history variable: the grants stored after their row was written
          stale,    \* a history variable: the row was written after it was read
          raced     \* a history variable: another request wrote after the choice

reqs == <<pc, input, id, given, to, read, grant>>
past == <<late, stale, raced>>
vars == <<rows, scopes, cache, now, expiry, reqs, past>>

At(r, step) == pc[r] = step
Goto(r, step) == pc' = [pc EXCEPT ![r] = step]

-----------------------------------------------------------------------------
(* The rules *)

(* An argon2 hash verifies its password; a secret that is no hash is an error *)
Verifies(secret, password) == secret = Hash(password)

\* Mutant: the kind may change.
SameIdentityButKind(row, fields, new) ==
    row.kind = "oauth" =>
        /\ "provider" \in fields => new.provider = row.provider
        /\ "identity" \in fields => new.identity = row.identity

(* An update of an OAuth credential may not change what identifies it *)
SameIdentity(row, fields, new) ==
    row.kind = "oauth" =>
        /\ "kind" \in fields => new.kind = row.kind
        /\ "provider" \in fields => new.provider = row.provider
        /\ "identity" \in fields => new.identity = row.identity

Updated(row, fields, new) ==
    [row EXCEPT !.kind = IF "kind" \in fields THEN new.kind ELSE @,
                !.provider = IF "provider" \in fields THEN new.provider ELSE @,
                !.identity = IF "identity" \in fields THEN new.identity ELSE @,
                !.secret = IF "secret" \in fields THEN new.secret ELSE @,
                !.status = IF "status" \in fields THEN new.status ELSE @,
                !.until = IF "until" \in fields THEN new.until ELSE @]

(* One active password, and one active OAuth or SSO credential of a provider, in a workspace *)
Clashes(c, row) ==
    \E other \in DOMAIN rows \ {c} :
        /\ row.workspace = rows[other].workspace
        /\ row.status = "active" /\ rows[other].status = "active"
        /\ \/ row.kind = "password" /\ rows[other].kind = "password"
           \/ /\ {row.kind, rows[other].kind} \subseteq {"oauth", "sso"}
              /\ row.provider = rows[other].provider

(* The Local credentials with a secret in some workspaces; the store lists the newest first *)
Local(ws) ==
    {c \in DOMAIN rows : rows[c].provider = "local" /\ rows[c].secret # NoSecret
                            /\ rows[c].workspace \in ws}
Newest(cs) == {c \in cs : \A other \in cs : other <= c}

(* Login takes the newest of the workspace, whatever its status *)
Accepts(w, password) == \E c \in Newest(Local({w})) : Verifies(rows[c].secret, password)

-----------------------------------------------------------------------------
(* Requests *)

First(op) ==
    CASE op = "authenticate" -> "read"
      [] op = "reset" -> "present"
      [] op = "login" -> "login"
      [] OTHER -> "find"

Receive(r) ==
    /\ At(r, "idle")
    /\ \E i \in Inputs[r] :
        /\ input' = [input EXCEPT ![r] = i]
        /\ id' = [id EXCEPT ![r] = i.id]
        /\ given' = [given EXCEPT ![r] = i.given]
        /\ to' = [to EXCEPT ![r] = i.to]
        /\ Goto(r, First(i.op))
    /\ UNCHANGED <<rows, scopes, cache, now, expiry, read, grant, past>>

Refuse(r) ==
    /\ Goto(r, "refused")
    /\ UNCHANGED <<rows, scopes, cache, now, expiry, input, id, given, to, read, grant, past>>

(* A statement or a Redis command fails, the account is disabled, or the time is up *)
Fail(r) ==
    /\ pc[r] \notin {"idle", "answered", "refused", "abandoned"}
    /\ Goto(r, IF At(r, "clearAgain") THEN "abandoned" ELSE "refused")
    /\ UNCHANGED <<rows, scopes, cache, now, expiry, input, id, given, to, read, grant, past>>

(* authenticate: the row, by its id alone *)
ReadCredential(r) ==
    /\ At(r, "read")
    /\ \/ /\ id[r] \in DOMAIN rows
          /\ read' = [read EXCEPT ![r] = rows[id[r]]]
          /\ stale' = [stale EXCEPT ![r] = FALSE]
          /\ Goto(r, "check")
          /\ UNCHANGED <<rows, scopes, cache, now, expiry, input, id, given, to, grant, late, raced>>
       \/ id[r] \notin DOMAIN rows /\ Refuse(r)

CheckCredential(r) ==
    LET sound == /\ Verifies(read[r].secret, input[r].password)
                 /\ read[r].status = "active"
                 /\ now < read[r].until
    IN  /\ At(r, "check")
        /\ \/ /\ sound
              /\ Goto(r, "build")
              /\ UNCHANGED <<rows, scopes, cache, now, expiry, input, id, given, to, read,
                             grant, past>>
           \/ ~sound /\ Refuse(r)

(* The roles of the membership, and the lifetime of the grant from the time it has left *)
BuildGrant(r) ==
    LET row == read[r]
    IN  /\ At(r, "build")
        /\ \/ /\ scopes[row.workspace] # 0
              /\ grant' = [grant EXCEPT ![r] =
                    [scope |-> scopes[row.workspace], status |-> row.status,
                     until |-> row.until,
                     ends |-> IF row.until = Never THEN Never
                              ELSE IF row.until > now THEN row.until - now ELSE 0]]
              /\ Goto(r, "store")
              /\ UNCHANGED <<rows, scopes, cache, now, expiry, input, id, given, to, read, past>>
           \/ scopes[row.workspace] = 0 /\ Refuse(r)

Late(c, r) == late' = IF stale[r] THEN late \cup {c} ELSE late \ {c}

\* Mutant: a lifetime of zero is passed on.
StoreGrantAtOnce(r) ==
    /\ At(r, "store")
    /\ cache' = [cache EXCEPT ![id[r]] = [grant[r] EXCEPT !.ends =
                    IF @ = Never THEN Never ELSE now + @]]
    /\ Late(id[r], r)
    /\ Goto(r, "answered")
    /\ UNCHANGED <<rows, scopes, now, expiry, input, id, given, to, read, grant, stale, raced>>

(* Redis refuses a lifetime of zero, and the request is refused with it *)
StoreGrant(r) ==
    LET ttl == grant[r].ends
    IN  /\ At(r, "store")
        /\ \/ /\ ttl > 0
              /\ cache' = [cache EXCEPT ![id[r]] = [grant[r] EXCEPT !.ends =
                              IF ttl = Never THEN Never ELSE now + ttl]]
              /\ Late(id[r], r)
              /\ Goto(r, "answered")
              /\ UNCHANGED <<rows, scopes, now, expiry, input, id, given, to, read, grant,
                             stale, raced>>
           \/ ttl = 0 /\ Refuse(r)

(* update_password: the token is decoded, and stays as it is *)
Present(r) ==
    LET expires == expiry[input[r].token]
    IN  /\ At(r, "present")
        /\ \/ /\ expires # NotIssued /\ now < expires
              /\ Goto(r, "choose")
              /\ UNCHANGED <<rows, scopes, cache, now, expiry, input, id, given, to, read,
                             grant, past>>
           \/ ~(expires # NotIssued /\ now < expires) /\ Refuse(r)

\* Mutant: the oldest of the credentials is updated.
ChooseOldest(r) ==
    /\ At(r, "choose")
    /\ \E c \in Local(Workspaces) :
        /\ \A other \in Local(Workspaces) : c <= other
        /\ id' = [id EXCEPT ![r] = c]
        /\ given' = [given EXCEPT ![r] = {"secret"}]
        /\ to' = [to EXCEPT ![r] = [rows[c] EXCEPT !.secret = Hash(input[r].password)]]
        /\ raced' = [raced EXCEPT ![r] = FALSE]
        /\ Goto(r, "find")
    /\ UNCHANGED <<rows, scopes, cache, now, expiry, input, read, grant, late, stale>>

(* The newest Local credential with a secret, of all the account's workspaces *)
Choose(r) ==
    /\ At(r, "choose")
    /\ \/ \E c \in Newest(Local(Workspaces)) :
            /\ id' = [id EXCEPT ![r] = c]
            /\ given' = [given EXCEPT ![r] = {"secret"}]
            /\ to' = [to EXCEPT ![r] = [rows[c] EXCEPT !.secret = Hash(input[r].password)]]
            /\ raced' = [raced EXCEPT ![r] = FALSE]
            /\ Goto(r, "find")
            /\ UNCHANGED <<rows, scopes, cache, now, expiry, input, read, grant, late, stale>>
       \/ Local(Workspaces) = {} /\ Refuse(r)

(* update and delete: the row is read, and an update of an OAuth identity refused *)
Find(r) ==
    LET allowed == /\ id[r] \in DOMAIN rows
                   /\ input[r].op # "delete" => SameIdentity(rows[id[r]], given[r], to[r])
    IN  /\ At(r, "find")
        /\ \/ /\ allowed
              /\ Goto(r, "clear")
              /\ UNCHANGED <<rows, scopes, cache, now, expiry, input, id, given, to, read,
                             grant, past>>
           \/ ~allowed /\ Refuse(r)

Clear(r) ==
    /\ At(r, "clear")
    /\ cache' = [cache EXCEPT ![id[r]] = NoEntry]
    /\ Goto(r, "write")
    /\ UNCHANGED <<rows, scopes, now, expiry, input, id, given, to, read, grant, past>>

(* What a write of a credential means for the requests that run beside it *)
Wrote(cs, writers) ==
    /\ stale' = [q \in Requests |-> stale[q] \/ id[q] \in cs]
    /\ raced' = [q \in Requests |-> raced[q] \/ q \notin writers]
    /\ UNCHANGED late

(* The UPDATE, or the DELETE *)
Write(r) ==
    LET c == id[r]
        new == Updated(rows[c], given[r], to[r])
        rewritten == IF input[r].op = "delete" THEN [other \in DOMAIN rows \ {c} |-> rows[other]]
                     ELSE [rows EXCEPT ![c] = new]
        accepted == c \in DOMAIN rows /\ (input[r].op # "delete" => ~Clashes(c, new))
    IN  /\ At(r, "write")
        /\ \/ /\ accepted
              /\ rows' = rewritten
              /\ Wrote({c}, {r})
              /\ Goto(r, "clearAgain")
              /\ UNCHANGED <<scopes, cache, now, expiry, input, id, given, to, read, grant>>
           \/ ~accepted /\ Refuse(r)

\* Mutant: the grant is removed before the statement only.
ClearOnce(r) ==
    /\ At(r, "clearAgain")
    /\ Goto(r, IF input[r].op = "delete" THEN "answered" ELSE "describe")
    /\ UNCHANGED <<rows, scopes, cache, now, expiry, input, id, given, to, read, grant, past>>

ClearAgain(r) ==
    /\ At(r, "clearAgain")
    /\ cache' = [cache EXCEPT ![id[r]] = NoEntry]
    /\ Goto(r, IF input[r].op = "delete" THEN "answered" ELSE "describe")
    /\ UNCHANGED <<rows, scopes, now, expiry, input, id, given, to, read, grant, past>>

(* An update is answered with the row as it is now *)
Describe(r) ==
    /\ At(r, "describe")
    /\ \/ /\ id[r] \in DOMAIN rows
          /\ Goto(r, "answered")
          /\ UNCHANGED <<rows, scopes, cache, now, expiry, input, id, given, to, read, grant, past>>
       \/ id[r] \notin DOMAIN rows /\ Refuse(r)

Login(r) ==
    /\ At(r, "login")
    /\ \/ /\ Accepts(input[r].workspace, input[r].password)
          /\ Goto(r, "answered")
          /\ UNCHANGED <<rows, scopes, cache, now, expiry, input, id, given, to, read, grant, past>>
       \/ ~Accepts(input[r].workspace, input[r].password) /\ Refuse(r)

-----------------------------------------------------------------------------
(* The surroundings *)

(* request_password_reset: a token is made and sent *)
RequestReset(t) ==
    /\ expiry[t] = NotIssued
    /\ expiry' = [expiry EXCEPT ![t] = now + TokenLife]
    /\ UNCHANGED <<rows, scopes, cache, now, reqs, past>>

(* The membership or one of its roles changes; no grant is removed for it *)
ChangeScope(w) ==
    /\ scopes[w] \in 1..MaxScope - 1
    /\ scopes' = [scopes EXCEPT ![w] = @ + 1]
    /\ UNCHANGED <<rows, cache, now, expiry, reqs, past>>

(* The membership is removed, and the credentials anchored to it with it *)
RemoveMembership(w) ==
    LET gone == {c \in DOMAIN rows : rows[c].workspace = w}
    IN  /\ scopes[w] # 0
        /\ scopes' = [scopes EXCEPT ![w] = 0]
        /\ rows' = [c \in DOMAIN rows \ gone |-> rows[c]]
        /\ Wrote(gone, {})
        /\ UNCHANGED <<cache, now, expiry, reqs>>

Tick ==
    /\ now < MaxTime
    /\ now' = now + 1
    /\ cache' = [c \in Credentials |-> IF cache[c].ends <= now + 1 THEN NoEntry ELSE cache[c]]
    /\ UNCHANGED <<rows, scopes, expiry, reqs, past>>

Idle ==
    LET c == CHOOSE c \in Credentials : TRUE
    IN  [op |-> "login", id |-> c, workspace |-> Seeded[c].workspace,
         password |-> CHOOSE p \in Passwords : TRUE, token |-> CHOOSE t \in Tokens : TRUE,
         given |-> {}, to |-> Seeded[c]]

Init ==
    /\ rows = Seeded
    /\ scopes = [w \in Workspaces |-> 1]
    /\ cache = [c \in Credentials |-> NoEntry]
    /\ now = 0
    /\ expiry = [t \in Tokens |-> NotIssued]
    /\ pc = [r \in Requests |-> "idle"]
    /\ input = [r \in Requests |-> Idle]
    /\ id = [r \in Requests |-> Idle.id]
    /\ given = [r \in Requests |-> {}]
    /\ to = [r \in Requests |-> Idle.to]
    /\ read = [r \in Requests |-> Idle.to]
    /\ grant = [r \in Requests |-> NoEntry]
    /\ late = {}
    /\ stale = [r \in Requests |-> FALSE]
    /\ raced = [r \in Requests |-> FALSE]

Step(r) ==
    \/ Receive(r) \/ Fail(r)
    \/ ReadCredential(r) \/ CheckCredential(r) \/ BuildGrant(r) \/ StoreGrant(r)
    \/ Present(r) \/ Choose(r)
    \/ Find(r) \/ Clear(r) \/ Write(r) \/ ClearAgain(r) \/ Describe(r)
    \/ Login(r)

Next ==
    \/ \E r \in Requests : Step(r)
    \/ \E t \in Tokens : RequestReset(t)
    \/ \E w \in Workspaces : ChangeScope(w) \/ RemoveMembership(w)
    \/ Tick

Spec == Init /\ [][Next]_vars

-----------------------------------------------------------------------------
(* Properties *)

Steps == {"idle", "read", "check", "build", "store", "present", "choose", "find", "clear",
          "write", "clearAgain", "describe", "login", "answered", "refused", "abandoned"}

(* The state has its type, and a stored grant has a lifetime that is not over *)
TypeOK ==
    /\ DOMAIN rows \subseteq Credentials
    /\ rows \in [DOMAIN rows -> Row]
    /\ scopes \in [Workspaces -> 0..MaxScope]
    /\ cache \in [Credentials -> Entry]
    /\ now \in 0..MaxTime
    /\ expiry \in [Tokens -> Nat]
    /\ pc \in [Requests -> Steps]
    /\ input \in [Requests -> Input]
    /\ id \in [Requests -> Credentials]
    /\ given \in [Requests -> SUBSET Fields]
    /\ to \in [Requests -> Row]
    /\ read \in [Requests -> Row]
    /\ grant \in [Requests -> Entry]
    /\ late \subseteq Credentials
    /\ stale \in [Requests -> BOOLEAN]
    /\ raced \in [Requests -> BOOLEAN]
    /\ \A c \in Credentials : cache[c] = NoEntry \/ now < cache[c].ends

(* A stored grant agrees with the status and the expiry of its credential, unless it was *)
(* stored after a write that came after its read; or the credential went with its        *)
(* membership, which removes no grants; or a writer is at its second removal or did not  *)
(* get to it.  An update and a deletion remove the grant before and after they write     *)
GrantsAgreeUnlessExcused ==
    \A c \in Credentials : cache[c] # NoEntry =>
        \/ c \in DOMAIN rows /\ rows[c].status = cache[c].status /\ rows[c].until = cache[c].until
        \/ c \in late
        \/ scopes[Seeded[c].workspace] = 0
        \/ \E r \in Requests : id[r] = c /\ pc[r] \in {"clearAgain", "abandoned"}

(* A credential that was created for OAuth identifies for good whom it did at first,     *)
(* however updates interleave: each compares with the row it reads, and writes later     *)
OAuthIdentityIsForGood ==
    \A c \in DOMAIN rows : Seeded[c].kind = "oauth" =>
        /\ rows[c].kind = "oauth"
        /\ rows[c].provider = Seeded[c].provider
        /\ rows[c].identity = Seeded[c].identity

(* When a reset is answered and nothing else was written since it chose, login accepts  *)
(* the new password in the workspace of the credential that it chose.  The two look the *)
(* credential up on their own: the newest of all workspaces, and the newest of one      *)
ResetReachesLogin ==
    \A r \in Requests :
        input[r].op = "reset" /\ pc[r] = "answered" /\ ~raced[r]
            => Accepts(rows[id[r]].workspace, input[r].password)
=============================================================================
