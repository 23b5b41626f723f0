---------------------------- MODULE AuthSession ----------------------------
(***************************************************************************)
(* Token validation against a look-aside cache.                            *)
(*                                                                         *)
(* An access token carries the versions its membership row and its account *)
(* row had when it was issued.  CtxService::resolve_ctx accepts the token  *)
(* when those versions equal the ones in the Redis entry of the membership *)
(* (key oxauth:mem_id:{mem}), hydrating the entry from Postgres on a miss. *)
(* Administrators change the two rows meanwhile; MembershipService removes *)
(* the entry after its write, AccountService means to but does not.        *)
(*                                                                         *)
(* Every step below is one statement sent to Postgres or Redis: the code   *)
(* uses no transaction, so other requests run between any two of them.     *)
(* The module follows one membership and its account; entries of different *)
(* memberships share no state.  Time passes in ticks.                      *)
(***************************************************************************)
EXTENDS Naturals

CONSTANTS
    Requests,   \* requests that log in or present a token
    Writers,    \* administrative requests that change a row
    Roles,      \* role ids a membership may be linked to
    TTL,        \* jwt_max_age, the lifetime of a cache entry, in ticks
    Timeout,    \* the 30 s request timeout of the router, in ticks
    MaxVer      \* bound: versions run from 0 to MaxVer

ASSUME TimesAssumption ==
    /\ TTL \in Nat \ {0}
    /\ Timeout \in Nat \ {0}
    /\ MaxVer \in Nat

VARIABLES
    mem,        \* the membership row, with its role links
    acc,        \* the account row
    cache,      \* the Redis entry of the membership
    tokens,     \* version pairs of the tokens issued so far
    req,        \* the state of each request
    wr,         \* the state of each administrative request
    memAge,     \* ticks since the membership row last changed
    accAge,     \* ticks since the account row last changed
    revoked     \* membership versions whose revocation was acknowledged

vars == <<mem, acc, cache, tokens, req, wr, memAge, accAge, revoked>>

(***************************************************************************)
(* The longest a grant may rest on a row that has been replaced: a request *)
(* reads the row and takes up to Timeout to store it, the entry lives TTL, *)
(* and a request that read the entry takes up to Timeout to check it.  A   *)
(* countdown from n is over at the nth tick, so it spans n - 1 of them.    *)
(***************************************************************************)
Bound == (TTL - 1) + 2 * (Timeout - 1)

\* Ages stop growing once they exceed every bound of interest.
OlderThanBound == Bound + 1
Grow(age) == IF age < OlderThanBound THEN age + 1 ELSE age

Version == 0 .. MaxVer

\* "on": status Active / enabled; "off": any other status / disabled.
Flag == {"on", "off"}
Change == Flag \cup {"keep"}
Apply(change, flag) == IF change = "keep" THEN flag ELSE change

MemRow == [live : BOOLEAN, ver : Version, status : Flag, roles : SUBSET Roles]
AccRow == [live : BOOLEAN, ver : Version, enabled : Flag]
Token  == [mem : Version, acc : Version]

FirstMem == [live |-> TRUE, ver |-> 0, status |-> "on", roles |-> {}]
FirstAcc == [live |-> TRUE, ver |-> 0, enabled |-> "on"]

(***************************************************************************)
(* tainted records that a membership write overlapped the hydration that   *)
(* produced these values, or that the write's invalidation never ran.      *)
(***************************************************************************)
Entry == [left : 0 .. TTL, mem : MemRow, acc : AccRow, tainted : BOOLEAN]
NoEntry == [left |-> 0, mem |-> FirstMem, acc |-> FirstAcc, tainted |-> FALSE]
Cached == cache.left > 0

\* The entry after an invalidation it was owed never ran.
LeftBehind == IF Cached THEN [cache EXCEPT !.tainted = TRUE] ELSE cache

ReqState == [pc : {"idle", "loginMem", "fetch", "readMem", "readAcc", "fill",
                   "check", "granted"},
             tok : Token, mem : MemRow, acc : AccRow,
             tainted : BOOLEAN, left : 0 .. Timeout]
IdleReq == [pc |-> "idle", tok |-> [mem |-> 0, acc |-> 0], mem |-> FirstMem,
            acc |-> FirstAcc, tainted |-> FALSE, left |-> 0]

\* touched: the membership data changed and was not yet invalidated.
WrState == [pc : {"idle", "unlink", "link", "write", "delete", "inval",
                  "accWrite", "accDelete"},
            ver : Version, change : Change, roles : SUBSET Roles,
            touched : BOOLEAN, left : 0 .. Timeout]
IdleWr == [pc |-> "idle", ver |-> 0, change |-> "keep", roles |-> {},
           touched |-> FALSE, left |-> 0]

TypeOK ==
    /\ mem \in MemRow
    /\ acc \in AccRow
    /\ cache \in Entry
    /\ tokens \subseteq Token
    /\ req \in [Requests -> ReqState]
    /\ wr \in [Writers -> WrState]
    /\ memAge \in 0 .. OlderThanBound
    /\ accAge \in 0 .. OlderThanBound
    /\ revoked \subseteq Version

Init ==
    /\ mem = FirstMem
    /\ acc = FirstAcc
    /\ cache = NoEntry
    /\ tokens = {}
    /\ req = [r \in Requests |-> IdleReq]
    /\ wr = [w \in Writers |-> IdleWr]
    /\ memAge = OlderThanBound
    /\ accAge = OlderThanBound
    /\ revoked = {}

-----------------------------------------------------------------------------
(* Requests.  A request acts only before its timeout drops its future.     *)

At(r, pc) == req[r].pc = pc /\ req[r].left > 0

Reject(r) == req' = [req EXCEPT ![r] = IdleReq]

rows == <<mem, acc, memAge, accAge>>

\* AuthService::login up to the account checks: the account row is read
\* first, a disabled account goes no further.
LoginReadAccount(r) ==
    /\ req[r].pc = "idle"
    /\ acc.live /\ acc.enabled = "on"
    /\ req' = [req EXCEPT ![r] = [IdleReq EXCEPT !.pc = "loginMem", !.acc = acc,
                                                 !.left = Timeout]]
    /\ UNCHANGED <<rows, cache, tokens, wr, revoked>>

\* The membership row is read last and the pair is issued from it and from
\* the account version read before.
LoginIssue(r) ==
    /\ At(r, "loginMem")
    /\ mem.live /\ mem.status = "on"
    /\ tokens' = tokens \cup {[mem |-> mem.ver, acc |-> req[r].acc.ver]}
    /\ Reject(r)
    /\ UNCHANGED <<rows, cache, wr, revoked>>

\* A request presents a token that was issued to this membership.
Present(r, t) ==
    /\ req[r].pc = "idle"
    /\ req' = [req EXCEPT ![r] = [IdleReq EXCEPT !.pc = "fetch", !.tok = t,
                                                 !.left = Timeout]]
    /\ UNCHANGED <<rows, cache, tokens, wr, revoked>>

FetchHit(r) ==
    /\ At(r, "fetch")
    /\ Cached
    /\ req' = [req EXCEPT ![r] = [@ EXCEPT !.pc = "check", !.mem = cache.mem,
                                           !.acc = cache.acc]]
    /\ UNCHANGED <<rows, cache, tokens, wr, revoked>>

FetchMiss(r) ==
    /\ At(r, "fetch")
    /\ ~Cached
    /\ req' = [req EXCEPT ![r].pc = "readMem"]
    /\ UNCHANGED <<rows, cache, tokens, wr, revoked>>

\* AuthCache::build_from_db: the membership with its roles in one statement,
\* then the account in another.
HydrateMembership(r) ==
    /\ At(r, "readMem")
    /\ mem.live
    /\ req' = [req EXCEPT ![r] = [@ EXCEPT !.pc = "readAcc", !.mem = mem]]
    /\ UNCHANGED <<rows, cache, tokens, wr, revoked>>

HydrateAccount(r) ==
    /\ At(r, "readAcc")
    /\ acc.live
    /\ req' = [req EXCEPT ![r] = [@ EXCEPT !.pc = "fill", !.acc = acc]]
    /\ UNCHANGED <<rows, cache, tokens, wr, revoked>>

\* The write-back, with the lifetime the workspace's jwt_max_age gives it.
Fill(r) ==
    /\ At(r, "fill")
    /\ cache' = [left |-> TTL, mem |-> req[r].mem, acc |-> req[r].acc,
                 tainted |-> req[r].tainted]
    /\ req' = [req EXCEPT ![r].pc = "check"]
    /\ UNCHANGED <<rows, tokens, wr, revoked>>

\* The entry is stored but the reply is lost: RedisChx::query_async connects
\* again and repeats the command.
FillUnacknowledged(r) ==
    /\ At(r, "fill")
    /\ cache' = [left |-> TTL, mem |-> req[r].mem, acc |-> req[r].acc,
                 tainted |-> req[r].tainted]
    /\ UNCHANGED <<rows, req, tokens, wr, revoked>>

\* ContextResolver::validate_auth
Valid(t, m, a) ==
    /\ t.mem = m.ver
    /\ t.acc = a.ver
    /\ m.status = "on"
    /\ a.enabled = "on"

Grant(r) ==
    /\ At(r, "check")
    /\ Valid(req[r].tok, req[r].mem, req[r].acc)
    /\ req' = [req EXCEPT ![r].pc = "granted"]
    /\ UNCHANGED <<rows, cache, tokens, wr, revoked>>

\* The end of a request in any state: its work is done, a row is missing, a
\* check fails, Postgres or Redis returns an error, the client disconnects
\* or the timeout drops the future.
End(r) ==
    /\ req[r].pc # "idle"
    /\ Reject(r)
    /\ UNCHANGED <<rows, cache, tokens, wr, revoked>>

-----------------------------------------------------------------------------
(* Administrative requests.                                                *)

Doing(w, pc) == wr[w].pc = pc /\ wr[w].left > 0

Begin(w, state) == wr' = [wr EXCEPT ![w] = [state EXCEPT !.left = Timeout]]

\* A membership write reaches the row: hydrations that already read it hold
\* values the cache must not keep.
MemWritten(new) ==
    /\ mem' = new
    /\ memAge' = IF new = mem THEN memAge ELSE 0
    /\ req' = [r \in Requests |->
                 IF req[r].pc \in {"readAcc", "fill"}
                 THEN [req[r] EXCEPT !.tainted = TRUE] ELSE req[r]]

\* MembershipService::update reads the current row; AuthService::revoke_token
\* and the replay branch of refresh_token call it with nothing to change.
UpdateDescribe(w, change, relink, roles) ==
    /\ wr[w].pc = "idle"
    /\ mem.live /\ mem.ver < MaxVer
    /\ relink \/ roles = {}
    /\ Begin(w, [IdleWr EXCEPT !.pc = IF relink THEN "unlink" ELSE "write",
                               !.ver = mem.ver, !.change = change,
                               !.roles = roles])
    /\ UNCHANGED <<rows, cache, tokens, req, revoked>>

\* set_many_to_many_links: a DELETE of every link, then an INSERT.
UpdateUnlink(w) ==
    /\ Doing(w, "unlink")
    /\ MemWritten([mem EXCEPT !.roles = {}])
    /\ wr' = [wr EXCEPT ![w] = [@ EXCEPT !.pc = IF wr[w].roles = {} THEN "write"
                                                ELSE "link",
                                         !.touched = TRUE]]
    /\ UNCHANGED <<acc, accAge, cache, tokens, revoked>>

\* The INSERT fails on a link that is already there (primary key).
UpdateLink(w) ==
    /\ Doing(w, "link")
    /\ mem.live
    /\ wr[w].roles \cap mem.roles = {}
    /\ MemWritten([mem EXCEPT !.roles = @ \cup wr[w].roles])
    /\ wr' = [wr EXCEPT ![w].pc = "write"]
    /\ UNCHANGED <<acc, accAge, cache, tokens, revoked>>

\* The row is written with the version that was read, plus one.
UpdateWrite(w) ==
    /\ Doing(w, "write")
    /\ mem.live
    /\ MemWritten([mem EXCEPT !.ver = wr[w].ver + 1,
                              !.status = Apply(wr[w].change, @)])
    /\ wr' = [wr EXCEPT ![w] = [@ EXCEPT !.pc = "inval", !.touched = TRUE]]
    /\ UNCHANGED <<acc, accAge, cache, tokens, revoked>>

DeleteDescribe(w) ==
    /\ wr[w].pc = "idle"
    /\ mem.live
    /\ Begin(w, [IdleWr EXCEPT !.pc = "delete", !.ver = mem.ver])
    /\ UNCHANGED <<rows, cache, tokens, req, revoked>>

DeleteMembership(w) ==
    /\ Doing(w, "delete")
    /\ mem.live
    /\ MemWritten([mem EXCEPT !.live = FALSE, !.roles = {}])
    /\ wr' = [wr EXCEPT ![w] = [@ EXCEPT !.pc = "inval", !.touched = TRUE]]
    /\ UNCHANGED <<acc, accAge, cache, tokens, revoked>>

\* Mutant: the key deleted is not the membership's.
InvalidateOtherKey(w) ==
    /\ Doing(w, "inval")
    /\ revoked' = revoked \cup {wr[w].ver}
    /\ wr' = [wr EXCEPT ![w] = IdleWr]
    /\ UNCHANGED <<rows, cache, tokens, req>>

\* cm.auth.invalidate, after which the call is acknowledged.
Invalidate(w) ==
    /\ Doing(w, "inval")
    /\ cache' = NoEntry
    /\ revoked' = revoked \cup {wr[w].ver}
    /\ wr' = [wr EXCEPT ![w] = IdleWr]
    /\ UNCHANGED <<rows, tokens, req>>

\* Mutant: every update bumps the version.
AccountReadBumpsAlways(w, change) ==
    /\ wr[w].pc = "idle"
    /\ acc.live
    /\ Begin(w, [IdleWr EXCEPT !.pc = "accWrite", !.change = change,
                               !.ver = acc.ver + 1])
    /\ UNCHANGED <<rows, cache, tokens, req, revoked>>

\* AccountService::update: only a change of enabled bumps the version, any
\* other update writes back the version it read.
AccountRead(w, change) ==
    LET bumps == change # "keep" /\ change # acc.enabled
    IN  /\ wr[w].pc = "idle"
        /\ acc.live
        /\ bumps => acc.ver < MaxVer
        /\ Begin(w, [IdleWr EXCEPT !.pc = "accWrite", !.change = change,
                                   !.ver = IF bumps THEN acc.ver + 1 ELSE acc.ver])
        /\ UNCHANGED <<rows, cache, tokens, req, revoked>>

\* AuthService::confirm_account marks an unverified account verified, which
\* bumps the version; no invalidation is attempted.
ConfirmRead(w) ==
    /\ wr[w].pc = "idle"
    /\ acc.live
    /\ acc.ver < MaxVer
    /\ Begin(w, [IdleWr EXCEPT !.pc = "accWrite", !.ver = acc.ver + 1])
    /\ UNCHANGED <<rows, cache, tokens, req, revoked>>

\* The account row is written.  AccountService::update then calls
\* invalidate_all_memberships without awaiting it: a future that is never
\* polled does nothing, and the cache entry stays.
AccountWrite(w) ==
    /\ Doing(w, "accWrite")
    /\ acc.live
    /\ acc' = [acc EXCEPT !.ver = wr[w].ver, !.enabled = Apply(wr[w].change, @)]
    /\ accAge' = IF acc' = acc THEN accAge ELSE 0
    /\ wr' = [wr EXCEPT ![w] = IdleWr]
    /\ UNCHANGED <<mem, memAge, cache, tokens, req, revoked>>

AccountDeleteRead(w) ==
    /\ wr[w].pc = "idle"
    /\ acc.live
    /\ Begin(w, [IdleWr EXCEPT !.pc = "accDelete"])
    /\ UNCHANGED <<rows, cache, tokens, req, revoked>>

\* The membership goes with its account (ON DELETE CASCADE); again the
\* invalidation is not awaited.
AccountDelete(w) ==
    /\ Doing(w, "accDelete")
    /\ acc.live
    /\ acc' = [acc EXCEPT !.live = FALSE]
    /\ accAge' = 0
    /\ MemWritten([mem EXCEPT !.live = FALSE, !.roles = {}])
    /\ cache' = LeftBehind
    /\ wr' = [wr EXCEPT ![w] = IdleWr]
    /\ UNCHANGED <<tokens, revoked>>

\* ProjectService::delete: a project-scoped membership goes with its project,
\* and the service has no invalidation yet.
ProjectDelete ==
    /\ mem.live
    /\ MemWritten([mem EXCEPT !.live = FALSE, !.roles = {}])
    /\ cache' = LeftBehind
    /\ UNCHANGED <<acc, accAge, tokens, wr, revoked>>

\* An error, a disconnect or the timeout ends an administrative request
\* between two statements; nothing is undone.
Abort(w) ==
    /\ wr[w].pc # "idle"
    /\ cache' = IF wr[w].touched THEN LeftBehind ELSE cache
    /\ wr' = [wr EXCEPT ![w] = IdleWr]
    /\ UNCHANGED <<rows, tokens, req, revoked>>

-----------------------------------------------------------------------------

CountDown(n) == IF n > 0 THEN n - 1 ELSE 0

\* Mutant: the entry is stored without an expiry.
TickWithoutExpiry ==
    /\ req' = [r \in Requests |-> [req[r] EXCEPT !.left = CountDown(@)]]
    /\ wr' = [w \in Writers |-> [wr[w] EXCEPT !.left = CountDown(@)]]
    /\ memAge' = Grow(memAge)
    /\ accAge' = Grow(accAge)
    /\ UNCHANGED <<mem, acc, cache, tokens, revoked>>

\* A tick: Redis expires the entry, request timeouts advance.
Tick ==
    /\ cache' = IF cache.left > 1 THEN [cache EXCEPT !.left = @ - 1] ELSE NoEntry
    /\ req' = [r \in Requests |-> [req[r] EXCEPT !.left = CountDown(@)]]
    /\ wr' = [w \in Writers |-> [wr[w] EXCEPT !.left = CountDown(@)]]
    /\ memAge' = Grow(memAge)
    /\ accAge' = Grow(accAge)
    /\ UNCHANGED <<mem, acc, tokens, revoked>>

RequestStep(r) ==
    \/ LoginReadAccount(r)
    \/ LoginIssue(r)
    \/ \E t \in tokens : Present(r, t)
    \/ FetchHit(r)
    \/ FetchMiss(r)
    \/ HydrateMembership(r)
    \/ HydrateAccount(r)
    \/ Fill(r)
    \/ FillUnacknowledged(r)
    \/ Grant(r)
    \/ End(r)

WriterStep(w) ==
    \/ \E change \in Change, relink \in BOOLEAN, roles \in SUBSET Roles :
          UpdateDescribe(w, change, relink, roles)
    \/ UpdateUnlink(w)
    \/ UpdateLink(w)
    \/ UpdateWrite(w)
    \/ DeleteDescribe(w)
    \/ DeleteMembership(w)
    \/ Invalidate(w)
    \/ \E change \in Change : AccountRead(w, change)
    \/ ConfirmRead(w)
    \/ AccountWrite(w)
    \/ AccountDeleteRead(w)
    \/ AccountDelete(w)
    \/ Abort(w)

Next ==
    \/ \E r \in Requests : RequestStep(r)
    \/ \E w \in Writers : WriterStep(w)
    \/ ProjectDelete
    \/ Tick

Spec == Init /\ [][Next]_vars

\* Time passes; nothing obliges a request to be answered.
FairSpec == Spec /\ WF_vars(Tick)

-----------------------------------------------------------------------------
(***************************************************************************)
(* Bounded staleness: a token is never accepted on the strength of a row   *)
(* that was replaced more than Bound ticks ago.  This is the whole promise *)
(* that survives hydrations racing with writes, invalidations that are     *)
(* dropped or never awaited, and cascaded deletes (resolve_auth_cache).    *)
(***************************************************************************)
NoStaleGrant ==
    [][\A r \in Requests :
          req[r].pc = "check" /\ req'[r].pc = "granted" =>
             /\ req[r].mem = mem \/ memAge <= Bound
             /\ req[r].acc = acc \/ accAge <= Bound]_vars

(***************************************************************************)
(* Why NoStaleGrant holds: whatever copy of a row the system still holds,  *)
(* in the cache or in a running request, either equals the row or was      *)
(* overtaken so recently that what is left of the copy's life cannot carry *)
(* it beyond Bound.                                                        *)
(***************************************************************************)
Recent(copy, row, age, left, limit) == copy = row \/ age + left <= limit

EntryRecent == Cached =>
    /\ Recent(cache.mem, mem, memAge, cache.left, TTL + Timeout - 1)
    /\ Recent(cache.acc, acc, accAge, cache.left, TTL + Timeout - 1)

RequestRecent(r) == req[r].left > 0 =>
    /\ req[r].pc \in {"readAcc", "fill"}
         => Recent(req[r].mem, mem, memAge, req[r].left, Timeout)
    /\ req[r].pc = "fill"
         => Recent(req[r].acc, acc, accAge, req[r].left, Timeout)
    /\ req[r].pc = "check"
         => /\ Recent(req[r].mem, mem, memAge, req[r].left, Bound + 1)
            /\ Recent(req[r].acc, acc, accAge, req[r].left, Bound + 1)

StalenessBounded == EntryRecent /\ \A r \in Requests : RequestRecent(r)

(***************************************************************************)
(* Invalidation works: an entry that disagrees with the membership row was *)
(* hydrated across the write, or the invalidation of the write was dropped *)
(* (tainted), or it is still to come (MembershipService::update, delete);  *)
(* and a hydration that no write has overtaken holds the current row.      *)
(***************************************************************************)
DisagreementAccountedFor ==
    /\ Cached /\ ~cache.tainted /\ cache.mem # mem
         => \E w \in Writers : wr[w].touched
    /\ \A r \in Requests : req[r].pc \in {"readAcc", "fill"} /\ ~req[r].tainted
         => req[r].mem = mem
    /\ \A w \in Writers :
         /\ wr[w].touched => wr[w].pc \in {"link", "write", "inval"}
         /\ wr[w].pc \in {"link", "inval"} => wr[w].touched

(***************************************************************************)
(* What revocation is documented to do: the tokens of the session are      *)
(* permanently invalidated.  So a membership version whose revocation was  *)
(* acknowledged (bump_membership_version_and_invalidate) is never current  *)
(* again, whatever other administrators do.                                *)
(***************************************************************************)
RevokedStaysRevoked == mem.live => mem.ver \notin revoked

(***************************************************************************)
(* Although the invalidation of AccountService::update never runs, an      *)
(* account that is disabled for good is eventually denied for good: the    *)
(* entries that still call it enabled expire, and hydrations that read the *)
(* row before the change end with their request.                           *)
(***************************************************************************)
DisabledIsDenied ==
    <>[](acc.enabled = "off")
        => <>[][\A r \in Requests :
                   ~(req[r].pc = "check" /\ req'[r].pc = "granted")]_vars

=============================================================================
