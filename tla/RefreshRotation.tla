-------------------------- MODULE RefreshRotation --------------------------
(***************************************************************************)
(* Rotation of refresh tokens and detection of their reuse.                *)
(*                                                                         *)
(* AuthService::refresh_token swaps a refresh token for a new pair of the  *)
(* same session.  A Redis key per token id (oxauth:crt:{jti}) marks the    *)
(* token as consumed; finding the mark means the token was replayed, and   *)
(* the membership version is raised so that the tokens of the session die. *)
(* The mark is looked up and stored by two Redis commands, and the version *)
(* is read and written by two statements, so requests interleave.          *)
(*                                                                         *)
(* The module follows one membership.  Whoever holds a token may present   *)
(* it, any number of times.  A request may stall anywhere.                 *)
(***************************************************************************)
EXTENDS Naturals

CONSTANTS
    Requests,     \* concurrent calls of refresh_token and revoke_token
    Tokens,       \* ids (jti) of refresh tokens; their number is a bound
    NoToken,      \* stands for a token where there is none
    LoginLife,    \* jwt_max_age: the life of the token login issues, in ticks
    RefreshLife,  \* refresh_token_max_age: the life of a rotated token
    MaxVer        \* bound: versions run from 0 to MaxVer

ASSUME LivesAssumption ==
    /\ LoginLife \in Nat \ {0}
    /\ RefreshLife \in Nat \ {0}
    /\ MaxVer \in Nat
    /\ NoToken \notin Tokens

VARIABLES
    claims,       \* the session and membership version each token carries
    life,         \* ticks until each token expires
    issued,       \* the tokens issued so far
    mark,         \* ticks until the consumed mark of each token expires
    memVer,       \* the version of the membership row
    req,          \* the state of each request
    consumed,     \* history: tokens whose mark was ever stored
    dead,         \* history: sessions whose revocation was acknowledged
    lostUpdate    \* history: a bump overwrote a version it had not read

vars == <<claims, life, issued, mark, memVer, req, consumed, dead, lostUpdate>>
history == <<consumed, dead, lostUpdate>>

Life == 0 .. (IF LoginLife > RefreshLife THEN LoginLife ELSE RefreshLife)
Version == 0 .. MaxVer

\* A session is named by the token its login issued.
Claims == [sid : Tokens, ver : Version]

ReqState == [pc : {"idle", "check", "get", "set", "issue", "bumpRead", "bumpWrite"},
             tok : Tokens \cup {NoToken}, ttl : Life, ver : Version]
IdleReq == [pc |-> "idle", tok |-> NoToken, ttl |-> 0, ver |-> 0]

TypeOK ==
    /\ issued \subseteq Tokens
    /\ claims \in [Tokens -> Claims]
    /\ life \in [Tokens -> Life]
    /\ mark \in [Tokens -> Life]
    /\ memVer \in Version
    /\ req \in [Requests -> ReqState]
    /\ consumed \subseteq issued
    /\ dead \subseteq issued
    /\ lostUpdate \in BOOLEAN

Init ==
    /\ issued = {}
    /\ claims = [j \in Tokens |-> [sid |-> j, ver |-> 0]]
    /\ life = [j \in Tokens |-> 0]
    /\ mark = [j \in Tokens |-> 0]
    /\ memVer = 0
    /\ req = [r \in Requests |-> IdleReq]
    /\ consumed = {}
    /\ dead = {}
    /\ lostUpdate = FALSE

-----------------------------------------------------------------------------

At(r, pc) == req[r].pc = pc
Goto(r, pc) == req' = [req EXCEPT ![r].pc = pc]
Finish(r) == req' = [req EXCEPT ![r] = IdleReq]

IssueToken(n, session, ver, lifetime) ==
    /\ n \notin issued
    /\ issued' = issued \cup {n}
    /\ claims' = [claims EXCEPT ![n] = [sid |-> session, ver |-> ver]]
    /\ life' = [life EXCEPT ![n] = lifetime]

\* login: a new session at the membership's present version.
Login(n) ==
    /\ IssueToken(n, n, memVer, LoginLife)
    /\ UNCHANGED <<mark, memVer, req, history>>

\* refresh_token decodes the token and looks up its account and workspace;
\* neither the membership nor its version is consulted.
Refresh(r, j) ==
    /\ At(r, "idle")
    /\ req' = [req EXCEPT ![r] = [@ EXCEPT !.pc = "check", !.tok = j]]
    /\ UNCHANGED <<claims, life, issued, mark, memVer, history>>

\* Mutant: a tick is lost in computing the remaining lifetime.
RemainingLifeShort(r) ==
    /\ At(r, "check")
    /\ life[req[r].tok] > 0
    /\ req' = [req EXCEPT ![r] = [@ EXCEPT !.pc = "get", !.ttl = life[req[r].tok] - 1]]
    /\ UNCHANGED <<claims, life, issued, mark, memVer, history>>

\* The remaining lifetime is computed before the mark is looked up.
RemainingLife(r) ==
    /\ At(r, "check")
    /\ life[req[r].tok] > 0
    /\ req' = [req EXCEPT ![r] = [@ EXCEPT !.pc = "get", !.ttl = life[req[r].tok]]]
    /\ UNCHANGED <<claims, life, issued, mark, memVer, history>>

\* check_and_consume: GET the mark.
FindFresh(r) ==
    /\ At(r, "get")
    /\ mark[req[r].tok] = 0
    /\ Goto(r, "set")
    /\ UNCHANGED <<claims, life, issued, mark, memVer, history>>

FindReplay(r) ==
    /\ At(r, "get")
    /\ mark[req[r].tok] > 0
    /\ Goto(r, "bumpRead")
    /\ UNCHANGED <<claims, life, issued, mark, memVer, history>>

\* Mutant: the mark lives as long as the next access token.
ConsumeForAccessLife(r) ==
    /\ At(r, "set")
    /\ mark' = [mark EXCEPT ![req[r].tok] = LoginLife]
    /\ consumed' = consumed \cup {req[r].tok}
    /\ Goto(r, "issue")
    /\ UNCHANGED <<claims, life, issued, memVer, dead, lostUpdate>>

\* check_and_consume: SET the mark, to expire with the token.
Consume(r) ==
    /\ At(r, "set")
    /\ mark' = [mark EXCEPT ![req[r].tok] = req[r].ttl]
    /\ consumed' = consumed \cup {req[r].tok}
    /\ Goto(r, "issue")
    /\ UNCHANGED <<claims, life, issued, memVer, dead, lostUpdate>>

\* Mutant: the next token carries the membership's present version.
RotateAtPresentVersion(r, n) ==
    /\ At(r, "issue")
    /\ IssueToken(n, claims[req[r].tok].sid, memVer, RefreshLife)
    /\ Finish(r)
    /\ UNCHANGED <<mark, memVer, history>>

\* The next token continues the session with the versions of the old one.
Rotate(r, n) ==
    /\ At(r, "issue")
    /\ IssueToken(n, claims[req[r].tok].sid, claims[req[r].tok].ver, RefreshLife)
    /\ Finish(r)
    /\ UNCHANGED <<mark, memVer, history>>

\* revoke_token takes the same way as a detected replay.
Revoke(r, j) ==
    /\ At(r, "idle")
    /\ req' = [req EXCEPT ![r] = [@ EXCEPT !.pc = "bumpRead", !.tok = j]]
    /\ UNCHANGED <<claims, life, issued, mark, memVer, history>>

\* bump_membership_version_and_invalidate: MembershipService::update reads
\* the row and writes it back with the next version.
BumpRead(r) ==
    /\ At(r, "bumpRead")
    /\ memVer < MaxVer
    /\ req' = [req EXCEPT ![r] = [@ EXCEPT !.pc = "bumpWrite", !.ver = memVer]]
    /\ UNCHANGED <<claims, life, issued, mark, memVer, history>>

\* Mutant: the version is written back as read.
BumpWriteSame(r) ==
    /\ At(r, "bumpWrite")
    /\ memVer' = req[r].ver
    /\ lostUpdate' = (lostUpdate \/ memVer # req[r].ver)
    /\ dead' = dead \cup {claims[req[r].tok].sid}
    /\ Finish(r)
    /\ UNCHANGED <<claims, life, issued, mark, consumed>>

BumpWrite(r) ==
    /\ At(r, "bumpWrite")
    /\ memVer' = req[r].ver + 1
    /\ lostUpdate' = (lostUpdate \/ memVer # req[r].ver)
    /\ dead' = dead \cup {claims[req[r].tok].sid}
    /\ Finish(r)
    /\ UNCHANGED <<claims, life, issued, mark, consumed>>

\* A request ends early: a check or a statement fails, the client disconnects
\* or the router's timeout drops the future.  Nothing is undone.
End(r) ==
    /\ ~At(r, "idle")
    /\ Finish(r)
    /\ UNCHANGED <<claims, life, issued, mark, memVer, history>>

\* Mutant: a plain subtraction.
CountDownPast(n) == n - 1

\* saturating_sub: what is left never falls below zero.
CountDown(n) == IF n > 0 THEN n - 1 ELSE 0

Tick ==
    /\ life' = [j \in Tokens |-> CountDown(life[j])]
    /\ mark' = [j \in Tokens |-> CountDown(mark[j])]
    /\ UNCHANGED <<claims, issued, memVer, req, history>>

Next ==
    \/ \E n \in Tokens : Login(n)
    \/ \E r \in Requests :
          \/ \E j \in issued : Refresh(r, j)
          \/ RemainingLife(r)
          \/ FindFresh(r)
          \/ FindReplay(r)
          \/ Consume(r)
          \/ \E n \in Tokens : Rotate(r, n)
          \/ \E j \in issued : Revoke(r, j)
          \/ BumpRead(r)
          \/ BumpWrite(r)
          \/ End(r)
    \/ Tick

Spec == Init /\ [][Next]_vars

-----------------------------------------------------------------------------
(***************************************************************************)
(* The mark of a consumed token outlives the token: although its lifetime  *)
(* is computed some commands before it is stored, there is no moment at    *)
(* which the token is still good and the mark already gone.                *)
(***************************************************************************)
MarkOutlivesToken ==
    \A j \in consumed : mark[j] >= life[j]

\* Sessions are named by issued tokens, and requests handle issued tokens.
Anchored ==
    /\ \A j \in issued : claims[j].sid \in issued
    /\ \A r \in Requests : req[r].pc # "idle" => req[r].tok \in issued

\* A request about to store a mark gives it at least the rest of the life.
TtlSuffices ==
    \A r \in Requests :
       req[r].pc \in {"get", "set"} => req[r].ttl >= life[req[r].tok]

(***************************************************************************)
(* Replay detection: a request that looks the mark up while the token is   *)
(* unexpired, after another request stored it, is caught.  So a token      *)
(* rotates twice only if the second GET comes before the first SET or      *)
(* after the token's expiry.                                               *)
(***************************************************************************)
LateReplayIsCaught ==
    [][\A r \in Requests :
          req[r].pc = "get" /\ req'[r].pc = "set" /\ life[req[r].tok] > 0
             => req[r].tok \notin consumed]_vars

(***************************************************************************)
(* A session that was revoked or found compromised has no valid token, not *)
(* even one that a rotation under way at the time issues later, unless two *)
(* bumps overlapped and one overwrote the other.                           *)
(***************************************************************************)
DeadSessionHasNoValidToken ==
    ~lostUpdate =>
       \A j \in issued : claims[j].sid \in dead => claims[j].ver # memVer

\* Why: versions only grow, and a token carries one that was current once.
DeadVersionsArePast ==
    ~lostUpdate =>
       \A j \in issued :
          /\ claims[j].ver <= memVer
          /\ claims[j].sid \in dead => claims[j].ver < memVer

=============================================================================
