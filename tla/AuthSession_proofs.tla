------------------------ MODULE AuthSession_proofs -------------------------
(***************************************************************************)
(* Proofs about AuthSession, for any number of requests and writers and    *)
(* any TTL, Timeout and MaxVer that satisfy TimesAssumption.               *)
(***************************************************************************)
EXTENDS AuthSession, TLAPS

\* A pending update writes the version it read plus one, so the bound MaxVer
\* on versions must be known to hold of what it read.
BumpFits == \A w \in Writers :
    wr[w].pc \in {"unlink", "link", "write"} => wr[w].ver < MaxVer

TypeInv == TypeOK /\ BumpFits

-----------------------------------------------------------------------------

LEMMA FirstTypes ==
    /\ FirstMem \in MemRow /\ FirstAcc \in AccRow
    /\ IdleReq \in ReqState /\ IdleWr \in WrState
    /\ NoEntry \in Entry
    /\ 0 \in Version
    /\ Timeout \in 0 .. Timeout /\ Timeout # 0
    /\ TTL \in 0 .. TTL
    /\ OlderThanBound \in 0 .. OlderThanBound
<1>1. 0 \in Version /\ Timeout \in 0 .. Timeout /\ TTL \in 0 .. TTL /\ Timeout # 0
  BY TimesAssumption DEF Version
<1>2. FirstMem \in MemRow /\ FirstAcc \in AccRow
  BY <1>1 DEF FirstMem, FirstAcc, MemRow, AccRow, Flag
<1>3. IdleReq \in ReqState /\ IdleWr \in WrState
  BY <1>1, <1>2, TimesAssumption
     DEF IdleReq, IdleWr, ReqState, WrState, Token, Change
<1>4. NoEntry \in Entry
  BY <1>2, TimesAssumption DEF NoEntry, Entry
<1>5. OlderThanBound \in 0 .. OlderThanBound
  BY TimesAssumption DEF OlderThanBound, Bound
<1> QED
  BY <1>1, <1>2, <1>3, <1>4, <1>5

LEMMA InitType == Init => TypeInv
BY FirstTypes DEF Init, TypeInv, TypeOK, BumpFits, IdleWr

\* Growing an age and counting down stay in range.
LEMMA GrowType == \A age \in 0 .. OlderThanBound : Grow(age) \in 0 .. OlderThanBound
BY TimesAssumption DEF Grow, OlderThanBound, Bound

LEMMA CountDownType ==
    ASSUME NEW limit \in Nat, NEW n \in 0 .. limit
    PROVE  CountDown(n) \in 0 .. limit
BY DEF CountDown

\* The steps of a request keep the types.
LEMMA RequestStepType ==
    ASSUME TypeInv, NEW r \in Requests, RequestStep(r)
    PROVE  TypeInv'
<1> USE DEF TypeInv, rows, At, Reject
<1>0. /\ req[r] \in ReqState /\ mem \in MemRow /\ acc \in AccRow
      /\ cache \in Entry /\ tokens \subseteq Token
      /\ req \in [Requests -> ReqState]
  BY DEF TypeOK
<1>a. ASSUME req' \in [Requests -> ReqState], tokens' \subseteq Token, cache' \in Entry,
             UNCHANGED <<rows, wr, revoked>>
      PROVE  TypeInv'
  BY <1>a DEF TypeOK, BumpFits
<1>1. CASE LoginReadAccount(r)
  <2>1. [IdleReq EXCEPT !.pc = "loginMem", !.acc = acc, !.left = Timeout] \in ReqState
    BY <1>0, FirstTypes DEF ReqState
  <2> QED
    BY <1>0, <1>1, <1>a, <2>1 DEF LoginReadAccount
<1>2. CASE LoginIssue(r)
  <2>1. [mem |-> mem.ver, acc |-> req[r].acc.ver] \in Token
    BY <1>0 DEF Token, MemRow, AccRow, ReqState
  <2> QED
    BY <1>0, <1>2, <1>a, <2>1, FirstTypes DEF LoginIssue
<1>3. ASSUME NEW t \in tokens, Present(r, t)
      PROVE  TypeInv'
  <2>1. [IdleReq EXCEPT !.pc = "fetch", !.tok = t, !.left = Timeout] \in ReqState
    BY <1>0, <1>3, FirstTypes DEF ReqState
  <2> QED
    BY <1>0, <1>3, <1>a, <2>1 DEF Present
<1>4. CASE FetchHit(r)
  <2>1. [req[r] EXCEPT !.pc = "check", !.mem = cache.mem, !.acc = cache.acc] \in ReqState
    BY <1>0 DEF ReqState, Entry
  <2> QED
    BY <1>0, <1>4, <1>a, <2>1 DEF FetchHit
<1>5. CASE FetchMiss(r)
  <2>1. [req[r] EXCEPT !.pc = "readMem"] \in ReqState
    BY <1>0 DEF ReqState
  <2> QED
    BY <1>0, <1>5, <1>a, <2>1 DEF FetchMiss
<1>6. CASE HydrateMembership(r)
  <2>1. [req[r] EXCEPT !.pc = "readAcc", !.mem = mem] \in ReqState
    BY <1>0 DEF ReqState
  <2> QED
    BY <1>0, <1>6, <1>a, <2>1 DEF HydrateMembership
<1>7. CASE HydrateAccount(r)
  <2>1. [req[r] EXCEPT !.pc = "fill", !.acc = acc] \in ReqState
    BY <1>0 DEF ReqState
  <2> QED
    BY <1>0, <1>7, <1>a, <2>1 DEF HydrateAccount
<1>8. CASE Fill(r)
  <2>1. [req[r] EXCEPT !.pc = "check"] \in ReqState
    BY <1>0 DEF ReqState
  <2>2. [left |-> TTL, mem |-> req[r].mem, acc |-> req[r].acc,
         tainted |-> req[r].tainted] \in Entry
    BY <1>0, FirstTypes DEF ReqState, Entry
  <2> QED
    BY <1>0, <1>8, <1>a, <2>1, <2>2 DEF Fill
<1>9. CASE Grant(r)
  <2>1. [req[r] EXCEPT !.pc = "granted"] \in ReqState
    BY <1>0 DEF ReqState
  <2> QED
    BY <1>0, <1>9, <1>a, <2>1 DEF Grant
<1>10. CASE End(r)
  BY <1>0, <1>10, <1>a, FirstTypes DEF End
<1>11. CASE FillUnacknowledged(r)
  <2>1. [left |-> TTL, mem |-> req[r].mem, acc |-> req[r].acc,
         tainted |-> req[r].tainted] \in Entry
    BY <1>0, FirstTypes DEF ReqState, Entry
  <2> QED
    BY <1>0, <1>11, <2>1 DEF FillUnacknowledged, TypeInv, TypeOK, BumpFits
<1> QED
  BY <1>1, <1>2, <1>3, <1>4, <1>5, <1>6, <1>7, <1>8, <1>9, <1>10, <1>11 DEF RequestStep

\* A membership write marks requests without changing anything else of them.
LEMMA MemWrittenType ==
    ASSUME TypeInv, NEW new \in MemRow, MemWritten(new)
    PROVE  /\ mem' \in MemRow
           /\ memAge' \in 0 .. OlderThanBound
           /\ req' \in [Requests -> ReqState]
<1>1. /\ memAge \in 0 .. OlderThanBound /\ req \in [Requests -> ReqState]
      /\ 0 \in 0 .. OlderThanBound
  BY TimesAssumption DEF TypeInv, TypeOK, OlderThanBound, Bound
<1>2. ASSUME NEW r \in Requests
      PROVE  [req[r] EXCEPT !.tainted = TRUE] \in ReqState
  BY <1>1 DEF ReqState
<1> QED
  BY <1>1, <1>2 DEF MemWritten

\* The steps of an administrative request keep the types.
LEMMA WriterStepType ==
    ASSUME TypeInv, NEW w \in Writers, WriterStep(w)
    PROVE  TypeInv'
<1> USE DEF TypeInv, rows, Doing, Begin
<1>0. /\ wr[w] \in WrState /\ mem \in MemRow /\ acc \in AccRow
      /\ cache \in Entry /\ revoked \subseteq Version
      /\ wr \in [Writers -> WrState] /\ req \in [Requests -> ReqState]
      /\ tokens \subseteq Token
      /\ memAge \in 0 .. OlderThanBound /\ accAge \in 0 .. OlderThanBound
      /\ 0 \in 0 .. OlderThanBound
      /\ \A x \in Writers : wr[x].pc \in {"unlink", "link", "write"} => wr[x].ver < MaxVer
      /\ mem.ver \in 0 .. MaxVer /\ acc.ver \in 0 .. MaxVer
  BY TimesAssumption DEF TypeOK, BumpFits, OlderThanBound, Bound, MemRow, AccRow, Version
<1>a. ASSUME NEW new \in WrState, wr' = [wr EXCEPT ![w] = new],
             new.pc \in {"unlink", "link", "write"} => new.ver < MaxVer,
             mem' \in MemRow, acc' \in AccRow, cache' \in Entry,
             req' \in [Requests -> ReqState], tokens' = tokens,
             memAge' \in 0 .. OlderThanBound, accAge' \in 0 .. OlderThanBound,
             revoked' \subseteq Version
      PROVE  TypeInv'
  BY <1>0, <1>a DEF TypeOK, BumpFits
<1>b. IdleWr \in WrState /\ IdleWr.pc = "idle"
  BY FirstTypes DEF IdleWr
<1>1. ASSUME NEW change \in Change, NEW relink \in BOOLEAN, NEW roles \in SUBSET Roles,
             UpdateDescribe(w, change, relink, roles)
      PROVE  TypeInv'
  <2> DEFINE new == [IdleWr EXCEPT !.pc = IF relink THEN "unlink" ELSE "write",
                                   !.ver = mem.ver, !.change = change,
                                   !.roles = roles]
  <2>1. [new EXCEPT !.left = Timeout] \in WrState
    BY <1>0, FirstTypes DEF WrState, Version
  <2>2. [new EXCEPT !.left = Timeout].ver = mem.ver
    BY DEF IdleWr
  <2>3. mem.ver < MaxVer /\ wr' = [wr EXCEPT ![w] = [new EXCEPT !.left = Timeout]]
        /\ UNCHANGED <<rows, cache, tokens, req, revoked>>
    BY <1>1 DEF UpdateDescribe
  <2> QED
    BY <1>0, <1>a, <2>1, <2>2, <2>3
<1>2. CASE UpdateUnlink(w)
  <2>1. [mem EXCEPT !.roles = {}] \in MemRow
    BY <1>0 DEF MemRow
  <2>2. MemWritten([mem EXCEPT !.roles = {}])
    BY <1>2 DEF UpdateUnlink
  <2> DEFINE new == [wr[w] EXCEPT !.pc = IF wr[w].roles = {} THEN "write" ELSE "link",
                                  !.touched = TRUE]
  <2>3. new \in WrState /\ new.ver = wr[w].ver
    BY <1>0 DEF WrState
  <2>4. wr[w].ver < MaxVer
    BY <1>0, <1>2 DEF UpdateUnlink
  <2>5. wr' = [wr EXCEPT ![w] = new] /\ UNCHANGED <<acc, accAge, cache, tokens, revoked>>
    BY <1>2 DEF UpdateUnlink
  <2> HIDE DEF new
  <2> QED
    BY <1>0, <1>a, <2>1, <2>2, <2>3, <2>4, <2>5, MemWrittenType
<1>3. CASE UpdateLink(w)
  <2>1. [mem EXCEPT !.roles = @ \cup wr[w].roles] \in MemRow
    BY <1>0 DEF MemRow, WrState
  <2>2. MemWritten([mem EXCEPT !.roles = @ \cup wr[w].roles])
    BY <1>3 DEF UpdateLink
  <2> DEFINE new == [wr[w] EXCEPT !.pc = "write"]
  <2>3. new \in WrState /\ new.ver = wr[w].ver
    BY <1>0 DEF WrState
  <2>4. wr[w].ver < MaxVer
    BY <1>0, <1>3 DEF UpdateLink
  <2>5. wr' = [wr EXCEPT ![w] = new] /\ UNCHANGED <<acc, accAge, cache, tokens, revoked>>
    BY <1>3 DEF UpdateLink
  <2> HIDE DEF new
  <2> QED
    BY <1>0, <1>a, <2>1, <2>2, <2>3, <2>4, <2>5, MemWrittenType
<1>4. CASE UpdateWrite(w)
  <2> DEFINE row == [mem EXCEPT !.ver = wr[w].ver + 1,
                                !.status = Apply(wr[w].change, @)]
  <2>1. wr[w].ver < MaxVer /\ wr[w].ver \in Version /\ wr[w].change \in Change
    BY <1>0, <1>4 DEF UpdateWrite, WrState
  <2>2. wr[w].ver + 1 \in Version /\ Apply(wr[w].change, mem.status) \in Flag
    BY <1>0, <2>1, TimesAssumption DEF Version, MemRow, Change, Apply
  <2>3. row \in MemRow
    BY <1>0, <2>2 DEF MemRow
  <2>4. MemWritten(row)
    BY <1>4 DEF UpdateWrite
  <2> DEFINE new == [wr[w] EXCEPT !.pc = "inval", !.touched = TRUE]
  <2>5. new \in WrState /\ new.pc = "inval"
    BY <1>0 DEF WrState
  <2>6. wr' = [wr EXCEPT ![w] = new] /\ UNCHANGED <<acc, accAge, cache, tokens, revoked>>
    BY <1>4 DEF UpdateWrite
  <2> HIDE DEF new, row
  <2> QED
    BY <1>0, <1>a, <2>3, <2>4, <2>5, <2>6, MemWrittenType
<1>5. CASE DeleteDescribe(w)
  <2>1. [[IdleWr EXCEPT !.pc = "delete", !.ver = mem.ver] EXCEPT !.left = Timeout] \in WrState
    BY <1>0, FirstTypes DEF WrState, Version
  <2>2. [[IdleWr EXCEPT !.pc = "delete", !.ver = mem.ver] EXCEPT !.left = Timeout].pc
          = "delete"
    BY DEF IdleWr
  <2> QED
    BY <1>0, <1>5, <1>a, <2>1, <2>2 DEF DeleteDescribe
<1>6. CASE DeleteMembership(w)
  <2>1. [mem EXCEPT !.live = FALSE, !.roles = {}] \in MemRow
    BY <1>0 DEF MemRow
  <2>2. MemWritten([mem EXCEPT !.live = FALSE, !.roles = {}])
    BY <1>6 DEF DeleteMembership
  <2> DEFINE new == [wr[w] EXCEPT !.pc = "inval", !.touched = TRUE]
  <2>3. new \in WrState /\ new.pc = "inval"
    BY <1>0 DEF WrState
  <2>4. wr' = [wr EXCEPT ![w] = new] /\ UNCHANGED <<acc, accAge, cache, tokens, revoked>>
    BY <1>6 DEF DeleteMembership
  <2> HIDE DEF new
  <2> QED
    BY <1>0, <1>a, <2>1, <2>2, <2>3, <2>4, MemWrittenType
<1>7. CASE Invalidate(w)
  <2>1. revoked' \subseteq Version
    BY <1>0, <1>7 DEF Invalidate, WrState
  <2> QED
    BY <1>0, <1>7, <1>a, <1>b, <2>1, FirstTypes DEF Invalidate
<1>8. ASSUME NEW change \in Change, AccountRead(w, change)
      PROVE  TypeInv'
  <2> DEFINE bumps == change # "keep" /\ change # acc.enabled
             ver == IF bumps THEN acc.ver + 1 ELSE acc.ver
             new == [IdleWr EXCEPT !.pc = "accWrite", !.change = change, !.ver = ver]
  <2>1. bumps => acc.ver < MaxVer
    BY <1>8 DEF AccountRead
  <2>2. ver \in Version
    BY <1>0, <2>1, TimesAssumption DEF Version
  <2>3. [new EXCEPT !.left = Timeout] \in WrState
    BY <2>2, FirstTypes DEF WrState
  <2>4. [new EXCEPT !.left = Timeout].pc = "accWrite"
    BY DEF IdleWr
  <2>5. wr' = [wr EXCEPT ![w] = [new EXCEPT !.left = Timeout]]
        /\ UNCHANGED <<rows, cache, tokens, req, revoked>>
    BY <1>8 DEF AccountRead
  <2> HIDE DEF new
  <2> QED
    BY <1>0, <1>a, <2>3, <2>4, <2>5
<1>9. CASE AccountWrite(w)
  <2>1. [acc EXCEPT !.ver = wr[w].ver, !.enabled = Apply(wr[w].change, @)] \in AccRow
    BY <1>0 DEF AccRow, WrState, Change, Apply
  <2>2. acc' \in AccRow /\ accAge' \in 0 .. OlderThanBound
    BY <1>0, <1>9, <2>1 DEF AccountWrite
  <2> QED
    BY <1>0, <1>9, <1>a, <1>b, <2>2 DEF AccountWrite
<1>10. CASE AccountDeleteRead(w)
  <2>1. [[IdleWr EXCEPT !.pc = "accDelete"] EXCEPT !.left = Timeout] \in WrState
    BY FirstTypes DEF WrState
  <2>2. [[IdleWr EXCEPT !.pc = "accDelete"] EXCEPT !.left = Timeout].pc = "accDelete"
    BY DEF IdleWr
  <2> QED
    BY <1>0, <1>10, <1>a, <2>1, <2>2 DEF AccountDeleteRead
<1>11. CASE AccountDelete(w)
  <2>1. [mem EXCEPT !.live = FALSE, !.roles = {}] \in MemRow
        /\ [acc EXCEPT !.live = FALSE] \in AccRow
    BY <1>0 DEF MemRow, AccRow
  <2>2. MemWritten([mem EXCEPT !.live = FALSE, !.roles = {}])
    BY <1>11 DEF AccountDelete
  <2>3. LeftBehind \in Entry
    BY <1>0 DEF Entry, LeftBehind
  <2> QED
    BY <1>0, <1>11, <1>a, <1>b, <2>1, <2>2, <2>3, MemWrittenType DEF AccountDelete
<1>12. CASE Abort(w)
  <2>1. LeftBehind \in Entry
    BY <1>0 DEF Entry, LeftBehind
  <2> QED
    BY <1>0, <1>12, <1>a, <1>b, <2>1 DEF Abort
<1>13. CASE ConfirmRead(w)
  <2> DEFINE new == [IdleWr EXCEPT !.pc = "accWrite", !.ver = acc.ver + 1]
  <2>1. acc.ver + 1 \in Version
    BY <1>0, <1>13, TimesAssumption DEF ConfirmRead, Version
  <2>2. [new EXCEPT !.left = Timeout] \in WrState
    BY <2>1, FirstTypes DEF WrState
  <2>3. [new EXCEPT !.left = Timeout].pc = "accWrite"
    BY DEF IdleWr
  <2>4. wr' = [wr EXCEPT ![w] = [new EXCEPT !.left = Timeout]]
        /\ UNCHANGED <<rows, cache, tokens, req, revoked>>
    BY <1>13 DEF ConfirmRead
  <2> HIDE DEF new
  <2> QED
    BY <1>0, <1>a, <2>2, <2>3, <2>4
<1> QED
  BY <1>1, <1>2, <1>3, <1>4, <1>5, <1>6, <1>7, <1>8, <1>9, <1>10, <1>11, <1>12, <1>13
     DEF WriterStep

LEMMA ProjectDeleteType ==
    ASSUME TypeInv, ProjectDelete
    PROVE  TypeInv'
<1>1. [mem EXCEPT !.live = FALSE, !.roles = {}] \in MemRow /\ LeftBehind \in Entry
  BY DEF TypeInv, TypeOK, MemRow, Entry, LeftBehind
<1>2. MemWritten([mem EXCEPT !.live = FALSE, !.roles = {}])
  BY DEF ProjectDelete
<1> QED
  BY <1>1, <1>2, MemWrittenType DEF ProjectDelete, TypeInv, TypeOK, BumpFits

LEMMA TickType ==
    ASSUME TypeInv, Tick
    PROVE  TypeInv'
<1>0. /\ wr \in [Writers -> WrState] /\ req \in [Requests -> ReqState]
      /\ cache \in Entry
  BY DEF TypeInv, TypeOK
<1>1. ASSUME NEW r \in Requests
      PROVE  [req[r] EXCEPT !.left = CountDown(@)] \in ReqState
  BY <1>0, CountDownType, TimesAssumption DEF ReqState
<1>2. ASSUME NEW w \in Writers
      PROVE  /\ [wr[w] EXCEPT !.left = CountDown(@)] \in WrState
             /\ [wr[w] EXCEPT !.left = CountDown(@)].pc = wr[w].pc
             /\ [wr[w] EXCEPT !.left = CountDown(@)].ver = wr[w].ver
  BY <1>0, CountDownType, TimesAssumption DEF WrState
<1>3. cache' \in Entry
  <2>1. cache.left > 1 => [cache EXCEPT !.left = @ - 1] \in Entry
    BY <1>0, TimesAssumption DEF Entry
  <2> QED
    BY <2>1, FirstTypes DEF Tick
<1> QED
  BY <1>0, <1>1, <1>2, <1>3, GrowType DEF Tick, TypeInv, TypeOK, BumpFits

LEMMA NextType == TypeInv /\ [Next]_vars => TypeInv'
<1> SUFFICES ASSUME TypeInv, [Next]_vars
             PROVE  TypeInv'
  OBVIOUS
<1>1. CASE UNCHANGED vars
  BY <1>1 DEF vars, TypeInv, TypeOK, BumpFits
<1> QED
  BY <1>1, RequestStepType, WriterStepType, ProjectDeleteType, TickType DEF Next

\* Every reachable state has the types TypeOK gives: versions stay within
\* MaxVer although updates write back versions read earlier (BumpFits).
THEOREM TypeCorrect == Spec => []TypeOK
<1>1. Spec => []TypeInv
  BY InitType, NextType, PTL DEF Spec
<1> QED
  BY <1>1, PTL DEF TypeInv

-----------------------------------------------------------------------------
(* Bounded staleness.                                                      *)

LEMMA InitStaleness == Init => StalenessBounded
BY DEF Init, StalenessBounded, EntryRecent, RequestRecent, Cached, NoEntry, IdleReq

\* Changing rows disturbs nothing as long as every change restarts the age:
\* a copy that has just become outdated has its whole bound before it.
LEMMA RowsChange ==
    ASSUME TypeInv, StalenessBounded,
           UNCHANGED <<mem, memAge>> \/ memAge' = 0,
           UNCHANGED <<acc, accAge>> \/ accAge' = 0,
           cache'.left = 0
             \/ /\ cache'.left = cache.left
                /\ cache'.mem = cache.mem
                /\ cache'.acc = cache.acc,
           \A r \in Requests : /\ req'[r].pc = req[r].pc
                               /\ req'[r].mem = req[r].mem
                               /\ req'[r].acc = req[r].acc
                               /\ req'[r].left = req[r].left
    PROVE  StalenessBounded'
<1>1. /\ TTL \in Nat /\ Timeout \in Nat /\ TTL >= 1 /\ Timeout >= 1
      /\ Bound + 1 = TTL + 2 * Timeout - 2
  BY TimesAssumption DEF Bound
<1>2. EntryRecent'
  <2>1. cache.left \in 0 .. TTL
    BY DEF TypeInv, TypeOK, Entry
  <2> QED
    BY <1>1, <2>1 DEF StalenessBounded, EntryRecent, Recent, Cached
<1>3. ASSUME NEW r \in Requests
      PROVE  RequestRecent(r)'
  <2>1. req[r].left \in 0 .. Timeout
    BY DEF TypeInv, TypeOK, ReqState
  <2>2. RequestRecent(r)
    BY DEF StalenessBounded
  <2> QED
    BY <1>1, <2>1, <2>2 DEF RequestRecent, Recent
<1> QED
  BY <1>2, <1>3 DEF StalenessBounded

\* What MemWritten guarantees to RowsChange.
LEMMA MemWrittenKeeps ==
    ASSUME TypeInv, NEW new, MemWritten(new)
    PROVE  /\ UNCHANGED <<mem, memAge>> \/ memAge' = 0
           /\ \A r \in Requests : /\ req'[r].pc = req[r].pc
                                  /\ req'[r].mem = req[r].mem
                                  /\ req'[r].acc = req[r].acc
                                  /\ req'[r].left = req[r].left
<1>1. \A r \in Requests : req[r] \in ReqState
  BY DEF TypeInv, TypeOK
<1>2. ASSUME NEW r \in Requests
      PROVE  /\ req'[r].pc = req[r].pc
             /\ req'[r].mem = req[r].mem
             /\ req'[r].acc = req[r].acc
             /\ req'[r].left = req[r].left
  <2>1. req'[r] = req[r] \/ req'[r] = [req[r] EXCEPT !.tainted = TRUE]
    BY DEF MemWritten
  <2> QED
    BY <1>1, <2>1 DEF ReqState
<1> QED
  BY <1>2 DEF MemWritten

LEMMA WriterStepStaleness ==
    ASSUME TypeInv, StalenessBounded, NEW w \in Writers, WriterStep(w)
    PROVE  StalenessBounded'
<1> USE DEF rows
<1>1. \/ cache' = cache
      \/ cache' = LeftBehind
      \/ cache' = NoEntry
  BY DEF WriterStep, UpdateDescribe, UpdateUnlink, UpdateLink, UpdateWrite,
         DeleteDescribe, DeleteMembership, Invalidate, AccountRead, ConfirmRead, AccountWrite,
         AccountDeleteRead, AccountDelete, Abort
<1>2. \/ cache'.left = 0
      \/ /\ cache'.left = cache.left
         /\ cache'.mem = cache.mem
         /\ cache'.acc = cache.acc
  <2>1. cache \in Entry
    BY DEF TypeInv, TypeOK
  <2> QED
    BY <1>1, <2>1 DEF LeftBehind, NoEntry, Entry
<1>3. UNCHANGED <<mem, memAge, req>> \/ \E new : MemWritten(new)
  BY DEF WriterStep, UpdateDescribe, UpdateUnlink, UpdateLink, UpdateWrite,
         DeleteDescribe, DeleteMembership, Invalidate, AccountRead, ConfirmRead, AccountWrite,
         AccountDeleteRead, AccountDelete, Abort
<1>4. UNCHANGED <<acc, accAge>> \/ accAge' = 0
  BY DEF WriterStep, UpdateDescribe, UpdateUnlink, UpdateLink, UpdateWrite,
         DeleteDescribe, DeleteMembership, Invalidate, AccountRead, ConfirmRead, AccountWrite,
         AccountDeleteRead, AccountDelete, Abort
<1> QED
  BY <1>2, <1>3, <1>4, RowsChange, MemWrittenKeeps

LEMMA ProjectDeleteStaleness ==
    ASSUME TypeInv, StalenessBounded, ProjectDelete
    PROVE  StalenessBounded'
<1>1. cache \in Entry
  BY DEF TypeInv, TypeOK
<1>2. cache'.left = cache.left /\ cache'.mem = cache.mem /\ cache'.acc = cache.acc
  BY <1>1 DEF ProjectDelete, LeftBehind, Entry
<1>3. (\E new : MemWritten(new)) /\ UNCHANGED <<acc, accAge>>
  BY DEF ProjectDelete
<1> QED
  BY <1>2, <1>3, RowsChange, MemWrittenKeeps

\* A request only ever copies what the rows or the entry hold, and a copy of
\* the entry starts with what the entry had left plus a fresh timeout.
LEMMA RequestStepStaleness ==
    ASSUME TypeInv, StalenessBounded, NEW r \in Requests, RequestStep(r)
    PROVE  StalenessBounded'
<1> USE DEF At, Reject, rows
<1>1. /\ TTL \in Nat /\ Timeout \in Nat /\ TTL >= 1 /\ Timeout >= 1
      /\ Bound + 1 = TTL + 2 * Timeout - 2
      /\ req \in [Requests -> ReqState] /\ cache \in Entry
      /\ req[r].left \in 0 .. Timeout /\ cache.left \in 0 .. TTL
      /\ memAge \in Nat /\ accAge \in Nat
  BY TimesAssumption
     DEF Bound, TypeInv, TypeOK, ReqState, Entry, OlderThanBound
<1>2. UNCHANGED <<mem, acc, memAge, accAge>>
  BY DEF RequestStep, LoginReadAccount, LoginIssue, Present, FetchHit, FetchMiss,
         HydrateMembership, HydrateAccount, Fill, FillUnacknowledged,
         Grant, End
<1>3. ASSUME NEW x \in Requests, x # r
      PROVE  RequestRecent(x)'
  <2>1. req'[x] = req[x]
    BY <1>1, <1>3
       DEF RequestStep, LoginReadAccount, LoginIssue, Present, FetchHit, FetchMiss,
           HydrateMembership, HydrateAccount, Fill, FillUnacknowledged,
         Grant, End
  <2> QED
    BY <1>2, <2>1 DEF StalenessBounded, RequestRecent, Recent
<1>4. RequestRecent(r)
  BY DEF StalenessBounded
<1>5. EntryRecent
  BY DEF StalenessBounded
<1>6. CASE Fill(r)
  <2>1. /\ req'[r].pc = "check" /\ req'[r].mem = req[r].mem
        /\ req'[r].acc = req[r].acc /\ req'[r].left = req[r].left
    BY <1>1, <1>6 DEF Fill, ReqState
  <2>2. /\ Recent(req[r].mem, mem, memAge, req[r].left, Timeout)
        /\ Recent(req[r].acc, acc, accAge, req[r].left, Timeout)
        /\ req[r].left > 0
    BY <1>4, <1>6 DEF Fill, RequestRecent
  <2>3. RequestRecent(r)'
    BY <1>1, <1>2, <2>1, <2>2 DEF RequestRecent, Recent
  <2>4. cache'.left = TTL /\ cache'.mem = req[r].mem /\ cache'.acc = req[r].acc
    BY <1>6 DEF Fill
  <2>5. EntryRecent'
    BY <1>1, <1>2, <2>2, <2>4 DEF EntryRecent, Recent, Cached
  <2> QED
    BY <1>3, <2>3, <2>5 DEF StalenessBounded
<1>6a. CASE FillUnacknowledged(r)
  <2>1. /\ Recent(req[r].mem, mem, memAge, req[r].left, Timeout)
        /\ Recent(req[r].acc, acc, accAge, req[r].left, Timeout)
        /\ req[r].left > 0 /\ req' = req
    BY <1>4, <1>6a DEF FillUnacknowledged, RequestRecent
  <2>2. RequestRecent(r)'
    BY <1>2, <1>4, <2>1 DEF RequestRecent, Recent
  <2>3. cache'.left = TTL /\ cache'.mem = req[r].mem /\ cache'.acc = req[r].acc
    BY <1>6a DEF FillUnacknowledged
  <2>4. EntryRecent'
    BY <1>1, <1>2, <2>1, <2>3 DEF EntryRecent, Recent, Cached
  <2> QED
    BY <1>3, <2>2, <2>4 DEF StalenessBounded
<1>7. CASE FetchHit(r)
  <2>1. /\ req'[r].pc = "check" /\ req'[r].mem = cache.mem
        /\ req'[r].acc = cache.acc /\ req'[r].left = req[r].left
    BY <1>1, <1>7 DEF FetchHit, ReqState
  <2>2. RequestRecent(r)'
    BY <1>1, <1>2, <1>5, <1>7, <2>1
       DEF FetchHit, EntryRecent, RequestRecent, Recent, Cached
  <2>3. EntryRecent'
    BY <1>2, <1>5, <1>7 DEF FetchHit, EntryRecent, Recent, Cached
  <2> QED
    BY <1>3, <2>2, <2>3 DEF StalenessBounded
<1>8. CASE HydrateMembership(r)
  <2>1. req'[r].pc = "readAcc" /\ req'[r].mem = mem
    BY <1>1, <1>8 DEF HydrateMembership, ReqState
  <2>2. RequestRecent(r)'
    BY <1>2, <2>1 DEF RequestRecent, Recent
  <2>3. EntryRecent'
    BY <1>2, <1>5, <1>8 DEF HydrateMembership, EntryRecent, Recent, Cached
  <2> QED
    BY <1>3, <2>2, <2>3 DEF StalenessBounded
<1>9. CASE HydrateAccount(r)
  <2>1. /\ req'[r].pc = "fill" /\ req'[r].mem = req[r].mem
        /\ req'[r].acc = acc /\ req'[r].left = req[r].left
    BY <1>1, <1>9 DEF HydrateAccount, ReqState
  <2>2. RequestRecent(r)'
    BY <1>2, <1>4, <1>9, <2>1 DEF HydrateAccount, RequestRecent, Recent
  <2>3. EntryRecent'
    BY <1>2, <1>5, <1>9 DEF HydrateAccount, EntryRecent, Recent, Cached
  <2> QED
    BY <1>3, <2>2, <2>3 DEF StalenessBounded
<1>10. CASE LoginReadAccount(r) \/ LoginIssue(r) \/ (\E t \in tokens : Present(r, t))
            \/ FetchMiss(r) \/ Grant(r) \/ End(r)
  <2>1. req'[r].pc \in {"idle", "loginMem", "fetch", "readMem", "granted"}
    <3>1. CASE LoginReadAccount(r) \/ \E t \in tokens : Present(r, t)
      BY <1>1, <3>1 DEF LoginReadAccount, Present, IdleReq
    <3>2. CASE LoginIssue(r) \/ End(r)
      BY <1>1, <3>2 DEF LoginIssue, End, IdleReq
    <3>3. CASE FetchMiss(r) \/ Grant(r)
      BY <1>1, <3>3 DEF FetchMiss, Grant, ReqState
    <3> QED
      BY <1>10, <3>1, <3>2, <3>3
  <2>2. RequestRecent(r)'
    BY <2>1 DEF RequestRecent
  <2>3. cache' = cache
    BY <1>10 DEF LoginReadAccount, LoginIssue, Present, FetchMiss, Grant, End
  <2>4. EntryRecent'
    BY <1>2, <1>5, <2>3 DEF EntryRecent, Recent, Cached
  <2> QED
    BY <1>3, <2>2, <2>4 DEF StalenessBounded
<1> QED
  BY <1>6, <1>6a, <1>7, <1>8, <1>9, <1>10 DEF RequestStep

\* A tick ages the rows by one and takes one from what every copy has left.
LEMMA TickStaleness ==
    ASSUME TypeInv, StalenessBounded, Tick
    PROVE  StalenessBounded'
<1>1. /\ TTL \in Nat /\ Timeout \in Nat /\ Bound + 1 \in Nat
      /\ memAge \in Nat /\ accAge \in Nat
      /\ memAge' \in Nat /\ memAge' <= memAge + 1
      /\ accAge' \in Nat /\ accAge' <= accAge + 1
      /\ mem' = mem /\ acc' = acc
  BY TimesAssumption DEF TypeInv, TypeOK, OlderThanBound, Bound, Tick, Grow
<1>2. EntryRecent'
  <2>1. cache \in Entry /\ cache.left \in 0 .. TTL
    BY DEF TypeInv, TypeOK, Entry
  <2>2. CASE cache.left > 1
    <3>1. cache'.left = cache.left - 1 /\ cache'.mem = cache.mem /\ cache'.acc = cache.acc
      BY <2>1, <2>2 DEF Tick, Entry
    <3> QED
      BY <1>1, <2>1, <2>2, <3>1 DEF StalenessBounded, EntryRecent, Recent, Cached
  <2>3. CASE ~(cache.left > 1)
    BY <2>3 DEF Tick, NoEntry, EntryRecent, Cached
  <2> QED
    BY <2>2, <2>3
<1>3. ASSUME NEW r \in Requests
      PROVE  RequestRecent(r)'
  <2>1. req[r] \in ReqState /\ req[r].left \in 0 .. Timeout
    BY DEF TypeInv, TypeOK, ReqState
  <2>2. /\ req'[r].pc = req[r].pc /\ req'[r].mem = req[r].mem
        /\ req'[r].acc = req[r].acc
        /\ req'[r].left = CountDown(req[r].left)
    BY <2>1 DEF Tick, ReqState
  <2>3. RequestRecent(r)
    BY DEF StalenessBounded
  <2>4. req'[r].left > 0 => req[r].left > 0 /\ req'[r].left = req[r].left - 1
    BY <2>1, <2>2 DEF CountDown
  <2> QED
    BY <1>1, <2>1, <2>2, <2>3, <2>4 DEF RequestRecent, Recent
<1> QED
  BY <1>2, <1>3 DEF StalenessBounded

\* Every copy of a row that is still held is current or recent enough.
THEOREM StalenessIsBounded == Spec => []StalenessBounded
<1>1. ASSUME TypeInv, StalenessBounded, [Next]_vars
      PROVE  StalenessBounded'
  <2>1. CASE UNCHANGED vars
    BY <1>1, <2>1 DEF vars, StalenessBounded, EntryRecent, RequestRecent, Recent, Cached
  <2> QED
    BY <1>1, <2>1, WriterStepStaleness, RequestStepStaleness, ProjectDeleteStaleness,
       TickStaleness DEF Next
<1>2. Spec => [](TypeInv /\ StalenessBounded)
  BY <1>1, InitType, InitStaleness, NextType, PTL DEF Spec
<1> QED
  BY <1>2, PTL

\* No token is accepted on a row that was replaced more than Bound ticks ago.
THEOREM NoGrantIsStale == Spec => NoStaleGrant
<1> DEFINE Fine == \A r \in Requests :
             req[r].pc = "check" /\ req'[r].pc = "granted" =>
                /\ req[r].mem = mem \/ memAge <= Bound
                /\ req[r].acc = acc \/ accAge <= Bound
<1>1. ASSUME TypeInv, StalenessBounded, [Next]_vars
      PROVE  [Fine]_vars
  <2> SUFFICES ASSUME NEW r \in Requests, req[r].pc = "check", req'[r].pc = "granted"
               PROVE  /\ req[r].mem = mem \/ memAge <= Bound
                      /\ req[r].acc = acc \/ accAge <= Bound
    OBVIOUS
  <2>1. req[r].left > 0
    <3>0. req \in [Requests -> ReqState] /\ req[r] \in ReqState
      BY <1>1 DEF TypeInv, TypeOK
    <3>1. ASSUME NEW x \in Requests, RequestStep(x)
          PROVE  req[r].left > 0
      <4>1. CASE Grant(x)
        BY <3>0, <4>1 DEF Grant, At, ReqState
      <4>2. CASE LoginIssue(x) \/ End(x)
        BY <3>0, <4>2 DEF LoginIssue, End, Reject, IdleReq
      <4>3. CASE LoginReadAccount(x) \/ \E t \in tokens : Present(x, t)
        BY <3>0, <4>3 DEF LoginReadAccount, Present, IdleReq
      <4>4. CASE FetchHit(x) \/ FetchMiss(x) \/ HydrateMembership(x)
                   \/ HydrateAccount(x) \/ Fill(x) \/ FillUnacknowledged(x)
        BY <3>0, <4>4
           DEF FetchHit, FetchMiss, HydrateMembership, HydrateAccount, Fill,
               FillUnacknowledged, ReqState
      <4> QED
        BY <3>1, <4>1, <4>2, <4>3, <4>4 DEF RequestStep
    <3>2. ASSUME NEW w \in Writers, WriterStep(w)
          PROVE  req'[r].pc = req[r].pc
      <4>1. UNCHANGED <<mem, memAge, req>> \/ \E new : MemWritten(new)
        BY <3>2 DEF WriterStep, UpdateDescribe, UpdateUnlink, UpdateLink, UpdateWrite,
               DeleteDescribe, DeleteMembership, Invalidate, AccountRead, ConfirmRead, AccountWrite,
               AccountDeleteRead, AccountDelete, Abort, rows
      <4> QED
        BY <1>1, <4>1, MemWrittenKeeps
    <3>3. Tick => req'[r].pc = req[r].pc
      BY <3>0 DEF Tick, ReqState
    <3>4. UNCHANGED vars => req'[r].pc = req[r].pc
      BY DEF vars
    <3>5. ProjectDelete => req'[r].pc = req[r].pc
      BY <1>1, MemWrittenKeeps DEF ProjectDelete
    <3> QED
      BY <1>1, <3>1, <3>2, <3>3, <3>4, <3>5 DEF Next
  <2>2. /\ Recent(req[r].mem, mem, memAge, req[r].left, Bound + 1)
        /\ Recent(req[r].acc, acc, accAge, req[r].left, Bound + 1)
    BY <1>1, <2>1 DEF StalenessBounded, RequestRecent
  <2>3. /\ Bound \in Nat /\ memAge \in Nat /\ accAge \in Nat /\ req[r].left \in Nat
    BY <1>1, TimesAssumption DEF Bound, TypeInv, TypeOK, ReqState, OlderThanBound
  <2> QED
    BY <2>1, <2>2, <2>3 DEF Recent
<1>2. Spec => []TypeInv
  BY InitType, NextType, PTL DEF Spec
<1>3. Spec => [][Fine]_vars
  BY <1>1, <1>2, StalenessIsBounded, PTL DEF Spec
<1> QED
  BY <1>3 DEF NoStaleGrant

-----------------------------------------------------------------------------
(* Coherence with the membership row.                                      *)

LEMMA InitAccounted == Init => DisagreementAccountedFor
BY DEF Init, DisagreementAccountedFor, Cached, NoEntry, IdleReq, IdleWr

\* A hydration carries its taint into the entry it stores.
LEMMA RequestStepAccounted ==
    ASSUME TypeInv, DisagreementAccountedFor, NEW r \in Requests, RequestStep(r)
    PROVE  DisagreementAccountedFor'
<1> USE DEF At, Reject, rows
<1>1. req \in [Requests -> ReqState]
  BY DEF TypeInv, TypeOK
<1>2. UNCHANGED <<mem, wr>>
  BY DEF RequestStep, LoginReadAccount, LoginIssue, Present, FetchHit, FetchMiss,
         HydrateMembership, HydrateAccount, Fill, FillUnacknowledged,
         Grant, End
<1>3. cache' # cache => Fill(r) \/ FillUnacknowledged(r)
  BY DEF RequestStep, LoginReadAccount, LoginIssue, Present, FetchHit, FetchMiss,
         HydrateMembership, HydrateAccount, Fill, FillUnacknowledged,
         Grant, End
<1>4. Cached' /\ ~cache'.tainted /\ cache'.mem # mem => \E w \in Writers : wr[w].touched
  <2>1. CASE cache' = cache
    BY <2>1 DEF DisagreementAccountedFor, Cached
  <2>2. CASE Fill(r) \/ FillUnacknowledged(r)
    <3>1. cache'.mem = req[r].mem /\ cache'.tainted = req[r].tainted /\ req[r].pc = "fill"
      BY <2>2 DEF Fill, FillUnacknowledged
    <3> QED
      BY <3>1 DEF DisagreementAccountedFor
  <2> QED
    BY <1>3, <2>1, <2>2
<1>5. ASSUME NEW x \in Requests, req'[x].pc \in {"readAcc", "fill"}, ~req'[x].tainted
      PROVE  req'[x].mem = mem
  <2>1. CASE x # r
    <3>1. req'[x] = req[x]
      BY <1>1, <2>1
         DEF RequestStep, LoginReadAccount, LoginIssue, Present, FetchHit, FetchMiss,
             HydrateMembership, HydrateAccount, Fill, FillUnacknowledged,
         Grant, End
    <3> QED
      BY <1>5, <3>1 DEF DisagreementAccountedFor
  <2>2. CASE x = r
    <3>1. CASE HydrateMembership(r)
      BY <1>1, <2>2, <3>1 DEF HydrateMembership, ReqState
    <3>2. CASE HydrateAccount(r)
      <4>1. /\ req[r].pc = "readAcc" /\ req'[r].mem = req[r].mem
            /\ req'[r].tainted = req[r].tainted
        BY <1>1, <3>2 DEF HydrateAccount, ReqState
      <4> QED
        BY <1>5, <2>2, <4>1 DEF DisagreementAccountedFor
    <3>3. CASE LoginReadAccount(r) \/ \E t \in tokens : Present(r, t)
      BY <1>1, <1>5, <2>2, <3>3 DEF LoginReadAccount, Present, IdleReq
    <3>4. CASE LoginIssue(r) \/ End(r)
      BY <1>1, <1>5, <2>2, <3>4 DEF LoginIssue, End, IdleReq
    <3>5. CASE FetchHit(r) \/ FetchMiss(r) \/ Fill(r) \/ Grant(r)
      BY <1>1, <1>5, <2>2, <3>5 DEF FetchHit, FetchMiss, Fill, Grant, ReqState
    <3>6. CASE FillUnacknowledged(r)
      BY <1>5, <2>2, <3>6 DEF FillUnacknowledged, DisagreementAccountedFor
    <3> QED
      BY <3>1, <3>2, <3>3, <3>4, <3>5, <3>6 DEF RequestStep
  <2> QED
    BY <2>1, <2>2
<1> QED
  BY <1>2, <1>4, <1>5 DEF DisagreementAccountedFor

\* A membership write marks every hydration under way.
LEMMA MemWrittenTaints ==
    ASSUME TypeInv, DisagreementAccountedFor, NEW new, MemWritten(new)
    PROVE  \A r \in Requests : req'[r].pc \in {"readAcc", "fill"} /\ ~req'[r].tainted
             => req'[r].mem = mem'
<1>1. \A r \in Requests : req[r] \in ReqState
  BY DEF TypeInv, TypeOK
<1>2. ASSUME NEW r \in Requests, req'[r].pc \in {"readAcc", "fill"}
      PROVE  req'[r].tainted
  <2>1. CASE req[r].pc \in {"readAcc", "fill"}
    BY <1>1, <2>1 DEF MemWritten, ReqState
  <2>2. CASE req[r].pc \notin {"readAcc", "fill"}
    <3>1. req'[r] = req[r]
      BY <2>2 DEF MemWritten
    <3> QED
      BY <1>2, <2>2, <3>1
  <2> QED
    BY <2>1, <2>2
<1> QED
  BY <1>2

\* A writer that owes an invalidation keeps owing it until it is done or, if
\* it ends before, leaves a tainted entry behind.
LEMMA WriterStepAccounted ==
    ASSUME TypeInv, DisagreementAccountedFor, NEW w \in Writers, WriterStep(w)
    PROVE  DisagreementAccountedFor'
<1> USE DEF rows, Doing, Begin
<1>1. /\ wr \in [Writers -> WrState] /\ wr[w] \in WrState /\ cache \in Entry
      /\ ~IdleWr.touched
  BY FirstTypes DEF TypeInv, TypeOK, IdleWr
<1>2. /\ \A x \in Writers :
           /\ wr[x].touched => wr[x].pc \in {"link", "write", "inval"}
           /\ wr[x].pc \in {"link", "inval"} => wr[x].touched
      /\ \A r \in Requests : req[r].pc \in {"readAcc", "fill"} /\ ~req[r].tainted
           => req[r].mem = mem
      /\ Cached /\ ~cache.tainted /\ cache.mem # mem => \E x \in Writers : wr[x].touched
  BY DEF DisagreementAccountedFor
<1>3. UNCHANGED <<mem, req>> \/ \E new : MemWritten(new)
  BY DEF WriterStep, UpdateDescribe, UpdateUnlink, UpdateLink, UpdateWrite,
         DeleteDescribe, DeleteMembership, Invalidate, AccountRead, ConfirmRead, AccountWrite,
         AccountDeleteRead, AccountDelete, Abort
<1>4. \A r \in Requests : req'[r].pc \in {"readAcc", "fill"} /\ ~req'[r].tainted
        => req'[r].mem = mem'
  BY <1>2, <1>3, MemWrittenTaints
<1>a. ASSUME NEW state, wr' = [wr EXCEPT ![w] = state],
             state.touched => state.pc \in {"link", "write", "inval"},
             state.pc \in {"link", "inval"} => state.touched,
             Cached' /\ ~cache'.tainted /\ cache'.mem # mem'
                => \E x \in Writers : wr'[x].touched
      PROVE  DisagreementAccountedFor'
  BY <1>1, <1>2, <1>4, <1>a DEF DisagreementAccountedFor
\* A step that makes or keeps the writer owe an invalidation.
<1>b. ASSUME NEW state, wr' = [wr EXCEPT ![w] = state],
             state.touched, state.pc \in {"link", "write", "inval"}
      PROVE  DisagreementAccountedFor'
  <2>1. wr'[w].touched
    BY <1>1, <1>b
  <2> QED
    BY <1>a, <1>b, <2>1
\* A step of a writer that owes nothing before or after.
<1>c. ASSUME NEW state, wr' = [wr EXCEPT ![w] = state],
             ~wr[w].touched, ~state.touched, state.pc \notin {"link", "inval"},
             UNCHANGED <<mem, cache>>
      PROVE  DisagreementAccountedFor'
  <2>1. Cached /\ ~cache.tainted /\ cache.mem # mem
           => \E x \in Writers : x # w /\ wr[x].touched
    BY <1>2, <1>c
  <2>2. \A x \in Writers : x # w => wr'[x] = wr[x]
    BY <1>1, <1>c
  <2>3. Cached' /\ ~cache'.tainted /\ cache'.mem # mem' => \E x \in Writers : wr'[x].touched
    BY <1>c, <2>1, <2>2 DEF Cached
  <2> QED
    BY <1>a, <1>c, <2>3
\* A step that leaves no untainted entry.
<1>d. ASSUME wr' = [wr EXCEPT ![w] = IdleWr], cache' = NoEntry \/ cache' = LeftBehind
      PROVE  DisagreementAccountedFor'
  <2>1. ~(Cached' /\ ~cache'.tainted)
    BY <1>1, <1>d DEF Cached, NoEntry, LeftBehind, Entry
  <2> QED
    BY <1>1, <1>a, <1>d, <2>1 DEF IdleWr
<1>5. CASE UpdateUnlink(w)
  <2> DEFINE state == [wr[w] EXCEPT !.pc = IF wr[w].roles = {} THEN "write" ELSE "link",
                                    !.touched = TRUE]
  <2>1. state.touched /\ state.pc \in {"link", "write", "inval"}
    BY <1>1 DEF WrState
  <2>2. wr' = [wr EXCEPT ![w] = state]
    BY <1>5 DEF UpdateUnlink
  <2> HIDE DEF state
  <2> QED
    BY <1>b, <2>1, <2>2
<1>6. CASE UpdateLink(w)
  <2>1. [wr[w] EXCEPT !.pc = "write"].touched /\ [wr[w] EXCEPT !.pc = "write"].pc = "write"
    BY <1>1, <1>2, <1>6 DEF UpdateLink, WrState
  <2> QED
    BY <1>b, <1>6, <2>1 DEF UpdateLink
<1>7. CASE UpdateWrite(w) \/ DeleteMembership(w)
  <2> DEFINE state == [wr[w] EXCEPT !.pc = "inval", !.touched = TRUE]
  <2>1. state.touched /\ state.pc = "inval"
    BY <1>1 DEF WrState
  <2>2. wr' = [wr EXCEPT ![w] = state]
    BY <1>7 DEF UpdateWrite, DeleteMembership
  <2> HIDE DEF state
  <2> QED
    BY <1>b, <2>1, <2>2
<1>8. ASSUME NEW change \in Change, NEW relink \in BOOLEAN, NEW roles \in SUBSET Roles,
             UpdateDescribe(w, change, relink, roles)
      PROVE  DisagreementAccountedFor'
  <2> DEFINE new == [IdleWr EXCEPT !.pc = IF relink THEN "unlink" ELSE "write",
                                   !.ver = mem.ver, !.change = change, !.roles = roles]
             state == [new EXCEPT !.left = Timeout]
  <2>1. ~state.touched /\ state.pc \notin {"link", "inval"}
    BY DEF IdleWr
  <2>2. wr' = [wr EXCEPT ![w] = state] /\ wr[w].pc = "idle" /\ UNCHANGED <<mem, cache>>
    BY <1>8 DEF UpdateDescribe
  <2> HIDE DEF state
  <2> QED
    BY <1>2, <1>c, <2>1, <2>2
<1>9. CASE DeleteDescribe(w)
  <2> DEFINE state == [[IdleWr EXCEPT !.pc = "delete", !.ver = mem.ver]
                         EXCEPT !.left = Timeout]
  <2>1. ~state.touched /\ state.pc \notin {"link", "inval"}
    BY DEF IdleWr
  <2>2. wr' = [wr EXCEPT ![w] = state] /\ wr[w].pc = "idle" /\ UNCHANGED <<mem, cache>>
    BY <1>9 DEF DeleteDescribe
  <2> HIDE DEF state
  <2> QED
    BY <1>2, <1>c, <2>1, <2>2
<1>10. ASSUME NEW change \in Change, AccountRead(w, change)
       PROVE  DisagreementAccountedFor'
  <2> DEFINE ver == IF change # "keep" /\ change # acc.enabled THEN acc.ver + 1 ELSE acc.ver
             new == [IdleWr EXCEPT !.pc = "accWrite", !.change = change, !.ver = ver]
             state == [new EXCEPT !.left = Timeout]
  <2>1. ~state.touched /\ state.pc \notin {"link", "inval"}
    BY DEF IdleWr
  <2>2. wr' = [wr EXCEPT ![w] = state] /\ wr[w].pc = "idle" /\ UNCHANGED <<mem, cache>>
    BY <1>10 DEF AccountRead
  <2> HIDE DEF state
  <2> QED
    BY <1>2, <1>c, <2>1, <2>2
<1>11. CASE AccountDeleteRead(w)
  <2> DEFINE state == [[IdleWr EXCEPT !.pc = "accDelete"] EXCEPT !.left = Timeout]
  <2>1. ~state.touched /\ state.pc \notin {"link", "inval"}
    BY DEF IdleWr
  <2>2. wr' = [wr EXCEPT ![w] = state] /\ wr[w].pc = "idle" /\ UNCHANGED <<mem, cache>>
    BY <1>11 DEF AccountDeleteRead
  <2> HIDE DEF state
  <2> QED
    BY <1>2, <1>c, <2>1, <2>2
<1>12. CASE AccountWrite(w)
  <2>1. IdleWr.pc = "idle" /\ ~wr[w].touched
    BY <1>2, <1>12 DEF IdleWr, AccountWrite
  <2> QED
    BY <1>1, <1>c, <1>12, <2>1 DEF AccountWrite
<1>13. CASE Invalidate(w) \/ AccountDelete(w)
  BY <1>d, <1>13 DEF Invalidate, AccountDelete
<1>14. CASE Abort(w)
  <2>1. CASE wr[w].touched
    BY <1>d, <1>14, <2>1 DEF Abort
  <2>2. CASE ~wr[w].touched
    BY <1>1, <1>c, <1>14, <2>2 DEF Abort, IdleWr
  <2> QED
    BY <2>1, <2>2
<1>15. CASE ConfirmRead(w)
  <2> DEFINE new == [IdleWr EXCEPT !.pc = "accWrite", !.ver = acc.ver + 1]
             state == [new EXCEPT !.left = Timeout]
  <2>1. ~state.touched /\ state.pc \notin {"link", "inval"}
    BY DEF IdleWr
  <2>2. wr' = [wr EXCEPT ![w] = state] /\ wr[w].pc = "idle" /\ UNCHANGED <<mem, cache>>
    BY <1>15 DEF ConfirmRead
  <2> HIDE DEF state
  <2> QED
    BY <1>2, <1>c, <2>1, <2>2
<1> QED
  BY <1>5, <1>6, <1>7, <1>8, <1>9, <1>10, <1>11, <1>12, <1>13, <1>14, <1>15
     DEF WriterStep

LEMMA ProjectDeleteAccounted ==
    ASSUME TypeInv, DisagreementAccountedFor, ProjectDelete
    PROVE  DisagreementAccountedFor'
<1>1. cache \in Entry
  BY DEF TypeInv, TypeOK
<1>2. ~(Cached' /\ ~cache'.tainted)
  BY <1>1 DEF ProjectDelete, LeftBehind, Cached, Entry
<1>3. wr' = wr /\ MemWritten([mem EXCEPT !.live = FALSE, !.roles = {}])
  BY DEF ProjectDelete
<1>4. \A r \in Requests : req'[r].pc \in {"readAcc", "fill"} /\ ~req'[r].tainted
        => req'[r].mem = mem'
  BY <1>3, MemWrittenTaints
<1> QED
  BY <1>2, <1>3, <1>4 DEF DisagreementAccountedFor

LEMMA TickAccounted ==
    ASSUME TypeInv, DisagreementAccountedFor, Tick
    PROVE  DisagreementAccountedFor'
<1>0. /\ wr \in [Writers -> WrState] /\ req \in [Requests -> ReqState]
      /\ cache \in Entry
  BY DEF TypeInv, TypeOK
<1>1. \A w \in Writers : wr'[w].pc = wr[w].pc /\ wr'[w].touched = wr[w].touched
  BY <1>0 DEF Tick, WrState
<1>2. \A r \in Requests : /\ req'[r].pc = req[r].pc /\ req'[r].mem = req[r].mem
                          /\ req'[r].tainted = req[r].tainted
  BY <1>0 DEF Tick, ReqState
<1>3. Cached' => Cached /\ cache'.mem = cache.mem /\ cache'.tainted = cache.tainted
  <2>1. CASE cache.left > 1
    <3>1. cache' = [cache EXCEPT !.left = @ - 1]
      BY <2>1 DEF Tick
    <3>2. cache.left \in Nat
      BY <1>0, TimesAssumption DEF Entry
    <3> QED
      BY <1>0, <2>1, <3>1, <3>2 DEF Cached, Entry
  <2>2. CASE ~(cache.left > 1)
    BY <2>2 DEF Tick, NoEntry, Cached
  <2> QED
    BY <2>1, <2>2
<1>4. mem' = mem
  BY DEF Tick
<1> QED
  BY <1>1, <1>2, <1>3, <1>4 DEF DisagreementAccountedFor

\* Every entry that disagrees with the membership row is accounted for.
THEOREM DisagreementIsAccountedFor == Spec => []DisagreementAccountedFor
<1>1. ASSUME TypeInv, DisagreementAccountedFor, [Next]_vars
      PROVE  DisagreementAccountedFor'
  <2>1. CASE UNCHANGED vars
    BY <1>1, <2>1 DEF vars, DisagreementAccountedFor, Cached
  <2> QED
    BY <1>1, <2>1, WriterStepAccounted, RequestStepAccounted, ProjectDeleteAccounted,
       TickAccounted DEF Next
<1>2. Spec => [](TypeInv /\ DisagreementAccountedFor)
  BY <1>1, InitType, InitAccounted, NextType, PTL DEF Spec
<1> QED
  BY <1>2, PTL

-----------------------------------------------------------------------------
(* Revocation.                                                             *)

\* An update is lost when it writes over a row it did not read.
KeepsUpdates == \A w \in Writers : UpdateWrite(w) => wr[w].ver = mem.ver

\* What is revoked, or about to be, is past.
RevocationsArePast == mem.live =>
    /\ \A v \in revoked : v < mem.ver
    /\ \A w \in Writers : wr[w].pc = "inval" => wr[w].ver < mem.ver

LEMMA WriterStepPast ==
    ASSUME TypeInv, RevocationsArePast, NEW w \in Writers, WriterStep(w),
           UpdateWrite(w) => wr[w].ver = mem.ver
    PROVE  RevocationsArePast'
<1> USE DEF rows, Doing, Begin
<1>0. /\ wr \in [Writers -> WrState] /\ wr[w] \in WrState
      /\ mem \in MemRow /\ mem.ver \in Nat /\ IdleWr.pc = "idle"
      /\ \A x \in Writers : wr[x].ver \in Nat
      /\ revoked \subseteq Nat
  BY TimesAssumption DEF TypeInv, TypeOK, WrState, MemRow, Version, IdleWr
\* Most steps leave the version and what is revoked, and are not acknowledged.
<1>a. ASSUME NEW state, wr' = [wr EXCEPT ![w] = state], state.pc # "inval",
             mem'.ver = mem.ver, mem'.live => mem.live, revoked' = revoked
      PROVE  RevocationsArePast'
  BY <1>0, <1>a DEF RevocationsArePast
<1>1. ASSUME NEW change \in Change, NEW relink \in BOOLEAN, NEW roles \in SUBSET Roles,
             UpdateDescribe(w, change, relink, roles)
      PROVE  RevocationsArePast'
  <2> DEFINE state == [[IdleWr EXCEPT !.pc = IF relink THEN "unlink" ELSE "write",
                                      !.ver = mem.ver, !.change = change,
                                      !.roles = roles] EXCEPT !.left = Timeout]
  <2>1. state.pc # "inval"
    BY DEF IdleWr
  <2> QED
    BY <1>1, <1>a, <2>1 DEF UpdateDescribe
<1>2. CASE UpdateUnlink(w) \/ UpdateLink(w)
  <2>1. mem'.ver = mem.ver /\ mem'.live = mem.live /\ revoked' = revoked
    BY <1>0, <1>2 DEF UpdateUnlink, UpdateLink, MemWritten, MemRow
  <2>2. CASE UpdateUnlink(w)
    <3>1. wr'[w].pc # "inval" /\ \A x \in Writers : x # w => wr'[x] = wr[x]
      BY <1>0, <2>2 DEF UpdateUnlink, WrState
    <3> QED
      BY <2>1, <3>1 DEF RevocationsArePast
  <2>3. CASE UpdateLink(w)
    <3>1. wr'[w].pc # "inval" /\ \A x \in Writers : x # w => wr'[x] = wr[x]
      BY <1>0, <2>3 DEF UpdateLink, WrState
    <3> QED
      BY <2>1, <3>1 DEF RevocationsArePast
  <2> QED
    BY <1>2, <2>2, <2>3
<1>3. CASE UpdateWrite(w)
  <2>1. /\ mem'.ver = mem.ver + 1 /\ mem'.live = mem.live /\ revoked' = revoked
        /\ wr'[w].ver = mem.ver /\ \A x \in Writers : x # w => wr'[x] = wr[x]
    BY <1>0, <1>3 DEF UpdateWrite, MemWritten, MemRow, WrState
  <2>2. ASSUME mem.live, NEW v \in revoked PROVE v < mem.ver + 1
    BY <1>0, <2>2 DEF RevocationsArePast
  <2>3. ASSUME mem.live, NEW x \in Writers, wr'[x].pc = "inval"
        PROVE  wr'[x].ver < mem.ver + 1
    BY <1>0, <2>1, <2>3 DEF RevocationsArePast
  <2> QED
    BY <2>1, <2>2, <2>3 DEF RevocationsArePast
<1>4. CASE DeleteDescribe(w)
  <2>1. [[IdleWr EXCEPT !.pc = "delete", !.ver = mem.ver] EXCEPT !.left = Timeout].pc
          # "inval"
    BY DEF IdleWr
  <2> QED
    BY <1>4, <1>a, <2>1 DEF DeleteDescribe
<1>5. CASE DeleteMembership(w) \/ AccountDelete(w)
  <2>1. ~mem'.live
    BY <1>0, <1>5 DEF DeleteMembership, AccountDelete, MemWritten, MemRow
  <2> QED
    BY <2>1 DEF RevocationsArePast
<1>6. CASE Invalidate(w)
  <2>1. wr[w].pc = "inval" /\ mem' = mem /\ revoked' = revoked \cup {wr[w].ver}
        /\ wr' = [wr EXCEPT ![w] = IdleWr]
    BY <1>6 DEF Invalidate
  <2> QED
    BY <1>0, <2>1 DEF RevocationsArePast
<1>7. ASSUME NEW change \in Change, AccountRead(w, change) PROVE RevocationsArePast'
  <2> DEFINE bumps == change # "keep" /\ change # acc.enabled
             ver == IF bumps THEN acc.ver + 1 ELSE acc.ver
             state == [[IdleWr EXCEPT !.pc = "accWrite", !.change = change, !.ver = ver]
                        EXCEPT !.left = Timeout]
  <2>1. state.pc # "inval"
    BY DEF IdleWr
  <2> QED
    BY <1>7, <1>a, <2>1 DEF AccountRead
<1>8. CASE ConfirmRead(w)
  <2>1. [[IdleWr EXCEPT !.pc = "accWrite", !.ver = acc.ver + 1] EXCEPT !.left = Timeout].pc
          # "inval"
    BY DEF IdleWr
  <2> QED
    BY <1>8, <1>a, <2>1 DEF ConfirmRead
<1>9. CASE AccountDeleteRead(w)
  <2>1. [[IdleWr EXCEPT !.pc = "accDelete"] EXCEPT !.left = Timeout].pc # "inval"
    BY DEF IdleWr
  <2> QED
    BY <1>9, <1>a, <2>1 DEF AccountDeleteRead
<1>10. CASE AccountWrite(w) \/ Abort(w)
  BY <1>0, <1>10, <1>a DEF AccountWrite, Abort
<1> QED
  BY <1>1, <1>2, <1>3, <1>4, <1>5, <1>6, <1>7, <1>8, <1>9, <1>10 DEF WriterStep

LEMMA NextPast ==
    TypeInv /\ RevocationsArePast /\ [Next]_vars /\ [KeepsUpdates]_vars
        => RevocationsArePast'
<1> SUFFICES ASSUME TypeInv, RevocationsArePast, [Next]_vars, [KeepsUpdates]_vars
             PROVE  RevocationsArePast'
  OBVIOUS
<1>1. CASE UNCHANGED vars
  BY <1>1 DEF vars, RevocationsArePast
<1>2. ASSUME ~UNCHANGED vars, NEW w \in Writers, WriterStep(w)
      PROVE  RevocationsArePast'
  BY <1>2, WriterStepPast DEF KeepsUpdates
<1>3. ASSUME NEW r \in Requests, RequestStep(r) PROVE RevocationsArePast'
  BY <1>3 DEF RequestStep, LoginReadAccount, LoginIssue, Present, FetchHit, FetchMiss,
     HydrateMembership, HydrateAccount, Fill, FillUnacknowledged, Grant, End, rows,
     RevocationsArePast
<1>4. CASE ProjectDelete
  <2>1. ~mem'.live
    BY <1>4 DEF ProjectDelete, MemWritten, TypeInv, TypeOK, MemRow
  <2> QED
    BY <2>1 DEF RevocationsArePast
<1>5. CASE Tick
  <2>1. \A w \in Writers : wr'[w].pc = wr[w].pc /\ wr'[w].ver = wr[w].ver
    BY <1>5 DEF Tick, TypeInv, TypeOK, WrState
  <2> QED
    BY <1>5, <2>1 DEF Tick, RevocationsArePast
<1> QED
  BY <1>1, <1>2, <1>3, <1>4, <1>5 DEF Next

\* However many administrators: as long as no update is lost, a revoked
\* version is never current again.
THEOREM RevocationsLast == Spec /\ [][KeepsUpdates]_vars => []RevokedStaysRevoked
<1>1. Init => RevocationsArePast
  BY DEF Init, RevocationsArePast, IdleWr
<1>2. TypeInv /\ RevocationsArePast => RevokedStaysRevoked
  <2> SUFFICES ASSUME TypeInv, RevocationsArePast, mem.live, mem.ver \in revoked
               PROVE  FALSE
    BY DEF RevokedStaysRevoked
  <2>1. mem.ver \in Nat
    BY TimesAssumption DEF TypeInv, TypeOK, MemRow, Version
  <2> QED
    BY <2>1 DEF RevocationsArePast
<1> QED
  BY <1>1, <1>2, InitType, NextType, NextPast, PTL DEF Spec

=============================================================================
