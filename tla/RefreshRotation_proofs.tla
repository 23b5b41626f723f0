----------------------- MODULE RefreshRotation_proofs ----------------------
(***************************************************************************)
(* Proofs about RefreshRotation, for any number of requests and tokens and *)
(* any lifetimes that satisfy LivesAssumption.                             *)
(***************************************************************************)
EXTENDS RefreshRotation, TLAPS

\* A pending bump writes the version it read plus one.
BumpFits == \A r \in Requests : req[r].pc = "bumpWrite" => req[r].ver < MaxVer

TypeInv == TypeOK /\ Anchored /\ BumpFits

-----------------------------------------------------------------------------
(* Types.                                                                  *)

LEMMA LifeFacts ==
    /\ Life \subseteq Nat
    /\ 0 \in Life /\ LoginLife \in Life /\ RefreshLife \in Life
    /\ \A n \in Life : CountDown(n) \in Life /\ CountDown(n) <= n
    /\ LoginLife > 0 /\ RefreshLife > 0
<1>1. \A n \in Nat : CountDown(n) \in Nat /\ CountDown(n) <= n
  BY DEF CountDown
<1> QED
  BY <1>1, LivesAssumption DEF Life

LEMMA InitType == Init => TypeInv
<1>1. 0 \in Version
  BY LivesAssumption DEF Version
<1>2. IdleReq \in ReqState /\ IdleReq.pc = "idle"
  BY <1>1, LifeFacts DEF ReqState, IdleReq
<1>3. \A j \in Tokens : [sid |-> j, ver |-> 0] \in Claims
  BY <1>1 DEF Claims
<1> QED
  BY <1>1, <1>2, <1>3, LifeFacts DEF Init, TypeInv, TypeOK, Anchored, BumpFits

\* A new token takes its session from an issued one, or names its own.
LEMMA IssueTokenType ==
    ASSUME TypeInv, NEW n \in Tokens, NEW session \in issued \cup {n},
           NEW ver \in Version, NEW lifetime \in Life,
           IssueToken(n, session, ver, lifetime)
    PROVE  /\ issued' \subseteq Tokens /\ issued \subseteq issued'
           /\ claims' \in [Tokens -> Claims]
           /\ life' \in [Tokens -> Life]
           /\ \A j \in issued' : claims'[j].sid \in issued'
<1>1. /\ issued \subseteq Tokens /\ claims \in [Tokens -> Claims]
      /\ life \in [Tokens -> Life]
      /\ \A j \in issued : claims[j].sid \in issued
  BY DEF TypeInv, TypeOK, Anchored, BumpFits
<1>2. issued' = issued \cup {n} /\ n \notin issued
      /\ claims' = [claims EXCEPT ![n] = [sid |-> session, ver |-> ver]]
      /\ life' = [life EXCEPT ![n] = lifetime]
  BY DEF IssueToken
<1>3. [sid |-> session, ver |-> ver] \in Claims
  BY <1>1 DEF Claims
<1> QED
  BY <1>1, <1>2, <1>3

LEMMA NextType == TypeInv /\ [Next]_vars => TypeInv'
<1> SUFFICES ASSUME TypeInv, [Next]_vars
             PROVE  TypeInv'
  OBVIOUS
<1> USE DEF TypeInv, history, At, Goto, Finish
<1>0. /\ issued \subseteq Tokens /\ claims \in [Tokens -> Claims]
      /\ life \in [Tokens -> Life] /\ mark \in [Tokens -> Life]
      /\ memVer \in Version /\ req \in [Requests -> ReqState]
      /\ consumed \subseteq issued /\ dead \subseteq issued
      /\ lostUpdate \in BOOLEAN
      /\ \A j \in issued : claims[j].sid \in issued
      /\ \A r \in Requests : req[r].pc # "idle" => req[r].tok \in issued
      /\ \A r \in Requests : req[r] \in ReqState
      /\ \A r \in Requests : req[r].pc = "bumpWrite" => req[r].ver < MaxVer
      /\ IdleReq \in ReqState /\ IdleReq.pc = "idle"
  <2>1. IdleReq \in ReqState /\ IdleReq.pc = "idle"
    BY LifeFacts, LivesAssumption DEF IdleReq, ReqState, Version
  <2> QED
    BY <2>1 DEF TypeOK, Anchored, BumpFits
\* Most steps only move one request along.
<1>a. ASSUME NEW r \in Requests, NEW new \in ReqState,
             new.pc # "idle" => new.tok \in issued,
             new.pc = "bumpWrite" => new.ver < MaxVer,
             req' = [req EXCEPT ![r] = new],
             mark' \in [Tokens -> Life], memVer' \in Version,
             consumed' \subseteq issued, dead' \subseteq issued, lostUpdate' \in BOOLEAN,
             UNCHANGED <<claims, life, issued>>
      PROVE  TypeInv'
  BY <1>0, <1>a DEF TypeOK, Anchored, BumpFits
<1>1. ASSUME NEW n \in Tokens, Login(n)
      PROVE  TypeInv'
  <2>1. /\ issued' \subseteq Tokens /\ issued \subseteq issued'
        /\ claims' \in [Tokens -> Claims]
        /\ life' \in [Tokens -> Life]
        /\ \A j \in issued' : claims'[j].sid \in issued'
    BY <1>0, <1>1, IssueTokenType, LifeFacts DEF Login
  <2> QED
    BY <1>0, <1>1, <2>1 DEF Login, TypeOK, Anchored, BumpFits
<1>2. ASSUME NEW r \in Requests, NEW j \in issued, Refresh(r, j)
      PROVE  TypeInv'
  <2>1. [req[r] EXCEPT !.pc = "check", !.tok = j] \in ReqState
        /\ [req[r] EXCEPT !.pc = "check", !.tok = j].tok = j
        /\ [req[r] EXCEPT !.pc = "check", !.tok = j].pc = "check"
    BY <1>0 DEF ReqState
  <2> QED
    BY <1>0, <1>2, <1>a, <2>1 DEF Refresh
<1>3. ASSUME NEW r \in Requests, RemainingLife(r)
      PROVE  TypeInv'
  <2> DEFINE new == [req[r] EXCEPT !.pc = "get", !.ttl = life[req[r].tok]]
  <2>1. req[r].tok \in issued
    BY <1>0, <1>3 DEF RemainingLife
  <2>2. new \in ReqState /\ new.tok = req[r].tok /\ new.pc = "get"
    BY <1>0, <2>1 DEF ReqState
  <2>3. req' = [req EXCEPT ![r] = new]
        /\ UNCHANGED <<claims, life, issued, mark, memVer, history>>
    BY <1>3 DEF RemainingLife
  <2> HIDE DEF new
  <2> QED
    BY <1>0, <1>a, <2>1, <2>2, <2>3
<1>4. ASSUME NEW r \in Requests, FindFresh(r) \/ FindReplay(r)
      PROVE  TypeInv'
  <2>1. req[r].tok \in issued
    BY <1>0, <1>4 DEF FindFresh, FindReplay
  <2>2. \A pc \in {"set", "bumpRead"} :
          [req[r] EXCEPT !.pc = pc] \in ReqState
          /\ [req[r] EXCEPT !.pc = pc].tok = req[r].tok
          /\ [req[r] EXCEPT !.pc = pc].pc = pc
    BY <1>0 DEF ReqState
  <2> QED
    BY <1>0, <1>4, <1>a, <2>1, <2>2 DEF FindFresh, FindReplay
<1>5. ASSUME NEW r \in Requests, Consume(r)
      PROVE  TypeInv'
  <2>1. req[r].tok \in issued
    BY <1>0, <1>5 DEF Consume
  <2>2. [req[r] EXCEPT !.pc = "issue"] \in ReqState
        /\ [req[r] EXCEPT !.pc = "issue"].tok = req[r].tok
        /\ [req[r] EXCEPT !.pc = "issue"].pc = "issue"
        /\ req[r].ttl \in Life
    BY <1>0 DEF ReqState
  <2> QED
    BY <1>0, <1>5, <1>a, <2>1, <2>2 DEF Consume
<1>6. ASSUME NEW r \in Requests, NEW n \in Tokens, Rotate(r, n)
      PROVE  TypeInv'
  <2>1. req[r].tok \in issued
    BY <1>0, <1>6 DEF Rotate
  <2>2. claims[req[r].tok].sid \in issued /\ claims[req[r].tok].ver \in Version
    BY <1>0, <2>1 DEF Claims
  <2>3. IssueToken(n, claims[req[r].tok].sid, claims[req[r].tok].ver, RefreshLife)
    BY <1>6 DEF Rotate
  <2>4. /\ issued' \subseteq Tokens /\ issued \subseteq issued'
        /\ claims' \in [Tokens -> Claims]
        /\ life' \in [Tokens -> Life]
        /\ \A j \in issued' : claims'[j].sid \in issued'
    BY <2>2, <2>3, IssueTokenType, LifeFacts
  <2> QED
    BY <1>0, <1>6, <2>4 DEF Rotate, TypeOK, Anchored, BumpFits
<1>7. ASSUME NEW r \in Requests, NEW j \in issued, Revoke(r, j)
      PROVE  TypeInv'
  <2>1. [req[r] EXCEPT !.pc = "bumpRead", !.tok = j] \in ReqState
        /\ [req[r] EXCEPT !.pc = "bumpRead", !.tok = j].tok = j
        /\ [req[r] EXCEPT !.pc = "bumpRead", !.tok = j].pc = "bumpRead"
    BY <1>0 DEF ReqState
  <2> QED
    BY <1>0, <1>7, <1>a, <2>1 DEF Revoke
<1>8. ASSUME NEW r \in Requests, BumpRead(r)
      PROVE  TypeInv'
  <2>1. req[r].tok \in issued
    BY <1>0, <1>8 DEF BumpRead
  <2>2. [req[r] EXCEPT !.pc = "bumpWrite", !.ver = memVer] \in ReqState
        /\ [req[r] EXCEPT !.pc = "bumpWrite", !.ver = memVer].tok = req[r].tok
        /\ [req[r] EXCEPT !.pc = "bumpWrite", !.ver = memVer].ver = memVer
    BY <1>0 DEF ReqState
  <2> QED
    BY <1>0, <1>8, <1>a, <2>1, <2>2 DEF BumpRead
<1>9. ASSUME NEW r \in Requests, BumpWrite(r)
      PROVE  TypeInv'
  <2>1. req[r].tok \in issued /\ req[r].ver < MaxVer /\ req[r].ver \in Version
    BY <1>0, <1>9 DEF BumpWrite, ReqState
  <2>2. req[r].ver + 1 \in Version
    BY <2>1, LivesAssumption DEF Version
  <2>3. claims[req[r].tok].sid \in issued
    BY <1>0, <2>1
  <2>4. lostUpdate' \in BOOLEAN
    BY <1>9 DEF BumpWrite
  <2>5. UNCHANGED <<claims, life, issued, mark, consumed>>
        /\ memVer' = req[r].ver + 1
        /\ dead' = dead \cup {claims[req[r].tok].sid}
        /\ req' = [req EXCEPT ![r] = IdleReq]
    BY <1>9 DEF BumpWrite
  <2> QED
    BY <1>0, <1>a, <2>2, <2>3, <2>4, <2>5
<1>10. ASSUME NEW r \in Requests, End(r)
       PROVE  TypeInv'
  BY <1>0, <1>10, <1>a DEF End
<1>11. CASE Tick
  BY <1>0, <1>11, LifeFacts DEF Tick, TypeOK, Anchored, BumpFits
<1>12. CASE UNCHANGED vars
  BY <1>12 DEF vars, TypeOK, Anchored, BumpFits
<1> QED
  BY <1>1, <1>2, <1>3, <1>4, <1>5, <1>6, <1>7, <1>8, <1>9, <1>10, <1>11, <1>12 DEF Next

\* Every reachable state has the types TypeOK gives.
THEOREM TypeCorrect == Spec => []TypeOK
<1>1. Spec => []TypeInv
  BY InitType, NextType, PTL DEF Spec
<1> QED
  BY <1>1, PTL DEF TypeInv

-----------------------------------------------------------------------------
(* Marks.                                                                  *)

MarkInv == TtlSuffices /\ MarkOutlivesToken

LEMMA NextMark == TypeInv /\ MarkInv /\ [Next]_vars => MarkInv'
<1> SUFFICES ASSUME TypeInv, MarkInv, [Next]_vars
             PROVE  MarkInv'
  OBVIOUS
<1> USE DEF MarkInv, history, At, Goto, Finish
<1>0. /\ life \in [Tokens -> Life] /\ mark \in [Tokens -> Life]
      /\ req \in [Requests -> ReqState] /\ issued \subseteq Tokens
      /\ consumed \subseteq issued
      /\ \A r \in Requests : req[r] \in ReqState
      /\ \A r \in Requests : req[r].pc # "idle" => req[r].tok \in issued
      /\ IdleReq.pc = "idle"
  BY DEF TypeInv, TypeOK, Anchored, IdleReq
<1>1. \A j \in Tokens : life[j] \in Nat /\ mark[j] \in Nat
  BY <1>0, LifeFacts
\* A step that moves one request along and touches no lifetime.
<1>a. ASSUME NEW r \in Requests, NEW new, req' = [req EXCEPT ![r] = new],
             new.pc \in {"get", "set"} => new.ttl >= life[new.tok],
             UNCHANGED <<life, mark, consumed>>
      PROVE  MarkInv'
  BY <1>0, <1>a DEF TtlSuffices, MarkOutlivesToken
\* A step that issues a token: no request and no mark concerns it yet.
<1>b. ASSUME NEW n \in Tokens, n \notin issued, NEW lifetime,
             life' = [life EXCEPT ![n] = lifetime],
             UNCHANGED <<mark, consumed>>,
             \A r \in Requests : req'[r] = req[r] \/ req'[r] = IdleReq
      PROVE  MarkInv'
  <2>1. ASSUME NEW r \in Requests, req'[r].pc \in {"get", "set"}
        PROVE  req'[r].ttl >= life'[req'[r].tok]
    <3>1. req'[r] = req[r]
      BY <1>0, <1>b, <2>1
    <3>2. req[r].tok \in issued
      BY <1>0, <2>1, <3>1
    <3> QED
      BY <1>0, <1>b, <2>1, <3>1, <3>2 DEF TtlSuffices
  <2>2. ASSUME NEW j \in consumed'
        PROVE  mark'[j] >= life'[j]
    BY <1>0, <1>b DEF MarkOutlivesToken
  <2> QED
    BY <2>1, <2>2 DEF TtlSuffices, MarkOutlivesToken
<1>2. ASSUME NEW n \in Tokens, Login(n)
      PROVE  MarkInv'
  BY <1>b, <1>2 DEF Login, IssueToken
<1>3. ASSUME NEW r \in Requests, NEW n \in Tokens, Rotate(r, n)
      PROVE  MarkInv'
  <2>1. \A x \in Requests : req'[x] = req[x] \/ req'[x] = IdleReq
    BY <1>0, <1>3 DEF Rotate
  <2> QED
    BY <1>b, <1>3, <2>1 DEF Rotate, IssueToken
<1>4. ASSUME NEW r \in Requests, NEW j \in issued, Refresh(r, j) \/ Revoke(r, j)
      PROVE  MarkInv'
  <2>1. \A pc \in {"check", "bumpRead"} : [req[r] EXCEPT !.pc = pc, !.tok = j].pc = pc
    BY <1>0 DEF ReqState
  <2> QED
    BY <1>a, <1>4, <2>1 DEF Refresh, Revoke
<1>5. ASSUME NEW r \in Requests, RemainingLife(r)
      PROVE  MarkInv'
  <2> DEFINE new == [req[r] EXCEPT !.pc = "get", !.ttl = life[req[r].tok]]
  <2>1. new.ttl = life[req[r].tok] /\ new.tok = req[r].tok
    BY <1>0 DEF ReqState
  <2>2. req' = [req EXCEPT ![r] = new] /\ UNCHANGED <<life, mark, consumed>>
        /\ req[r].tok \in Tokens
    BY <1>0, <1>5 DEF RemainingLife
  <2>3. new.ttl >= life[new.tok]
    BY <1>1, <2>1, <2>2
  <2> HIDE DEF new
  <2> QED
    BY <1>a, <2>2, <2>3
<1>6. ASSUME NEW r \in Requests, FindFresh(r)
      PROVE  MarkInv'
  <2>1. /\ [req[r] EXCEPT !.pc = "set"].ttl = req[r].ttl
        /\ [req[r] EXCEPT !.pc = "set"].tok = req[r].tok
        /\ req[r].ttl >= life[req[r].tok]
    BY <1>0, <1>6 DEF FindFresh, ReqState, TtlSuffices
  <2> QED
    BY <1>a, <1>6, <2>1 DEF FindFresh
<1>7. ASSUME NEW r \in Requests, FindReplay(r) \/ BumpRead(r)
      PROVE  MarkInv'
  <2>1. [req[r] EXCEPT !.pc = "bumpRead"].pc = "bumpRead"
        /\ [req[r] EXCEPT !.pc = "bumpWrite", !.ver = memVer].pc = "bumpWrite"
    BY <1>0 DEF ReqState
  <2> QED
    BY <1>a, <1>7, <2>1 DEF FindReplay, BumpRead
<1>8. ASSUME NEW r \in Requests, BumpWrite(r) \/ End(r)
      PROVE  MarkInv'
  BY <1>0, <1>a, <1>8 DEF BumpWrite, End
\* The mark is stored with a lifetime that still covers the token's.
<1>9. ASSUME NEW r \in Requests, Consume(r)
      PROVE  MarkInv'
  <2>1. req[r].ttl >= life[req[r].tok] /\ req[r].tok \in Tokens /\ req[r].ttl \in Nat
    BY <1>0, <1>9, LifeFacts DEF Consume, TtlSuffices, ReqState
  <2>2. life' = life /\ mark' = [mark EXCEPT ![req[r].tok] = req[r].ttl]
        /\ consumed' = consumed \cup {req[r].tok}
    BY <1>9 DEF Consume
  <2>3. MarkOutlivesToken'
    BY <1>0, <1>1, <2>1, <2>2 DEF MarkOutlivesToken
  <2>4. [req[r] EXCEPT !.pc = "issue"].pc = "issue"
    BY <1>0 DEF ReqState
  <2>5. TtlSuffices'
    BY <1>0, <1>9, <2>2, <2>4 DEF Consume, TtlSuffices
  <2> QED
    BY <2>3, <2>5
\* Time passes for the mark and for the token alike.
<1>10. CASE Tick
  <2>1. ASSUME NEW j \in Tokens
        PROVE  /\ life'[j] = CountDown(life[j]) /\ mark'[j] = CountDown(mark[j])
               /\ life'[j] \in Nat /\ life'[j] <= life[j]
    BY <1>0, <1>10, LifeFacts DEF Tick
  <2>2. TtlSuffices'
    <3> SUFFICES ASSUME NEW r \in Requests, req[r].pc \in {"get", "set"}
                 PROVE  req[r].ttl >= life'[req[r].tok]
      BY <1>10 DEF Tick, TtlSuffices
    <3>1. req[r].tok \in Tokens /\ req[r].ttl \in Nat /\ req[r].ttl >= life[req[r].tok]
      BY <1>0, LifeFacts DEF ReqState, TtlSuffices
    <3> QED
      BY <1>1, <2>1, <3>1
  <2>3. MarkOutlivesToken'
    <3>1. ASSUME NEW j \in Tokens, mark[j] >= life[j]
          PROVE  CountDown(mark[j]) >= CountDown(life[j])
      BY <1>1, <3>1 DEF CountDown
    <3> QED
      BY <1>0, <1>10, <2>1, <3>1 DEF Tick, MarkOutlivesToken
  <2> QED
    BY <2>2, <2>3
<1>11. CASE UNCHANGED vars
  BY <1>11 DEF vars, TtlSuffices, MarkOutlivesToken
<1> QED
  BY <1>2, <1>3, <1>4, <1>5, <1>6, <1>7, <1>8, <1>9, <1>10, <1>11 DEF Next

\* The mark of a consumed token never expires before the token.
THEOREM MarksOutliveTokens == Spec => []MarkOutlivesToken
<1>1. Init => MarkInv
  BY DEF Init, MarkInv, TtlSuffices, MarkOutlivesToken, IdleReq
<1>2. Spec => [](TypeInv /\ MarkInv)
  BY <1>1, InitType, NextType, NextMark, PTL DEF Spec
<1> QED
  BY <1>2, PTL DEF MarkInv

\* A replay that looks the mark up before the token expires is caught.
THEOREM LateReplaysAreCaught == Spec => LateReplayIsCaught
<1> DEFINE Caught == \A r \in Requests :
             req[r].pc = "get" /\ req'[r].pc = "set" /\ life[req[r].tok] > 0
                => req[r].tok \notin consumed
<1>1. ASSUME TypeInv, MarkOutlivesToken, [Next]_vars
      PROVE  [Caught]_vars
  <2> SUFFICES ASSUME NEW r \in Requests, req[r].pc = "get", req'[r].pc = "set",
                      life[req[r].tok] > 0
               PROVE  req[r].tok \notin consumed
    OBVIOUS
  <2>0. /\ req \in [Requests -> ReqState] /\ req[r].tok \in Tokens
        /\ mark \in [Tokens -> Life] /\ life \in [Tokens -> Life]
        /\ \A x \in Requests : req[x] \in ReqState
    BY <1>1 DEF TypeInv, TypeOK, Anchored
  <2>1. mark[req[r].tok] = 0
    <3>1. ASSUME NEW x \in Requests, FindFresh(x)
          PROVE  mark[req[r].tok] = 0
      BY <2>0, <3>1 DEF FindFresh, At, Goto
    <3>2. req'[r] = req[r] => FALSE
      OBVIOUS
    <3>3. \A x \in Requests :
             x # r => ~((\E j \in issued : Refresh(x, j) \/ Revoke(x, j))
                         \/ RemainingLife(x) \/ FindReplay(x) \/ Consume(x)
                         \/ (\E n \in Tokens : Rotate(x, n))
                         \/ BumpRead(x) \/ BumpWrite(x) \/ End(x))
      BY <2>0, <3>2
         DEF Refresh, Revoke, RemainingLife, FindReplay, Consume, Rotate, BumpRead,
             BumpWrite, End, Goto, Finish
    <3>4. ~((\E j \in issued : Refresh(r, j) \/ Revoke(r, j))
             \/ RemainingLife(r) \/ Consume(r) \/ (\E n \in Tokens : Rotate(r, n))
             \/ BumpRead(r) \/ BumpWrite(r))
      BY DEF Refresh, Revoke, RemainingLife, Consume, Rotate, BumpRead, BumpWrite, At
    <3>5. ~FindReplay(r) /\ ~End(r)
      BY <2>0 DEF FindReplay, End, Goto, Finish, IdleReq, ReqState
    <3>6. ~Tick /\ ~(\E n \in Tokens : Login(n)) /\ ~(UNCHANGED vars)
      BY <3>2 DEF Tick, Login, vars
    <3> QED
      BY <1>1, <3>1, <3>3, <3>4, <3>5, <3>6 DEF Next
  <2>2. life[req[r].tok] \in Nat /\ mark[req[r].tok] \in Nat
    BY <2>0, LifeFacts
  <2> QED
    BY <1>1, <2>1, <2>2 DEF MarkOutlivesToken
<1>2. Spec => []TypeInv
  BY InitType, NextType, PTL DEF Spec
<1>3. Spec => [][Caught]_vars
  BY <1>1, <1>2, MarksOutliveTokens, PTL DEF Spec
<1> QED
  BY <1>3 DEF LateReplayIsCaught

-----------------------------------------------------------------------------
(* Dead sessions.                                                          *)

LEMMA NextDead == TypeInv /\ DeadVersionsArePast /\ [Next]_vars => DeadVersionsArePast'
<1> SUFFICES ASSUME TypeInv, DeadVersionsArePast, [Next]_vars, ~lostUpdate'
             PROVE  \A j \in issued' :
                       /\ claims'[j].ver <= memVer'
                       /\ claims'[j].sid \in dead' => claims'[j].ver < memVer'
  BY DEF DeadVersionsArePast
<1> USE DEF history
<1>0. /\ issued \subseteq Tokens /\ claims \in [Tokens -> Claims]
      /\ memVer \in Nat /\ dead \subseteq issued
      /\ \A j \in Tokens : claims[j].ver \in Nat
      /\ \A r \in Requests : req[r].pc # "idle" => req[r].tok \in issued
      /\ \A r \in Requests : req[r].ver \in Nat
  BY LivesAssumption DEF TypeInv, TypeOK, Anchored, Claims, ReqState, Version
<1>1. CASE UNCHANGED <<claims, issued, memVer, dead, lostUpdate>>
  BY <1>1 DEF DeadVersionsArePast
<1>2. ASSUME NEW n \in Tokens, Login(n)
      PROVE  \A j \in issued' :
                /\ claims'[j].ver <= memVer'
                /\ claims'[j].sid \in dead' => claims'[j].ver < memVer'
  BY <1>0, <1>2 DEF Login, IssueToken, DeadVersionsArePast
<1>3. ASSUME NEW r \in Requests, NEW n \in Tokens, Rotate(r, n)
      PROVE  \A j \in issued' :
                /\ claims'[j].ver <= memVer'
                /\ claims'[j].sid \in dead' => claims'[j].ver < memVer'
  <2>1. req[r].tok \in issued
    BY <1>0, <1>3 DEF Rotate, At
  <2> QED
    BY <1>0, <1>3, <2>1 DEF Rotate, IssueToken, DeadVersionsArePast
<1>4. ASSUME NEW r \in Requests, BumpWrite(r)
      PROVE  \A j \in issued' :
                /\ claims'[j].ver <= memVer'
                /\ claims'[j].sid \in dead' => claims'[j].ver < memVer'
  <2>1. ~lostUpdate /\ memVer = req[r].ver /\ memVer' = memVer + 1
        /\ UNCHANGED <<claims, issued>>
    BY <1>4 DEF BumpWrite
  <2> QED
    BY <1>0, <2>1 DEF DeadVersionsArePast
<1>5. \/ UNCHANGED <<claims, issued, memVer, dead, lostUpdate>>
      \/ \E n \in Tokens : Login(n)
      \/ \E r \in Requests, n \in Tokens : Rotate(r, n)
      \/ \E r \in Requests : BumpWrite(r)
  BY DEF Next, vars, Refresh, RemainingLife, FindFresh, FindReplay, Consume, Revoke,
         BumpRead, End, Tick
<1> QED
  BY <1>1, <1>2, <1>3, <1>4, <1>5

\* Unless two bumps raced, every version a dead session ever carried is past.
THEOREM DeadVersionsStayPast == Spec => []DeadVersionsArePast
<1>1. Init => DeadVersionsArePast
  BY DEF Init, DeadVersionsArePast
<1> QED
  BY <1>1, InitType, NextType, NextDead, PTL DEF Spec

\* A dead session has no valid token, whenever the token was issued.
THEOREM DeadSessionsStayDead == Spec => []DeadSessionHasNoValidToken
<1>1. TypeInv /\ DeadVersionsArePast => DeadSessionHasNoValidToken
  <2> SUFFICES ASSUME TypeInv, DeadVersionsArePast, ~lostUpdate,
                      NEW j \in issued, claims[j].sid \in dead
               PROVE  claims[j].ver # memVer
    BY DEF DeadSessionHasNoValidToken
  <2>1. claims[j].ver \in Nat /\ memVer \in Nat
    BY LivesAssumption DEF TypeInv, TypeOK, Claims, Version
  <2> QED
    BY <2>1 DEF DeadVersionsArePast
<1>2. Spec => []TypeInv
  BY InitType, NextType, PTL DEF Spec
<1> QED
  BY <1>1, <1>2, DeadVersionsStayPast, PTL

=============================================================================
