------------------------ MODULE PortalSessionsProofs ------------------------
(***************************************************************************)
(* PortalSessions, for every value of its constants: the variables keep    *)
(* their types; what a committed request has closed stays closed; and,     *)
(* when all logins come from one address, so that the rate limiter's lock  *)
(* serializes them, the limit on concurrent sessions holds.                *)
(***************************************************************************)
EXTENDS PortalSessions, FiniteSetTheorems, TLAPS

-----------------------------------------------------------------------------
(* Type correctness. *)

LEMMA TypeInit == Init => TypeOK /\ StagesOK
BY NullAssumption DEF Init, TypeOK, StagesOK, StageOK, NullOr, NoInput, Input, Stage,
   Row, LockKeys, Protected, Public, RevokingOne, RevokingOthers

LEMMA RevokedRow ==
    ASSUME NEW row \in Row, NEW t \in Nat
    PROVE  /\ Revoked(row, t) \in Row
           /\ Revoked(row, t).revoked = t
           /\ Revoked(row, t).subject = row.subject
           /\ Revoked(row, t).sid = row.sid
BY DEF Revoked, Row, NullOr

LEMMA UsedRow ==
    ASSUME NEW row \in Row, NEW t \in Nat, NEW d \in Nat
    PROVE  /\ Used(row, t, d) \in Row
           /\ Used(row, t, d).revoked = row.revoked
           /\ Used(row, t, d).subject = row.subject
           /\ Used(row, t, d).sid = row.sid
BY DEF Used, Row, NullOr

LEMMA SubjectInput ==
    ASSUME NEW q \in Input, NEW u \in Subject
    PROVE  [q EXCEPT !.subject = u] \in Input
BY DEF Input, NullOr

LEMMA SidInput ==
    ASSUME NEW q \in Input, NEW i \in NullOr(Sid)
    PROVE  [q EXCEPT !.sid = i] \in Input
BY DEF Input, NullOr

LEMMA NextStage ==
    ASSUME NEW op
    PROVE  /\ Entry(op) \in {"respond", "select", "lock"}
           /\ Unauthenticated(op) \in {"refuse", "respond", "select", "lock"}
           /\ AfterLock(op) \in {"exchange", "select", "bulk", "central"}
BY DEF Entry, Unauthenticated, AfterLock

\* Starting a request and ending one keep the type of the request's variables.
LEMMA StartType ==
    ASSUME TypeOK, NEW r \in Request, NEW q \in Input,
           NEW stage \in Stage, Start(r, q, stage),
           ended' \subseteq Subject \X Sid
    PROVE  TypeOK'
BY DEF TypeOK, Start, Goto

LEMMA EndType ==
    ASSUME TypeOK, NEW r \in Request, End(r)
    PROVE  /\ pc' \in [Request -> Stage]
           /\ req' \in [Request -> Input]
           /\ at' \in [Request -> Nat]
           /\ auth' \in [Request -> NullOr(Row)]
           /\ minted' \in [Request -> NullOr(Session)]
           /\ todo' \in [Request -> SUBSET Session]
           /\ chosen' \in [Request -> SUBSET Session]
           /\ dirty' \in [Request -> [Session -> NullOr(Row) \cup {Clean}]]
           /\ lock' \in [Request -> NullOr(LockKeys)]
<1>1. NoInput \in Input
  BY DEF NoInput, Input, NullOr
<1>2. "idle" \in Stage
  BY DEF Stage
<1> QED
  BY <1>1, <1>2 DEF TypeOK, End, NullOr

LEMMA DiscardType ==
    ASSUME TypeOK, NEW r \in Request, Discard(r) PROVE TypeOK'
BY EndType DEF Discard, TypeOK

\* A write of a typed row version keeps the type of the uncommitted versions.
LEMMA WriteType ==
    ASSUME TypeOK, NEW r \in Request, NEW s \in Session, NEW row \in NullOr(Row),
           Write(r, s, row)
    PROVE  dirty' \in [Request -> [Session -> NullOr(Row) \cup {Clean}]]
BY DEF TypeOK, Write

LEMMA VisibleType ==
    ASSUME TypeOK, NEW r \in Request, NEW s \in Session
    PROVE  Visible(r, s) \in NullOr(Row)
BY DEF TypeOK, Visible

LEMMA TypeStep == ASSUME TypeOK, StagesOK, [Next]_vars PROVE TypeOK'
<1> USE NullAssumption, TimeAssumption
<1>1. CASE UNCHANGED vars
  BY <1>1 DEF vars, requestVars, TypeOK
<1>2. CASE Tick
  BY <1>2 DEF Tick, requestVars, TypeOK
<1>3. ASSUME NEW r \in Request, Browse(r) PROVE TypeOK'
  BY <1>3, StartType DEF Browse, Input, NoInput, NullOr, Protected, Public, Stage,
     TypeOK, RevokingOne, RevokingOthers
<1>4. ASSUME NEW r \in Request, BrowseRevoke(r) PROVE TypeOK'
  BY <1>4, StartType DEF BrowseRevoke, Input, NoInput, NullOr, Protected, Stage, TypeOK,
     RevokingOne, RevokingOthers
<1>5. ASSUME NEW r \in Request, BrowseCallback(r) PROVE TypeOK'
  BY <1>5, StartType DEF BrowseCallback, Input, NoInput, NullOr, Public, Stage, TypeOK,
     RevokingOne, RevokingOthers
<1>6. ASSUME NEW r \in Request, NotifyLogout(r) PROVE TypeOK'
  BY <1>6, StartType DEF NotifyLogout, Input, NoInput, NullOr, System, Stage, TypeOK,
     RevokingOne, RevokingOthers
<1>7. ASSUME NEW r \in Request, StartCleanup(r) PROVE TypeOK'
  BY <1>7, StartType DEF StartCleanup, Input, NoInput, NullOr, System, Stage, TypeOK,
     RevokingOne, RevokingOthers
<1>8. ASSUME NEW r \in Request, Resolve(r) PROVE TypeOK'
  <2> DEFINE c == req[r].cookie
             row == IF c = None THEN None ELSE rows[c]
  <2>1. row \in NullOr(Row)
    BY DEF TypeOK, Input, NullOr
  <2>2. PICK stage \in Stage : Goto(r, stage)
    BY <1>8, NextStage DEF Resolve, Stage
  <2>3. auth' = [auth EXCEPT ![r] = row] \/ auth' = auth
    BY <1>8 DEF Resolve
  <2>4. UNCHANGED <<now, rows, issued, handed, ended, loggedOut, closed,
                    req, at, minted, todo, chosen, dirty, lock>>
    BY <1>8 DEF Resolve
  <2> HIDE DEF row
  <2>5. auth' \in [Request -> NullOr(Row)]
    BY <2>1, <2>3 DEF TypeOK
  <2>6. pc' \in [Request -> Stage]
    BY <2>2 DEF TypeOK, Goto
  <2> QED
    BY <2>4, <2>5, <2>6 DEF TypeOK
<1>9. ASSUME NEW r \in Request, Expire(r) PROVE TypeOK'
  <2> DEFINE c == req[r].cookie
  <2>1. c \in Session /\ rows[c] \in Row /\ at[r] \in Nat
    BY <1>9 DEF Expire, TypeOK, StagesOK, StageOK, NullOr, Input
  <2>2. Revoked(rows[c], at[r]) \in NullOr(Row)
    BY <2>1, RevokedRow DEF NullOr
  <2>3. Unauthenticated(req[r].op) \in Stage
    BY NextStage DEF Stage
  <2> QED
    BY <1>9, <2>1, <2>2, <2>3, WriteType DEF Expire, TypeOK, Goto
<1>10. ASSUME NEW r \in Request, Touch(r) PROVE TypeOK'
  <2> DEFINE c == req[r].cookie
             deadline == Earlier(at[r] + IdleTimeout, auth[r].absolute)
             idle == IF deadline = auth[r].idle THEN rows[c].idle ELSE deadline
  <2>1. c \in Session /\ rows[c] \in Row /\ at[r] \in Nat /\ auth[r] \in Row
    BY <1>10 DEF Touch, TypeOK, StagesOK, StageOK, NullOr, Input
  <2>2. idle \in Nat
    BY <2>1 DEF Earlier, Row
  <2>3. Used(rows[c], at[r], idle) \in NullOr(Row)
    BY <2>1, <2>2, UsedRow DEF NullOr
  <2>4. Entry(req[r].op) \in Stage
    BY NextStage DEF Stage
  <2> QED
    BY <1>10, <2>1, <2>3, <2>4, WriteType DEF Touch, TypeOK, Goto
<1>11. ASSUME NEW r \in Request, AcquireLock(r) PROVE TypeOK'
  <2>1. AfterLock(req[r].op) \in Stage
    BY NextStage DEF Stage
  <2>2. LockKey(r) \in LockKeys
    BY <1>11 DEF AcquireLock, LockKey, LockKeys, Limited, TypeOK, StagesOK, StageOK,
       RevokingOne, RevokingOthers,
       Input, Row, NullOr, Protected, Public
  <2> QED
    BY <1>11, <2>1, <2>2 DEF AcquireLock, TypeOK, Goto, NullOr
<1>12. ASSUME NEW r \in Request, ExchangeCode(r) PROVE TypeOK'
  <2>1. PICK u \in Subject, i \in NullOr(Sid) :
           req' = [req EXCEPT ![r] = [req[r] EXCEPT !.subject = u, !.sid = i]]
    BY <1>12 DEF ExchangeCode
  <2>2. req[r] \in Input
    BY DEF TypeOK
  <2>3. [[req[r] EXCEPT !.subject = u] EXCEPT !.sid = i] \in Input
    BY <2>2, SubjectInput, SidInput
  <2>4. req' \in [Request -> Input]
    BY <2>1, <2>3 DEF TypeOK
  <2> QED
    BY <1>12, <2>4 DEF ExchangeCode, TypeOK, Goto, Stage
<1>13. ASSUME NEW r \in Request, RejectCallback(r) PROVE TypeOK'
  BY <1>13 DEF RejectCallback, TypeOK, Goto, Stage
<1>14. ASSUME NEW r \in Request, SelectOne(r) PROVE TypeOK'
  <2> DEFINE target == IF req[r].op \in RevokingOne THEN req[r].target ELSE req[r].cookie
  <2>1. target \in Session
    BY <1>14 DEF SelectOne, TypeOK, StagesOK, StageOK, Input, NullOr
  <2> QED
    BY <1>14, <2>1 DEF SelectOne, TypeOK, Goto, Stage
<1>15. ASSUME NEW r \in Request, FlushRow(r) PROVE TypeOK'
  <2>1. PICK s \in todo[r] : FlushRow(r)!(s)
    BY <1>15 DEF FlushRow
  <2>2. s \in Session /\ Revoked(Visible(r, s), at[r]) \in NullOr(Row)
    BY <2>1, VisibleType, RevokedRow DEF TypeOK, NullOr
  <2> QED
    BY <2>1, <2>2, WriteType DEF TypeOK, Goto, Stage
<1>16. ASSUME NEW r \in Request, InsertSession(r) PROVE TypeOK'
  <2>1. PICK s \in Session \ issued : InsertSession(r)!(s)
    BY <1>16 DEF InsertSession
  <2>2. NewRow(r) \in NullOr(Row)
    BY <2>1 DEF NewRow, TypeOK, StagesOK, StageOK, Row, Input, NullOr
  <2> QED
    BY <2>1, <2>2, WriteType DEF TypeOK, Goto, Stage, NullOr
<1>17. ASSUME NEW r \in Request, EnforceLimit(r) PROVE TypeOK'
  BY <1>17 DEF EnforceLimit, Others, TypeOK, Goto, Stage
<1>18. ASSUME NEW r \in Request, LogoutCentrally(r) PROVE TypeOK'
  <2>1. auth[r].subject \in Subject
    BY <1>18 DEF LogoutCentrally, TypeOK, StagesOK, StageOK, Row, NullOr, Protected,
       RevokingOne, RevokingOthers
  <2> QED
    BY <1>18, <2>1 DEF LogoutCentrally, TypeOK, Goto, Stage
<1>19. ASSUME NEW r \in Request, StartBulk(r) PROVE TypeOK'
  BY <1>19 DEF StartBulk, TypeOK, Goto, Stage
<1>20. ASSUME NEW r \in Request, SweepRow(r) PROVE TypeOK'
  <2>1. PICK s \in todo[r] : SweepRow(r)!(s)
    BY <1>20 DEF SweepRow
  <2>2. s \in Session /\ at[r] \in Nat /\ Visible(r, s) \in NullOr(Row)
    BY <2>1, VisibleType DEF TypeOK
  <2>3. Selects(r, s, Visible(r, s)) => Outcome(r, Visible(r, s)) \in NullOr(Row)
    BY <2>2, RevokedRow DEF Selects, Outcome, NullOr
  <2> QED
    BY <2>1, <2>2, <2>3, WriteType DEF TypeOK
<1>21. ASSUME NEW r \in Request, FinishBulk(r) PROVE TypeOK'
  BY <1>21 DEF FinishBulk, TypeOK, Goto, Stage
<1>22. ASSUME NEW r \in Request, Respond(r) PROVE TypeOK'
  BY <1>22 DEF Respond, TypeOK, Goto, Stage, NullOr
<1>23. ASSUME NEW r \in Request, Commit(r) PROVE TypeOK'
  <2>1. Covered(r) \subseteq Subject \X Sid
    BY DEF Covered
  <2>2. rows' \in [Session -> NullOr(Row)]
    BY <1>23, VisibleType DEF Commit
  <2> QED
    BY <1>23, <2>1, <2>2, EndType DEF Commit, TypeOK
<1>24. ASSUME NEW r \in Request,
              Refuse(r) \/ LoseRow(r) \/ AbortVictim(r) \/ Fail(r)
       PROVE TypeOK'
  BY <1>24, DiscardType DEF Refuse, LoseRow, AbortVictim, Fail
<1> QED
  BY <1>1, <1>2, <1>3, <1>4, <1>5, <1>6, <1>7, <1>8, <1>9, <1>10, <1>11, <1>12, <1>13,
     <1>14, <1>15, <1>16, <1>17, <1>18, <1>19, <1>20, <1>21, <1>22, <1>23, <1>24
     DEF Next, Arrive, Run

\* StageOK of a request depends on its own variables only.
LEMMA StageFrame ==
    ASSUME StagesOK, NEW r \in Request, StageOK(r)',
           \A q \in Request \ {r} : /\ pc'[q] = pc[q] /\ req'[q] = req[q]
                                    /\ auth'[q] = auth[q] /\ minted'[q] = minted[q]
    PROVE  StagesOK'
BY DEF StagesOK, StageOK

LEMMA StartStage ==
    ASSUME TypeOK, StagesOK, NEW r \in Request, NEW q, NEW stage, Start(r, q, stage),
           \/ stage = "resolve" /\ q.op \in Protected \cup Public
           \/ stage = "bulk" /\ q.op \in System,
           q.op \in RevokingOne => q.target # None,
           q.op = "login" => q.address # None,
           auth[r] = None, minted[r] = None
    PROVE  StagesOK'
<1>1. StageOK(r)'
  BY DEF Start, StageOK, TypeOK, Goto, System, Protected, Public, RevokingOne,
     RevokingOthers
<1> QED
  BY <1>1, StageFrame DEF Start, Goto, TypeOK

LEMMA EndStage ==
    ASSUME TypeOK, StagesOK, NEW r \in Request, End(r) PROVE StagesOK'
<1>1. StageOK(r)'
  BY DEF End, StageOK, TypeOK, NoInput, Protected, RevokingOne, RevokingOthers
<1> QED
  BY <1>1, StageFrame DEF End, TypeOK

LEMMA StageStep == ASSUME TypeOK, StagesOK, [Next]_vars PROVE StagesOK'
<1> USE NullAssumption
<1>1. CASE UNCHANGED vars
  BY <1>1 DEF vars, requestVars, StagesOK, StageOK
<1>2. CASE Tick
  BY <1>2 DEF Tick, requestVars, StagesOK, StageOK
<1>3. ASSUME NEW r \in Request, Resolve(r) PROVE StagesOK'
  <2>1. StageOK(r)'
    BY <1>3 DEF Resolve, TypeOK, StagesOK, StageOK, Goto, Entry, Unauthenticated,
       Usable, Live, NullOr, Protected, Public, Limited, Input, RevokingOne,
       RevokingOthers
  <2> QED
    BY <1>3, <2>1, StageFrame DEF Resolve, TypeOK, Goto
<1>4. ASSUME NEW r \in Request, Expire(r) PROVE StagesOK'
  <2>1. StageOK(r)'
    BY <1>4 DEF Expire, TypeOK, StagesOK, StageOK, Goto, Entry, Unauthenticated, Write,
       Protected, Public, Limited, RevokingOne, RevokingOthers
  <2> QED
    BY <1>4, <2>1, StageFrame DEF Expire, TypeOK, Goto
<1>5. ASSUME NEW r \in Request, Touch(r) PROVE StagesOK'
  <2>1. StageOK(r)'
    BY <1>5 DEF Touch, TypeOK, StagesOK, StageOK, Goto, Entry, Write, Protected, Public,
       Limited, RevokingOne, RevokingOthers
  <2> QED
    BY <1>5, <2>1, StageFrame DEF Touch, TypeOK, Goto
<1>6. ASSUME NEW r \in Request, AcquireLock(r) PROVE StagesOK'
  <2>1. StageOK(r)'
    BY <1>6 DEF AcquireLock, TypeOK, StagesOK, StageOK, Goto, AfterLock, Limited,
       Protected, System, RevokingOne, RevokingOthers
  <2> QED
    BY <1>6, <2>1, StageFrame DEF AcquireLock, TypeOK, Goto
<1>7. ASSUME NEW r \in Request, ExchangeCode(r) PROVE StagesOK'
  <2>1. StageOK(r)'
    BY <1>7 DEF ExchangeCode, TypeOK, StagesOK, StageOK, Goto, Protected, System,
       NullOr, RevokingOne, RevokingOthers
  <2> QED
    BY <1>7, <2>1, StageFrame DEF ExchangeCode, TypeOK, Goto
<1>8. ASSUME NEW r \in Request, RejectCallback(r) PROVE StagesOK'
  <2>1. StageOK(r)'
    BY <1>8 DEF RejectCallback, TypeOK, StagesOK, StageOK, Goto, Protected, System,
       NullOr, RevokingOne, RevokingOthers
  <2> QED
    BY <1>8, <2>1, StageFrame DEF RejectCallback, TypeOK, Goto
<1>9. ASSUME NEW r \in Request, SelectOne(r) PROVE StagesOK'
  <2>1. StageOK(r)'
    BY <1>9 DEF SelectOne, TypeOK, StagesOK, StageOK, Goto, Protected, System, NullOr,
       RevokingOne, RevokingOthers
  <2> QED
    BY <1>9, <2>1, StageFrame DEF SelectOne, TypeOK, Goto
<1>10. ASSUME NEW r \in Request, FlushRow(r) PROVE StagesOK'
  <2>1. StageOK(r)'
    BY <1>10 DEF FlushRow, TypeOK, StagesOK, StageOK, Goto, Protected, System, NullOr,
       RevokingOne, RevokingOthers
  <2> QED
    BY <1>10, <2>1, StageFrame DEF FlushRow, TypeOK, Goto
<1>11. ASSUME NEW r \in Request, InsertSession(r) PROVE StagesOK'
  <2>1. StageOK(r)'
    BY <1>11 DEF InsertSession, TypeOK, StagesOK, StageOK, Goto, Protected, System,
       NullOr, RevokingOne, RevokingOthers
  <2> QED
    BY <1>11, <2>1, StageFrame DEF InsertSession, TypeOK, Goto
<1>12. ASSUME NEW r \in Request, EnforceLimit(r) PROVE StagesOK'
  <2>1. StageOK(r)'
    BY <1>12 DEF EnforceLimit, TypeOK, StagesOK, StageOK, Goto, Protected, System,
       NullOr, RevokingOne, RevokingOthers
  <2> QED
    BY <1>12, <2>1, StageFrame DEF EnforceLimit, TypeOK, Goto
<1>13. ASSUME NEW r \in Request, LogoutCentrally(r) PROVE StagesOK'
  <2>1. StageOK(r)'
    BY <1>13 DEF LogoutCentrally, TypeOK, StagesOK, StageOK, Goto, Protected, System,
       NullOr, RevokingOne, RevokingOthers
  <2> QED
    BY <1>13, <2>1, StageFrame DEF LogoutCentrally, TypeOK, Goto
<1>14. ASSUME NEW r \in Request, StartBulk(r) PROVE StagesOK'
  <2>1. StageOK(r)'
    BY <1>14 DEF StartBulk, TypeOK, StagesOK, StageOK, Goto, Protected, System, NullOr,
       RevokingOne, RevokingOthers
  <2> QED
    BY <1>14, <2>1, StageFrame DEF StartBulk, TypeOK, Goto
<1>15. ASSUME NEW r \in Request, SweepRow(r) PROVE StagesOK'
  <2>1. StageOK(r)'
    BY <1>15 DEF SweepRow, TypeOK, StagesOK, StageOK, Goto, Protected, System, NullOr,
       RevokingOne, RevokingOthers
  <2> QED
    BY <1>15, <2>1, StageFrame DEF SweepRow, TypeOK, Goto
<1>16. ASSUME NEW r \in Request, FinishBulk(r) PROVE StagesOK'
  <2>1. StageOK(r)'
    BY <1>16 DEF FinishBulk, TypeOK, StagesOK, StageOK, Goto, Protected, System, NullOr,
       RevokingOne, RevokingOthers
  <2> QED
    BY <1>16, <2>1, StageFrame DEF FinishBulk, TypeOK, Goto
<1>17. ASSUME NEW r \in Request, Respond(r) PROVE StagesOK'
  <2>1. StageOK(r)'
    BY <1>17 DEF Respond, TypeOK, StagesOK, StageOK, Goto, Protected, System, NullOr,
       RevokingOne, RevokingOthers
  <2> QED
    BY <1>17, <2>1, StageFrame DEF Respond, TypeOK, Goto
<1>18. ASSUME NEW r \in Request, Browse(r) PROVE StagesOK'
  <2>1. auth[r] = None /\ minted[r] = None
    BY <1>18 DEF Browse, Start, StagesOK, StageOK
  <2> QED
    BY <1>18, <2>1, StartStage DEF Browse, NoInput, Protected, Public, RevokingOne,
       RevokingOthers
<1>19. ASSUME NEW r \in Request, BrowseRevoke(r) PROVE StagesOK'
  <2>1. auth[r] = None /\ minted[r] = None
    BY <1>19 DEF BrowseRevoke, Start, StagesOK, StageOK
  <2> QED
    BY <1>19, <2>1, StartStage DEF BrowseRevoke, NoInput, Protected, TypeOK,
       RevokingOne, RevokingOthers
<1>20. ASSUME NEW r \in Request, BrowseCallback(r) PROVE StagesOK'
  <2>1. auth[r] = None /\ minted[r] = None
    BY <1>20 DEF BrowseCallback, Start, StagesOK, StageOK
  <2> QED
    BY <1>20, <2>1, StartStage DEF BrowseCallback, NoInput, Public, RevokingOne,
       RevokingOthers
<1>21. ASSUME NEW r \in Request, NotifyLogout(r) PROVE StagesOK'
  <2>1. auth[r] = None /\ minted[r] = None
    BY <1>21 DEF NotifyLogout, Start, StagesOK, StageOK
  <2> QED
    BY <1>21, <2>1, StartStage DEF NotifyLogout, NoInput, System, RevokingOne,
       RevokingOthers
<1>22. ASSUME NEW r \in Request, StartCleanup(r) PROVE StagesOK'
  <2>1. auth[r] = None /\ minted[r] = None
    BY <1>22 DEF StartCleanup, Start, StagesOK, StageOK
  <2> QED
    BY <1>22, <2>1, StartStage DEF StartCleanup, NoInput, System, RevokingOne,
       RevokingOthers
<1>23. ASSUME NEW r \in Request,
              Commit(r) \/ Refuse(r) \/ LoseRow(r) \/ AbortVictim(r) \/ Fail(r)
       PROVE StagesOK'
  BY <1>23, EndStage DEF Commit, Refuse, LoseRow, AbortVictim, Fail, Discard
<1> QED
  BY <1>1, <1>2, <1>3, <1>4, <1>5, <1>6, <1>7, <1>8, <1>9, <1>10, <1>11, <1>12, <1>13,
     <1>14, <1>15, <1>16, <1>17, <1>18, <1>19, <1>20, <1>21, <1>22, <1>23
     DEF Next, Arrive, Run

\* Every variable keeps its type, and no protected route does any work before it
\* has an authenticated session (require_auth).
THEOREM TypeCorrect == Spec => [](TypeOK /\ StagesOK)
<1>1. Init => TypeOK /\ StagesOK
  BY TypeInit
<1>2. TypeOK /\ StagesOK /\ [Next]_vars => (TypeOK /\ StagesOK)'
  BY TypeStep, StageStep
<1> QED
  BY <1>1, <1>2, PTL DEF Spec

-----------------------------------------------------------------------------
(* What a write, a commit and a discard make of the versions of a row. *)

\* The version of s that q sees is not revived and stays with its owner.
Fades(q, s) ==
    Live(Visible(q, s)') =>
        /\ Live(Visible(q, s))
        /\ Visible(q, s)'.subject = Visible(q, s).subject
        /\ Visible(q, s)'.sid = Visible(q, s).sid

AllFade == \A q \in Request, s \in Session : Fades(q, s)

\* r writes a version of the settled row s that does not revive it.
WriteStep(r, s, row) ==
    /\ MayWrite(r, s) /\ Write(r, s, row)
    /\ row \in NullOr(Row)
    /\ s \in Settled
    /\ Live(row) => /\ Live(Visible(r, s))
                    /\ row.subject = Visible(r, s).subject
                    /\ row.sid = Visible(r, s).sid
    /\ UNCHANGED <<rows, issued, closed, minted>>

LEMMA NewIdentifier ==
    ASSUME SessionInv, NEW s \in Session \ issued
    PROVE  /\ rows[s] = None
           /\ \A q \in Request : dirty[q][s] = Clean /\ minted[q] # s
BY NullAssumption DEF SessionInv, Descent, MintedOK, Settled, TypeOK

LEMMA WriteFades ==
    ASSUME SessionInv, NEW r \in Request, NEW s \in Session, NEW row,
           WriteStep(r, s, row)
    PROVE  \A q \in Request, x \in Session : Fades(q, x)
<1>1. \A q \in Request, x \in Session :
         Visible(q, x)' = IF q = r /\ x = s THEN row ELSE Visible(q, x)
  BY NullAssumption DEF WriteStep, Write, Visible, SessionInv, TypeOK, NullOr
<1> QED
  BY <1>1 DEF WriteStep, Fades

LEMMA WriteRows ==
    ASSUME SessionInv, NEW r \in Request, NEW s \in Session, NEW row,
           WriteStep(r, s, row)
    PROVE  SingleWriter' /\ Descent' /\ ClosedOK'
<1>1. SingleWriter'
  BY DEF WriteStep, Write, MayWrite, Holders, SingleWriter, SessionInv, TypeOK
<1>2. dirty' = [dirty EXCEPT ![r][s] = row] /\ Settled' = Settled
  BY DEF WriteStep, Write, Settled
<1>3. Live(row) => /\ Live(rows[s]) /\ row.subject = rows[s].subject
                   /\ row.sid = rows[s].sid
  <2>1. CASE dirty[r][s] = Clean
    BY <2>1 DEF WriteStep, Visible
  <2>2. CASE dirty[r][s] # Clean
    <3>1. s # minted[r]
      BY DEF WriteStep, Settled
    <3> QED
      BY <2>2, <3>1 DEF WriteStep, Visible, SessionInv, Descent
  <2> QED
    BY <2>1, <2>2
<1>4. Descent'
  <2>1. \A x \in Session : rows'[x] # None => x \in Settled'
    BY <1>2 DEF WriteStep, SessionInv, Descent
  <2>2. ASSUME NEW q \in Request, NEW x \in Session, dirty'[q][x] # Clean
        PROVE  \/ x = minted'[q]
               \/ /\ x \in Settled'
                  /\ Live(dirty'[q][x]) =>
                        /\ Live(rows'[x])
                        /\ dirty'[q][x].subject = rows'[x].subject
                        /\ dirty'[q][x].sid = rows'[x].sid
    <3>1. CASE q = r /\ x = s
      BY <3>1, <1>2, <1>3 DEF WriteStep, SessionInv, TypeOK
    <3>2. CASE ~(q = r /\ x = s)
      <4>1. dirty'[q][x] = dirty[q][x]
        BY <3>2, <1>2 DEF SessionInv, TypeOK
      <4> QED
        BY <2>2, <4>1, <1>2 DEF WriteStep, SessionInv, Descent
    <3> QED
      BY <3>1, <3>2
  <2> QED
    BY <2>1, <2>2 DEF Descent, Live
<1>5. ClosedOK'
  BY <1>2 DEF WriteStep, SessionInv, ClosedOK, ClosedStayClosed
<1> QED
  BY <1>1, <1>4, <1>5

LEMMA WriteMinted ==
    ASSUME SessionInv, NEW r \in Request, NEW s \in Session, NEW row,
           WriteStep(r, s, row), UNCHANGED req,
           \A q \in Request \ {r} : pc'[q] = pc[q],
           minted[r] # None => pc'[r] \in {"flush", "respond"}
    PROVE  MintedOK'
<1>1. \A q \in Request : minted[q] # None => dirty'[q][minted[q]] = dirty[q][minted[q]]
  BY DEF WriteStep, Write, Settled, SessionInv, TypeOK
<1> QED
  BY <1>1 DEF WriteStep, SessionInv, MintedOK

\* A request that does not move keeps ChosenFor when settled rows only fade.
LEMMA ChosenFrame ==
    ASSUME SessionInv, NEW q \in Request,
           todo'[q] = todo[q], chosen'[q] = chosen[q], pc'[q] = pc[q],
           req'[q] = req[q], auth'[q] = auth[q], at'[q] = at[q],
           Settled \subseteq Settled',
           \A s \in Settled \cap Session : Fades(q, s)
    PROVE  ChosenFor(q)'
<1>1. chosen[q] \subseteq Settled \cap Session /\ todo[q] \subseteq chosen[q]
  BY DEF SessionInv, ChosenOK, ChosenFor, TypeOK
<1>2. \A s \in chosen[q] \ todo[q] : ~Live(Visible(q, s)')
  BY <1>1 DEF SessionInv, ChosenOK, ChosenFor, Fades
<1>3. ASSUME pc[q] = "sweep", NEW s \in todo[q], Live(Visible(q, s)')
      PROVE  Selects(q, s, Visible(q, s))'
  <2>1. /\ Live(Visible(q, s)) /\ Selects(q, s, Visible(q, s))
        /\ Visible(q, s)'.subject = Visible(q, s).subject
        /\ Visible(q, s)'.sid = Visible(q, s).sid
    BY <1>1, <1>3 DEF SessionInv, ChosenOK, ChosenFor, Fades
  <2> QED
    BY <1>3, <2>1 DEF Selects, Live
<1> QED
  BY <1>1, <1>2, <1>3 DEF SessionInv, ChosenOK, ChosenFor, Live

\* The others do not move while r does.
LEMMA ChosenOthers ==
    ASSUME SessionInv, NEW r \in Request, ChosenFor(r)',
           \A q \in Request \ {r} :
               /\ todo'[q] = todo[q] /\ chosen'[q] = chosen[q] /\ pc'[q] = pc[q]
               /\ req'[q] = req[q] /\ auth'[q] = auth[q] /\ at'[q] = at[q],
           Settled \subseteq Settled',
           \A q \in Request \ {r}, s \in Settled \cap Session : Fades(q, s)
    PROVE  ChosenOK'
BY ChosenFrame DEF ChosenOK

\* A step that changes no version of any row.
LEMMA SameRows ==
    ASSUME UNCHANGED <<rows, dirty, issued, minted>>
    PROVE  /\ Settled' = Settled
           /\ \A q \in Request, s \in Session :
                Visible(q, s)' = Visible(q, s) /\ Fades(q, s)
BY DEF Settled, Visible, Fades

-----------------------------------------------------------------------------
(* The end of a transaction. *)

LEMMA EndSettled ==
    ASSUME SessionInv, NEW r \in Request, End(r), UNCHANGED issued
    PROVE  /\ Settled \subseteq Settled'
           /\ minted[r] # None => minted[r] \in Settled'
BY NullAssumption DEF End, Settled, SessionInv, MintedOK, TypeOK

\* Nobody else holds a row that r holds, and r does not hold the row of another
\* login.
LEMMA CommitRows ==
    ASSUME SessionInv, NEW r \in Request, Commit(r)
    PROVE  /\ \A q \in Request \ {r}, s \in Session :
                dirty[q][s] # Clean => rows'[s] = rows[s] /\ dirty'[q][s] = dirty[q][s]
           /\ \A s \in Settled \cap Session :
                Live(rows'[s]) => /\ Live(rows[s])
                                  /\ rows'[s].subject = rows[s].subject
                                  /\ rows'[s].sid = rows[s].sid
<1>1. rows' = [s \in Session |-> Visible(r, s)]
  BY DEF Commit
<1>2. ASSUME NEW q \in Request \ {r}, NEW s \in Session, dirty[q][s] # Clean
      PROVE  rows'[s] = rows[s] /\ dirty'[q][s] = dirty[q][s]
  <2>1. dirty[r][s] = Clean
    BY <1>2 DEF SessionInv, SingleWriter, Holders
  <2> QED
    BY <1>1, <2>1 DEF Visible, Commit, End, SessionInv, TypeOK
<1>3. ASSUME NEW s \in Settled \cap Session, Live(rows'[s])
      PROVE  /\ Live(rows[s]) /\ rows'[s].subject = rows[s].subject
             /\ rows'[s].sid = rows[s].sid
  <2>1. s # minted[r]
    BY DEF Settled
  <2> QED
    BY <1>1, <1>3, <2>1 DEF Visible, SessionInv, Descent
<1> QED
  BY <1>2, <1>3

LEMMA CommitStep ==
    ASSUME SessionInv, TypeOK', StagesOK', NEW r \in Request, Commit(r)
    PROVE  SessionInv'
<1>1. SingleWriter'
  BY DEF Commit, End, SingleWriter, Holders, SessionInv, TypeOK
<1>2. Settled \subseteq Settled' /\ (minted[r] # None => minted[r] \in Settled')
  BY EndSettled DEF Commit
<1>3. \A q \in Request \ {r} :
         /\ todo'[q] = todo[q] /\ chosen'[q] = chosen[q] /\ pc'[q] = pc[q]
         /\ req'[q] = req[q] /\ auth'[q] = auth[q] /\ at'[q] = at[q]
         /\ minted'[q] = minted[q] /\ dirty'[q] = dirty[q]
  BY DEF Commit, End, SessionInv, TypeOK
<1>4. minted'[r] = None /\ \A s \in Session : dirty'[r][s] = Clean
  BY DEF Commit, End, SessionInv, TypeOK
<1>5. MintedOK'
  <2>1. ASSUME NEW q \in Request, minted'[q] # None
        PROVE  q # r /\ minted'[q] = minted[q] /\ rows'[minted[q]] = None
    <3>1. q # r /\ minted'[q] = minted[q]
      BY <2>1, <1>3, <1>4
    <3>2. dirty[q][minted[q]] # Clean /\ minted[q] \in Session /\ rows[minted[q]] = None
      BY <2>1, <3>1, NullAssumption DEF SessionInv, MintedOK, TypeOK
    <3> QED
      BY <3>1, <3>2, CommitRows
  <2>2. \A q \in Request \ {r} : minted[q] # None =>
           /\ minted[q] \in issued' /\ req'[q].op = "login"
           /\ pc'[q] \in {"enforce", "flush", "respond", "commit"}
           /\ dirty'[q][minted[q]] \in Row /\ Live(dirty'[q][minted[q]])
           /\ dirty'[q][minted[q]].subject = req'[q].subject
    BY <1>3 DEF SessionInv, MintedOK, Commit
  <2>3. \A p, q \in Request : minted'[q] # None /\ minted'[p] = minted'[q] => p = q
    BY <2>1 DEF SessionInv, MintedOK
  <2> QED
    BY <2>1, <2>2, <2>3 DEF MintedOK, Live
<1>6. Descent'
  <2>1. ASSUME NEW s \in Session, rows'[s] # None PROVE s \in Settled'
    <3>1. rows'[s] = Visible(r, s)
      BY DEF Commit
    <3> QED
      BY <1>2, <2>1, <3>1, NullAssumption DEF Visible, SessionInv, Descent
  <2>2. ASSUME NEW q \in Request, NEW s \in Session, dirty'[q][s] # Clean
        PROVE  \/ s = minted'[q]
               \/ /\ s \in Settled'
                  /\ Live(dirty'[q][s]) =>
                        /\ Live(rows'[s])
                        /\ dirty'[q][s].subject = rows'[s].subject
                        /\ dirty'[q][s].sid = rows'[s].sid
    <3>1. q # r
      BY <2>2, <1>4
    <3>2. rows'[s] = rows[s] /\ dirty'[q][s] = dirty[q][s] /\ minted'[q] = minted[q]
      BY <2>2, <3>1, <1>3, CommitRows
    <3> QED
      BY <2>2, <3>2, <1>2 DEF SessionInv, Descent
  <2> QED
    BY <2>1, <2>2 DEF Descent, Live
<1>7. ChosenOK'
  <2>1. ASSUME NEW q \in Request \ {r}, NEW s \in Settled \cap Session
        PROVE  Fades(q, s)
    <3>1. CASE dirty[q][s] = Clean
      BY <3>1, <1>3, CommitRows DEF Fades, Visible
    <3>2. CASE dirty[q][s] # Clean
      BY <3>2, <1>3 DEF Fades, Visible
    <3> QED
      BY <3>1, <3>2
  <2>2. ChosenFor(r)'
    BY DEF Commit, End, ChosenFor, SessionInv, TypeOK
  <2> QED
    BY <1>2, <1>3, <2>1, <2>2, ChosenOthers
<1>8. ClosedOK'
  <2>1. closed' = closed \cup chosen[r] /\ todo[r] = {} /\ chosen[r] \subseteq Settled
    BY DEF Commit, SessionInv, ChosenOK, ChosenFor
  <2>2. \A s \in chosen[r] : ~Live(rows'[s])
    BY <2>1 DEF Commit, SessionInv, ChosenOK, ChosenFor, TypeOK, Live
  <2>3. \A s \in closed : ~Live(rows'[s])
    BY CommitRows DEF SessionInv, ClosedOK, ClosedStayClosed, TypeOK
  <2> QED
    BY <1>2, <2>1, <2>2, <2>3 DEF SessionInv, ClosedOK, ClosedStayClosed, Live
<1>9. CleanStart'
  BY <1>3, <1>4 DEF SessionInv, CleanStart
<1> QED
  BY <1>1, <1>5, <1>6, <1>7, <1>8, <1>9 DEF SessionInv

LEMMA DiscardStep ==
    ASSUME SessionInv, TypeOK', StagesOK', NEW r \in Request, Discard(r)
    PROVE  SessionInv'
<1>1. SingleWriter'
  BY DEF Discard, End, SingleWriter, Holders, SessionInv, TypeOK
<1>2. Settled \subseteq Settled'
  BY EndSettled DEF Discard
<1>3. \A q \in Request \ {r} :
         /\ todo'[q] = todo[q] /\ chosen'[q] = chosen[q] /\ pc'[q] = pc[q]
         /\ req'[q] = req[q] /\ auth'[q] = auth[q] /\ at'[q] = at[q]
         /\ minted'[q] = minted[q] /\ dirty'[q] = dirty[q]
  BY DEF Discard, End, SessionInv, TypeOK
<1>4. minted'[r] = None /\ \A s \in Session : dirty'[r][s] = Clean
  BY DEF Discard, End, SessionInv, TypeOK
<1>5. rows' = rows /\ closed' = closed /\ issued' = issued
  BY DEF Discard
<1>6. MintedOK'
  BY <1>3, <1>4, <1>5 DEF MintedOK, SessionInv
<1>7. Descent'
  <2>1. \A s \in Session : rows'[s] # None => s \in Settled'
    BY <1>2, <1>5 DEF SessionInv, Descent
  <2>2. \A q \in Request, s \in Session : dirty'[q][s] # Clean =>
           q # r /\ dirty'[q][s] = dirty[q][s] /\ minted'[q] = minted[q]
    BY <1>3, <1>4
  <2> QED
    BY <1>2, <1>5, <2>1, <2>2 DEF SessionInv, Descent
<1>8. ChosenOK'
  <2>1. \A q \in Request \ {r}, s \in Session : Fades(q, s)
    BY <1>3, <1>5 DEF Fades, Visible
  <2>2. ChosenFor(r)'
    BY DEF Discard, End, ChosenFor, SessionInv, TypeOK
  <2> QED
    BY <1>2, <1>3, <2>1, <2>2, ChosenOthers
<1>9. ClosedOK'
  BY <1>2, <1>5 DEF SessionInv, ClosedOK, ClosedStayClosed
<1>10. CleanStart'
  BY <1>3, <1>4 DEF SessionInv, CleanStart
<1> QED
  BY <1>1, <1>6, <1>7, <1>8, <1>9, <1>10 DEF SessionInv

-----------------------------------------------------------------------------
(* Statements that write no row. *)

\* r alone moves; no version of a row changes, and neither do the login that r
\* may be and the session it has minted.
QuietStep(r) ==
    /\ UNCHANGED <<rows, dirty, issued, minted, closed>>
    /\ \A q \in Request \ {r} :
         /\ todo'[q] = todo[q] /\ chosen'[q] = chosen[q] /\ pc'[q] = pc[q]
         /\ req'[q] = req[q] /\ auth'[q] = auth[q] /\ at'[q] = at[q]
    /\ minted[r] # None => req'[r] = req[r] /\ pc'[r] \in {"flush", "respond", "commit"}
    /\ pc'[r] \in {"idle", "resolve", "expire", "touch"} => pc[r] \in {"idle", "resolve"}

LEMMA QuietRows ==
    ASSUME SessionInv, TypeOK', StagesOK', NEW r \in Request, QuietStep(r), ChosenFor(r)'
    PROVE  SessionInv' /\ AllFade
<1>1. SingleWriter' /\ Descent' /\ ClosedOK'
  BY DEF QuietStep, SessionInv, SingleWriter, Holders, Descent, Settled, ClosedOK,
     ClosedStayClosed
<1>2. MintedOK'
  <2>1. \A q \in Request : minted[q] # None =>
           /\ req'[q] = req[q]
           /\ pc'[q] \in {"enforce", "flush", "respond", "commit"}
    BY DEF QuietStep, SessionInv, MintedOK
  <2> QED
    BY <2>1 DEF QuietStep, SessionInv, MintedOK
<1>3. ChosenOK'
  BY SameRows, ChosenOthers DEF QuietStep
<1>4. CleanStart'
  BY DEF QuietStep, SessionInv, CleanStart
<1>5. AllFade
  BY SameRows DEF QuietStep, AllFade
<1> QED
  BY <1>1, <1>2, <1>3, <1>4, <1>5 DEF SessionInv

\* A request that has nothing left to write, and chooses nothing.
LEMMA NothingChosen ==
    ASSUME SessionInv, NEW r \in Request, UNCHANGED <<rows, dirty, issued, minted>>,
           todo[r] = {}, todo'[r] = {}, chosen'[r] = chosen[r]
    PROVE  ChosenFor(r)'
<1>1. chosen[r] \subseteq Session /\ chosen[r] \subseteq Settled
  BY DEF SessionInv, TypeOK, ChosenOK, ChosenFor
<1>2. \A s \in chosen[r] : ~Live(Visible(r, s)')
  BY <1>1, SameRows DEF SessionInv, ChosenOK, ChosenFor
<1> QED
  BY <1>1, <1>2, SameRows DEF ChosenFor, Live

LEMMA StartStep ==
    ASSUME SessionInv, TypeOK', StagesOK', NEW r \in Request, NEW q, NEW stage,
           Start(r, q, stage)
    PROVE  SessionInv' /\ AllFade
<1>1. minted[r] = None /\ todo[r] = {}
  BY DEF Start, SessionInv, StagesOK, StageOK, ChosenOK, ChosenFor
<1>2. QuietStep(r)
  BY <1>1 DEF Start, Goto, QuietStep, SessionInv, TypeOK
<1>3. ChosenFor(r)'
  BY <1>1, NothingChosen DEF Start
<1> QED
  BY <1>2, <1>3, QuietRows

LEMMA QuietActions ==
    ASSUME SessionInv, TypeOK', StagesOK', NEW r \in Request,
           \/ Arrive(r) \/ Resolve(r) \/ AcquireLock(r) \/ ExchangeCode(r)
           \/ RejectCallback(r) \/ LogoutCentrally(r) \/ FinishBulk(r) \/ Respond(r)
    PROVE  SessionInv' /\ AllFade
<1>1. ASSUME Arrive(r) PROVE SessionInv' /\ AllFade
  BY <1>1, StartStep DEF Arrive, Browse, BrowseRevoke, BrowseCallback, NotifyLogout,
     StartCleanup
<1>2. ASSUME Resolve(r) PROVE SessionInv' /\ AllFade
  <2>1. todo[r] = {} /\ minted[r] = None
    BY <1>2 DEF Resolve, SessionInv, MintedOK, ChosenOK, ChosenFor
  <2>2. QuietStep(r)
    BY <1>2, <2>1 DEF Resolve, Goto, QuietStep, SessionInv, TypeOK
  <2> QED
    BY <1>2, <2>1, <2>2, NothingChosen, QuietRows DEF Resolve
<1>3. ASSUME AcquireLock(r) PROVE SessionInv' /\ AllFade
  <2>1. todo[r] = {} /\ minted[r] = None
    BY <1>3 DEF AcquireLock, SessionInv, MintedOK, ChosenOK, ChosenFor
  <2>2. QuietStep(r)
    BY <1>3, <2>1, NextStage DEF AcquireLock, Goto, QuietStep, SessionInv, TypeOK
  <2> QED
    BY <1>3, <2>1, <2>2, NothingChosen, QuietRows DEF AcquireLock
<1>4. ASSUME ExchangeCode(r) PROVE SessionInv' /\ AllFade
  <2>1. todo[r] = {} /\ minted[r] = None
    BY <1>4 DEF ExchangeCode, SessionInv, MintedOK, ChosenOK, ChosenFor
  <2>2. QuietStep(r)
    <3>1. UNCHANGED <<rows, dirty, issued, minted, closed, todo, chosen, auth, at>>
      BY <1>4 DEF ExchangeCode
    <3>2. pc[r] = "exchange" /\ pc'[r] \in {"insert", "select"}
      BY <1>4 DEF ExchangeCode, Goto, SessionInv, TypeOK
    <3>3. \A q \in Request \ {r} : req'[q] = req[q]
      <4>1. PICK input : req' = [req EXCEPT ![r] = input]
        BY <1>4 DEF ExchangeCode
      <4> QED
        BY <4>1 DEF SessionInv, TypeOK
    <3>4. \A q \in Request \ {r} : pc'[q] = pc[q]
      BY <1>4 DEF ExchangeCode, Goto, SessionInv, TypeOK
    <3> QED
      BY <2>1, <3>1, <3>2, <3>3, <3>4 DEF QuietStep
  <2> QED
    BY <1>4, <2>1, <2>2, NothingChosen, QuietRows DEF ExchangeCode
<1>5. ASSUME RejectCallback(r) PROVE SessionInv' /\ AllFade
  <2>1. todo[r] = {} /\ minted[r] = None
    BY <1>5 DEF RejectCallback, SessionInv, MintedOK, ChosenOK, ChosenFor
  <2>2. QuietStep(r)
    BY <1>5, <2>1 DEF RejectCallback, Goto, QuietStep, SessionInv, TypeOK
  <2> QED
    BY <1>5, <2>1, <2>2, NothingChosen, QuietRows DEF RejectCallback
<1>6. ASSUME LogoutCentrally(r) PROVE SessionInv' /\ AllFade
  <2>1. todo[r] = {} /\ minted[r] = None
    BY <1>6 DEF LogoutCentrally, SessionInv, MintedOK, ChosenOK, ChosenFor
  <2>2. QuietStep(r)
    BY <1>6, <2>1 DEF LogoutCentrally, Goto, QuietStep, SessionInv, TypeOK
  <2> QED
    BY <1>6, <2>1, <2>2, NothingChosen, QuietRows DEF LogoutCentrally
<1>7. ASSUME FinishBulk(r) PROVE SessionInv' /\ AllFade
  <2>1. todo[r] = {} /\ minted[r] = None
    BY <1>7 DEF FinishBulk, SessionInv, MintedOK, ChosenOK, ChosenFor
  <2>2. QuietStep(r)
    BY <1>7, <2>1 DEF FinishBulk, Goto, QuietStep, SessionInv, TypeOK
  <2> QED
    BY <1>7, <2>1, <2>2, NothingChosen, QuietRows DEF FinishBulk
<1>8. ASSUME Respond(r) PROVE SessionInv' /\ AllFade
  <2>1. todo[r] = {} /\ pc[r] = "respond"
    BY <1>8 DEF Respond, SessionInv, MintedOK, ChosenOK, ChosenFor
  <2>2. QuietStep(r)
    BY <1>8, <2>1 DEF Respond, Goto, QuietStep, SessionInv, TypeOK
  <2> QED
    BY <1>8, <2>1, <2>2, NothingChosen, QuietRows DEF Respond
<1> QED
  BY <1>1, <1>2, <1>3, <1>4, <1>5, <1>6, <1>7, <1>8

-----------------------------------------------------------------------------
(* Statements that choose the rows to close. *)

LEMMA SelectOneStep ==
    ASSUME SessionInv, TypeOK', StagesOK', NEW r \in Request, SelectOne(r)
    PROVE  SessionInv' /\ AllFade
<1> DEFINE target == IF req[r].op \in RevokingOne THEN req[r].target ELSE req[r].cookie
<1>1. minted[r] = None /\ target \in Session
  <2>1. minted[r] = None
    BY DEF SelectOne, SessionInv, MintedOK
  <2>2. req[r].target \in NullOr(Session) /\ req[r].cookie \in NullOr(Session)
    BY DEF SessionInv, TypeOK, Input
  <2>3. target # None
    BY DEF SelectOne, SessionInv, StagesOK, StageOK
  <2> QED
    BY <2>1, <2>2, <2>3 DEF NullOr
<1>2. QuietStep(r)
  BY <1>1 DEF SelectOne, Goto, QuietStep, SessionInv, TypeOK
<1>3. Live(Visible(r, target)) => target \in Settled
  BY <1>1, NullAssumption DEF Live, Visible, SessionInv, Descent
<1>4. /\ chosen'[r] = todo'[r] /\ todo'[r] \subseteq Settled
      /\ pc'[r] \notin {"flush", "sweep"} => todo'[r] = {}
      /\ pc'[r] # "sweep"
  BY <1>3 DEF SelectOne, Goto, SessionInv, TypeOK
<1>5. ChosenFor(r)'
  BY <1>2, <1>4, SameRows DEF QuietStep, ChosenFor
<1> QED
  BY <1>2, <1>5, QuietRows

LEMMA StartBulkStep ==
    ASSUME SessionInv, TypeOK', StagesOK', NEW r \in Request, StartBulk(r)
    PROVE  SessionInv' /\ AllFade
<1> DEFINE hits == {s \in Session : Selects(r, s, Visible(r, s))}
<1>1. minted[r] = None
  BY DEF StartBulk, SessionInv, MintedOK
<1>2. QuietStep(r)
  BY <1>1 DEF StartBulk, Goto, QuietStep, SessionInv, TypeOK
<1>3. hits \subseteq Settled
  BY <1>1, NullAssumption DEF Selects, Visible, SessionInv, Descent
<1>4. todo'[r] = hits /\ chosen'[r] = hits /\ pc'[r] = "sweep"
  BY DEF StartBulk, Goto, SessionInv, TypeOK
<1>5. \A s \in hits : Live(Visible(r, s)) => Selects(r, s, Visible(r, s))'
  BY <1>2, SameRows DEF QuietStep, Selects, Live, StartBulk
<1>6. ChosenFor(r)'
  BY <1>2, <1>3, <1>4, <1>5, SameRows DEF QuietStep, ChosenFor, Live
<1> QED
  BY <1>2, <1>6, QuietRows

LEMMA EnforceStep ==
    ASSUME SessionInv, TypeOK', StagesOK', NEW r \in Request, EnforceLimit(r)
    PROVE  SessionInv' /\ AllFade
<1>1. PICK kept \in SUBSET Others(r) : EnforceLimit(r)!(kept)
  BY DEF EnforceLimit
<1> DEFINE surplus == Others(r) \ kept
<1>2. todo[r] = {}
  BY <1>1 DEF SessionInv, ChosenOK, ChosenFor
<1>3. QuietStep(r)
  BY <1>1 DEF Goto, QuietStep, SessionInv, TypeOK
<1>4. surplus \subseteq Settled
  BY NullAssumption DEF Others, Live, Visible, SessionInv, Descent
<1>5. /\ todo'[r] = surplus /\ chosen'[r] = chosen[r] \cup surplus
      /\ pc'[r] = IF surplus = {} THEN "respond" ELSE "flush"
  BY <1>1 DEF Goto, SessionInv, TypeOK
<1>6. ChosenFor(r)'
  <2>1. chosen[r] \subseteq Session /\ chosen[r] \subseteq Settled
    BY DEF SessionInv, TypeOK, ChosenOK, ChosenFor
  <2>2. \A s \in chosen[r] : ~Live(Visible(r, s)')
    BY <1>2, <1>3, <2>1, SameRows DEF QuietStep, SessionInv, ChosenOK, ChosenFor
  <2> QED
    BY <1>3, <1>4, <1>5, <2>1, <2>2, SameRows DEF QuietStep, ChosenFor, Live
<1> QED
  BY <1>3, <1>6, QuietRows

-----------------------------------------------------------------------------
(* Statements that write a row. *)

\* Only r moves, and it writes the settled row s.
LEMMA WriteInv ==
    ASSUME SessionInv, TypeOK', StagesOK', NEW r \in Request, NEW s \in Session,
           NEW row, WriteStep(r, s, row), UNCHANGED req,
           \A q \in Request \ {r} :
               /\ todo'[q] = todo[q] /\ chosen'[q] = chosen[q] /\ pc'[q] = pc[q]
               /\ auth'[q] = auth[q] /\ at'[q] = at[q],
           minted[r] # None => pc'[r] \in {"flush", "respond"},
           pc'[r] \notin {"idle", "resolve", "expire", "touch"},
           ChosenFor(r)'
    PROVE  SessionInv' /\ AllFade
<1>1. Settled' = Settled
  BY DEF WriteStep, Settled
<1>2. ChosenOK'
  BY <1>1, WriteFades, ChosenOthers
<1>3. CleanStart'
  BY DEF WriteStep, Write, SessionInv, CleanStart, TypeOK
<1>4. AllFade
  BY WriteFades DEF AllFade
<1> QED
  BY <1>2, <1>3, <1>4, WriteRows, WriteMinted DEF SessionInv

\* Before its work begins a request has chosen nothing to close.
LEMMA ResolveWrite ==
    ASSUME SessionInv, TypeOK', StagesOK', NEW r \in Request, NEW s \in Session,
           NEW row \in Row, MayWrite(r, s), rows[s] # None,
           pc[r] \in {"expire", "touch"}, Write(r, s, row),
           Live(row) => /\ Live(rows[s]) /\ row.subject = rows[s].subject
                        /\ row.sid = rows[s].sid,
           dirty[r][s] = Clean,
           UNCHANGED <<rows, issued, closed, minted, req, auth, at, todo, chosen>>,
           NEW stage \in {"refuse", "respond", "select", "lock"}, Goto(r, stage)
    PROVE  SessionInv' /\ AllFade
<1>1. minted[r] = None /\ todo[r] = {}
  BY DEF SessionInv, MintedOK, ChosenOK, ChosenFor
<1>2. s \in Settled
  BY DEF SessionInv, Descent
<1>3. WriteStep(r, s, row)
  BY <1>2 DEF WriteStep, Visible, NullOr
<1>4. pc'[r] = stage /\ \A q \in Request \ {r} : pc'[q] = pc[q]
  BY DEF Goto, SessionInv, TypeOK
<1>5. ChosenFor(r)'
  <2>1. Settled' = Settled
    BY DEF Settled
  <2>2. chosen[r] \subseteq Session /\ chosen[r] \subseteq Settled
    BY DEF SessionInv, TypeOK, ChosenOK, ChosenFor
  <2>3. \A x \in chosen[r] : ~Live(Visible(r, x)')
    BY <1>1, <1>3, <2>2, WriteFades DEF Fades, SessionInv, ChosenOK, ChosenFor
  <2> QED
    BY <1>1, <1>4, <2>1, <2>2, <2>3 DEF ChosenFor, Live
<1> QED
  BY <1>1, <1>3, <1>4, <1>5, WriteInv

\* At these stages the request has written nothing yet.
LEMMA ExpireStep ==
    ASSUME SessionInv, TypeOK', StagesOK', NEW r \in Request, Expire(r)
    PROVE  SessionInv' /\ AllFade
<1> DEFINE c == req[r].cookie
           row == Revoked(rows[c], at[r])
<1>1. c \in Session /\ rows[c] \in Row /\ at[r] \in Nat
  BY DEF Expire, SessionInv, TypeOK, StagesOK, StageOK, NullOr, Input
<1>2. row \in Row /\ ~Live(row)
  BY <1>1, RevokedRow, NullAssumption DEF Live
<1>3. dirty[r][c] = Clean
  BY <1>1 DEF Expire, SessionInv, CleanStart
<1> QED
  BY <1>1, <1>2, <1>3, NextStage, ResolveWrite DEF Expire

LEMMA TouchStep ==
    ASSUME SessionInv, TypeOK', StagesOK', NEW r \in Request, Touch(r)
    PROVE  SessionInv' /\ AllFade
<1> DEFINE c        == req[r].cookie
           deadline == Earlier(at[r] + IdleTimeout, auth[r].absolute)
           idle     == IF deadline = auth[r].idle THEN rows[c].idle ELSE deadline
           row      == Used(rows[c], at[r], idle)
<1>1. c \in Session /\ rows[c] \in Row /\ at[r] \in Nat /\ auth[r] \in Row
  BY DEF Touch, SessionInv, TypeOK, StagesOK, StageOK, NullOr, Input
<1>2. idle \in Nat
  BY <1>1, TimeAssumption DEF Earlier, Row
<1> HIDE DEF c, idle
<1>3. /\ row \in Row /\ row.subject = rows[c].subject /\ row.sid = rows[c].sid
      /\ row.revoked = rows[c].revoked
  BY <1>1, <1>2, UsedRow
<1>4. dirty[r][c] = Clean
  <2>1. pc[r] = "touch"
    BY DEF Touch
  <2> QED
    BY <1>1, <2>1 DEF SessionInv, CleanStart
<1>5. Live(row) => Live(rows[c])
  BY <1>1, <1>3, NullAssumption DEF Live
<1>6. Entry(req[r].op) \in {"refuse", "respond", "select", "lock"}
  BY NextStage
<1> HIDE DEF row
<1>7. Write(r, c, row)
  BY DEF Touch, row, idle, c, deadline
<1>8. /\ pc[r] = "touch" /\ MayWrite(r, c) /\ rows[c] # None
      /\ Goto(r, Entry(req[r].op))
      /\ UNCHANGED <<rows, issued, closed, minted, req, auth, at, todo, chosen>>
  BY DEF Touch, c
<1> QED
  BY <1>1, <1>3, <1>4, <1>5, <1>6, <1>7, <1>8, ResolveWrite

\* Writing a closed version of a row of the list, or finding it closed.
LEMMA CloseRow ==
    ASSUME SessionInv, NEW r \in Request, NEW s \in todo[r],
           \A x \in Session : Fades(r, x),
           ~Live(Visible(r, s)'),
           UNCHANGED <<issued, minted, req>>, auth'[r] = auth[r], at'[r] = at[r],
           todo'[r] = todo[r] \ {s}, chosen'[r] = chosen[r],
           pc'[r] \notin {"flush", "sweep"} => todo'[r] = {},
           pc'[r] = "sweep" => pc[r] = "sweep"
    PROVE  ChosenFor(r)'
<1>1. Settled' = Settled
  BY DEF Settled
<1>2. chosen[r] \subseteq Session /\ chosen[r] \subseteq Settled /\ todo[r] \subseteq chosen[r]
  BY DEF SessionInv, TypeOK, ChosenOK, ChosenFor
<1>3. \A x \in chosen[r] \ todo'[r] : ~Live(Visible(r, x)')
  BY <1>2 DEF Fades, SessionInv, ChosenOK, ChosenFor
<1>4. ASSUME pc'[r] = "sweep", NEW x \in todo'[r], Live(Visible(r, x)')
      PROVE  Selects(r, x, Visible(r, x))'
  <2>1. /\ Live(Visible(r, x)) /\ Selects(r, x, Visible(r, x))
        /\ Visible(r, x)'.subject = Visible(r, x).subject
        /\ Visible(r, x)'.sid = Visible(r, x).sid
    BY <1>2, <1>4 DEF SessionInv, ChosenOK, ChosenFor, Fades
  <2> QED
    BY <1>4, <2>1 DEF Selects, Live
<1> QED
  BY <1>1, <1>2, <1>3, <1>4 DEF ChosenFor, Live

\* Every request at "flush" or "sweep" that writes a row of its list closes it.
LEMMA FlushStep ==
    ASSUME SessionInv, TypeOK', StagesOK', NEW r \in Request, FlushRow(r)
    PROVE  SessionInv' /\ AllFade
<1>1. PICK s \in todo[r] : FlushRow(r)!(s)
  BY DEF FlushRow
<1> DEFINE row == Revoked(Visible(r, s), at[r])
<1>2. s \in Session /\ s \in Settled /\ s \in chosen[r] /\ chosen[r] \subseteq Session
  BY DEF SessionInv, TypeOK, ChosenOK, ChosenFor
<1>3. Visible(r, s) \in Row /\ at[r] \in Nat
  BY <1>1, <1>2, VisibleType DEF SessionInv, TypeOK, NullOr
<1>4. row \in Row /\ ~Live(row)
  BY <1>3, RevokedRow, NullAssumption DEF Live
<1>5. WriteStep(r, s, row)
  BY <1>1, <1>2, <1>4 DEF WriteStep, NullOr
<1>6. /\ todo'[r] = todo[r] \ {s} /\ chosen'[r] = chosen[r]
      /\ pc'[r] \in {"flush", "insert", "respond"}
      /\ pc'[r] # "flush" => todo'[r] = {}
      /\ minted[r] # None => pc'[r] \in {"flush", "respond"}
      /\ \A q \in Request \ {r} :
           /\ todo'[q] = todo[q] /\ chosen'[q] = chosen[q] /\ pc'[q] = pc[q]
           /\ auth'[q] = auth[q] /\ at'[q] = at[q]
  BY <1>1 DEF Goto, SessionInv, TypeOK
<1>7. ChosenFor(r)'
  <2>1. Visible(r, s)' = row
    BY <1>2, <1>4, <1>5, NullAssumption DEF WriteStep, Write, Visible, SessionInv,
       TypeOK, NullOr
  <2> QED
    BY <1>1, <1>2, <1>4, <1>5, <1>6, <2>1, WriteFades, CloseRow DEF WriteStep
<1> QED
  BY <1>1, <1>2, <1>5, <1>6, <1>7, WriteInv

LEMMA SweepStep ==
    ASSUME SessionInv, TypeOK', StagesOK', NEW r \in Request, SweepRow(r)
    PROVE  SessionInv' /\ AllFade
<1>1. PICK s \in todo[r] : SweepRow(r)!(s)
  BY DEF SweepRow
<1> DEFINE row == Outcome(r, Visible(r, s))
<1>2. s \in Session /\ s \in Settled /\ minted[r] = None /\ todo[r] \subseteq Session
  BY <1>1 DEF SessionInv, TypeOK, ChosenOK, ChosenFor, MintedOK
<1>3. /\ todo'[r] = todo[r] \ {s} /\ chosen'[r] = chosen[r] /\ pc'[r] = "sweep"
      /\ \A q \in Request \ {r} :
           /\ todo'[q] = todo[q] /\ chosen'[q] = chosen[q] /\ pc'[q] = pc[q]
           /\ req'[q] = req[q] /\ auth'[q] = auth[q] /\ at'[q] = at[q]
  BY <1>1 DEF SessionInv, TypeOK
<1>4. CASE Selects(r, s, Visible(r, s))
  <2>1. Visible(r, s) \in Row /\ at[r] \in Nat
    BY <1>2, <1>4, VisibleType DEF SessionInv, TypeOK, Selects, NullOr
  <2>2. row \in NullOr(Row) /\ ~Live(row)
    BY <2>1, RevokedRow, NullAssumption DEF Outcome, Live, NullOr
  <2>3. WriteStep(r, s, row)
    BY <1>1, <1>2, <1>4, <2>2 DEF WriteStep
  <2>4. Visible(r, s)' = row
    BY <1>2, <2>2, <2>3, NullAssumption DEF WriteStep, Write, Visible, SessionInv,
       TypeOK,
       NullOr
  <2>5. ChosenFor(r)'
    BY <1>1, <1>2, <1>3, <2>2, <2>3, <2>4, WriteFades, CloseRow
  <2> QED
    BY <1>1, <1>2, <1>3, <2>3, <2>5, WriteInv
<1>5. CASE ~Selects(r, s, Visible(r, s))
  <2>1. UNCHANGED <<rows, dirty, issued, minted, closed, req, auth, at, pc>>
    BY <1>1, <1>5
  <2>2. ~Live(Visible(r, s))
    BY <1>1, <1>5 DEF SessionInv, ChosenOK, ChosenFor
  <2>3. ChosenFor(r)'
    BY <1>1, <1>2, <1>3, <2>1, <2>2, SameRows, CloseRow
  <2>4. QuietStep(r)
    BY <1>1, <1>2, <1>3, <2>1 DEF QuietStep
  <2> QED
    BY <2>3, <2>4, QuietRows
<1> QED
  BY <1>4, <1>5

LEMMA InsertStep ==
    ASSUME SessionInv, TypeOK', StagesOK', NEW r \in Request, InsertSession(r)
    PROVE  SessionInv'
<1>1. PICK s \in Session \ issued : InsertSession(r)!(s)
  BY DEF InsertSession
<1> DEFINE row == NewRow(r)
<1>2. row \in Row
  BY <1>1, TimeAssumption DEF NewRow, SessionInv, TypeOK, StagesOK, StageOK, Row, Input,
     NullOr
<1>3. /\ rows[s] = None
      /\ \A q \in Request : dirty[q][s] = Clean /\ minted[q] # s
  BY NewIdentifier
<1>4. minted[r] = None /\ todo[r] = {} /\ pc'[r] = "enforce"
  BY <1>1 DEF Goto, SessionInv, MintedOK, ChosenOK, ChosenFor, TypeOK
<1>5. /\ minted' = [minted EXCEPT ![r] = s] /\ issued' = issued \cup {s}
      /\ dirty' = [dirty EXCEPT ![r][s] = row]
      /\ UNCHANGED <<rows, closed, req, auth, at, todo, chosen>>
      /\ \A q \in Request \ {r} : pc'[q] = pc[q]
  BY <1>1 DEF Write, Goto, SessionInv, TypeOK
<1>6. Settled' = Settled /\ s \notin Settled
  BY <1>3, <1>4, <1>5, NullAssumption DEF Settled, SessionInv, TypeOK
<1>7. SingleWriter'
  BY <1>3, <1>5 DEF SingleWriter, Holders, SessionInv, TypeOK
<1>8. CleanStart'
  BY <1>4, <1>5 DEF CleanStart, SessionInv, TypeOK
<1>9. \A q \in Request, x \in Session :
         dirty'[q][x] = IF q = r /\ x = s THEN row ELSE dirty[q][x]
  BY <1>5 DEF SessionInv, TypeOK
<1>10. MintedOK'
  <2>1. \A q \in Request : minted'[q] = IF q = r THEN s ELSE minted[q]
    BY <1>5 DEF SessionInv, TypeOK
  <2>2. Live(row) /\ row.subject = req[r].subject
    BY <1>2, NullAssumption DEF Live, NewRow
  <2>3. req[r].op = "login"
    BY <1>1 DEF SessionInv, StagesOK, StageOK
  <2>4. ASSUME NEW q \in Request, minted'[q] # None, q # r
        PROVE  /\ minted'[q] = minted[q] /\ minted[q] \in Session /\ minted[q] # s
               /\ dirty'[q][minted[q]] = dirty[q][minted[q]] /\ pc'[q] = pc[q]
    BY <1>3, <1>5, <1>9, <2>1, <2>4, NullAssumption DEF SessionInv, MintedOK, TypeOK,
       NullOr
  <2>5. ASSUME NEW q \in Request, minted'[q] # None
        PROVE  /\ req'[q].op = "login"
               /\ pc'[q] \in {"enforce", "flush", "respond", "commit"}
               /\ minted'[q] \in issued' /\ rows'[minted'[q]] = None
               /\ dirty'[q][minted'[q]] \in Row
               /\ Live(dirty'[q][minted'[q]])
               /\ dirty'[q][minted'[q]].subject = req'[q].subject
    <3>1. CASE q = r
      BY <1>2, <1>3, <1>4, <1>5, <1>9, <2>1, <2>2, <2>3, <3>1
    <3>2. CASE q # r
      BY <1>5, <2>4, <2>5, <3>2 DEF SessionInv, MintedOK
    <3> QED
      BY <3>1, <3>2
  <2>6. \A p, q \in Request : minted'[q] # None /\ minted'[p] = minted'[q] => p = q
    BY <1>3, <2>1 DEF SessionInv, MintedOK
  <2> QED
    BY <2>5, <2>6 DEF MintedOK, Live
<1>11. Descent'
  <2>1. \A x \in Session : rows'[x] # None => x \in Settled'
    BY <1>5, <1>6 DEF SessionInv, Descent
  <2>2. ASSUME NEW q \in Request, NEW x \in Session, dirty'[q][x] # Clean
        PROVE  \/ x = minted'[q]
               \/ /\ x \in Settled'
                  /\ Live(dirty'[q][x]) =>
                        /\ Live(rows'[x])
                        /\ dirty'[q][x].subject = rows'[x].subject
                        /\ dirty'[q][x].sid = rows'[x].sid
    <3>1. CASE q = r /\ x = s
      BY <3>1, <1>5 DEF SessionInv, TypeOK
    <3>2. CASE ~(q = r /\ x = s)
      <4>1. dirty'[q][x] = dirty[q][x]
        BY <1>9, <3>2
      <4>2. x # minted[q] \/ minted'[q] = minted[q]
        BY <1>4, <1>5, NullAssumption DEF SessionInv, TypeOK
      <4> QED
        BY <1>5, <1>6, <2>2, <4>1, <4>2 DEF SessionInv, Descent
    <3> QED
      BY <3>1, <3>2
  <2> QED
    BY <2>1, <2>2 DEF Descent, Live
<1>12. ChosenOK'
  <2>1. ASSUME NEW q \in Request, NEW x \in Settled \cap Session PROVE Fades(q, x)
    BY <1>5, <1>6, <1>9 DEF Fades, Visible
  <2>2. ChosenFor(r)'
    <3>1. chosen[r] \subseteq Settled \cap Session
      BY DEF SessionInv, TypeOK, ChosenOK, ChosenFor
    <3>2. \A x \in chosen[r] : ~Live(Visible(r, x)')
      BY <1>4, <2>1, <3>1 DEF Fades, SessionInv, ChosenOK, ChosenFor
    <3> QED
      BY <1>4, <1>5, <1>6, <3>1, <3>2 DEF ChosenFor, Live
  <2> QED
    BY <1>5, <1>6, <2>1, <2>2, ChosenOthers
<1>13. ClosedOK'
  BY <1>5, <1>6 DEF SessionInv, ClosedOK, ClosedStayClosed
<1> QED
  BY <1>7, <1>8, <1>10, <1>11, <1>12, <1>13 DEF SessionInv

-----------------------------------------------------------------------------

LEMMA InvInit == Init => SessionInv
<1> SUFFICES ASSUME Init PROVE SessionInv
  OBVIOUS
<1>1. TypeOK /\ StagesOK
  BY TypeInit
<1>2. SingleWriter /\ CleanStart /\ MintedOK
  BY DEF Init, SingleWriter, Holders, CleanStart, MintedOK
<1>3. Descent /\ ChosenOK /\ ClosedOK
  BY DEF Init, Descent, ChosenOK, ChosenFor, ClosedOK, ClosedStayClosed
<1> QED
  BY <1>1, <1>2, <1>3 DEF SessionInv

LEMMA InvStep == ASSUME SessionInv, [Next]_vars PROVE SessionInv'
<1>1. TypeOK' /\ StagesOK'
  BY TypeStep, StageStep DEF SessionInv
<1>2. CASE UNCHANGED vars \/ Tick
  <2>1. UNCHANGED <<rows, issued, closed, requestVars>>
    BY <1>2 DEF Tick, vars
  <2>2. SingleWriter' /\ CleanStart' /\ MintedOK'
    BY <2>1 DEF requestVars, SessionInv, SingleWriter, Holders, CleanStart, MintedOK
  <2>3. Descent' /\ ClosedOK'
    BY <2>1 DEF requestVars, SessionInv, Descent, Settled, ClosedOK, ClosedStayClosed
  <2>4. ChosenOK'
    BY <2>1, SameRows, ChosenFrame DEF requestVars, ChosenOK
  <2> QED
    BY <1>1, <2>2, <2>3, <2>4 DEF SessionInv
<1>3. ASSUME NEW r \in Request, Arrive(r) \/ Run(r) \/ Fail(r) PROVE SessionInv'
  BY <1>1, <1>3, QuietActions, SelectOneStep, StartBulkStep, EnforceStep, ExpireStep,
     TouchStep, FlushStep, SweepStep, InsertStep, CommitStep, DiscardStep
     DEF Run, Refuse, LoseRow, AbortVictim, Fail
<1> QED
  BY <1>2, <1>3 DEF Next

\* The row versions of all transactions fit together in every reachable state.
THEOREM SessionInvariant == Spec => []SessionInv
<1>1. Init => SessionInv
  BY InvInit
<1>2. SessionInv /\ [Next]_vars => SessionInv'
  BY InvStep
<1> QED
  BY <1>1, <1>2, PTL DEF Spec

\* A session that a committed logout, revocation, rotation, limit or logout token
\* chose to close is never unrevoked in the database again.
THEOREM ClosedForever == Spec => []ClosedStayClosed
<1>1. SessionInv => ClosedStayClosed
  BY DEF SessionInv, ClosedOK
<1> QED
  BY <1>1, SessionInvariant, PTL

\* resolve never admits a request on a session that a committed request has chosen to
\* close, nor on one whose login has not committed: what it reads is the committed row.
THEOREM AdmissionsSound == Spec => AdmissionSound
<1>1. ASSUME SessionInv, [Next]_vars, NEW r \in Request, auth[r] = None, auth'[r] # None
      PROVE  /\ req[r].cookie \notin closed
             /\ \A q \in Request : minted[q] # req[r].cookie
  <2>1. Resolve(r) /\ Live(rows[req[r].cookie]) /\ req[r].cookie \in Session
    <3>1. \A q \in Request : /\ Arrive(q) => auth' = auth
                             /\ Run(q) /\ ~Resolve(q) => auth' = auth \/ End(q)
                             /\ Fail(q) => End(q)
      <4>1. \A q \in Request : Arrive(q) => auth' = auth
        BY DEF Arrive, Browse, BrowseRevoke, BrowseCallback, NotifyLogout, StartCleanup, Start
      <4>2. \A q \in Request : Expire(q) \/ Touch(q) \/ AcquireLock(q) \/ ExchangeCode(q)
               \/ RejectCallback(q) \/ SelectOne(q) \/ FlushRow(q) \/ InsertSession(q)
               \/ EnforceLimit(q) => auth' = auth
        BY DEF Expire, Touch, AcquireLock, ExchangeCode, RejectCallback, SelectOne, FlushRow,
           InsertSession, EnforceLimit
      <4>3. \A q \in Request : LogoutCentrally(q) \/ StartBulk(q) \/ SweepRow(q)
               \/ FinishBulk(q) \/ Respond(q) => auth' = auth
        BY DEF LogoutCentrally, StartBulk, SweepRow, FinishBulk, Respond
      <4>4. \A q \in Request : Commit(q) \/ Refuse(q) \/ LoseRow(q) \/ AbortVictim(q)
               \/ Fail(q) => End(q)
        BY DEF Commit, Refuse, LoseRow, AbortVictim, Fail, Discard
      <4> QED
        BY <4>1, <4>2, <4>3, <4>4 DEF Run
    <3>2. PICK q \in Request : Resolve(q) \/ End(q)
      BY <1>1, <3>1 DEF Next, Tick, vars, requestVars
    <3>3. Resolve(r)
      BY <1>1, <3>2 DEF Resolve, End, SessionInv, TypeOK
    <3> QED
      BY <1>1, <3>3, NullAssumption
         DEF Resolve, Usable, Live, SessionInv, TypeOK, Input, NullOr
  <2>2. req[r].cookie \notin closed
    BY <1>1, <2>1 DEF SessionInv, ClosedOK, ClosedStayClosed
  <2>3. rows[req[r].cookie] # None /\ req[r].cookie # None
    BY <2>1, NullAssumption DEF Live
  <2>4. \A q \in Request : minted[q] # req[r].cookie
    BY <1>1, <2>3 DEF SessionInv, MintedOK
  <2> QED
    BY <2>2, <2>4
<1>2. SessionInv /\ [Next]_vars =>
         \A r \in Request : auth[r] = None /\ auth'[r] # None =>
             /\ req[r].cookie \notin closed
             /\ \A q \in Request : minted[q] # req[r].cookie
  BY <1>1
<1> QED
  BY <1>2, SessionInvariant, PTL DEF Spec, AdmissionSound

-----------------------------------------------------------------------------
(* The deadlines. *)

\* A step that changes no version of a row and loads none.
LEMMA DeadlineQuiet ==
    ASSUME DeadlinesOK, UNCHANGED <<rows, dirty, minted, issued, auth>>,
           \A q \in Request :
               /\ auth[q] # None => req'[q].cookie = req[q].cookie
               /\ pc'[q] = "touch" => pc[q] = "touch" /\ at'[q] = at[q]
    PROVE  DeadlinesOK'
BY DEF DeadlinesOK, IdleJustified, Settled, Follows

LEMMA DeadlineStart ==
    ASSUME SessionInv, DeadlinesOK, NEW r \in Request, NEW q, NEW stage, stage # "touch",
           Start(r, q, stage)
    PROVE  DeadlinesOK'
<1>1. auth[r] = None
  BY DEF Start, SessionInv, StagesOK, StageOK
<1> QED
  BY <1>1, DeadlineQuiet DEF Start, Goto, SessionInv, TypeOK

LEMMA DeadlineResolve ==
    ASSUME SessionInv, DeadlinesOK, NEW r \in Request, Resolve(r)
    PROVE  DeadlinesOK'
<1> DEFINE c == req[r].cookie
<1>1. UNCHANGED <<rows, dirty, minted, issued, req, at>>
  BY DEF Resolve
<1>2. ASSUME NEW q \in Request
      PROVE  /\ auth'[q] # None =>
                   /\ auth'[q].idle <= auth'[q].seen + IdleTimeout
                   /\ req[q].cookie \in Settled
                   /\ rows[req[q].cookie] # None => Follows(auth'[q], rows[req[q].cookie])
             /\ pc'[q] = "touch" => auth'[q].seen < at[q]
  <2>1. CASE q # r \/ auth' = auth
    <3>1. auth'[q] = auth[q]
      BY <2>1 DEF Resolve, SessionInv, TypeOK
    <3>2. pc'[q] = "touch" => pc[q] = "touch"
      <4>1. CASE q = r
        <5>1. auth[r] = None
          BY DEF Resolve, SessionInv, StagesOK, StageOK
        <5>2. pc'[r] = IF Live(rows[c]) /\ c # None THEN "expire" ELSE Unauthenticated(req[r].op)
          BY <3>1, <4>1, <5>1 DEF Resolve, Goto, SessionInv, TypeOK, Usable, Live
        <5> QED
          BY <4>1, <5>2, NextStage
      <4>2. CASE q # r
        BY <4>2 DEF Resolve, Goto, SessionInv, TypeOK
      <4> QED
        BY <4>1, <4>2
    <3> QED
      BY <3>1, <3>2 DEF DeadlinesOK
  <2>2. CASE q = r /\ auth' # auth
    <3>1. /\ c \in Session /\ rows[c] \in Row /\ auth'[r] = rows[c]
          /\ pc'[r] = IF at[r] - rows[c].seen >= TouchAfter THEN "touch" ELSE Entry(req[r].op)
      BY <2>2, NullAssumption
         DEF Resolve, Goto, Usable, Live, SessionInv, TypeOK, Input, NullOr
    <3>2. c \in Settled /\ rows[c].idle <= rows[c].seen + IdleTimeout
      BY <3>1, NullAssumption DEF SessionInv, Descent, DeadlinesOK, IdleJustified
    <3>3. pc'[r] = "touch" => rows[c].seen < at[r]
      <4>1. rows[c].seen \in Nat /\ at[r] \in Nat /\ Entry(req[r].op) # "touch"
        BY <3>1, NextStage DEF Row, SessionInv, TypeOK
      <4> QED
        BY <3>1, <4>1, TimeAssumption
    <3> QED
      BY <2>2, <3>1, <3>2, <3>3 DEF Follows
  <2> QED
    BY <2>1, <2>2
<1> QED
  BY <1>1, <1>2 DEF DeadlinesOK, IdleJustified, Settled, Follows

\* r writes a version that follows the committed one.
LEMMA DeadlineWrite ==
    ASSUME SessionInv, DeadlinesOK, NEW r \in Request, NEW s \in Session, NEW row,
           Write(r, s, row), UNCHANGED <<rows, minted, issued, auth, req>>,
           row # None => /\ row.idle <= row.seen + IdleTimeout
                         /\ rows[s] # None /\ Follows(rows[s], row),
           \A q \in Request : pc'[q] = "touch" => pc[q] = "touch" /\ at'[q] = at[q]
    PROVE  DeadlinesOK'
<1>1. \A q \in Request, x \in Session :
         dirty'[q][x] = IF q = r /\ x = s THEN row ELSE dirty[q][x]
  BY DEF Write, SessionInv, TypeOK
<1> QED
  BY <1>1 DEF DeadlinesOK, IdleJustified, Settled, Follows

\* The version that r sees of a settled row follows the committed one.
LEMMA DeadlineVisible ==
    ASSUME SessionInv, DeadlinesOK, NEW r \in Request, NEW s \in Session, s \in Settled,
           Visible(r, s) # None
    PROVE  /\ Visible(r, s) \in Row
           /\ Visible(r, s).idle <= Visible(r, s).seen + IdleTimeout
           /\ rows[s] # None /\ Follows(rows[s], Visible(r, s))
<1>1. s # minted[r]
  BY DEF Settled
<1>2. Visible(r, s) \in Row
  BY VisibleType DEF SessionInv, NullOr
<1> QED
  BY <1>1, <1>2 DEF DeadlinesOK, IdleJustified, Visible, Follows

LEMMA RevokedDeadline ==
    ASSUME NEW row \in Row, NEW t
    PROVE  /\ Revoked(row, t).idle = row.idle /\ Revoked(row, t).seen = row.seen
           /\ Revoked(row, t).absolute = row.absolute
BY DEF Revoked, Row

LEMMA DeadlineExpire ==
    ASSUME SessionInv, DeadlinesOK, NEW r \in Request, Expire(r)
    PROVE  DeadlinesOK'
<1> DEFINE c == req[r].cookie
<1>1. c \in Session /\ rows[c] \in Row /\ rows[c] # None
  BY DEF Expire, SessionInv, TypeOK, StagesOK, StageOK, NullOr, Input
<1>2. /\ Write(r, c, Revoked(rows[c], at[r]))
      /\ UNCHANGED <<rows, minted, issued, auth, req, at>>
  BY DEF Expire
<1>3. /\ Revoked(rows[c], at[r]).idle <= Revoked(rows[c], at[r]).seen + IdleTimeout
      /\ Follows(rows[c], Revoked(rows[c], at[r]))
  BY <1>1, RevokedDeadline DEF DeadlinesOK, IdleJustified, Follows
<1>4. \A q \in Request : pc'[q] = "touch" => pc[q] = "touch"
  BY NextStage DEF Expire, Goto, SessionInv, TypeOK
<1> HIDE DEF c
<1> QED
  BY <1>1, <1>2, <1>3, <1>4, DeadlineWrite

\* A touch never leaves a deadline that outruns its own time: when the ORM finds the
\* new deadline in the row it loaded and leaves the column out, both are the absolute one.
LEMMA DeadlineTouch ==
    ASSUME SessionInv, DeadlinesOK, NEW r \in Request, Touch(r)
    PROVE  DeadlinesOK'
<1> DEFINE c        == req[r].cookie
           deadline == Earlier(at[r] + IdleTimeout, auth[r].absolute)
           idle     == IF deadline = auth[r].idle THEN rows[c].idle ELSE deadline
<1>1. /\ c \in Session /\ rows[c] \in Row /\ rows[c] # None
      /\ at[r] \in Nat /\ auth[r] \in Row /\ auth[r] # None
  BY NullAssumption DEF Touch, SessionInv, TypeOK, StagesOK, StageOK, NullOr, Input
<1>2. /\ auth[r].idle <= auth[r].seen + IdleTimeout /\ auth[r].seen < at[r]
      /\ Follows(auth[r], rows[c])
  BY <1>1 DEF Touch, DeadlinesOK
<1>3. /\ auth[r].idle \in Nat /\ auth[r].seen \in Nat /\ auth[r].absolute \in Nat
      /\ rows[c].idle \in Nat /\ rows[c].absolute \in Nat
  BY <1>1 DEF Row
<1>4. idle <= at[r] + IdleTimeout /\ (rows[c].idle <= rows[c].absolute => idle <= rows[c].absolute)
  BY <1>1, <1>2, <1>3, TimeAssumption DEF Earlier, Follows
<1>5. /\ Write(r, c, Used(rows[c], at[r], idle))
      /\ UNCHANGED <<rows, minted, issued, auth, req, at>>
  BY DEF Touch
<1>6. \A q \in Request : pc'[q] = "touch" => pc[q] = "touch"
  BY NextStage DEF Touch, Goto, SessionInv, TypeOK
<1> HIDE DEF c, idle
<1>7. /\ Used(rows[c], at[r], idle).idle <= Used(rows[c], at[r], idle).seen + IdleTimeout
      /\ Follows(rows[c], Used(rows[c], at[r], idle))
  BY <1>4 DEF Used, Follows
<1> QED
  BY <1>1, <1>5, <1>6, <1>7, DeadlineWrite

LEMMA DeadlineFlush ==
    ASSUME SessionInv, DeadlinesOK, NEW r \in Request, FlushRow(r)
    PROVE  DeadlinesOK'
<1>1. PICK s \in todo[r] : FlushRow(r)!(s)
  BY DEF FlushRow
<1>2. s \in Session /\ s \in Settled
  BY DEF SessionInv, TypeOK, ChosenOK, ChosenFor
<1>3. /\ Visible(r, s) \in Row /\ rows[s] # None /\ Follows(rows[s], Visible(r, s))
      /\ Visible(r, s).idle <= Visible(r, s).seen + IdleTimeout
  BY <1>1, <1>2, DeadlineVisible
<1> DEFINE row == Revoked(Visible(r, s), at[r])
<1>4. row.idle <= row.seen + IdleTimeout /\ Follows(rows[s], row)
  BY <1>3, RevokedDeadline DEF Follows
<1>5. Write(r, s, row) /\ UNCHANGED <<rows, minted, issued, auth, req, at>>
  BY <1>1
<1>6. \A q \in Request : pc'[q] = "touch" => pc[q] = "touch"
  BY <1>1 DEF Goto, SessionInv, TypeOK
<1> HIDE DEF row
<1> QED
  BY <1>2, <1>3, <1>4, <1>5, <1>6, DeadlineWrite

LEMMA DeadlineSweep ==
    ASSUME SessionInv, DeadlinesOK, NEW r \in Request, SweepRow(r)
    PROVE  DeadlinesOK'
<1>1. PICK s \in todo[r] : SweepRow(r)!(s)
  BY DEF SweepRow
<1>2. s \in Session /\ s \in Settled
  BY DEF SessionInv, TypeOK, ChosenOK, ChosenFor
<1>3. UNCHANGED <<rows, minted, issued, auth, req, at, pc>>
  BY <1>1
<1>4. CASE Selects(r, s, Visible(r, s))
  <2> DEFINE row == Outcome(r, Visible(r, s))
  <2>1. /\ Visible(r, s) \in Row /\ rows[s] # None /\ Follows(rows[s], Visible(r, s))
        /\ Visible(r, s).idle <= Visible(r, s).seen + IdleTimeout
    BY <1>2, <1>4, DeadlineVisible DEF Selects
  <2>2. row # None => row.idle <= row.seen + IdleTimeout /\ Follows(rows[s], row)
    BY <2>1, RevokedDeadline DEF Outcome, Follows
  <2>3. Write(r, s, row)
    BY <1>1, <1>4
  <2> HIDE DEF row
  <2> QED
    BY <1>2, <1>3, <2>1, <2>2, <2>3, DeadlineWrite
<1>5. CASE ~Selects(r, s, Visible(r, s))
  BY <1>1, <1>3, <1>5, DeadlineQuiet
<1> QED
  BY <1>4, <1>5

LEMMA DeadlineInsert ==
    ASSUME SessionInv, DeadlinesOK, NEW r \in Request, InsertSession(r)
    PROVE  DeadlinesOK'
<1>1. PICK s \in Session \ issued : InsertSession(r)!(s)
  BY DEF InsertSession
<1>2. /\ rows[s] = None
      /\ \A q \in Request : dirty[q][s] = Clean /\ minted[q] # s
  BY NewIdentifier
<1>3. minted[r] = None
  BY <1>1 DEF SessionInv, MintedOK
<1>4. /\ \A q \in Request, x \in Session :
            dirty'[q][x] = IF q = r /\ x = s THEN NewRow(r) ELSE dirty[q][x]
      /\ \A q \in Request : minted'[q] = IF q = r THEN s ELSE minted[q]
      /\ \A q \in Request : pc'[q] = "touch" => pc[q] = "touch"
      /\ issued' = issued \cup {s}
      /\ UNCHANGED <<rows, req, auth, at>>
  BY <1>1 DEF Write, Goto, SessionInv, TypeOK
<1>5. Settled' = Settled
  BY <1>2, <1>3, <1>4, NullAssumption DEF Settled, SessionInv, TypeOK
<1>6. ASSUME NEW q \in Request, NEW x \in Session, dirty'[q][x] \notin {Clean, None}
      PROVE  /\ dirty'[q][x].idle <= dirty'[q][x].seen + IdleTimeout
             /\ x # minted'[q] => rows[x] # None /\ Follows(rows[x], dirty'[q][x])
  <2>1. CASE q = r /\ x = s
    <3>1. NewRow(r).idle = now + IdleTimeout /\ NewRow(r).seen = now
      BY DEF NewRow
    <3>2. now + IdleTimeout <= now + IdleTimeout
      BY TimeAssumption DEF SessionInv, TypeOK
    <3> QED
      BY <1>4, <2>1, <3>1, <3>2
  <2>2. CASE ~(q = r /\ x = s)
    <3>1. dirty'[q][x] = dirty[q][x]
      BY <1>4, <2>2
    <3>2. minted[q] = minted'[q] \/ minted[q] = None
      BY <1>3, <1>4
    <3>3. x # minted'[q] => x # minted[q]
      BY <1>4, <3>2, NullAssumption
    <3> QED
      BY <1>6, <3>1, <3>3 DEF DeadlinesOK
  <2> QED
    BY <2>1, <2>2
<1>7. IdleJustified'
  BY <1>4 DEF DeadlinesOK, IdleJustified
<1>8. \A q \in Request :
        /\ auth'[q] # None =>
             /\ auth'[q].idle <= auth'[q].seen + IdleTimeout
             /\ req'[q].cookie \in Settled'
             /\ rows'[req'[q].cookie] # None => Follows(auth'[q], rows'[req'[q].cookie])
        /\ pc'[q] = "touch" => auth'[q].seen < at'[q]
  BY <1>4, <1>5 DEF DeadlinesOK
<1> QED
  BY <1>4, <1>6, <1>7, <1>8 DEF DeadlinesOK, Follows

\* The end of a transaction, with the row versions that it commits.
LEMMA DeadlineEnd ==
    ASSUME SessionInv, DeadlinesOK, NEW r \in Request, End(r), UNCHANGED issued,
           rows' = rows \/ rows' = [s \in Session |-> Visible(r, s)]
    PROVE  DeadlinesOK'
<1>1. /\ auth'[r] = None /\ pc'[r] = "idle"
      /\ \A s \in Session : dirty'[r][s] = Clean
      /\ \A q \in Request \ {r} :
            /\ auth'[q] = auth[q] /\ pc'[q] = pc[q] /\ at'[q] = at[q] /\ req'[q] = req[q]
            /\ dirty'[q] = dirty[q] /\ minted'[q] = minted[q]
  BY DEF End, SessionInv, TypeOK
<1>2. Settled \subseteq Settled'
  BY EndSettled
<1>3. ASSUME NEW s \in Session
      PROVE  /\ rows'[s] # None => rows'[s].idle <= rows'[s].seen + IdleTimeout
             /\ rows'[s] # rows[s] => dirty[r][s] # Clean
             /\ rows'[s] # rows[s] /\ s \in Settled /\ rows'[s] # None =>
                   rows[s] # None /\ Follows(rows[s], rows'[s])
  <2>1. CASE rows' = rows
    BY <2>1 DEF DeadlinesOK, IdleJustified
  <2>2. CASE rows'[s] = Visible(r, s)
    <3>1. s \in Settled => s # minted[r]
      BY DEF Settled
    <3>2. Visible(r, s) # rows[s] =>
             /\ dirty[r][s] # Clean /\ Visible(r, s) = dirty[r][s]
      BY DEF Visible
    <3> QED
      BY <2>2, <3>1, <3>2 DEF DeadlinesOK, IdleJustified
  <2> QED
    BY <2>1, <2>2
<1>4. ASSUME NEW q \in Request, NEW s \in Session, dirty'[q][s] \notin {Clean, None}
      PROVE  /\ dirty'[q][s].idle <= dirty'[q][s].seen + IdleTimeout
             /\ s # minted'[q] => rows'[s] # None /\ Follows(rows'[s], dirty'[q][s])
  <2>1. q # r /\ dirty[q][s] = dirty'[q][s] /\ minted'[q] = minted[q]
    BY <1>1, <1>4
  <2>2. dirty[r][s] = Clean
    BY <1>4, <2>1 DEF SessionInv, SingleWriter, Holders
  <2>3. rows'[s] = rows[s]
    BY <1>3, <2>2
  <2> QED
    BY <1>4, <2>1, <2>3 DEF DeadlinesOK
<1>5. ASSUME NEW q \in Request, auth'[q] # None
      PROVE  /\ auth'[q].idle <= auth'[q].seen + IdleTimeout
             /\ req'[q].cookie \in Settled'
             /\ rows'[req'[q].cookie] # None => Follows(auth'[q], rows'[req'[q].cookie])
  <2> DEFINE c == req[q].cookie
  <2>1. q # r /\ auth[q] = auth'[q] /\ req'[q] = req[q]
    BY <1>1, <1>5
  <2>2. /\ auth[q].idle <= auth[q].seen + IdleTimeout /\ c \in Settled /\ c \in Session
        /\ rows[c] # None => Follows(auth[q], rows[c])
    BY <1>5, <2>1 DEF DeadlinesOK, Settled, SessionInv, TypeOK
  <2>3. rows'[c] # None => Follows(auth[q], rows'[c])
    BY <1>3, <2>2 DEF Follows
  <2> QED
    BY <1>2, <2>1, <2>2, <2>3
<1>6. \A q \in Request : pc'[q] = "touch" => auth'[q].seen < at'[q]
  BY <1>1 DEF DeadlinesOK
<1> QED
  BY <1>3, <1>4, <1>5, <1>6 DEF DeadlinesOK, IdleJustified, Follows

LEMMA DeadlineStep == ASSUME SessionInv, DeadlinesOK, [Next]_vars PROVE DeadlinesOK'
<1>1. CASE UNCHANGED vars \/ Tick
  BY <1>1, DeadlineQuiet DEF vars, requestVars, Tick
<1>2. ASSUME NEW r \in Request, Arrive(r) PROVE DeadlinesOK'
  BY <1>2, DeadlineStart DEF Arrive, Browse, BrowseRevoke, BrowseCallback, NotifyLogout,
     StartCleanup
<1>3. ASSUME NEW r \in Request, AcquireLock(r) \/ RejectCallback(r) \/ SelectOne(r)
             \/ EnforceLimit(r)
      PROVE  DeadlinesOK'
  <2>1. UNCHANGED <<rows, dirty, minted, issued, auth, req>>
    BY <1>3 DEF AcquireLock, RejectCallback, SelectOne, EnforceLimit
  <2>2. \A q \in Request : pc'[q] = "touch" => pc[q] = "touch" /\ at'[q] = at[q]
    BY <1>3, NextStage DEF AcquireLock, RejectCallback, SelectOne, EnforceLimit, Goto,
       SessionInv, TypeOK
  <2> QED
    BY <2>1, <2>2, DeadlineQuiet
<1>4. ASSUME NEW r \in Request, LogoutCentrally(r) \/ StartBulk(r) \/ FinishBulk(r)
             \/ Respond(r)
      PROVE  DeadlinesOK'
  <2>1. UNCHANGED <<rows, dirty, minted, issued, auth, req>>
    BY <1>4 DEF LogoutCentrally, StartBulk, FinishBulk, Respond
  <2>2. \A q \in Request : pc'[q] = "touch" => pc[q] = "touch" /\ at'[q] = at[q]
    BY <1>4 DEF LogoutCentrally, StartBulk, FinishBulk, Respond, Goto, SessionInv, TypeOK
  <2> QED
    BY <2>1, <2>2, DeadlineQuiet
<1>5. ASSUME NEW r \in Request, ExchangeCode(r) PROVE DeadlinesOK'
  <2>1. PICK pair \in Subject \X NullOr(Sid) :
           req' = [req EXCEPT ![r] = [@ EXCEPT !.subject = pair[1], !.sid = pair[2]]]
    BY <1>5 DEF ExchangeCode
  <2>2. \A q \in Request : req'[q].cookie = req[q].cookie
    BY <2>1 DEF SessionInv, TypeOK, Input
  <2>3. UNCHANGED <<rows, dirty, minted, issued, auth, at>>
    BY <1>5 DEF ExchangeCode
  <2>4. \A q \in Request : pc'[q] = "touch" => pc[q] = "touch"
    BY <1>5 DEF ExchangeCode, Goto, SessionInv, TypeOK
  <2> QED
    BY <2>2, <2>3, <2>4, DeadlineQuiet
<1>6. ASSUME NEW r \in Request,
             Commit(r) \/ Refuse(r) \/ LoseRow(r) \/ AbortVictim(r) \/ Fail(r)
      PROVE  DeadlinesOK'
  BY <1>6, DeadlineEnd DEF Commit, Refuse, LoseRow, AbortVictim, Fail, Discard
<1> QED
  BY <1>1, <1>2, <1>3, <1>4, <1>5, <1>6, DeadlineResolve, DeadlineExpire, DeadlineTouch,
     DeadlineFlush, DeadlineSweep, DeadlineInsert DEF Next, Run

LEMMA DeadlineInit == Init => DeadlinesOK
BY DEF Init, DeadlinesOK, IdleJustified

\* A session is never usable for longer than SESSION_IDLE_MINUTES after its recorded last
\* use, for any limits, touch interval and number of overlapping requests.
THEOREM IdleHolds == Spec => []IdleJustified
<1>1. Init => SessionInv /\ DeadlinesOK
  BY InvInit, DeadlineInit
<1>2. SessionInv /\ DeadlinesOK /\ [Next]_vars => (SessionInv /\ DeadlinesOK)'
  BY InvStep, DeadlineStep
<1>3. DeadlinesOK => IdleJustified
  BY DEF DeadlinesOK
<1> QED
  BY <1>1, <1>2, <1>3, PTL DEF Spec

-----------------------------------------------------------------------------
(* The lock of a login. *)

\* The stages at which a login holds the lock of its address.
LoginHolds(r) ==
    /\ req[r].op = "login"
    /\ \/ pc[r] \in {"exchange", "select", "flush", "insert", "enforce"}
       \/ minted[r] # None

\* A step of r that takes or drops no lock, and enters none of these stages.
LockStep(r) ==
    /\ lock' = lock
    /\ \A q \in Request \ {r} :
         req'[q] = req[q] /\ pc'[q] = pc[q] /\ minted'[q] = minted[q]
    /\ LoginHolds(r)' => LoginHolds(r) /\ req'[r].address = req[r].address

LEMMA LockFrame ==
    ASSUME LoginLocked, NEW r \in Request, LockStep(r) PROVE LoginLocked'
BY DEF LoginLocked, LockStep, LoginHolds

LEMMA LockEnd ==
    ASSUME SessionInv, LoginLocked, NEW r \in Request, End(r) PROVE LoginLocked'
<1>1. /\ lock'[r] = None /\ req'[r].op = "none"
      /\ \A q \in Request \ {r} :
           /\ lock'[q] = lock[q] /\ req'[q] = req[q]
           /\ pc'[q] = pc[q] /\ minted'[q] = minted[q]
  BY DEF End, NoInput, SessionInv, TypeOK
<1> QED
  BY <1>1 DEF LoginLocked

LEMMA LockStart ==
    ASSUME SessionInv, LoginLocked, TypeOK', StagesOK', NEW r \in Request, NEW q,
           NEW stage \in {"resolve", "bulk"}, Start(r, q, stage)
    PROVE  LoginLocked'
<1>1. LockStep(r)
  BY DEF LockStep, LoginHolds, Start, Goto, SessionInv, StagesOK, StageOK, TypeOK
<1> QED
  BY <1>1, LockFrame

LEMMA LockedStep ==
    ASSUME SessionInv, LoginLocked, TypeOK', StagesOK', NEW r \in Request,
           Arrive(r) \/ Run(r) \/ Fail(r)
    PROVE  LoginLocked'
<1>1. ASSUME Arrive(r) PROVE LoginLocked'
  BY <1>1, LockStart DEF Arrive, Browse, BrowseRevoke, BrowseCallback, NotifyLogout,
     StartCleanup
<1>2. ASSUME AcquireLock(r) PROVE LoginLocked'
  <2>1. lock' = [lock EXCEPT ![r] = LockKey(r)] /\ \A q \in Request : lock[q] # LockKey(r)
    BY <1>2 DEF AcquireLock
  <2>2. /\ req' = req /\ minted' = minted /\ pc[r] = "lock"
        /\ \A q \in Request \ {r} : pc'[q] = pc[q]
    BY <1>2 DEF AcquireLock, Goto, SessionInv, TypeOK
  <2>3. \A q \in Request : lock'[q] = IF q = r THEN LockKey(r) ELSE lock[q]
    BY <2>1 DEF SessionInv, TypeOK
  <2>4. req[r].op = "login" => LockKey(r) = <<"login", req[r].address>>
    BY DEF LockKey
  <2> QED
    BY <2>1, <2>2, <2>3, <2>4 DEF LoginLocked
<1>3. ASSUME Resolve(r) PROVE LockStep(r)
  BY <1>3 DEF Resolve, LockStep, LoginHolds, Goto, Entry, Unauthenticated, Protected,
     SessionInv, MintedOK, StagesOK, StageOK, TypeOK
<1>4. ASSUME Expire(r) PROVE LockStep(r)
  BY <1>4 DEF Expire, LockStep, LoginHolds, Goto, Entry, Unauthenticated, Protected,
     SessionInv, MintedOK, StagesOK, StageOK, TypeOK
<1>5. ASSUME Touch(r) PROVE LockStep(r)
  BY <1>5 DEF Touch, LockStep, LoginHolds, Goto, Entry, SessionInv, MintedOK, StagesOK,
     StageOK, TypeOK
<1>6. ASSUME ExchangeCode(r) PROVE LockStep(r)
  BY <1>6 DEF ExchangeCode, LockStep, LoginHolds, Goto, SessionInv, MintedOK, StagesOK,
     StageOK, TypeOK
<1>7. ASSUME RejectCallback(r) PROVE LockStep(r)
  BY <1>7 DEF RejectCallback, LockStep, LoginHolds, Goto, SessionInv, MintedOK,
     StagesOK, StageOK, TypeOK
<1>8. ASSUME SelectOne(r) PROVE LockStep(r)
  BY <1>8 DEF SelectOne, LockStep, LoginHolds, Goto, SessionInv, MintedOK, StagesOK,
     StageOK, TypeOK
<1>9. ASSUME FlushRow(r) PROVE LockStep(r)
  BY <1>9 DEF FlushRow, LockStep, LoginHolds, Goto, SessionInv, MintedOK, StagesOK,
     StageOK, TypeOK
<1>10. ASSUME InsertSession(r) PROVE LockStep(r)
  BY <1>10 DEF InsertSession, LockStep, LoginHolds, Goto, SessionInv, MintedOK,
     StagesOK, StageOK, TypeOK
<1>11. ASSUME EnforceLimit(r) PROVE LockStep(r)
  BY <1>11 DEF EnforceLimit, LockStep, LoginHolds, Goto, SessionInv, MintedOK, StagesOK,
     StageOK, TypeOK
<1>12. ASSUME LogoutCentrally(r) PROVE LockStep(r)
  BY <1>12 DEF LogoutCentrally, LockStep, LoginHolds, Goto, SessionInv, MintedOK,
     StagesOK, StageOK, TypeOK
<1>13. ASSUME StartBulk(r) PROVE LockStep(r)
  BY <1>13 DEF StartBulk, LockStep, LoginHolds, Goto, SessionInv, MintedOK, StagesOK,
     StageOK, TypeOK
<1>14. ASSUME SweepRow(r) PROVE LockStep(r)
  BY <1>14 DEF SweepRow, LockStep, LoginHolds, Goto, SessionInv, MintedOK, StagesOK,
     StageOK, TypeOK
<1>15. ASSUME FinishBulk(r) PROVE LockStep(r)
  BY <1>15 DEF FinishBulk, LockStep, LoginHolds, Goto, SessionInv, MintedOK, StagesOK,
     StageOK, TypeOK
<1>16. ASSUME Respond(r) PROVE LockStep(r)
  BY <1>16 DEF Respond, LockStep, LoginHolds, Goto, SessionInv, MintedOK, StagesOK,
     StageOK, TypeOK
<1>17. ASSUME Commit(r) \/ Discard(r) PROVE LoginLocked'
  BY <1>17, LockEnd DEF Commit, Discard
<1> QED
  BY <1>1, <1>2, <1>3, <1>4, <1>5, <1>6, <1>7, <1>8, <1>9, <1>10, <1>11, <1>12, <1>13,
     <1>14, <1>15, <1>16, <1>17, LockFrame
     DEF Run, Refuse, LoseRow, AbortVictim, Fail

-----------------------------------------------------------------------------
(* The room that the logins in progress leave. *)

LEMMA LeftFinite ==
    ASSUME NEW u, NEW logins
    PROVE  /\ IsFiniteSet(Left(u, logins)) /\ Cardinality(Left(u, logins)) \in Nat
           /\ \A S \in SUBSET Left(u, logins) :
                Cardinality(S) <= Cardinality(Left(u, logins))
<1>1. Left(u, logins) \subseteq Session
  BY DEF Left, LiveOf
<1> QED
  BY <1>1, FiniteAssumption, FS_Subset, FS_CardinalityType

\* Logins in progress of one subject have addresses of their own.
LEMMA LoginsApart ==
    ASSUME SessionInv, LoginLocked, NEW logins \in SUBSET Request,
           \A r \in logins : minted[r] # None
    PROVE  /\ IsFiniteSet(logins) /\ Cardinality(logins) \in Nat
           /\ Cardinality(Address) \in Nat
           /\ Cardinality(logins) <= Cardinality(Address)
<1> DEFINE from == [r \in logins |-> req[r].address]
<1>1. ASSUME NEW r \in logins
      PROVE  req[r].address \in Address /\ lock[r] = <<"login", req[r].address>> /\ lock[r] # None
  <2>1. req[r].op = "login" /\ minted[r] # None
    BY DEF SessionInv, MintedOK
  <2>2. req[r].address \in Address
    BY <2>1 DEF SessionInv, TypeOK, StagesOK, StageOK, Input, NullOr
  <2>3. lock[r] = <<"login", req[r].address>>
    BY <2>1 DEF LoginLocked
  <2>4. <<"login", req[r].address>> \in LockKeys
    BY <2>2 DEF LockKeys, Limited
  <2> QED
    BY <2>2, <2>3, <2>4, NullAssumption
<1>2. \A q, r \in logins : from[q] = from[r] => q = r
  BY <1>1 DEF LoginLocked
<1>3. from \in Injection(logins, Address)
  BY <1>1, <1>2 DEF Injection, IsInjective
<1> QED
  BY <1>3, FiniteAssumption, FS_Injection, FS_CardinalityType

\* Fewer sessions, the same logins.
LEMMA RoomFewer ==
    ASSUME RoomLeft, NEW u \in Subject, NEW logins \in SUBSET Enforced(u), NEW S,
           S \subseteq Left(u, logins), IsFiniteSet(logins)
    PROVE  Cardinality(S) + Cardinality(logins) <= Ceiling
<1>1. /\ Cardinality(S) <= Cardinality(Left(u, logins))
      /\ Cardinality(Left(u, logins)) \in Nat /\ Cardinality(S) \in Nat
  BY LeftFinite, FS_Subset, FS_CardinalityType
<1>2. Cardinality(logins) \in Nat /\ Cardinality(Address) \in Nat
  BY FS_CardinalityType, FiniteAssumption
<1>3. Cardinality(Left(u, logins)) + Cardinality(logins) <= Ceiling
  BY DEF RoomLeft
<1> QED
  BY <1>1, <1>2, <1>3, LimitAssumption DEF Ceiling

\* A login that has enforced the limit had done so before, sees no new live row, and what
\* its statement has done with is closed.
Shrinks(q) ==
    /\ minted[q] # None /\ pc[q] # "enforce"
    /\ req'[q] = req[q]
    /\ \A s \in Session : Fades(q, s)
    /\ \A s \in todo[q] \ todo'[q] : ~Live(Visible(q, s)')

LEMMA RoomFrame ==
    ASSUME SessionInv, LoginLocked, RoomLeft,
           \A s \in Session : Live(rows'[s]) => /\ Live(rows[s])
                                                /\ rows'[s].subject = rows[s].subject,
           \A q \in Request : minted'[q] # None /\ pc'[q] # "enforce" => Shrinks(q)
    PROVE  RoomLeft'
<1> SUFFICES ASSUME NEW u \in Subject, NEW logins \in SUBSET Enforced(u)'
             PROVE  Cardinality(Left(u, logins)') + Cardinality(logins) <= Ceiling
  BY DEF RoomLeft, Ceiling
<1>1. logins \subseteq Enforced(u) /\ \A q \in logins : q \in Request /\ Shrinks(q)
  BY DEF Enforced, Shrinks
<1>2. Left(u, logins)' \subseteq Left(u, logins)
  <2>1. ASSUME NEW s \in Left(u, logins)' PROVE s \in LiveOf(u)
    BY <2>1 DEF Left, LiveOf
  <2>2. ASSUME NEW s \in Left(u, logins)', NEW q \in logins
        PROVE  s \notin todo[q] /\ Live(Visible(q, s))
    BY <1>1, <2>2 DEF Left, LiveOf, Shrinks, Fades
  <2> QED
    BY <2>1, <2>2 DEF Left
<1>3. IsFiniteSet(logins)
  BY <1>1, LoginsApart DEF Enforced
<1> QED
  BY <1>1, <1>2, <1>3, RoomFewer

\* A step of r that mints nothing and ends nothing.
MidStep(r) ==
    /\ rows' = rows /\ minted' = minted
    /\ \A q \in Request \ {r} :
         todo'[q] = todo[q] /\ req'[q] = req[q] /\ pc'[q] = pc[q]
    /\ minted[r] # None =>
         /\ pc[r] # "enforce" /\ req'[r] = req[r]
         /\ \A s \in todo[r] \ todo'[r] : ~Live(Visible(r, s)')

LEMMA RoomMid ==
    ASSUME SessionInv, LoginLocked, RoomLeft, NEW r \in Request, MidStep(r), AllFade
    PROVE  RoomLeft'
BY RoomFrame DEF MidStep, Shrinks, AllFade

LEMMA RoomMidActions ==
    ASSUME SessionInv, LoginLocked, RoomLeft, TypeOK', StagesOK', NEW r \in Request,
           \/ Arrive(r) \/ Resolve(r) \/ Expire(r) \/ Touch(r) \/ AcquireLock(r)
           \/ ExchangeCode(r) \/ RejectCallback(r) \/ SelectOne(r)
           \/ LogoutCentrally(r) \/ StartBulk(r) \/ SweepRow(r) \/ FinishBulk(r)
           \/ Respond(r) \/ FlushRow(r)
    PROVE  RoomLeft'
<1>1. AllFade
  BY QuietActions, ExpireStep, TouchStep, SelectOneStep, StartBulkStep, SweepStep,
     FlushStep
<1>2. ASSUME Arrive(r) PROVE MidStep(r)
  <2>1. PICK q, stage : Start(r, q, stage)
    BY <1>2 DEF Arrive, Browse, BrowseRevoke, BrowseCallback, NotifyLogout, StartCleanup
  <2> QED
    BY <2>1 DEF Start, Goto, MidStep, SessionInv, TypeOK, StagesOK, StageOK
<1>3. ASSUME Resolve(r) PROVE MidStep(r)
  BY <1>3 DEF Resolve, Goto, MidStep, SessionInv, MintedOK, TypeOK
<1>4. ASSUME Expire(r) PROVE MidStep(r)
  BY <1>4 DEF Expire, Goto, MidStep, SessionInv, MintedOK, TypeOK
<1>5. ASSUME Touch(r) PROVE MidStep(r)
  BY <1>5 DEF Touch, Goto, MidStep, SessionInv, MintedOK, TypeOK
<1>6. ASSUME AcquireLock(r) PROVE MidStep(r)
  BY <1>6 DEF AcquireLock, Goto, MidStep, SessionInv, MintedOK, TypeOK
<1>7. ASSUME ExchangeCode(r) PROVE MidStep(r)
  BY <1>7 DEF ExchangeCode, Goto, MidStep, SessionInv, MintedOK, TypeOK
<1>8. ASSUME RejectCallback(r) PROVE MidStep(r)
  BY <1>8 DEF RejectCallback, Goto, MidStep, SessionInv, MintedOK, TypeOK
<1>9. ASSUME SelectOne(r) PROVE MidStep(r)
  BY <1>9 DEF SelectOne, Goto, MidStep, SessionInv, MintedOK, TypeOK
<1>10. ASSUME LogoutCentrally(r) PROVE MidStep(r)
  BY <1>10 DEF LogoutCentrally, Goto, MidStep, SessionInv, MintedOK, TypeOK
<1>11. ASSUME StartBulk(r) PROVE MidStep(r)
  BY <1>11 DEF StartBulk, Goto, MidStep, SessionInv, MintedOK, TypeOK
<1>12. ASSUME SweepRow(r) PROVE MidStep(r)
  BY <1>12 DEF SweepRow, Goto, MidStep, SessionInv, MintedOK, TypeOK
<1>13. ASSUME FinishBulk(r) PROVE MidStep(r)
  BY <1>13 DEF FinishBulk, Goto, MidStep, SessionInv, MintedOK, TypeOK
<1>14. ASSUME Respond(r) PROVE MidStep(r)
  BY <1>14 DEF Respond, Goto, MidStep, SessionInv, MintedOK, TypeOK
<1>15. ASSUME FlushRow(r) PROVE MidStep(r)
  <2>1. PICK s \in todo[r] : FlushRow(r)!(s)
    BY <1>15 DEF FlushRow
  <2>2. s \in Session /\ Visible(r, s) \in Row /\ at[r] \in Nat
    BY <2>1, VisibleType DEF SessionInv, TypeOK, NullOr
  <2>3. Visible(r, s)' = Revoked(Visible(r, s), at[r]) /\ ~Live(Visible(r, s)')
    BY <2>1, <2>2, RevokedRow, NullAssumption DEF Write, Visible, Live, SessionInv,
       TypeOK
  <2>4. todo[r] \ todo'[r] \subseteq {s}
    BY <2>1 DEF SessionInv, TypeOK
  <2> QED
    BY <2>1, <2>3, <2>4 DEF Goto, MidStep, SessionInv, TypeOK
<1> QED
  BY <1>1, <1>2, <1>3, <1>4, <1>5, <1>6, <1>7, <1>8, <1>9, <1>10, <1>11, <1>12, <1>13,
     <1>14, <1>15, RoomMid

LEMMA RoomInsert ==
    ASSUME SessionInv, LoginLocked, RoomLeft, NEW r \in Request, InsertSession(r)
    PROVE  RoomLeft'
<1>1. /\ rows' = rows /\ pc'[r] = "enforce"
      /\ \A q \in Request \ {r} :
           /\ pc'[q] = pc[q] /\ minted'[q] = minted[q] /\ dirty'[q] = dirty[q]
           /\ req'[q] = req[q] /\ todo'[q] = todo[q]
  BY DEF InsertSession, Goto, Write, SessionInv, TypeOK
<1>2. \A q \in Request \ {r}, s \in Session : Fades(q, s)
  BY <1>1 DEF Fades, Visible
<1> QED
  BY <1>1, <1>2, RoomFrame DEF Shrinks

LEMMA RoomDiscard ==
    ASSUME SessionInv, LoginLocked, RoomLeft, NEW r \in Request, Discard(r)
    PROVE  RoomLeft'
<1>1. /\ rows' = rows /\ minted'[r] = None
      /\ \A q \in Request \ {r} :
           /\ pc'[q] = pc[q] /\ minted'[q] = minted[q] /\ dirty'[q] = dirty[q]
           /\ req'[q] = req[q] /\ todo'[q] = todo[q]
  BY DEF Discard, End, SessionInv, TypeOK
<1>2. \A q \in Request \ {r}, s \in Session : Fades(q, s)
  BY <1>1 DEF Fades, Visible
<1> QED
  BY <1>1, <1>2, RoomFrame DEF Shrinks

\* The limit keeps MaxConcurrent - 1 others beside the new session, and at most one login
\* for each address is in progress.
LEMMA RoomEnforce ==
    ASSUME SessionInv, LoginLocked, RoomLeft, TypeOK', StagesOK',
           NEW r \in Request, EnforceLimit(r)
    PROVE  RoomLeft'
<1>1. PICK kept \in SUBSET Others(r) : EnforceLimit(r)!(kept)
  BY DEF EnforceLimit
<1>2. /\ UNCHANGED <<rows, dirty, issued, minted, req>>
      /\ todo'[r] = Others(r) \ kept
      /\ \A q \in Request \ {r} : pc'[q] = pc[q] /\ todo'[q] = todo[q]
  BY <1>1 DEF Goto, SessionInv, TypeOK
<1>3. Others(r) \subseteq Session /\ IsFiniteSet(Others(r)) /\ IsFiniteSet(kept)
  <2>1. Others(r) \subseteq Session
    BY DEF Others
  <2> QED
    BY <2>1, FiniteAssumption, FS_Subset
<1>4. Cardinality(kept) <= MaxConcurrent - 1 /\ Cardinality(kept) \in Nat
  <2>1. Cardinality(Others(r)) \in Nat /\ Cardinality(kept) \in Nat
    BY <1>3, FS_CardinalityType
  <2> QED
    BY <1>1, <2>1, LimitAssumption DEF Kept, Earlier
<1> SUFFICES ASSUME NEW u \in Subject, NEW logins \in SUBSET Enforced(u)'
             PROVE  Cardinality(Left(u, logins)') + Cardinality(logins) <= Ceiling
  BY DEF RoomLeft, Ceiling
<1>5. logins \subseteq Request /\ \A q \in logins : minted[q] # None /\ req[q].subject = u
  BY <1>2 DEF Enforced
<1>6. /\ IsFiniteSet(logins) /\ Cardinality(logins) \in Nat
      /\ Cardinality(Address) \in Nat /\ Cardinality(logins) <= Cardinality(Address)
  BY <1>5, LoginsApart
<1>7. CASE r \in logins
  <2>1. Left(u, logins)' \subseteq kept
    <3>1. ASSUME NEW s \in Left(u, logins)' PROVE s \in kept
      <4>1. /\ s \in Session /\ Live(rows[s]) /\ rows[s].subject = u
            /\ s \notin Others(r) \ kept /\ Live(Visible(r, s))
        BY <1>2, <1>7, SameRows DEF Left, LiveOf, Live
      <4>2. s # minted[r]
        BY <1>5, <1>7, <4>1 DEF SessionInv, MintedOK, Live
      <4>3. Visible(r, s).subject = u
        BY <4>1, <4>2 DEF Visible, SessionInv, Descent
      <4> QED
        BY <1>5, <1>7, <4>1, <4>2, <4>3 DEF Others
    <3> QED
      BY <3>1
  <2>2. Cardinality(Left(u, logins)') <= Cardinality(kept) /\ Cardinality(Left(u, logins)') \in Nat
    BY <1>3, <2>1, FS_Subset, FS_CardinalityType
  <2> QED
    BY <1>4, <1>6, <2>2, LimitAssumption DEF Ceiling
<1>8. CASE r \notin logins
  <2>1. logins \subseteq Enforced(u)
    BY <1>2, <1>5, <1>8 DEF Enforced
  <2>2. Left(u, logins)' \subseteq Left(u, logins)
    BY <1>2, <1>5, <1>8, SameRows DEF Left, LiveOf, Live
  <2> QED
    BY <1>6, <2>1, <2>2, RoomFewer
<1> QED
  BY <1>7, <1>8

-----------------------------------------------------------------------------
(* A commit. *)

\* What is live after the commit of r was so before, or is what r has minted.
LEMMA CommitLeaves ==
    ASSUME SessionInv, NEW r \in Request, Commit(r), NEW s \in Session, Live(rows'[s])
    PROVE  \/ /\ minted[r] # None /\ s = minted[r]
              /\ rows'[s].subject = req[r].subject
           \/ /\ s \in Settled
              /\ Live(rows[s]) /\ rows'[s].subject = rows[s].subject
              /\ Live(Visible(r, s)) /\ s \notin todo[r]
<1>1. rows' = [x \in Session |-> Visible(r, x)] /\ todo[r] = {}
  BY DEF Commit, SessionInv, ChosenOK, ChosenFor
<1>2. CASE minted[r] # None /\ s = minted[r]
  <2>1. rows'[s] = dirty[r][s]
    BY <1>1, <1>2, NullAssumption DEF Visible, SessionInv, MintedOK, TypeOK
  <2> QED
    BY <1>2, <2>1 DEF SessionInv, MintedOK
<1>3. CASE ~(minted[r] # None /\ s = minted[r])
  <2>1. s \in Settled
    <3>1. CASE dirty[r][s] = Clean
      BY <1>1, <3>1 DEF Visible, Live, SessionInv, Descent
    <3>2. CASE dirty[r][s] # Clean
      BY <1>3, <3>2, NullAssumption DEF SessionInv, Descent
    <3> QED
      BY <3>1, <3>2
  <2> QED
    BY <1>1, <2>1, CommitRows
<1> QED
  BY <1>2, <1>3

\* The session that a commit adds takes the place of the login that has minted it.
LEMMA RoomCommit ==
    ASSUME SessionInv, LoginLocked, RoomLeft, NEW r \in Request, Commit(r)
    PROVE  RoomLeft'
<1>1. /\ minted'[r] = None /\ pc[r] = "commit"
      /\ \A q \in Request \ {r} :
           /\ pc'[q] = pc[q] /\ minted'[q] = minted[q] /\ dirty'[q] = dirty[q]
           /\ req'[q] = req[q] /\ todo'[q] = todo[q]
  BY DEF Commit, End, SessionInv, TypeOK
<1> SUFFICES ASSUME NEW u \in Subject, NEW logins \in SUBSET Enforced(u)'
             PROVE  Cardinality(Left(u, logins)') + Cardinality(logins) <= Ceiling
  BY DEF RoomLeft, Ceiling
<1>2. r \notin logins /\ logins \subseteq Enforced(u)
  BY <1>1 DEF Enforced
<1>3. ASSUME NEW s \in Left(u, logins)', ~(minted[r] # None /\ s = minted[r])
      PROVE  s \in Left(u, logins) /\ Live(Visible(r, s)) /\ s \notin todo[r]
  <2>1. s \in Session /\ Live(rows'[s]) /\ rows'[s].subject = u
    BY DEF Left, LiveOf
  <2>2. /\ Live(rows[s]) /\ rows[s].subject = u
        /\ Live(Visible(r, s)) /\ s \notin todo[r]
    BY <1>3, <2>1, CommitLeaves
  <2>3. ASSUME NEW q \in logins PROVE s \notin todo[q] /\ Live(Visible(q, s))
    <3>1. /\ todo'[q] = todo[q] /\ dirty'[q] = dirty[q]
          /\ s \notin todo'[q] /\ Live(Visible(q, s)')
      BY <1>1, <1>2, <1>3 DEF Left, Enforced
    <3> QED
      BY <2>2, <3>1 DEF Visible
  <2> QED
    BY <2>1, <2>2, <2>3 DEF Left, LiveOf
<1>4. logins \subseteq Request /\ \A q \in logins : minted[q] # None
  BY <1>2 DEF Enforced
<1>5. IsFiniteSet(logins) /\ Cardinality(logins) \in Nat
  BY <1>4, LoginsApart
<1>6. CASE minted[r] # None /\ req[r].subject = u
  <2>1. logins \cup {r} \subseteq Enforced(u)
    BY <1>1, <1>2, <1>6 DEF Enforced
  <2>2. Left(u, logins)' \subseteq Left(u, logins \cup {r}) \cup {minted[r]}
    BY <1>3 DEF Left
  <2>3. /\ Cardinality(Left(u, logins)') <= Cardinality(Left(u, logins \cup {r})) + 1
        /\ Cardinality(Left(u, logins)') \in Nat
        /\ Cardinality(Left(u, logins \cup {r})) \in Nat
    <3> DEFINE S == Left(u, logins \cup {r})
    <3>1. IsFiniteSet(S) /\ Cardinality(S) \in Nat
      BY LeftFinite
    <3>2. /\ IsFiniteSet(S \cup {minted[r]})
          /\ Cardinality(S \cup {minted[r]}) <= Cardinality(S) + 1
          /\ Cardinality(S \cup {minted[r]}) \in Nat
      <4>1. /\ IsFiniteSet(S \cup {minted[r]})
            /\ \/ Cardinality(S \cup {minted[r]}) = Cardinality(S)
               \/ Cardinality(S \cup {minted[r]}) = Cardinality(S) + 1
        BY <3>1, FS_AddElement
      <4> QED
        BY <3>1, <4>1
    <3>3. /\ Cardinality(Left(u, logins)') <= Cardinality(S \cup {minted[r]})
          /\ Cardinality(Left(u, logins)') \in Nat
      BY <2>2, <3>2, FS_Subset, FS_CardinalityType
    <3> QED
      BY <3>1, <3>2, <3>3
  <2>4. Cardinality(logins \cup {r}) = Cardinality(logins) + 1
    BY <1>2, <1>5, FS_AddElement
  <2>5. Cardinality(Left(u, logins \cup {r})) + Cardinality(logins \cup {r}) <= Ceiling
    BY <2>1 DEF RoomLeft
  <2>6. Ceiling \in Int
    BY FiniteAssumption, FS_CardinalityType, LimitAssumption DEF Ceiling
  <2> QED
    BY <1>5, <2>3, <2>4, <2>5, <2>6
<1>7. CASE ~(minted[r] # None /\ req[r].subject = u)
  <2>1. Left(u, logins)' \subseteq Left(u, logins)
    <3>1. ASSUME NEW s \in Left(u, logins)', minted[r] # None, s = minted[r] PROVE FALSE
      <4>1. s \in Session /\ Live(rows'[s]) /\ rows'[s].subject = u
        BY <3>1 DEF Left, LiveOf
      <4>2. rows'[s].subject = req[r].subject
        BY <3>1, <4>1, CommitLeaves DEF Settled
      <4> QED
        BY <1>7, <3>1, <4>1, <4>2
    <3> QED
      BY <1>3, <3>1
  <2> QED
    BY <1>2, <1>5, <2>1, RoomFewer
<1> QED
  BY <1>6, <1>7

-----------------------------------------------------------------------------

LEMMA RequestRoom ==
    ASSUME SessionInv, LoginLocked, RoomLeft, TypeOK', StagesOK',
           NEW r \in Request, Arrive(r) \/ Run(r) \/ Fail(r)
    PROVE  RoomLeft'
BY RoomMidActions, RoomInsert, RoomEnforce, RoomCommit, RoomDiscard
   DEF Run, Refuse, LoseRow, AbortVictim, Fail

LEMMA LimitInit == ASSUME Init PROVE LimitInv
<1>1. SessionInv
  BY InvInit
<1>2. LoginLocked
  BY DEF Init, NoInput, LoginLocked
<1>3. RoomLeft
  <2> SUFFICES ASSUME NEW u \in Subject, NEW logins \in SUBSET Enforced(u)
               PROVE  Cardinality(Left(u, logins)) + Cardinality(logins) <= Ceiling
    BY DEF RoomLeft
  <2>1. logins = {} /\ Left(u, logins) = {}
    BY DEF Init, Enforced, Left, LiveOf, Live
  <2>2. Cardinality(Left(u, logins)) = 0 /\ Cardinality(logins) = 0
    BY <2>1, FS_EmptySet
  <2>3. Cardinality(Address) \in Nat
    BY FiniteAssumption, FS_CardinalityType
  <2> QED
    BY <2>2, <2>3, LimitAssumption DEF Ceiling
<1> QED
  BY <1>1, <1>2, <1>3, DeadlineInit DEF LimitInv

LEMMA LimitStep == ASSUME LimitInv, [Next]_vars PROVE LimitInv'
<1>1. SessionInv' /\ DeadlinesOK'
  BY InvStep, DeadlineStep DEF LimitInv
<1>2. TypeOK' /\ StagesOK'
  BY <1>1 DEF SessionInv
<1>3. CASE \E r \in Request : Arrive(r) \/ Run(r) \/ Fail(r)
  BY <1>1, <1>2, <1>3, LockedStep, RequestRoom DEF LimitInv
<1>4. CASE Tick \/ UNCHANGED vars
  <2>1. UNCHANGED <<rows, pc, req, minted, todo, dirty, lock>>
    BY <1>4 DEF Tick, vars, requestVars
  <2>2. LoginLocked' /\ RoomLeft'
    BY <2>1 DEF LimitInv, LoginLocked, RoomLeft, Enforced, Left, LiveOf, Visible, Live,
       Ceiling
  <2> QED
    BY <1>1, <2>2 DEF LimitInv
<1> QED
  BY <1>3, <1>4 DEF Next

\* Sessions, deadlines, the lock of a login and the room that the logins in progress leave
\* owe each other this, in every reachable state (LimitInv).
THEOREM LimitInvariant == Spec => []LimitInv
<1>1. Init => LimitInv
  BY LimitInit
<1>2. LimitInv /\ [Next]_vars => LimitInv'
  BY LimitStep
<1> QED
  BY <1>1, <1>2, PTL DEF Spec

LEMMA RoomBounds == ASSUME LimitInv PROVE SpreadLimit
<1> SUFFICES ASSUME NEW u \in Subject PROVE Cardinality(LiveOf(u)) <= Ceiling
  BY DEF SpreadLimit
<1>1. Left(u, {}) = LiveOf(u) /\ {} \in SUBSET Enforced(u)
  BY DEF Left
<1>2. Cardinality(LiveOf(u)) + Cardinality({}) <= Ceiling
  BY <1>1 DEF LimitInv, RoomLeft
<1>3. Cardinality(LiveOf(u)) \in Nat /\ Cardinality({}) = 0
  BY <1>1, LeftFinite, FS_EmptySet
<1> QED
  BY <1>2, <1>3

\* However logins from several addresses overlap, no subject ever has more unrevoked
\* sessions than SESSION_MAX_CONCURRENT and one for each further address.
THEOREM SpreadHolds == Spec => []SpreadLimit
<1>1. LimitInv => SpreadLimit
  BY RoomBounds
<1> QED
  BY <1>1, LimitInvariant, PTL

\* No subject ever has more than SESSION_MAX_CONCURRENT unrevoked sessions when all
\* logins come from one address, for any number of sessions, subjects, instances
\* and requests in progress (_enforce_concurrent_limit under the callback's lock).
THEOREM LimitHolds ==
    ASSUME NEW a, Address = {a}
    PROVE  Spec => []ConcurrentLimit
<1>1. Cardinality(Address) = 1
  BY FS_Singleton
<1>2. LimitInv => ConcurrentLimit
  BY <1>1, RoomBounds, LimitAssumption DEF SpreadLimit, Ceiling, ConcurrentLimit
<1> QED
  BY <1>2, LimitInvariant, PTL
=============================================================================
