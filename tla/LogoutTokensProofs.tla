------------------------- MODULE LogoutTokensProofs -------------------------
(***************************************************************************)
(* Proofs about the logout tokens: the inductive invariant, and that a     *)
(* token is honoured at most once, and ends no later session, until its    *)
(* exp claim has passed.                                                   *)
(***************************************************************************)
EXTENDS LogoutTokens, TLAPS

LEMMA InitInv == Init => TokenInv
  BY TimeAssumption, NoneAssumption
  DEF Init, TokenInv, TypeOK, RowsOK, KeysUnique, OpenedOK, HonoursRecorded,
      LaterSessionsKeptWhileValid, Stage, NullOr

-----------------------------------------------------------------------------
(* Steps of Keycloak, of logins and of the clock. *)

LEMMA IssueStep == ASSUME TokenInv, Issue PROVE TokenInv'
<1>1. PICK t \in Token :
        /\ expiry[t] = None /\ expiry' = [expiry EXCEPT ![t] = now + Life]
        /\ UNCHANGED <<now, replays, sessions, pc, token, dirty, cleaning, erased,
                       honoured, forgotten, since, ender>>
  BY DEF Issue, requestVars, cleanupVars, history
<1>2. now + Life \in Nat /\ now + Life # None
  BY TimeAssumption, NoneAssumption DEF TokenInv, TypeOK
<1>3. /\ expiry'[t] # None
      /\ \A x \in Token : expiry[x] # None => expiry'[x] = expiry[x]
  BY <1>1, <1>2 DEF TokenInv, TypeOK
<1>4. TypeOK'
  BY <1>1, <1>2 DEF TokenInv, TypeOK, NullOr
<1>5. RowsOK'
  BY <1>1, <1>3 DEF TokenInv, RowsOK, TypeOK
<1>6. KeysUnique'
  BY <1>1, <1>3, NoneAssumption DEF TokenInv, KeysUnique, TypeOK, NullOr
<1>7. OpenedOK' /\ HonoursRecorded'
  BY <1>1 DEF TokenInv, OpenedOK, HonoursRecorded
<1>8. LaterSessionsKeptWhileValid'
  BY <1>1, <1>3 DEF TokenInv, LaterSessionsKeptWhileValid, TypeOK
<1> QED
  BY <1>4, <1>5, <1>6, <1>7, <1>8 DEF TokenInv

LEMMA OpenStep == ASSUME TokenInv, OpenSession PROVE TokenInv'
<1>1. PICK s \in Session :
        /\ sessions[s] = "none" /\ sessions' = [sessions EXCEPT ![s] = "live"]
        /\ since' = [since EXCEPT ![s] = {t \in Token : honoured[t] # 0}]
        /\ UNCHANGED <<now, expiry, replays, pc, token, dirty, cleaning, erased,
                       honoured, forgotten, ender>>
  BY DEF OpenSession, requestVars, cleanupVars
<1>2. ender[s] = None
  BY <1>1 DEF TokenInv, OpenedOK
<1>3. /\ \A x \in Session \ {s} : since'[x] = since[x] /\ sessions'[x] = sessions[x]
      /\ since'[s] = {t \in Token : honoured[t] # 0} /\ sessions'[s] = "live"
  BY <1>1 DEF TokenInv, TypeOK
<1>4. TypeOK'
  BY <1>1 DEF TokenInv, TypeOK
<1>5. RowsOK' /\ KeysUnique' /\ HonoursRecorded'
  BY <1>1 DEF TokenInv, RowsOK, KeysUnique, HonoursRecorded
<1>6. OpenedOK'
  BY <1>1, <1>3 DEF TokenInv, OpenedOK
<1>7. LaterSessionsKeptWhileValid'
  BY <1>1, <1>2, <1>3, NoneAssumption DEF TokenInv, LaterSessionsKeptWhileValid
<1> QED
  BY <1>4, <1>5, <1>6, <1>7 DEF TokenInv

LEMMA TickStep == ASSUME TokenInv, Tick PROVE TokenInv'
<1>1. /\ now' = now + 1 /\ now' \in Nat /\ now <= now'
      /\ UNCHANGED <<expiry, replays, sessions, pc, token, dirty, cleaning, erased,
                     honoured, forgotten, since, ender>>
  BY DEF Tick, requestVars, cleanupVars, history, TokenInv, TypeOK
<1>2. \A t \in Token : expiry[t] # None => expiry[t] \in Nat
  BY DEF TokenInv, TypeOK, NullOr
<1>3. \A t \in Token : expiry[t] # None /\ expiry[t] < now => expiry[t] < now'
  BY <1>1, <1>2 DEF TokenInv, TypeOK
<1>4. TypeOK'
  BY <1>1 DEF TokenInv, TypeOK
<1>5. RowsOK'
  <2>1. cleaning' # None => cleaning' <= now'
    BY <1>1 DEF TokenInv, TypeOK, RowsOK, NullOr
  <2>2. erased' # None => erased' \in SUBSET Token
    BY <1>4 DEF TypeOK
  <2> QED
    BY <1>1, <1>3, <2>1, <2>2 DEF TokenInv, RowsOK
<1>6. KeysUnique' /\ OpenedOK' /\ HonoursRecorded'
  BY <1>1 DEF TokenInv, KeysUnique, OpenedOK, HonoursRecorded
<1>7. LaterSessionsKeptWhileValid'
  <2>1. \A s \in Session : since[s] \in SUBSET Token
    BY DEF TokenInv, TypeOK
  <2> QED
    BY <1>1, <1>3, <2>1 DEF TokenInv, LaterSessionsKeptWhileValid
<1> QED
  BY <1>4, <1>5, <1>6, <1>7 DEF TokenInv

-----------------------------------------------------------------------------
(* The steps of a delivery. *)

\* A step of a delivery that leaves the tables alone keeps the parts of the
\* invariant that are not about deliveries.
LEMMA RequestFrame ==
    ASSUME TokenInv, TypeOK', KeysUnique',
           \A r \in Request : \A s \in dirty'[r] : sessions[s] # "none",
           UNCHANGED <<now, expiry, replays, sessions, cleaning, erased, honoured,
                       forgotten, since, ender>>
    PROVE  TokenInv'
  BY DEF TokenInv, RowsOK, OpenedOK, HonoursRecorded, LaterSessionsKeptWhileValid

LEMMA DirtyOpened ==
    ASSUME TokenInv PROVE \A r \in Request : \A s \in dirty[r] : sessions[s] # "none"
  BY DEF TokenInv, OpenedOK, TypeOK

LEMMA DeliverStep ==
    ASSUME TokenInv, NEW r \in Request, Deliver(r) PROVE TokenInv'
<1>1. PICK t \in Token :
        /\ pc[r] = "idle" /\ expiry[t] # None
        /\ token' = [token EXCEPT ![r] = t]
        /\ pc' = [pc EXCEPT ![r] = "lookup"]
        /\ UNCHANGED <<now, expiry, replays, sessions, dirty, cleaning, erased,
                       honoured, forgotten, since, ender>>
  BY DEF Deliver, cleanupVars, history
<1>2. /\ t # None /\ token'[r] = t /\ pc'[r] = "lookup"
      /\ \A q \in Request \ {r} : token'[q] = token[q] /\ pc'[q] = pc[q]
  BY <1>1, NoneAssumption DEF TokenInv, TypeOK
<1>3. TypeOK'
  BY <1>1 DEF TokenInv, TypeOK, Stage, NullOr
<1>4. KeysUnique'
  BY <1>1, <1>2 DEF TokenInv, KeysUnique
<1> QED
  BY <1>1, <1>3, <1>4, DirtyOpened, RequestFrame

\* Steps that end a delivery without a commit, and the look-up.
LEMMA LeaveStep ==
    ASSUME TokenInv, NEW r \in Request,
           AlreadyProcessed(r) \/ LoseRace(r) \/ Fail(r)
    PROVE  TokenInv'
<1>1. /\ pc' = [pc EXCEPT ![r] = "idle"] /\ token' = [token EXCEPT ![r] = None]
      /\ dirty' = [dirty EXCEPT ![r] = {}]
      /\ UNCHANGED <<now, expiry, replays, sessions, cleaning, erased, honoured,
                     forgotten, since, ender>>
  BY DEF AlreadyProcessed, LoseRace, Fail, End, cleanupVars, history
<1>2. /\ pc'[r] = "idle" /\ dirty'[r] = {}
      /\ \A q \in Request \ {r} : /\ token'[q] = token[q] /\ pc'[q] = pc[q]
                                  /\ dirty'[q] = dirty[q]
  BY <1>1 DEF TokenInv, TypeOK
<1>3. TypeOK'
  BY <1>1 DEF TokenInv, TypeOK, Stage, NullOr
<1>4. KeysUnique'
  BY <1>1, <1>2 DEF TokenInv, KeysUnique
<1> QED
  BY <1>1, <1>2, <1>3, <1>4, DirtyOpened, RequestFrame

LEMMA LookUpStep ==
    ASSUME TokenInv, NEW r \in Request, LookUp(r) PROVE TokenInv'
<1>1. /\ pc[r] = "lookup" /\ pc' = [pc EXCEPT ![r] = "revoke"]
      /\ UNCHANGED <<now, expiry, replays, sessions, token, dirty, cleaning, erased,
                     honoured, forgotten, since, ender>>
  BY DEF LookUp, cleanupVars, history
<1>2. pc'[r] = "revoke" /\ \A q \in Request \ {r} : pc'[q] = pc[q]
  BY <1>1 DEF TokenInv, TypeOK
<1>3. TypeOK'
  BY <1>1 DEF TokenInv, TypeOK, Stage
<1>4. KeysUnique'
  BY <1>1, <1>2 DEF TokenInv, KeysUnique
<1> QED
  BY <1>1, <1>3, <1>4, DirtyOpened, RequestFrame

LEMMA RevokeStep ==
    ASSUME TokenInv, NEW r \in Request, Revoke(r) PROVE TokenInv'
<1>1. /\ pc[r] = "revoke" /\ pc' = [pc EXCEPT ![r] = "insert"]
      /\ dirty' = [dirty EXCEPT ![r] = {s \in Session : sessions[s] = "live"}]
      /\ UNCHANGED <<now, expiry, replays, sessions, token, cleaning, erased,
                     honoured, forgotten, since, ender>>
  BY DEF Revoke, cleanupVars, history
<1>2. /\ pc'[r] = "insert" /\ dirty'[r] = {s \in Session : sessions[s] = "live"}
      /\ \A q \in Request \ {r} : pc'[q] = pc[q] /\ dirty'[q] = dirty[q]
  BY <1>1 DEF TokenInv, TypeOK
<1>3. TypeOK'
  BY <1>1 DEF TokenInv, TypeOK, Stage
<1>4. KeysUnique'
  BY <1>1, <1>2 DEF TokenInv, KeysUnique
<1> QED
  BY <1>1, <1>2, <1>3, <1>4, DirtyOpened, RequestFrame

\* The key that r inserts is neither committed nor about to be.
LEMMA InsertStep ==
    ASSUME TokenInv, NEW r \in Request, Insert(r) PROVE TokenInv'
<1>1. /\ pc[r] = "insert" /\ pc' = [pc EXCEPT ![r] = "commit"]
      /\ replays[token[r]] = None
      /\ \A q \in Request : pc[q] = "commit" => token[q] # token[r]
      /\ UNCHANGED <<now, expiry, replays, sessions, token, dirty, cleaning, erased,
                     honoured, forgotten, since, ender>>
  BY DEF Insert, Undisputed, cleanupVars, history
<1>2. pc'[r] = "commit" /\ \A q \in Request \ {r} : pc'[q] = pc[q]
  BY <1>1 DEF TokenInv, TypeOK
<1>3. TypeOK'
  BY <1>1 DEF TokenInv, TypeOK, Stage
<1>4. KeysUnique'
  BY <1>1, <1>2 DEF TokenInv, KeysUnique
<1> QED
  BY <1>1, <1>3, <1>4, DirtyOpened, RequestFrame

\* A delivery that commits has no row before it, so whatever was honoured earlier has
\* been forgotten, and what has been forgotten has expired.
LEMMA CommitStep ==
    ASSUME TokenInv, NEW r \in Request, Commit(r) PROVE TokenInv'
<1> DEFINE t == token[r]
<1>1. /\ pc[r] = "commit"
      /\ replays' = [replays EXCEPT ![t] = expiry[t]]
      /\ sessions' = [s \in Session |-> IF s \in dirty[r] THEN "ended" ELSE sessions[s]]
      /\ honoured' = [honoured EXCEPT ![t] = @ + 1]
      /\ ender' = [s \in Session |-> IF s \in dirty[r] THEN t ELSE ender[s]]
      /\ UNCHANGED <<now, expiry, cleaning, erased, forgotten, since>>
  BY DEF Commit, cleanupVars
<1>2. /\ pc' = [pc EXCEPT ![r] = "idle"] /\ token' = [token EXCEPT ![r] = None]
      /\ dirty' = [dirty EXCEPT ![r] = {}]
  BY DEF Commit, End
<1>3. /\ t \in Token /\ t # None /\ expiry[t] # None /\ expiry[t] \in Nat
      /\ replays[t] = None
  BY <1>1 DEF TokenInv, TypeOK, KeysUnique, NullOr
<1>4. /\ replays'[t] = expiry[t] /\ honoured'[t] = honoured[t] + 1
      /\ \A x \in Token \ {t} : replays'[x] = replays[x] /\ honoured'[x] = honoured[x]
  BY <1>1, <1>3 DEF TokenInv, TypeOK
<1>5. /\ pc'[r] = "idle" /\ dirty'[r] = {}
      /\ \A q \in Request \ {r} : /\ token'[q] = token[q] /\ pc'[q] = pc[q]
                                  /\ dirty'[q] = dirty[q]
  BY <1>2 DEF TokenInv, TypeOK
<1>6. honoured[t] = forgotten[t] /\ honoured[t] \in Nat
  BY <1>3 DEF TokenInv, HonoursRecorded, TypeOK
<1>7. TypeOK'
  <2>1. replays' \in [Token -> NullOr(Nat)] /\ honoured' \in [Token -> Nat]
    BY <1>1, <1>3, <1>6 DEF TokenInv, TypeOK, NullOr
  <2>2. /\ sessions' \in [Session -> {"none", "live", "ended"}]
        /\ ender' \in [Session -> NullOr(Token)]
    BY <1>1, <1>3 DEF TokenInv, TypeOK, NullOr
  <2>3. /\ pc' \in [Request -> Stage] /\ token' \in [Request -> NullOr(Token)]
        /\ dirty' \in [Request -> SUBSET Session]
    BY <1>2 DEF TokenInv, TypeOK, Stage, NullOr
  <2> QED
    BY <1>1, <2>1, <2>2, <2>3 DEF TokenInv, TypeOK
<1>8. RowsOK'
  <2>1. \A x \in Token : replays'[x] # None => expiry[x] # None /\ replays'[x] = expiry[x]
    BY <1>3, <1>4 DEF TokenInv, RowsOK
  <2>2. erased # None => t \notin erased /\ erased \in SUBSET Token
    BY <1>3 DEF TokenInv, RowsOK, TypeOK
  <2> QED
    BY <1>1, <1>4, <2>1, <2>2 DEF TokenInv, RowsOK
<1>9. KeysUnique'
  <2>1. ASSUME NEW q \in Request \ {r}, pc[q] = "commit" PROVE replays'[token[q]] = None
    <3>1. token[q] # t /\ token[q] \in Token /\ replays[token[q]] = None
      BY <1>1, <2>1 DEF TokenInv, KeysUnique, TypeOK, NullOr
    <3> QED
      BY <1>4, <3>1
  <2> QED
    BY <1>1, <1>5, <2>1 DEF TokenInv, KeysUnique
<1>10. OpenedOK'
  <2>1. \A s \in Session : since[s] \in SUBSET Token
    BY DEF TokenInv, TypeOK
  <2>2. \A x \in Token : honoured[x] # 0 => honoured'[x] # 0
    BY <1>4, <1>6
  <2>3. \A s \in Session : sessions'[s] = "none" => /\ sessions[s] = "none"
                                                    /\ ender'[s] = ender[s]
    BY <1>1
  <2> QED
    BY <1>1, <1>5, <2>1, <2>2, <2>3 DEF TokenInv, OpenedOK
<1>11. HonoursRecorded'
  <2>1. honoured'[t] = forgotten'[t] + 1 /\ replays'[t] # None
    BY <1>1, <1>3, <1>4, <1>6
  <2> QED
    BY <1>1, <1>4, <2>1 DEF TokenInv, HonoursRecorded
<1>12. LaterSessionsKeptWhileValid'
  <2>1. SUFFICES ASSUME NEW s \in Session, NEW x \in since[s], ender'[s] = x
                 PROVE  expiry[x] # None /\ expiry[x] < now
    BY <1>1 DEF LaterSessionsKeptWhileValid
  <2>2. CASE s \in dirty[r]
    <3>1. x = t /\ honoured[t] # 0
      BY <1>1, <2>1, <2>2 DEF TokenInv, OpenedOK
    <3> QED
      BY <1>3, <1>6, <3>1 DEF TokenInv, RowsOK
  <2>3. CASE s \notin dirty[r]
    BY <1>1, <2>1, <2>3 DEF TokenInv, LaterSessionsKeptWhileValid
  <2> QED
    BY <2>2, <2>3
<1> QED
  BY <1>7, <1>8, <1>9, <1>10, <1>11, <1>12 DEF TokenInv

-----------------------------------------------------------------------------
(* The retention command. *)

LEMMA CleanupStep == ASSUME TokenInv, Cleanup PROVE TokenInv'
<1> USE DEF requestVars, history
<1>1. \A t \in Token : expiry[t] # None => expiry[t] \in Nat
  BY DEF TokenInv, TypeOK, NullOr
<1>2. CASE StartCleanup \/ FailCleanup \/ DeleteReplays
  <2>1. UNCHANGED <<now, expiry, replays, sessions, pc, token, dirty, honoured,
                    forgotten, since, ender>>
    BY <1>2 DEF StartCleanup, FailCleanup, DeleteReplays
  <2>2. KeysUnique' /\ OpenedOK' /\ HonoursRecorded' /\ LaterSessionsKeptWhileValid'
    BY <2>1 DEF TokenInv, KeysUnique, OpenedOK, HonoursRecorded,
                LaterSessionsKeptWhileValid
  <2>3. cleaning' \in NullOr(Nat) /\ (erased' # None => erased' \in SUBSET Token)
    BY <1>2 DEF StartCleanup, FailCleanup, DeleteReplays, TokenInv, TypeOK, NullOr
  <2>4. TypeOK'
    BY <2>1, <2>3 DEF TokenInv, TypeOK
  <2>5. cleaning' # None => cleaning' <= now
    BY <1>2 DEF StartCleanup, FailCleanup, DeleteReplays, TokenInv, TypeOK, RowsOK
  <2>6. erased' # None =>
          /\ cleaning' # None
          /\ \A t \in erased' : replays[t] # None /\ expiry[t] # None /\ expiry[t] < now
    <3>1. CASE StartCleanup \/ FailCleanup
      BY <3>1 DEF StartCleanup, FailCleanup, TokenInv, RowsOK
    <3>2. CASE DeleteReplays
      <4>1. /\ cleaning # None /\ cleaning' = cleaning /\ cleaning \in Nat
            /\ cleaning <= now /\ now \in Nat
            /\ erased' = {t \in Token : replays[t] # None /\ Over(expiry[t], cleaning)}
        BY <3>2 DEF DeleteReplays, TokenInv, TypeOK, RowsOK, NullOr
      <4>2. \A t \in erased' : /\ replays[t] # None /\ expiry[t] # None
                               /\ expiry[t] \in Nat /\ expiry[t] < cleaning
        BY <1>1, <4>1 DEF Over, TokenInv, RowsOK
      <4> QED
        BY <4>1, <4>2
    <3> QED
      BY <1>2, <3>1, <3>2
  <2>7. RowsOK'
    BY <2>1, <2>5, <2>6 DEF TokenInv, RowsOK
  <2> QED
    BY <2>2, <2>4, <2>7 DEF TokenInv
<1>3. CASE CommitCleanup
  <2>1. /\ erased # None /\ cleaning' = None /\ erased' = None
        /\ replays' = [t \in Token |-> IF t \in erased THEN None ELSE replays[t]]
        /\ forgotten' = [t \in Token |-> IF t \in erased THEN forgotten[t] + 1
                                                         ELSE forgotten[t]]
        /\ UNCHANGED <<now, expiry, sessions, pc, token, dirty, honoured, since, ender>>
    BY <1>3 DEF CommitCleanup
  <2>2. \A t \in Token : forgotten[t] \in Nat /\ replays[t] \in NullOr(Nat)
    BY DEF TokenInv, TypeOK
  <2>3. TypeOK'
    <3>1. replays' \in [Token -> NullOr(Nat)] /\ forgotten' \in [Token -> Nat]
      BY <2>1, <2>2 DEF NullOr
    <3> QED
      BY <2>1, <3>1 DEF TokenInv, TypeOK, NullOr
  <2>4. \A t \in erased : replays[t] # None /\ expiry[t] # None /\ expiry[t] < now
    BY <2>1 DEF TokenInv, RowsOK
  <2>5. RowsOK'
    BY <2>1, <2>4 DEF TokenInv, RowsOK
  <2>6. KeysUnique'
    <3>1. \A r \in Request : pc[r] = "commit" => token[r] \in Token
      BY DEF TokenInv, KeysUnique, TypeOK, NullOr
    <3> QED
      BY <2>1, <3>1 DEF TokenInv, KeysUnique
  <2>7. OpenedOK' /\ LaterSessionsKeptWhileValid'
    BY <2>1 DEF TokenInv, OpenedOK, LaterSessionsKeptWhileValid
  <2>8. HonoursRecorded'
    BY <2>1, <2>2, <2>4 DEF TokenInv, HonoursRecorded
  <2> QED
    BY <2>3, <2>5, <2>6, <2>7, <2>8 DEF TokenInv
<1> QED
  BY <1>2, <1>3 DEF Cleanup

-----------------------------------------------------------------------------
(* The theorems. *)

\* The inductive invariant of the logout tokens holds, for any tokens, sessions and
\* overlapping deliveries (process_logout_token, cleanup_retained_data).
THEOREM TokenInvariant == Spec => []TokenInv
<1>1. TokenInv /\ [Next]_vars => TokenInv'
  <2> SUFFICES ASSUME TokenInv, [Next]_vars PROVE TokenInv'
    OBVIOUS
  <2>1. ASSUME NEW r \in Request, Run(r) PROVE TokenInv'
    BY <2>1, DeliverStep, LookUpStep, LeaveStep, RevokeStep, InsertStep, CommitStep
    DEF Run
  <2>2. CASE UNCHANGED vars
    BY <2>2 DEF vars, requestVars, cleanupVars, history, TokenInv, TypeOK, RowsOK,
                KeysUnique, OpenedOK, HonoursRecorded, LaterSessionsKeptWhileValid
  <2> QED
    BY <2>1, <2>2, IssueStep, OpenStep, CleanupStep, TickStep DEF Next
<1> QED
  BY InitInv, <1>1, PTL DEF Spec

\* No token is honoured twice before its exp claim has passed, whatever overlaps
\* (the look-up and the unique key of logout_token_replays).
THEOREM HonouredOnce == Spec => []HonouredOnceWhileValid
<1>1. TokenInv => HonouredOnceWhileValid
  <2> SUFFICES ASSUME TokenInv, NEW t \in Token, expiry[t] # None, now <= expiry[t]
               PROVE  honoured[t] <= 1
    BY DEF HonouredOnceWhileValid
  <2>1. now \in Nat /\ expiry[t] \in Nat /\ forgotten[t] \in Nat
    BY DEF TokenInv, TypeOK, NullOr
  <2>2. forgotten[t] = 0
    BY <2>1 DEF TokenInv, RowsOK
  <2> QED
    BY <2>2 DEF TokenInv, HonoursRecorded
<1> QED
  BY <1>1, TokenInvariant, PTL

\* A token that has been processed ends no session opened later, until its exp claim
\* has passed (process_logout_token).
THEOREM LaterSessions == Spec => []LaterSessionsKeptWhileValid
<1>1. TokenInv => LaterSessionsKeptWhileValid
  BY DEF TokenInv
<1> QED
  BY <1>1, TokenInvariant, PTL
=============================================================================
