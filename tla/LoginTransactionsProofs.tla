----------------------- MODULE LoginTransactionsProofs -----------------------
(***************************************************************************)
(* A login transaction is consumed by at most one committed callback, for  *)
(* every number of states, codes and requests.                             *)
(***************************************************************************)
EXTENDS LoginTransactions, TLAPS

LEMMA RowFields ==
    ASSUME NEW row \in Row
    PROVE  row # None /\ row.expires \in Nat /\ row.consumed \in NullOr(Nat)
BY NoneAssumption DEF Row

LEMMA ConsumedRow ==
    ASSUME NEW row \in Row, NEW t \in Nat
    PROVE  /\ Consumed(row, t) \in Row /\ Consumed(row, t) # None
           /\ Consumed(row, t).consumed # None
BY NoneAssumption DEF Consumed, Row, NullOr

LEMMA InvInit == Init => LoginInv
<1> SUFFICES ASSUME Init PROVE LoginInv
  OBVIOUS
<1>1. TypeOK
  BY DEF Init, TypeOK, Stage, NoInput, NullOr
<1>2. RowsHeld /\ ErasedOK
  BY DEF Init, RowsHeld, ErasedOK
<1>3. \A s \in State : rows[s] = None /\ used[s] = 0 /\ logins[s] = 0
  BY DEF Init
<1>4. UsedIsClosed /\ ConsumedOnce
  BY <1>3 DEF UsedIsClosed, ConsumedOnce
<1>5. \A r \in Request : /\ pc[r] = "idle" /\ draft[r] = None /\ locked[r] = None
                         /\ outcome[r] = "none"
  BY DEF Init
<1>6. DraftsOK /\ BegunIsNew
  BY <1>3, <1>5 DEF DraftsOK, Consumes, BegunIsNew
<1> QED
  BY <1>1, <1>2, <1>4, <1>6 DEF LoginInv

-----------------------------------------------------------------------------
(* What the parts of the invariant say of one request. *)

\* The part of DraftsOK that is about r.
DraftOK(r) ==
    /\ pc[r] \in {"idle", "select"} => draft[r] = None /\ locked[r] = None
    /\ pc[r] \in {"idle", "select"} => outcome[r] = "none"
    /\ pc[r] \in {"answer", "commit"} => outcome[r] # "none"
    /\ pc[r] = "exchange" => outcome[r] = "none" /\ draft[r] # None
    /\ pc[r] # "idle" => req[r].state \in issued
    /\ outcome[r] = "begun" => draft[r] # None /\ draft[r].consumed = None
    /\ outcome[r] = "login" => draft[r] # None
    /\ Consumes(r) =>
          /\ locked[r] = req[r].state
          /\ used[req[r].state] = 0
          /\ rows[req[r].state] # None
          /\ draft[r].consumed # None

LEMMA DraftsOKAll == DraftsOK <=> \A r \in Request : DraftOK(r)
BY DEF DraftsOK, DraftOK

\* The variables of a request are those of another one's step left alone.
Untouched(q) ==
    /\ pc'[q] = pc[q] /\ req'[q] = req[q] /\ locked'[q] = locked[q]
    /\ draft'[q] = draft[q] /\ outcome'[q] = outcome[q]

\* A step that commits nothing and draws no state keeps what is said of the others.
LEMMA DraftFrame ==
    ASSUME LoginInv, NEW q \in Request, Untouched(q),
           issued \subseteq issued', UNCHANGED <<rows, used>>
    PROVE  DraftOK(q)'
<1>1. DraftOK(q)
  BY DraftsOKAll DEF LoginInv
<1> QED
  BY <1>1 DEF DraftOK, Untouched, Consumes

\* Invariant parts that are about committed rows only.
LEMMA RowsFrame ==
    ASSUME LoginInv, UNCHANGED <<rows, used, logins>>
    PROVE  UsedIsClosed' /\ ConsumedOnce'
BY DEF LoginInv, UsedIsClosed, ConsumedOnce

-----------------------------------------------------------------------------
(* One lemma per action. *)

LEMMA EndStep ==
    ASSUME LoginInv, NEW r \in Request, End(r),
           UNCHANGED <<now, rows, issued, handed, externalVars, cleanupVars, history>>
    PROVE  LoginInv'
<1> USE DEF externalVars, cleanupVars, history
<1>1. TypeOK'
  <2>1. /\ pc' \in [Request -> Stage] /\ at' \in [Request -> Nat]
        /\ req' \in [Request -> [state : NullOr(State), code : NullOr(Code)]]
        /\ locked' \in [Request -> NullOr(State)]
        /\ draft' \in [Request -> NullOr(Row)]
        /\ outcome' \in [Request -> {"none", "begun", "login", "rejected"}]
    BY DEF LoginInv, TypeOK, End, NoInput, Stage, NullOr
  <2> QED
    BY <2>1 DEF LoginInv, TypeOK
<1>2. \A q \in Request \ {r} : Untouched(q)
  BY DEF LoginInv, TypeOK, End, Untouched
<1>3. /\ pc'[r] = "idle" /\ locked'[r] = None /\ draft'[r] = None
      /\ outcome'[r] = "none"
  BY DEF LoginInv, TypeOK, End
<1>4. RowsHeld'
  <2>1. erased' = erased /\ None \notin erased
    BY NoneAssumption DEF LoginInv, TypeOK
  <2> QED
    BY <1>2, <1>3, <2>1 DEF LoginInv, RowsHeld, Untouched
<1>5. DraftsOK'
  <2>1. DraftOK(r)'
    BY <1>3 DEF DraftOK, Consumes
  <2>2. \A q \in Request \ {r} : DraftOK(q)'
    BY <1>2, DraftFrame
  <2> QED
    BY <2>1, <2>2, DraftsOKAll DEF DraftsOK, DraftOK
<1>6. BegunIsNew'
  BY <1>2, <1>3 DEF LoginInv, BegunIsNew, Untouched
<1>7. ErasedOK'
  BY DEF LoginInv, ErasedOK
<1> QED
  BY <1>1, <1>4, <1>5, <1>6, <1>7, RowsFrame DEF LoginInv

LEMMA BeginStep ==
    ASSUME LoginInv, NEW r \in Request, BeginLogin(r) PROVE LoginInv'
<1>1. PICK s \in State \ issued :
        /\ pc[r] = "idle"
        /\ issued' = issued \cup {s}
        /\ req' = [req EXCEPT ![r] = [state |-> s, code |-> None]]
        /\ draft' = [draft EXCEPT ![r] = [expires |-> now + Lifetime, consumed |-> None]]
        /\ outcome' = [outcome EXCEPT ![r] = "begun"]
        /\ pc' = [pc EXCEPT ![r] = "answer"]
        /\ UNCHANGED <<now, rows, handed, externalVars, at, locked, cleanupVars, history>>
  BY DEF BeginLogin, Goto
<1> DEFINE fresh == [expires |-> now + Lifetime, consumed |-> None]
<1>2. fresh \in Row /\ fresh # None /\ fresh.consumed = None
  <2>1. now + Lifetime \in Nat
    BY TimeAssumption DEF LoginInv, TypeOK
  <2>2. fresh \in Row
    BY <2>1 DEF Row, NullOr
  <2> QED
    BY <2>2, RowFields
<1> HIDE DEF fresh
<1>3. /\ req' = [req EXCEPT ![r] = [state |-> s, code |-> None]]
      /\ draft' = [draft EXCEPT ![r] = fresh]
  BY <1>1 DEF fresh
<1>4. TypeOK'
  <2>1. /\ pc' \in [Request -> Stage]
        /\ draft' \in [Request -> NullOr(Row)]
        /\ outcome' \in [Request -> {"none", "begun", "login", "rejected"}]
    BY <1>1, <1>2, <1>3 DEF LoginInv, TypeOK, Stage, NullOr
  <2>2. req' \in [Request -> [state : NullOr(State), code : NullOr(Code)]]
    BY <1>1 DEF LoginInv, TypeOK, NullOr
  <2> QED
    BY <1>1, <2>1, <2>2 DEF LoginInv, TypeOK, externalVars, cleanupVars, history
<1>5. \A q \in Request \ {r} : Untouched(q)
  BY <1>1 DEF LoginInv, TypeOK, Untouched
<1>6. /\ pc[r] = "idle" /\ pc'[r] = "answer" /\ locked'[r] = None /\ locked' = locked
      /\ draft'[r] = fresh /\ outcome'[r] = "begun" /\ req'[r].state = s
  <2>1. locked[r] = None
    BY <1>1 DEF LoginInv, DraftsOK
  <2> QED
    BY <1>1, <1>3, <2>1 DEF LoginInv, TypeOK
<1>7. rows[s] = None /\ used[s] = 0
  BY <1>1 DEF LoginInv, BegunIsNew
<1>8. RowsHeld'
  BY <1>1, <1>5, <1>6 DEF LoginInv, RowsHeld, Untouched, cleanupVars
<1>9. DraftsOK'
  <2>1. DraftOK(r)'
    BY <1>1, <1>2, <1>6 DEF DraftOK, Consumes
  <2>2. \A q \in Request \ {r} : DraftOK(q)'
    BY <1>1, <1>5, DraftFrame DEF history
  <2> QED
    BY <2>1, <2>2 DEF DraftsOK, DraftOK
<1>10. BegunIsNew'
  <2>1. \A q \in Request \ {r} : outcome[q] = "begun" => req[q].state # s
    BY <1>1 DEF LoginInv, DraftsOK
  <2> QED
    BY <1>1, <1>5, <1>6, <1>7, <2>1 DEF LoginInv, BegunIsNew, Untouched, history
<1>11. ErasedOK'
  BY <1>1 DEF LoginInv, ErasedOK, cleanupVars
<1> QED
  BY <1>1, <1>4, <1>8, <1>9, <1>10, <1>11, RowsFrame DEF LoginInv, history

LEMMA CallbackStep ==
    ASSUME LoginInv, NEW r \in Request, Callback(r) PROVE LoginInv'
<1>1. PICK s \in handed, c \in Code :
        /\ pc[r] = "idle"
        /\ req' = [req EXCEPT ![r] = [state |-> s, code |-> c]]
        /\ at' = [at EXCEPT ![r] = now]
        /\ pc' = [pc EXCEPT ![r] = "select"]
        /\ UNCHANGED <<now, rows, issued, handed, externalVars, locked, draft, outcome,
                       cleanupVars, history>>
  BY DEF Callback, Goto
<1>2. s \in State /\ s \in issued
  BY DEF LoginInv, TypeOK, ErasedOK
<1>3. TypeOK'
  <2>1. /\ pc' \in [Request -> Stage] /\ at' \in [Request -> Nat]
        /\ req' \in [Request -> [state : NullOr(State), code : NullOr(Code)]]
    BY <1>1, <1>2 DEF LoginInv, TypeOK, Stage, NullOr
  <2> QED
    BY <1>1, <2>1 DEF LoginInv, TypeOK, externalVars, cleanupVars, history
<1>4. \A q \in Request \ {r} : Untouched(q)
  BY <1>1 DEF LoginInv, TypeOK, Untouched
<1>5. /\ pc'[r] = "select" /\ req'[r].state = s /\ locked[r] = None
      /\ draft[r] = None /\ outcome[r] = "none"
  BY <1>1 DEF LoginInv, TypeOK, DraftsOK
<1>6. RowsHeld'
  BY <1>1, <1>4, <1>5 DEF LoginInv, RowsHeld, Untouched, cleanupVars
<1>7. DraftsOK'
  <2>1. DraftOK(r)'
    BY <1>1, <1>2, <1>5 DEF DraftOK, Consumes
  <2>2. \A q \in Request \ {r} : DraftOK(q)'
    BY <1>1, <1>4, DraftFrame DEF history
  <2> QED
    BY <2>1, <2>2 DEF DraftsOK, DraftOK
<1>8. BegunIsNew'
  BY <1>1, <1>4, <1>5 DEF LoginInv, BegunIsNew, Untouched, history
<1>9. ErasedOK'
  BY <1>1 DEF LoginInv, ErasedOK, cleanupVars
<1> QED
  BY <1>1, <1>3, <1>6, <1>7, <1>8, <1>9, RowsFrame DEF LoginInv, history

\* The check of complete_login: the row of the state is locked, if there is one,
\* and a row that is open has not been consumed by a committed callback.
LEMMA SelectStep ==
    ASSUME LoginInv, NEW r \in Request, SelectTransaction(r) PROVE LoginInv'
<1> DEFINE s == req[r].state
<1>1. /\ pc[r] = "select"
      /\ \A q \in Request : locked[q] # s
      /\ s \notin erased
      /\ locked' = [locked EXCEPT ![r] = IF rows[s] = None THEN None ELSE s]
      /\ UNCHANGED <<now, rows, issued, handed, externalVars, req, at, cleanupVars,
                     used, logins>>
  BY DEF SelectTransaction
<1>2. /\ s \in issued /\ s \in State /\ rows[s] \in NullOr(Row) /\ at[r] \in Nat
      /\ draft[r] = None /\ outcome[r] = "none" /\ locked[r] = None
  BY <1>1 DEF LoginInv, TypeOK, DraftsOK
<1>3. \/ /\ Open(rows[s], at[r])
         /\ draft' = [draft EXCEPT ![r] = Consumed(rows[s], at[r])]
         /\ pc' = [pc EXCEPT ![r] = "exchange"] /\ outcome' = outcome
         /\ tried' = [tried EXCEPT ![s] = @ + 1]
      \/ /\ draft' = draft /\ pc' = [pc EXCEPT ![r] = "answer"]
         /\ outcome' = [outcome EXCEPT ![r] = "rejected"]
         /\ tried' = tried
  BY DEF SelectTransaction, Goto
<1>4. Open(rows[s], at[r]) =>
        /\ rows[s] \in Row /\ rows[s] # None /\ used[s] = 0
        /\ Consumed(rows[s], at[r]) \in Row /\ Consumed(rows[s], at[r]) # None
        /\ Consumed(rows[s], at[r]).consumed # None
  <2> SUFFICES ASSUME Open(rows[s], at[r])
               PROVE  rows[s] \in Row /\ rows[s] # None /\ used[s] = 0
    BY <1>2, ConsumedRow
  <2>1. rows[s] # None /\ rows[s].consumed = None
    BY DEF Open
  <2> QED
    BY <1>2, <2>1 DEF NullOr, LoginInv, UsedIsClosed
<1>5. \A q \in Request \ {r} : Untouched(q)
  BY <1>1, <1>3 DEF LoginInv, TypeOK, Untouched
<1>6. TypeOK'
  <2>1. /\ pc' \in [Request -> Stage]
        /\ outcome' \in [Request -> {"none", "begun", "login", "rejected"}]
        /\ locked' \in [Request -> NullOr(State)]
    BY <1>1, <1>2, <1>3 DEF LoginInv, TypeOK, Stage, NullOr
  <2>2. draft \in [Request -> NullOr(Row)] /\ tried \in [State -> Nat]
    BY DEF LoginInv, TypeOK
  <2>3. draft' \in [Request -> NullOr(Row)]
    <3>1. CASE draft' = draft
      BY <2>2, <3>1
    <3>2. CASE /\ Open(rows[s], at[r])
               /\ draft' = [draft EXCEPT ![r] = Consumed(rows[s], at[r])]
      <4>1. Consumed(rows[s], at[r]) \in NullOr(Row)
        BY <1>4, <3>2 DEF NullOr
      <4> QED
        BY <2>2, <3>2, <4>1
    <3> QED
      BY <1>3, <3>1, <3>2
  <2>4. tried' \in [State -> Nat]
    BY <1>2, <1>3, <2>2
  <2> QED
    BY <1>1, <2>1, <2>3, <2>4 DEF LoginInv, TypeOK, externalVars, cleanupVars
<1>7. /\ locked'[r] = IF rows[s] = None THEN None ELSE s
      /\ req'[r].state = s /\ pc'[r] \in {"exchange", "answer"}
  BY <1>1, <1>3 DEF LoginInv, TypeOK
<1>8. RowsHeld'
  <2>1. erased' = erased /\ None \notin erased /\ req' = req
    BY <1>1, NoneAssumption DEF LoginInv, TypeOK, cleanupVars
  <2> QED
    BY <1>1, <1>5, <1>7, <2>1 DEF LoginInv, RowsHeld, Untouched
<1>9. DraftsOK'
  <2>1. DraftOK(r)'
    <3>1. CASE /\ Open(rows[s], at[r])
               /\ draft' = [draft EXCEPT ![r] = Consumed(rows[s], at[r])]
               /\ pc' = [pc EXCEPT ![r] = "exchange"] /\ outcome' = outcome
      <4>1. /\ draft'[r] = Consumed(rows[s], at[r]) /\ pc'[r] = "exchange"
            /\ outcome'[r] = "none" /\ locked'[r] = s /\ req'[r].state = s
            /\ issued' = issued /\ rows' = rows /\ used' = used
        BY <1>1, <1>2, <1>4, <1>7, <3>1 DEF LoginInv, TypeOK
      <4> QED
        BY <1>2, <1>4, <3>1, <4>1 DEF DraftOK, Consumes
    <3>2. CASE /\ draft' = draft /\ pc' = [pc EXCEPT ![r] = "answer"]
               /\ outcome' = [outcome EXCEPT ![r] = "rejected"]
      <4>1. /\ draft'[r] = None /\ pc'[r] = "answer" /\ outcome'[r] = "rejected"
            /\ req'[r].state = s /\ issued' = issued
        BY <1>1, <1>2, <3>2 DEF LoginInv, TypeOK
      <4> QED
        BY <1>2, <4>1 DEF DraftOK, Consumes
    <3> QED
      BY <1>3, <3>1, <3>2
  <2>2. \A q \in Request \ {r} : DraftOK(q)'
    BY <1>1, <1>5, DraftFrame
  <2> QED
    BY <2>1, <2>2 DEF DraftsOK, DraftOK
<1>10. BegunIsNew'
  <2>1. outcome'[r] # "begun"
    BY <1>2, <1>3 DEF LoginInv, TypeOK
  <2> QED
    BY <1>1, <1>5, <2>1 DEF LoginInv, BegunIsNew, Untouched
<1>11. ErasedOK'
  BY <1>1 DEF LoginInv, ErasedOK, cleanupVars
<1> QED
  BY <1>1, <1>6, <1>8, <1>9, <1>10, <1>11, RowsFrame DEF LoginInv

\* Exchange and Answer: the outcome, what Keycloak has redeemed and the states in
\* the hands of browsers are all that changes beside the stage.
LEMMA OutcomeStep ==
    ASSUME LoginInv, NEW r \in Request,
           Exchange(r) \/ ExchangeRejected(r) \/ Answer(r)
    PROVE  LoginInv'
<1> DEFINE s == req[r].state
<1>1. /\ pc[r] \in {"exchange", "answer"}
      /\ UNCHANGED <<now, rows, issued, codes, req, at, locked, draft, cleanupVars, history>>
      /\ pc' = [pc EXCEPT ![r] = IF pc[r] = "exchange" THEN "answer" ELSE "commit"]
  BY DEF Exchange, ExchangeRejected, Answer, Goto, externalVars
<1>2. \/ pc[r] = "answer" /\ outcome' = outcome
      \/ /\ pc[r] = "exchange"
         /\ \/ outcome' = [outcome EXCEPT ![r] = "login"]
            \/ outcome' = [outcome EXCEPT ![r] = "rejected"]
  BY DEF Exchange, ExchangeRejected, Answer
<1>3. req[r].state \in issued /\ DraftOK(r)
  BY <1>1, DraftsOKAll DEF LoginInv, DraftOK
<1>4. spent' \subseteq NullOr(Code)
  <2>1. req[r].code \in NullOr(Code) /\ spent \subseteq NullOr(Code)
    BY DEF LoginInv, TypeOK
  <2> QED
    BY <2>1 DEF Exchange, ExchangeRejected, Answer, externalVars
<1>5. handed' \subseteq issued
  BY <1>3 DEF Exchange, ExchangeRejected, Answer, LoginInv, ErasedOK
<1>6. TypeOK'
  <2>1. /\ pc' \in [Request -> Stage]
        /\ outcome' \in [Request -> {"none", "begun", "login", "rejected"}]
    BY <1>1, <1>2 DEF LoginInv, TypeOK, Stage
  <2> QED
    BY <1>1, <1>4, <1>5, <2>1 DEF LoginInv, TypeOK, cleanupVars, history
<1>7. \A q \in Request \ {r} : Untouched(q)
  BY <1>1, <1>2 DEF LoginInv, TypeOK, Untouched
<1>8. RowsHeld'
  BY <1>1 DEF LoginInv, RowsHeld, cleanupVars
<1>9. pc'[r] \in {"answer", "commit"}
      /\ \/ pc[r] = "answer" /\ outcome'[r] = outcome[r]
         \/ pc[r] = "exchange" /\ outcome'[r] \in {"login", "rejected"}
  BY <1>1, <1>2 DEF LoginInv, TypeOK
<1>10. DraftsOK'
  <2>1. DraftOK(r)'
    BY <1>1, <1>3, <1>9 DEF DraftOK, Consumes, history
  <2>2. \A q \in Request \ {r} : DraftOK(q)'
    BY <1>1, <1>7, DraftFrame DEF history
  <2> QED
    BY <2>1, <2>2 DEF DraftsOK, DraftOK
<1>11. BegunIsNew'
  <2>1. outcome'[r] = "begun" => outcome[r] = "begun"
    BY <1>9
  <2> QED
    BY <1>1, <1>7, <2>1 DEF LoginInv, BegunIsNew, Untouched, history
<1>12. ErasedOK'
  BY <1>1, <1>5 DEF LoginInv, ErasedOK, cleanupVars
<1> QED
  BY <1>1, <1>6, <1>8, <1>10, <1>11, <1>12, RowsFrame DEF LoginInv, history

-----------------------------------------------------------------------------
(* The commits. *)

\* What the commit of r makes of the row of its state: a login route's state is
\* new, a callback's consumption is of a row that nobody else may consume.
LEMMA CommitRow ==
    ASSUME LoginInv, NEW r \in Request, Commit(r)
    PROVE  LET s == req[r].state IN
           /\ s \in State /\ s \in issued
           /\ draft[r] # None => draft[r] \in Row
           /\ outcome[r] = "begun" => /\ draft[r] # None /\ used[s] = 0
                                      /\ draft[r].consumed = None
           /\ outcome[r] # "begun" /\ draft[r] # None =>
                 /\ Consumes(r) /\ locked[r] = s
                 /\ used[s] = 0 /\ draft[r].consumed # None
           /\ outcome[r] = "login" => draft[r] # None
<1>1. pc[r] = "commit"
  BY DEF Commit
<1>2. DraftOK(r)
  BY DraftsOKAll DEF LoginInv
<1>3. req[r].state \in issued /\ req[r].state \in State
  BY <1>1, <1>2 DEF DraftOK, LoginInv, TypeOK
<1>4. draft[r] # None => draft[r] \in Row
  BY DEF LoginInv, TypeOK, NullOr
<1>5. outcome[r] = "begun" => used[req[r].state] = 0
  BY DEF LoginInv, BegunIsNew
<1> QED
  BY <1>2, <1>3, <1>4, <1>5 DEF DraftOK, Consumes

LEMMA CommitStep ==
    ASSUME LoginInv, NEW r \in Request, Commit(r) PROVE LoginInv'
<1> DEFINE s == req[r].state
<1>1. /\ s \in State /\ s \in issued
      /\ draft[r] # None => draft[r] \in Row
      /\ outcome[r] = "begun" => /\ draft[r] # None /\ used[s] = 0
                                 /\ draft[r].consumed = None
      /\ outcome[r] # "begun" /\ draft[r] # None =>
            /\ Consumes(r) /\ locked[r] = s
            /\ used[s] = 0 /\ draft[r].consumed # None
      /\ outcome[r] = "login" => draft[r] # None
  BY CommitRow
<1>2. /\ rows' = [rows EXCEPT ![s] = IF draft[r] = None THEN @ ELSE draft[r]]
      /\ used' = [used EXCEPT ![s] = IF Consumes(r) THEN @ + 1 ELSE @]
      /\ logins' = [logins EXCEPT ![s] = IF outcome[r] = "login" THEN @ + 1 ELSE @]
      /\ UNCHANGED <<now, issued, handed, codes, spent, cleaning, victims, erased, tried>>
  BY DEF Commit, externalVars, cleanupVars
<1>3. /\ pc' = [pc EXCEPT ![r] = "idle"]
      /\ req' = [req EXCEPT ![r] = NoInput]
      /\ at' = [at EXCEPT ![r] = 0]
      /\ locked' = [locked EXCEPT ![r] = None]
      /\ draft' = [draft EXCEPT ![r] = None]
      /\ outcome' = [outcome EXCEPT ![r] = "none"]
  BY DEF Commit, End
<1>4. /\ rows'[s] = IF draft[r] = None THEN rows[s] ELSE draft[r]
      /\ used'[s] = IF Consumes(r) THEN used[s] + 1 ELSE used[s]
      /\ logins'[s] = IF outcome[r] = "login" THEN logins[s] + 1 ELSE logins[s]
      /\ \A x \in State \ {s} : /\ rows'[x] = rows[x] /\ used'[x] = used[x]
                                /\ logins'[x] = logins[x]
  BY <1>1, <1>2 DEF LoginInv, TypeOK
<1>5. /\ \A q \in Request \ {r} : Untouched(q)
      /\ pc'[r] = "idle" /\ locked'[r] = None /\ draft'[r] = None
      /\ outcome'[r] = "none"
  BY <1>3 DEF LoginInv, TypeOK, Untouched
<1>6. used[s] \in Nat /\ logins[s] \in Nat /\ logins[s] <= used[s] /\ used[s] <= 1
  BY <1>1 DEF LoginInv, TypeOK, ConsumedOnce
<1>7. TypeOK'
  <2>1. /\ rows' \in [State -> NullOr(Row)] /\ used' \in [State -> Nat]
        /\ logins' \in [State -> Nat]
    BY <1>1, <1>2 DEF LoginInv, TypeOK, NullOr
  <2>2. /\ pc' \in [Request -> Stage] /\ at' \in [Request -> Nat]
        /\ req' \in [Request -> [state : NullOr(State), code : NullOr(Code)]]
        /\ locked' \in [Request -> NullOr(State)]
        /\ draft' \in [Request -> NullOr(Row)]
        /\ outcome' \in [Request -> {"none", "begun", "login", "rejected"}]
    BY <1>3 DEF LoginInv, TypeOK, NoInput, Stage, NullOr
  <2> QED
    BY <1>2, <2>1, <2>2 DEF LoginInv, TypeOK
<1>8. RowsHeld'
  <2>1. None \notin erased
    BY NoneAssumption DEF LoginInv, TypeOK
  <2> QED
    BY <1>2, <1>5, <2>1 DEF LoginInv, RowsHeld, Untouched
<1>9. UsedIsClosed' /\ ConsumedOnce'
  <2>1. used'[s] # 0 => rows'[s] = None \/ rows'[s].consumed # None
    BY <1>1, <1>4 DEF LoginInv, UsedIsClosed, Consumes
  <2>2. used'[s] <= 1 /\ logins'[s] <= used'[s]
    <3>1. CASE Consumes(r)
      BY <1>1, <1>4, <1>6, <3>1 DEF Consumes
    <3>2. CASE ~Consumes(r)
      <4>1. outcome[r] # "login"
        BY <1>1, <3>2 DEF Consumes
      <4> QED
        BY <1>4, <1>6, <3>2, <4>1
    <3> QED
      BY <3>1, <3>2
  <2> QED
    BY <1>4, <2>1, <2>2 DEF LoginInv, UsedIsClosed, ConsumedOnce
<1>10. DraftsOK'
  <2>1. DraftOK(r)'
    BY <1>5 DEF DraftOK, Consumes
  <2>2. ASSUME NEW q \in Request \ {r} PROVE DraftOK(q)'
    <3>1. DraftOK(q) /\ Untouched(q)
      BY <1>5, DraftsOKAll DEF LoginInv
    <3>2. CASE Consumes(q)
      <4>1. locked[q] = req[q].state /\ rows[req[q].state] # None
            /\ req[q].state \in State
        <5>1. locked[q] = req[q].state /\ rows[req[q].state] # None
          BY <3>1, <3>2 DEF DraftOK
        <5>2. pc[q] # "idle"
          BY <3>1, <3>2 DEF DraftOK, Consumes
        <5> QED
          BY <3>1, <5>1, <5>2 DEF DraftOK, LoginInv, TypeOK
      <4>2. CASE req[q].state = s
        <5>1. locked[r] # s
          BY <1>1, <4>1, <4>2, NoneAssumption DEF LoginInv, RowsHeld
        <5>2. outcome[r] # "begun"
          BY <4>1, <4>2 DEF LoginInv, BegunIsNew
        <5>3. draft[r] = None /\ ~Consumes(r)
          BY <1>1, <5>1, <5>2 DEF Consumes
        <5> QED
          BY <1>2, <1>4, <3>1, <4>2, <5>3 DEF DraftOK, Untouched, Consumes
      <4>3. CASE req[q].state # s
        <5>1. /\ rows'[req[q].state] = rows[req[q].state]
              /\ used'[req[q].state] = used[req[q].state]
          BY <1>4, <4>1, <4>3
        <5> QED
          BY <1>2, <3>1, <5>1 DEF DraftOK, Untouched, Consumes
      <4> QED
        BY <4>2, <4>3
    <3>3. CASE ~Consumes(q)
      BY <1>2, <3>1, <3>3 DEF DraftOK, Untouched, Consumes
    <3> QED
      BY <3>2, <3>3
  <2> QED
    BY <2>1, <2>2 DEF DraftsOK, DraftOK
<1>11. BegunIsNew'
  <2>1. \A x \in State : rows'[x] # None \/ used'[x] # 0 => x \in issued'
    BY <1>1, <1>2, <1>4 DEF LoginInv, BegunIsNew
  <2>2. ASSUME NEW q \in Request, outcome'[q] = "begun"
        PROVE  /\ rows'[req'[q].state] = None /\ used'[req'[q].state] = 0
               /\ \A p \in Request \ {q} : outcome'[p] = "begun" =>
                     req'[p].state # req'[q].state
    <3>1. q # r /\ Untouched(q) /\ outcome[q] = "begun"
      BY <1>5, <2>2 DEF Untouched
    <3>2. /\ rows[req[q].state] = None /\ used[req[q].state] = 0
          /\ \A p \in Request \ {q} : outcome[p] = "begun" => req[p].state # req[q].state
      BY <3>1 DEF LoginInv, BegunIsNew
    <3>3. req[q].state \in State
      <4>1. DraftOK(q)
        BY DraftsOKAll DEF LoginInv
      <4> QED
        BY <3>1, <4>1 DEF DraftOK, LoginInv, TypeOK
    <3>4. /\ rows'[req[q].state] = None /\ used'[req[q].state] = 0
      <4>1. CASE req[q].state # s
        BY <1>4, <3>2, <3>3, <4>1
      <4>2. CASE req[q].state = s
        <5>1. outcome[r] # "begun"
          BY <3>1, <3>2, <4>2
        <5>2. ~Consumes(r)
          <6>1. DraftOK(r)
            BY DraftsOKAll DEF LoginInv
          <6> QED
            BY <3>2, <4>2, <6>1 DEF DraftOK
        <5>3. draft[r] = None
          BY <5>1, <5>2 DEF Consumes
        <5> QED
          BY <1>4, <3>2, <4>2, <5>2, <5>3
      <4> QED
        BY <4>1, <4>2
    <3> QED
      BY <1>5, <3>1, <3>2, <3>4 DEF Untouched
  <2> QED
    BY <2>1, <2>2 DEF BegunIsNew
<1>12. ErasedOK'
  BY <1>2 DEF LoginInv, ErasedOK
<1> QED
  BY <1>7, <1>8, <1>9, <1>10, <1>11, <1>12 DEF LoginInv

-----------------------------------------------------------------------------
(* The retention command, Keycloak and the clock. *)

\* A step of no request that leaves the committed rows alone.
LEMMA OtherStep ==
    ASSUME LoginInv, TypeOK', ErasedOK', \A q \in Request : locked[q] \notin erased',
           UNCHANGED <<rows, issued, requestVars, used, logins>>
    PROVE  LoginInv'
<1> USE DEF requestVars
<1>1. RowsHeld'
  BY DEF LoginInv, RowsHeld
<1>2. DraftsOK'
  <2>1. \A q \in Request : DraftOK(q)'
    BY DraftFrame DEF Untouched
  <2> QED
    BY <2>1 DEF DraftsOK, DraftOK
<1>3. BegunIsNew'
  BY DEF LoginInv, BegunIsNew
<1> QED
  BY <1>1, <1>2, <1>3, RowsFrame DEF LoginInv

LEMMA CleanupStep ==
    ASSUME LoginInv, Cleanup PROVE LoginInv'
<1> USE DEF externalVars, history
<1>1. \A q \in Request : locked[q] \notin erased
  BY DEF LoginInv, RowsHeld
<1>2. CASE StartCleanup
  <2>1. TypeOK' /\ ErasedOK'
    BY <1>2, NoneAssumption DEF StartCleanup, requestVars, LoginInv, TypeOK, ErasedOK, NullOr
  <2> QED
    BY <1>1, <1>2, <2>1, OtherStep DEF StartCleanup
<1>3. CASE EraseRow
  <2>1. PICK s \in victims :
          /\ \A r \in Request : locked[r] # s
          /\ victims' = victims \ {s} /\ erased' = erased \cup {s}
          /\ UNCHANGED <<now, rows, issued, handed, externalVars, requestVars, cleaning,
                         history>>
    BY <1>3 DEF EraseRow
  <2>2. TypeOK' /\ ErasedOK'
    BY <2>1 DEF requestVars, LoginInv, TypeOK, ErasedOK
  <2> QED
    BY <1>1, <2>1, <2>2, OtherStep
<1>4. CASE FailCleanup
  <2>1. TypeOK' /\ ErasedOK'
    BY <1>4 DEF FailCleanup, StopCleanup, requestVars, LoginInv, TypeOK, ErasedOK, NullOr
  <2> QED
    BY <1>1, <1>4, <2>1, OtherStep DEF FailCleanup, StopCleanup
<1>5. CASE CommitCleanup
  <2>1. /\ rows' = [s \in State |-> IF s \in erased THEN None ELSE rows[s]]
        /\ cleaning' = None /\ victims' = {} /\ erased' = {}
        /\ UNCHANGED <<now, issued, handed, codes, spent, pc, req, at, locked, draft,
                       outcome, tried, used, logins>>
    BY <1>5 DEF CommitCleanup, StopCleanup, requestVars
  <2>2. TypeOK'
    <3>1. rows' \in [State -> NullOr(Row)]
      BY <2>1 DEF LoginInv, TypeOK, NullOr
    <3> QED
      BY <2>1, <3>1 DEF LoginInv, TypeOK, NullOr
  <2>3. \A s \in State : rows'[s] = None \/ rows'[s] = rows[s]
    BY <2>1
  <2>4. RowsHeld' /\ ErasedOK'
    BY <2>1 DEF LoginInv, RowsHeld, ErasedOK
  <2>5. UsedIsClosed' /\ ConsumedOnce'
    BY <2>1, <2>3 DEF LoginInv, UsedIsClosed, ConsumedOnce
  <2>6. DraftsOK'
    <3>1. ASSUME NEW q \in Request PROVE DraftOK(q)'
      <4>1. DraftOK(q)
        BY DraftsOKAll DEF LoginInv
      <4>2. Consumes(q) => rows'[req[q].state] = rows[req[q].state]
        <5>1. Consumes(q) => locked[q] = req[q].state /\ rows[req[q].state] # None
                             /\ pc[q] # "idle"
          BY <4>1 DEF DraftOK, Consumes
        <5>2. pc[q] # "idle" => req[q].state \in State
          BY <4>1 DEF DraftOK, LoginInv, TypeOK
        <5> QED
          BY <1>1, <2>1, <5>1, <5>2
      <4> QED
        BY <2>1, <4>1, <4>2 DEF DraftOK, Consumes
    <3> QED
      BY <3>1 DEF DraftsOK, DraftOK
  <2>7. BegunIsNew'
    <3>1. \A q \in Request : outcome[q] = "begun" => req[q].state \in State
      BY DEF LoginInv, DraftsOK, TypeOK
    <3> QED
      BY <2>1, <2>3, <3>1 DEF LoginInv, BegunIsNew
  <2> QED
    BY <2>2, <2>4, <2>5, <2>6, <2>7 DEF LoginInv
<1> QED
  BY <1>2, <1>3, <1>4, <1>5 DEF Cleanup

LEMMA SignInStep == ASSUME LoginInv, SignIn PROVE LoginInv'
<1>1. TypeOK' /\ ErasedOK'
  BY DEF SignIn, LoginInv, TypeOK, ErasedOK, NullOr, requestVars, cleanupVars, history
<1>2. \A q \in Request : locked[q] \notin erased'
  BY DEF SignIn, LoginInv, RowsHeld, cleanupVars
<1> QED
  BY <1>1, <1>2, OtherStep DEF SignIn, history

LEMMA TickStep == ASSUME LoginInv, Tick PROVE LoginInv'
<1>1. TypeOK' /\ ErasedOK'
  BY DEF Tick, LoginInv, TypeOK, ErasedOK, externalVars, requestVars, cleanupVars, history
<1>2. \A q \in Request : locked[q] \notin erased'
  BY DEF Tick, LoginInv, RowsHeld, cleanupVars
<1> QED
  BY <1>1, <1>2, OtherStep DEF Tick, history

LEMMA InvStep == ASSUME LoginInv, [Next]_vars PROVE LoginInv'
<1>1. ASSUME NEW r \in Request, Run(r) PROVE LoginInv'
  <2>1. CASE Fail(r)
    BY <2>1, EndStep DEF Fail
  <2> QED
    BY <1>1, <2>1, BeginStep, CallbackStep, SelectStep, OutcomeStep, CommitStep DEF Run
<1>2. ASSUME UNCHANGED vars PROVE LoginInv'
  <2>1. TypeOK' /\ ErasedOK'
    BY <1>2 DEF vars, LoginInv, TypeOK, ErasedOK, externalVars, requestVars, cleanupVars,
       history
  <2>2. \A q \in Request : locked[q] \notin erased'
    BY <1>2 DEF vars, LoginInv, RowsHeld, cleanupVars
  <2> QED
    BY <1>2, <2>1, <2>2, OtherStep DEF vars, history
<1> QED
  BY <1>1, <1>2, CleanupStep, SignInStep, TickStep DEF Next

-----------------------------------------------------------------------------

\* The inductive invariant: a transaction row has one holder from the check to the
\* commit, and a consumed state is marked or gone.
THEOREM LoginInvariant == Spec => []LoginInv
<1>1. LoginInv /\ [Next]_vars => LoginInv'
  BY InvStep
<1> QED
  BY InvInit, <1>1, PTL DEF Spec

\* complete_login: a state is consumed by at most one committed callback and
\* completes at most one login.
THEOREM ConsumedAtMostOnce == Spec => []ConsumedOnce
<1>1. LoginInv => ConsumedOnce
  BY DEF LoginInv
<1> QED
  BY <1>1, LoginInvariant, PTL
=============================================================================
