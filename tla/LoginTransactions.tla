------------------------- MODULE LoginTransactions -------------------------
(***************************************************************************)
(* OIDC login transactions (src/app/auth/oidc.py): the login route stores  *)
(* a state and sends the browser to Keycloak; the callback consumes the    *)
(* state and exchanges a code.  Each route is one database transaction,    *)
(* and the exchange happens in the middle of the callback's.  The          *)
(* retention command deletes transactions that are over.                   *)
(***************************************************************************)
EXTENDS Integers

CONSTANTS
    State,     \* values of the state parameter (state and its hash are one)
    Code,      \* authorization codes of Keycloak
    Request,   \* slots for requests in progress
    Lifetime,  \* the ten minutes a transaction is open
    MaxTime,   \* bound on the clock, for model checking
    MaxTries,  \* bound on the exchanges of one state, for model checking
    None       \* a missing row, NULL, no value

NullOr(S) == S \cup {None}

Row == [expires : Nat, consumed : NullOr(Nat)]

ASSUME TimeAssumption == Lifetime \in Nat /\ MaxTime \in Nat /\ MaxTries \in Nat \ {0}
ASSUME NoneAssumption == None \notin Row \cup Nat \cup State \cup Code

VARIABLES
    now,      \* the wall clock
    rows,     \* oidc_transactions: the committed rows
    issued,   \* states generated so far (random, never drawn twice)
    handed,   \* states in the hands of a browser
    codes,    \* external: the state for which Keycloak has issued a code
    spent,    \* external: codes that Keycloak has redeemed
    pc,       \* the next step of each request
    req,      \* the state and the code of each request
    at,       \* datetime.now() of complete_login
    locked,   \* the row held by SELECT ... FOR UPDATE, or None
    draft,    \* the uncommitted row version, or None
    outcome,  \* what the request has come to
    cleaning, \* the clock of the retention command in progress, or None
    victims,  \* rows that its DELETE has still to visit
    erased,   \* rows that it has deleted and not committed
    tried,    \* exchanges attempted for a state, which MaxTries bounds
    used,     \* history: committed consumptions of a state
    logins    \* history: committed logins of a state

requestVars == <<pc, req, at, locked, draft, outcome>>
cleanupVars == <<cleaning, victims, erased>>
externalVars == <<codes, spent>>
history == <<tried, used, logins>>
vars == <<now, rows, issued, handed, externalVars, requestVars, cleanupVars, history>>

Stage == {"idle", "select", "exchange", "answer", "commit"}

NoInput == [state |-> None, code |-> None]

Goto(r, stage) == pc' = [pc EXCEPT ![r] = stage]

\* Mutant: consumption is not looked at.
OpenUnconsumed(row, t) == row # None /\ t < row.expires

Open(row, t) == row # None /\ row.consumed = None /\ t < row.expires

Consumed(row, t) == [expires |-> row.expires, consumed |-> t]

Init ==
    /\ now = 0
    /\ rows = [s \in State |-> None]
    /\ issued = {} /\ handed = {}
    /\ codes = [c \in Code |-> None] /\ spent = {}
    /\ pc = [r \in Request |-> "idle"]
    /\ req = [r \in Request |-> NoInput]
    /\ at = [r \in Request |-> 0]
    /\ locked = [r \in Request |-> None]
    /\ draft = [r \in Request |-> None]
    /\ outcome = [r \in Request |-> "none"]
    /\ cleaning = None /\ victims = {} /\ erased = {}
    /\ tried = [s \in State |-> 0]
    /\ used = [s \in State |-> 0]
    /\ logins = [s \in State |-> 0]

-----------------------------------------------------------------------------
(* The login route: begin_login. *)

BeginLogin(r) ==
    \E s \in State \ issued :
        /\ pc[r] = "idle"
        /\ issued' = issued \cup {s}
        /\ req' = [req EXCEPT ![r] = [state |-> s, code |-> None]]
        /\ draft' = [draft EXCEPT ![r] = [expires |-> now + Lifetime, consumed |-> None]]
        /\ outcome' = [outcome EXCEPT ![r] = "begun"]
        /\ Goto(r, "answer")
        /\ UNCHANGED <<now, rows, handed, externalVars, at, locked, cleanupVars, history>>

\* The user signs in at Keycloak, once or several times with the same state.
SignIn ==
    \E s \in handed, c \in Code :
        /\ codes[c] = None
        /\ codes' = [codes EXCEPT ![c] = s]
        /\ UNCHANGED <<now, rows, issued, handed, spent, requestVars, cleanupVars, history>>

-----------------------------------------------------------------------------
(* The callback: complete_login. *)

\* A browser comes back with a state and a code, not necessarily of one login, or
\* with an error; it may come back more than once.
Callback(r) ==
    \E s \in handed, c \in {x \in Code : codes[x] # None} :
        /\ pc[r] = "idle"
        /\ req' = [req EXCEPT ![r] = [state |-> s, code |-> c]]
        /\ at' = [at EXCEPT ![r] = now]
        /\ Goto(r, "select")
        /\ UNCHANGED <<now, rows, issued, handed, externalVars, locked, draft, outcome,
                       cleanupVars, history>>

\* Mutant: the row is read without FOR UPDATE.
SelectUnlocked(r) ==
    LET s == req[r].state IN
    /\ pc[r] = "select"
    /\ Open(rows[s], at[r]) => tried[s] < MaxTries
    /\ IF Open(rows[s], at[r])
       THEN /\ draft' = [draft EXCEPT ![r] = Consumed(rows[s], at[r])]
            /\ tried' = [tried EXCEPT ![s] = @ + 1]
            /\ Goto(r, "exchange")
            /\ UNCHANGED outcome
       ELSE /\ outcome' = [outcome EXCEPT ![r] = "rejected"]
            /\ Goto(r, "answer")
            /\ UNCHANGED <<draft, tried>>
    /\ UNCHANGED <<now, rows, issued, handed, externalVars, req, at, locked,
                   cleanupVars, used, logins>>

\* SELECT ... FOR UPDATE waits for the holder of the row and for the retention
\* command if that has deleted it; a row that is selected stays locked.
SelectTransaction(r) ==
    LET s == req[r].state IN
    /\ pc[r] = "select"
    /\ \A q \in Request : locked[q] # s
    /\ s \notin erased
    /\ locked' = [locked EXCEPT ![r] = IF rows[s] = None THEN None ELSE s]
    /\ \/ /\ Open(rows[s], at[r]) /\ tried[s] < MaxTries
          /\ draft' = [draft EXCEPT ![r] = Consumed(rows[s], at[r])]
          /\ tried' = [tried EXCEPT ![s] = @ + 1]
          /\ Goto(r, "exchange")
          /\ UNCHANGED outcome
       \/ /\ ~Open(rows[s], at[r])
          /\ outcome' = [outcome EXCEPT ![r] = "rejected"]
          /\ Goto(r, "answer")
          /\ UNCHANGED <<draft, tried>>
    /\ UNCHANGED <<now, rows, issued, handed, externalVars, req, at, cleanupVars,
                   used, logins>>

\* Keycloak redeems a code once, and only with the verifier of its own state.
Exchange(r) ==
    LET c == req[r].code IN
    /\ pc[r] = "exchange"
    /\ codes[c] = req[r].state /\ c \notin spent
    /\ spent' = spent \cup {c}
    /\ outcome' = [outcome EXCEPT ![r] = "login"]
    /\ Goto(r, "answer")
    /\ UNCHANGED <<now, rows, issued, handed, codes, req, at, locked, draft,
                   cleanupVars, history>>

\* The code is refused, the answer is lost or late, or the ID token does not
\* validate: the callback records the failure, answers, and commits.
ExchangeRejected(r) ==
    \E redeemed \in SUBSET {req[r].code} :
        /\ pc[r] = "exchange"
        /\ spent' = spent \cup redeemed
        /\ outcome' = [outcome EXCEPT ![r] = "rejected"]
        /\ Goto(r, "answer")
        /\ UNCHANGED <<now, rows, issued, handed, codes, req, at, locked, draft,
                       cleanupVars, history>>

-----------------------------------------------------------------------------
(* The end of a request. *)

\* The answer leaves before the commit; the login route's carries the state.
Answer(r) ==
    /\ pc[r] = "answer"
    /\ handed' = IF outcome[r] = "begun" THEN handed \cup {req[r].state} ELSE handed
    /\ Goto(r, "commit")
    /\ UNCHANGED <<now, rows, issued, externalVars, req, at, locked, draft, outcome,
                   cleanupVars, history>>

End(r) ==
    /\ pc' = [pc EXCEPT ![r] = "idle"]
    /\ req' = [req EXCEPT ![r] = NoInput]
    /\ at' = [at EXCEPT ![r] = 0]
    /\ locked' = [locked EXCEPT ![r] = None]
    /\ draft' = [draft EXCEPT ![r] = None]
    /\ outcome' = [outcome EXCEPT ![r] = "none"]

Consumes(r) == outcome[r] # "begun" /\ draft[r] # None

Commit(r) ==
    LET s == req[r].state IN
    /\ pc[r] = "commit"
    /\ rows' = [rows EXCEPT ![s] = IF draft[r] = None THEN @ ELSE draft[r]]
    /\ used' = [used EXCEPT ![s] = IF Consumes(r) THEN @ + 1 ELSE @]
    /\ logins' = [logins EXCEPT ![s] = IF outcome[r] = "login" THEN @ + 1 ELSE @]
    /\ End(r)
    /\ UNCHANGED <<now, issued, handed, externalVars, cleanupVars, tried>>

\* Any other exception, a lost connection or a killed process: the consumption is
\* rolled back, and what Keycloak has done is not.
Fail(r) ==
    /\ pc[r] # "idle"
    /\ End(r)
    /\ UNCHANGED <<now, rows, issued, handed, externalVars, cleanupVars, history>>

-----------------------------------------------------------------------------
(* The retention command: DELETE ... WHERE expires_at < now. *)

StartCleanup ==
    /\ cleaning = None
    /\ cleaning' = now
    /\ victims' = {s \in State : rows[s] # None /\ rows[s].expires < now}
    /\ UNCHANGED <<now, rows, issued, handed, externalVars, requestVars, erased, history>>

EraseRow ==
    \E s \in victims :
        /\ \A r \in Request : locked[r] # s
        /\ victims' = victims \ {s}
        /\ erased' = erased \cup {s}
        /\ UNCHANGED <<now, rows, issued, handed, externalVars, requestVars, cleaning,
                       history>>

StopCleanup == cleaning' = None /\ victims' = {} /\ erased' = {}

CommitCleanup ==
    /\ cleaning # None /\ victims = {}
    /\ rows' = [s \in State |-> IF s \in erased THEN None ELSE rows[s]]
    /\ StopCleanup
    /\ UNCHANGED <<now, issued, handed, externalVars, requestVars, history>>

FailCleanup ==
    /\ cleaning # None
    /\ StopCleanup
    /\ UNCHANGED <<now, rows, issued, handed, externalVars, requestVars, history>>

Tick ==
    /\ now < MaxTime
    /\ now' = now + 1
    /\ UNCHANGED <<rows, issued, handed, externalVars, requestVars, cleanupVars, history>>

-----------------------------------------------------------------------------

Run(r) == \/ BeginLogin(r) \/ Callback(r) \/ SelectTransaction(r)
          \/ Exchange(r) \/ ExchangeRejected(r) \/ Answer(r) \/ Commit(r) \/ Fail(r)

Cleanup == StartCleanup \/ EraseRow \/ CommitCleanup \/ FailCleanup

Next == (\E r \in Request : Run(r)) \/ SignIn \/ Cleanup \/ Tick

Spec == Init /\ [][Next]_vars

-----------------------------------------------------------------------------
(* Properties. *)

TypeOK ==
    /\ now \in Nat
    /\ rows \in [State -> NullOr(Row)]
    /\ issued \subseteq State /\ handed \subseteq State
    /\ codes \in [Code -> NullOr(State)] /\ spent \subseteq NullOr(Code)
    /\ pc \in [Request -> Stage]
    /\ req \in [Request -> [state : NullOr(State), code : NullOr(Code)]]
    /\ at \in [Request -> Nat]
    /\ locked \in [Request -> NullOr(State)]
    /\ draft \in [Request -> NullOr(Row)]
    /\ outcome \in [Request -> {"none", "begun", "login", "rejected"}]
    /\ cleaning \in NullOr(Nat) /\ victims \subseteq State /\ erased \subseteq State
    /\ tried \in [State -> Nat] /\ used \in [State -> Nat] /\ logins \in [State -> Nat]

\* However callbacks, retries, rollbacks and the retention command overlap, a state
\* is consumed by at most one committed callback and completes at most one login
\* (complete_login).
ConsumedOnce == \A s \in State : used[s] <= 1 /\ logins[s] <= used[s]

-----------------------------------------------------------------------------
(* The inductive invariant behind ConsumedOnce. *)

\* A row has one holder, and the retention command deletes none that is held.
RowsHeld ==
    /\ \A q, r \in Request : locked[q] = locked[r] /\ locked[r] # None => q = r
    /\ \A r \in Request : locked[r] \notin erased
    /\ \A r \in Request : locked[r] # None => locked[r] = req[r].state

\* A state that has been consumed is marked or gone.
UsedIsClosed ==
    \A s \in State : used[s] # 0 => rows[s] = None \/ rows[s].consumed # None

\* What a request is about to commit.
DraftsOK ==
    \A r \in Request :
        /\ pc[r] \in {"idle", "select"} => draft[r] = None /\ locked[r] = None
        /\ pc[r] \in {"idle", "select"} => outcome[r] = "none"
        /\ pc[r] \in {"answer", "commit"} => outcome[r] # "none"
        /\ pc[r] = "exchange" => outcome[r] = "none" /\ draft[r] # None
        /\ pc[r] # "idle" => req[r].state \in issued
        /\ outcome[r] = "begun" => draft[r] # None /\ draft[r].consumed = None
        /\ outcome[r] = "login" => draft[r] # None
        /\ Consumes(r) =>
              /\ locked[r] = req[r].state
              /\ used[req[r].state] = 0
              /\ rows[req[r].state] # None
              /\ draft[r].consumed # None

\* A state that a login route has drawn and not committed belongs to it alone.
BegunIsNew ==
    /\ \A s \in State : rows[s] # None \/ used[s] # 0 => s \in issued
    /\ \A r \in Request : outcome[r] = "begun" =>
          LET s == req[r].state IN
          /\ rows[s] = None /\ used[s] = 0
          /\ \A q \in Request \ {r} : outcome[q] = "begun" => req[q].state # s

\* The retention command deletes rows that are there.
ErasedOK == /\ handed \subseteq issued
            /\ erased # {} \/ victims # {} => cleaning # None

\* The inductive invariant of the login transactions, which implies ConsumedOnce
\* (begin_login, complete_login, cleanup_retained_data).
LoginInv ==
    TypeOK /\ RowsHeld /\ UsedIsClosed /\ DraftsOK /\ BegunIsNew /\ ErasedOK /\ ConsumedOnce
=============================================================================
