--------------------------- MODULE KeycloakClient ---------------------------
(***************************************************************************)
(* The Keycloak management client of one process                           *)
(* (src/app/auth/keycloak_management.py): a cached access token that one   *)
(* coroutine at a time fetches, and a circuit breaker.  Coroutines change  *)
(* places only where they await: the lock, the token request and the       *)
(* management request.  Times are what is left of them.                    *)
(***************************************************************************)
EXTENDS Naturals

CONSTANTS
    Coroutine,  \* coroutines of requests in progress
    Threshold,  \* failures in a row that open the circuit
    Cooldown,   \* the 30 seconds it stays open
    TokenLife,  \* expires_in less the margin of 15 seconds
    Nobody      \* no holder

ASSUME TimeAssumption == Threshold \in Nat \ {0} /\ Cooldown \in Nat /\ TokenLife \in Nat
ASSUME NobodyAssumption == Nobody \notin Coroutine

VARIABLES
    healthy,     \* external: whether Keycloak answers as it should
    accessToken, \* _access_token: none, or one that Keycloak accepts or has forgotten
    usable,      \* what is left of _token_expires_at - 15
    failures,    \* _failures, which counts no further than Threshold
    cooling,     \* what is left of _circuit_open_until
    tokenLock,   \* the holder of _lock
    at,          \* what each caller waits for
    op,          \* the operation it has called
    left,        \* the requests that remain of it, the one in progress included
    bearer,      \* the token of the request in flight
    outcome,     \* what the operation has come to
    leaked       \* history: HTTP requests of each caller since the circuit opened

callerVars == <<at, op, left, bearer, outcome>>
clientVars == <<healthy, accessToken, usable, failures, cooling, tokenLock, callerVars,
                leaked>>

\* account_status; the operations that list and then change; logout_user and the e-mails.
Steps == [status |-> 3, revoke |-> 2, logout |-> 1]

ClientStage == {"idle", "wait", "fetch", "answer", "done"}

ClientInit ==
    /\ healthy = TRUE
    /\ accessToken = "none" /\ usable = 0
    /\ failures = 0 /\ cooling = 0
    /\ tokenLock = Nobody
    /\ at = [c \in Coroutine |-> "idle"]
    /\ op = [c \in Coroutine |-> "logout"]
    /\ left = [c \in Coroutine |-> 0]
    /\ bearer = [c \in Coroutine |-> "none"]
    /\ outcome = [c \in Coroutine |-> "none"]
    /\ leaked = [c \in Coroutine |-> 0]

-----------------------------------------------------------------------------
(* The circuit breaker. *)

\* Mutant: a success forgets the failures and leaves the circuit open.
SuccessUncooled == failures' = 0 /\ UNCHANGED cooling

RecordSuccess == failures' = 0 /\ cooling' = 0

\* A failure that follows n others.
FailureAfter(n) ==
    /\ failures' = IF n < Threshold THEN n + 1 ELSE n
    /\ cooling' = IF n + 1 >= Threshold THEN Cooldown ELSE cooling

RecordFailure == FailureAfter(failures)

\* Of the callers in S one more HTTP request leaves in this step.
Leaks(S) ==
    leaked' = [c \in Coroutine |-> IF cooling' = 0 THEN 0
                                   ELSE IF c \in S THEN leaked[c] + 1 ELSE leaked[c]]

-----------------------------------------------------------------------------
(* The token: _get_management_token. *)

Cached == accessToken # "none" /\ usable > 0

SendWith(c, t) ==
    /\ at' = [at EXCEPT ![c] = "answer"]
    /\ bearer' = [bearer EXCEPT ![c] = t]

Fetch(c) ==
    /\ tokenLock' = c
    /\ at' = [at EXCEPT ![c] = "fetch"]
    /\ bearer' = [bearer EXCEPT ![c] = "none"]

\* asyncio.Lock is taken at once when it is free and nobody waits for it.
Proceed(c) ==
    \/ Cached /\ SendWith(c, accessToken) /\ UNCHANGED tokenLock
    \/ ~Cached /\ tokenLock = Nobody /\ (\A d \in Coroutine : at[d] # "wait") /\ Fetch(c)
    \/ /\ ~Cached /\ (tokenLock # Nobody \/ \E d \in Coroutine : at[d] = "wait")
       /\ at' = [at EXCEPT ![c] = "wait"]
       /\ bearer' = [bearer EXCEPT ![c] = "none"]
       /\ UNCHANGED tokenLock

Conclude(c, result) ==
    /\ at' = [at EXCEPT ![c] = "done"]
    /\ outcome' = [outcome EXCEPT ![c] = result]
    /\ bearer' = [bearer EXCEPT ![c] = "none"]

\* Mutant: the circuit is not looked at.
CallUnchecked(c) ==
    \E o \in DOMAIN Steps :
        /\ at[c] = "idle"
        /\ op' = [op EXCEPT ![c] = o]
        /\ left' = [left EXCEPT ![c] = Steps[o]]
        /\ Proceed(c)
        /\ UNCHANGED <<healthy, accessToken, usable, failures, cooling, outcome>>
        /\ Leaks({c})

\* An operation starts; an open circuit refuses it before anything is awaited.
Call(c) ==
    \E o \in DOMAIN Steps :
        /\ at[c] = "idle" /\ cooling = 0
        /\ op' = [op EXCEPT ![c] = o]
        /\ left' = [left EXCEPT ![c] = Steps[o]]
        /\ Proceed(c)
        /\ UNCHANGED <<healthy, accessToken, usable, failures, cooling, outcome>>
        /\ Leaks({c})

\* Mutant: the refusal counts as one more failure.
RefuseCounted(c) ==
    \E o \in DOMAIN Steps :
        /\ at[c] = "idle" /\ cooling > 0
        /\ op' = [op EXCEPT ![c] = o]
        /\ RecordFailure
        /\ Conclude(c, "unavailable")
        /\ UNCHANGED <<healthy, accessToken, usable, tokenLock, left>>
        /\ Leaks({})

Refuse(c) ==
    \E o \in DOMAIN Steps :
        /\ at[c] = "idle" /\ cooling > 0
        /\ op' = [op EXCEPT ![c] = o]
        /\ Conclude(c, "unavailable")
        /\ UNCHANGED <<healthy, accessToken, usable, failures, cooling, tokenLock, left>>
        /\ Leaks({})

\* Mutant: whoever gets the lock fetches, without a second look.
TakeBlindly(c) ==
    /\ at[c] = "wait" /\ tokenLock = Nobody
    /\ Fetch(c)
    /\ UNCHANGED <<healthy, accessToken, usable, failures, cooling, op, left, outcome>>
    /\ Leaks({c})

\* A waiter gets the lock and looks again: the token may have come meanwhile.
Take(c) ==
    /\ at[c] = "wait" /\ tokenLock = Nobody
    /\ \/ Cached /\ SendWith(c, accessToken) /\ UNCHANGED tokenLock
       \/ ~Cached /\ Fetch(c)
    /\ UNCHANGED <<healthy, accessToken, usable, failures, cooling, op, left, outcome>>
    /\ Leaks({c})

\* The new token is used at once, however short its life.
FetchSucceeds(c) ==
    /\ at[c] = "fetch"
    /\ accessToken' = "good" /\ usable' = TokenLife
    /\ RecordSuccess
    /\ tokenLock' = Nobody
    /\ SendWith(c, "good")
    /\ UNCHANGED <<healthy, op, left, outcome>>
    /\ Leaks({c})

\* Mutant: the failure leaves the lock taken.
FetchRejectedHolding(c) ==
    /\ at[c] = "fetch" /\ ~healthy
    /\ RecordFailure
    /\ Conclude(c, "unavailable")
    /\ UNCHANGED <<healthy, accessToken, usable, tokenLock, op, left>>
    /\ Leaks({})

\* An answer other than 200, or one without a token.
FetchRejected(c) ==
    /\ at[c] = "fetch" /\ ~healthy
    /\ RecordFailure
    /\ tokenLock' = Nobody
    /\ Conclude(c, "unavailable")
    /\ UNCHANGED <<healthy, accessToken, usable, op, left>>
    /\ Leaks({})

\* No answer (HTTPError), no metadata (TokenValidationError), or a body that is no
\* object: the exception passes, and no failure is recorded.
FetchEscapes(c) ==
    /\ at[c] = "fetch" /\ ~healthy
    /\ tokenLock' = Nobody
    /\ Conclude(c, "error")
    /\ UNCHANGED <<healthy, accessToken, usable, failures, cooling, op, left>>
    /\ Leaks({})

\* An expires_in that is no number: the token is there, its time is the old one's.
FetchGarbled(c) ==
    /\ at[c] = "fetch" /\ ~healthy
    /\ accessToken' = "good"
    /\ tokenLock' = Nobody
    /\ Conclude(c, "error")
    /\ UNCHANGED <<healthy, usable, failures, cooling, op, left>>
    /\ Leaks({})

-----------------------------------------------------------------------------
(* The management request: _request after its token. *)

\* 200, 201 or 204: the operation goes on, in the same turn, or has its result.
AnswerSucceeds(c) ==
    /\ at[c] = "answer" /\ bearer[c] = "good"
    /\ RecordSuccess
    /\ \/ /\ left[c] > 1
          /\ left' = [left EXCEPT ![c] = @ - 1]
          /\ Proceed(c)
          /\ UNCHANGED outcome
       \/ /\ left[c] > 1 => op[c] = "revoke"
          /\ Conclude(c, "ok")
          /\ UNCHANGED <<left, tokenLock>>
    /\ UNCHANGED <<healthy, accessToken, usable, op>>
    /\ Leaks({})

\* 401: whatever token is cached now is dropped.
Unauthorized(c) ==
    /\ at[c] = "answer"
    /\ healthy => bearer[c] = "bad"
    /\ accessToken' = "none"
    /\ RecordFailure
    /\ Conclude(c, "unavailable")
    /\ UNCHANGED <<healthy, usable, tokenLock, op, left>>
    /\ Leaks({})

\* Another status, a timeout, a lost connection.  A status may also be the refusal of
\* one request (404, 409) by a Keycloak that is well: it counts as a failure too.
AnswerFails(c) ==
    /\ at[c] = "answer"
    /\ RecordFailure
    /\ Conclude(c, "unavailable")
    /\ UNCHANGED <<healthy, accessToken, usable, tokenLock, op, left>>
    /\ Leaks({})

\* A body that is not JSON: recorded as a success, and then as a failure.
AnswerInvalid(c) ==
    /\ at[c] = "answer" /\ ~healthy
    /\ failures' = 1 /\ cooling' = IF 1 >= Threshold THEN Cooldown ELSE 0
    /\ Conclude(c, "unavailable")
    /\ UNCHANGED <<healthy, accessToken, usable, tokenLock, op, left>>
    /\ Leaks({})

Return(c) ==
    /\ at[c] = "done"
    /\ at' = [at EXCEPT ![c] = "idle"]
    /\ op' = [op EXCEPT ![c] = "logout"]
    /\ left' = [left EXCEPT ![c] = 0]
    /\ outcome' = [outcome EXCEPT ![c] = "none"]
    /\ UNCHANGED <<healthy, accessToken, usable, failures, cooling, tokenLock, bearer>>
    /\ Leaks({})

-----------------------------------------------------------------------------
(* Keycloak and the clock. *)

Turn ==
    /\ healthy' = ~healthy
    /\ UNCHANGED <<accessToken, usable, failures, cooling, tokenLock, callerVars, leaked>>

Forgotten(t) == IF t = "good" THEN "bad" ELSE t

\* A restart of Keycloak or a new client secret: tokens issued so far are worthless.
Forget ==
    /\ ~healthy
    /\ accessToken' = Forgotten(accessToken)
    /\ bearer' = [c \in Coroutine |-> Forgotten(bearer[c])]
    /\ UNCHANGED <<healthy, usable, failures, cooling, tokenLock, at, op, left, outcome,
                   leaked>>

ClientTick ==
    /\ usable > 0 \/ cooling > 0
    /\ usable' = IF usable > 0 THEN usable - 1 ELSE 0
    /\ cooling' = IF cooling > 0 THEN cooling - 1 ELSE 0
    /\ UNCHANGED <<healthy, accessToken, failures, tokenLock, callerVars>>
    /\ Leaks({})

-----------------------------------------------------------------------------

Work(c) == \/ Take(c) \/ FetchSucceeds(c) \/ FetchRejected(c) \/ FetchEscapes(c)
           \/ FetchGarbled(c) \/ AnswerSucceeds(c) \/ Unauthorized(c)
           \/ AnswerFails(c) \/ AnswerInvalid(c) \/ Return(c)

ClientNext == \/ \E c \in Coroutine : Call(c) \/ Refuse(c) \/ Work(c)
              \/ Turn \/ Forget \/ ClientTick

ClientSpec == ClientInit /\ [][ClientNext]_clientVars

\* asyncio.Lock serves its waiters in order and HTTP requests end by their timeout.
ClientFairSpec ==
    /\ ClientSpec /\ WF_clientVars(ClientTick)
    /\ \A c \in Coroutine : SF_clientVars(Work(c))

-----------------------------------------------------------------------------
(* Properties. *)

ClientTypeOK ==
    /\ healthy \in BOOLEAN
    /\ accessToken \in {"none", "good", "bad"} /\ usable \in Nat
    /\ failures \in 0 .. Threshold /\ cooling \in 0 .. Cooldown
    /\ tokenLock \in Coroutine \cup {Nobody}
    /\ at \in [Coroutine -> ClientStage]
    /\ op \in [Coroutine -> DOMAIN Steps] /\ left \in [Coroutine -> Nat]
    /\ bearer \in [Coroutine -> {"none", "good", "bad"}]
    /\ outcome \in [Coroutine -> {"none", "ok", "unavailable", "error"}]
    /\ leaked \in [Coroutine -> Nat]

\* The circuit is looked at before the token is awaited, so requests leave after it
\* has opened: of each caller at most one, until it has closed again (_request).
LeakBounded == \A c \in Coroutine : leaked[c] <= 1

\* A management token is fetched by one caller at a time, and only when none that can
\* be used is cached at that moment (_get_management_token).
SingleFetch ==
    [][\A c \in Coroutine : at[c] # "fetch" /\ at'[c] = "fetch" =>
          /\ ~Cached
          /\ \A d \in Coroutine \ {c} : at'[d] # "fetch"]_clientVars

\* Every operation ends, whatever Keycloak answers and whoever waits for the token.
OperationsEnd == \A c \in Coroutine : at[c] # "idle" ~> at[c] = "idle"

\* When Keycloak is well for good and refuses no request of its own, operations stop
\* failing: neither the circuit nor a forgotten token keeps them from it (_record_failure,
\* and the 401 in _request).
ServiceReturns ==
    <>[]healthy /\ <>[][\A c \in Coroutine : ~AnswerFails(c)]_clientVars
    => <>[](\A c \in Coroutine : outcome[c] \notin {"unavailable", "error"})

-----------------------------------------------------------------------------
(* The inductive invariant behind LeakBounded and SingleFetch. *)

\* What a caller waits for goes with what it has taken, sent and got.
StagesOK ==
    \A c \in Coroutine : /\ at[c] = "fetch" <=> tokenLock = c
                         /\ at[c] = "answer" <=> bearer[c] # "none"
                         /\ at[c] = "done" <=> outcome[c] # "none"

\* The circuit is open after Threshold failures in a row only, and whoever still
\* waits for the token has sent nothing since it opened.
CircuitOK ==
    /\ cooling > 0 => failures = Threshold
    /\ \A c \in Coroutine : cooling = 0 \/ at[c] = "wait" => leaked[c] = 0

\* The inductive invariant of the client: its types, its lock and its circuit breaker
\* (_request, _get_management_token, _record_failure, _record_success).
ClientInv == ClientTypeOK /\ StagesOK /\ CircuitOK /\ LeakBounded
=============================================================================
