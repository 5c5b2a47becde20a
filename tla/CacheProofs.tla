----------------------------- MODULE CacheProofs -----------------------------
(***************************************************************************)
(* The two caches that a process of the portal keeps of what Keycloak      *)
(* hands out, each refreshed under a lock of its own: the management token *)
(* (KeycloakClient) and the signing keys (ProviderKeys).                   *)
(***************************************************************************)
EXTENDS KeycloakClient, ProviderKeys, TLAPS

-----------------------------------------------------------------------------
(* The management token: the inductive invariant of the client, and what follows from
   it: the bound on requests that leave after the circuit has opened, and the single
   token fetch. *)

LEMMA ClientInitInv == ClientInit => ClientInv
BY TimeAssumption, NobodyAssumption
DEF ClientInit, ClientInv, ClientTypeOK, StagesOK, CircuitOK, LeakBounded, Steps, ClientStage

\* A success closes the circuit and clears the history of leaks.
LEMMA SuccessStep ==
    ASSUME ClientTypeOK, RecordSuccess, NEW S \in SUBSET Coroutine, Leaks(S)
    PROVE  /\ failures' \in 0 .. Threshold /\ cooling' \in 0 .. Cooldown
           /\ leaked' \in [Coroutine -> Nat] /\ \A c \in Coroutine : leaked'[c] = 0
           /\ cooling' = 0
BY TimeAssumption DEF ClientTypeOK, RecordSuccess, Leaks

\* Nobody new leaks when no request leaves.
LEMMA QuietLeaks ==
    ASSUME ClientTypeOK, LeakBounded, cooling' \in 0 .. Cooldown, Leaks({})
    PROVE  /\ leaked' \in [Coroutine -> Nat]
           /\ \A c \in Coroutine : leaked'[c] = leaked[c] \/ leaked'[c] = 0
           /\ \A c \in Coroutine : leaked'[c] <= 1
           /\ cooling' = 0 => \A c \in Coroutine : leaked'[c] = 0
BY DEF ClientTypeOK, LeakBounded, Leaks

LEMMA StepFacts == DOMAIN Steps = {"status", "revoke", "logout"}
                   /\ \A o \in DOMAIN Steps : Steps[o] \in Nat
BY DEF Steps

-----------------------------------------------------------------------------

\* The pieces of an action.
LEMMA FinishStages ==
    ASSUME ClientInv, NEW c \in Coroutine, NEW result \in {"ok", "unavailable", "error"},
           Conclude(c, result), at[c] # "done",
           IF at[c] = "fetch" THEN tokenLock' = Nobody ELSE UNCHANGED tokenLock
    PROVE  /\ StagesOK' /\ tokenLock' \in Coroutine \cup {Nobody}
           /\ at' \in [Coroutine -> ClientStage]
           /\ bearer' \in [Coroutine -> {"none", "good", "bad"}]
           /\ outcome' \in [Coroutine -> {"none", "ok", "unavailable", "error"}]
           /\ \A d \in Coroutine : at'[d] = "wait" => at[d] = "wait"
<1> USE NobodyAssumption DEF ClientInv, ClientTypeOK, StagesOK, Conclude, ClientStage
<1>1. /\ tokenLock' \in Coroutine \cup {Nobody} /\ at' \in [Coroutine -> ClientStage]
      /\ bearer' \in [Coroutine -> {"none", "good", "bad"}]
      /\ outcome' \in [Coroutine -> {"none", "ok", "unavailable", "error"}]
      /\ \A d \in Coroutine : at'[d] = "wait" => at[d] = "wait"
  OBVIOUS
<1>2. StagesOK'
  OBVIOUS
<1> QED
  BY <1>1, <1>2

LEMMA ProceedStages ==
    ASSUME ClientInv, NEW c \in Coroutine, Proceed(c), at[c] \in {"idle", "answer"},
           UNCHANGED outcome
    PROVE  /\ StagesOK' /\ tokenLock' \in Coroutine \cup {Nobody}
           /\ at' \in [Coroutine -> ClientStage]
           /\ bearer' \in [Coroutine -> {"none", "good", "bad"}]
           /\ at'[c] = "fetch" =>
                 ~Cached /\ \A d \in Coroutine \ {c} : at'[d] # "fetch"
           /\ \A d \in Coroutine \ {c} : at'[d] = at[d]
<1> USE NobodyAssumption DEF ClientInv, ClientTypeOK, StagesOK, ClientStage
<1>1. CASE Cached /\ SendWith(c, accessToken) /\ UNCHANGED tokenLock
  BY <1>1 DEF SendWith, Cached
<1>2. CASE ~Cached /\ tokenLock = Nobody /\ Fetch(c)
  BY <1>2 DEF Fetch
<1>3. CASE /\ at' = [at EXCEPT ![c] = "wait"]
           /\ bearer' = [bearer EXCEPT ![c] = "none"]
           /\ UNCHANGED tokenLock
  BY <1>3
<1> QED
  BY <1>1, <1>2, <1>3 DEF Proceed

-----------------------------------------------------------------------------
(* One lemma per action. *)

\* An operation starts with the circuit closed, when nobody has leaked.
LEMMA CallStep == ASSUME ClientInv, NEW c \in Coroutine, Call(c) PROVE ClientInv'
<1>1. PICK o \in DOMAIN Steps :
        /\ at[c] = "idle" /\ cooling = 0
        /\ op' = [op EXCEPT ![c] = o]
        /\ left' = [left EXCEPT ![c] = Steps[o]]
        /\ Proceed(c)
        /\ UNCHANGED <<healthy, accessToken, usable, failures, cooling, outcome>>
        /\ Leaks({c})
  BY DEF Call
<1>2. leaked' \in [Coroutine -> Nat] /\ \A d \in Coroutine : leaked'[d] = 0
  BY <1>1 DEF Leaks
<1>3. /\ StagesOK' /\ tokenLock' \in Coroutine \cup {Nobody}
      /\ at' \in [Coroutine -> ClientStage]
      /\ bearer' \in [Coroutine -> {"none", "good", "bad"}]
  BY <1>1, ProceedStages
<1>4. ClientTypeOK'
  BY <1>1, <1>2, <1>3, StepFacts DEF ClientInv, ClientTypeOK
<1>5. CircuitOK' /\ LeakBounded'
  BY <1>1, <1>2 DEF ClientInv, CircuitOK, LeakBounded
<1> QED
  BY <1>3, <1>4, <1>5 DEF ClientInv

\* Every action that ends an operation without a request of its own leaving.
LEMMA EndingStep ==
    ASSUME ClientInv, NEW c \in Coroutine, NEW result \in {"ok", "unavailable", "error"},
           Conclude(c, result), at[c] # "done",
           IF at[c] = "fetch" THEN tokenLock' = Nobody ELSE UNCHANGED tokenLock,
           healthy' \in BOOLEAN, accessToken' \in {"none", "good", "bad"}, usable' \in Nat,
           op' \in [Coroutine -> DOMAIN Steps], left' \in [Coroutine -> Nat],
           failures' \in 0 .. Threshold, cooling' \in 0 .. Cooldown,
           cooling' > 0 => failures' = Threshold,
           Leaks({})
    PROVE  ClientInv'
<1>1. /\ StagesOK' /\ tokenLock' \in Coroutine \cup {Nobody}
      /\ at' \in [Coroutine -> ClientStage]
      /\ bearer' \in [Coroutine -> {"none", "good", "bad"}]
      /\ outcome' \in [Coroutine -> {"none", "ok", "unavailable", "error"}]
      /\ \A d \in Coroutine : at'[d] = "wait" => at[d] = "wait"
  BY FinishStages
<1>2. /\ leaked' \in [Coroutine -> Nat]
      /\ \A d \in Coroutine : leaked'[d] = leaked[d] \/ leaked'[d] = 0
      /\ \A d \in Coroutine : leaked'[d] <= 1
      /\ cooling' = 0 => \A d \in Coroutine : leaked'[d] = 0
  BY QuietLeaks DEF ClientInv
<1>3. ClientTypeOK'
  BY <1>1, <1>2 DEF ClientTypeOK
<1>4. CircuitOK' /\ LeakBounded'
  BY <1>1, <1>2 DEF ClientInv, CircuitOK, LeakBounded
<1> QED
  BY <1>1, <1>3, <1>4 DEF ClientInv

LEMMA RefuseStep == ASSUME ClientInv, NEW c \in Coroutine, Refuse(c) PROVE ClientInv'
<1>1. /\ op' \in [Coroutine -> DOMAIN Steps] /\ at[c] = "idle"
      /\ Conclude(c, "unavailable") /\ Leaks({})
      /\ UNCHANGED <<healthy, accessToken, usable, failures, cooling, tokenLock, left>>
  BY DEF Refuse, ClientInv, ClientTypeOK
<1> QED
  BY <1>1, EndingStep DEF ClientInv, ClientTypeOK, CircuitOK

LEMMA TakeStep == ASSUME ClientInv, NEW c \in Coroutine, Take(c) PROVE ClientInv'
<1> USE DEF ClientInv, ClientTypeOK
<1>1. /\ at[c] = "wait" /\ tokenLock = Nobody /\ leaked[c] = 0
      /\ UNCHANGED <<healthy, accessToken, usable, failures, cooling, op, left, outcome>>
      /\ leaked' = [d \in Coroutine |-> IF cooling' = 0 THEN 0
                                        ELSE IF d \in {c} THEN leaked[d] + 1 ELSE leaked[d]]
  BY DEF Take, Leaks, CircuitOK
<1>2. \/ Cached /\ SendWith(c, accessToken) /\ UNCHANGED tokenLock
      \/ ~Cached /\ Fetch(c)
  BY DEF Take
<1>3. /\ StagesOK' /\ tokenLock' \in Coroutine \cup {Nobody}
      /\ at' \in [Coroutine -> ClientStage]
      /\ bearer' \in [Coroutine -> {"none", "good", "bad"}]
      /\ at'[c] # "wait" /\ \A d \in Coroutine \ {c} : at'[d] = at[d]
  <2> USE NobodyAssumption DEF StagesOK, ClientStage
  <2>1. CASE Cached /\ SendWith(c, accessToken) /\ UNCHANGED tokenLock
    BY <2>1, <1>1 DEF SendWith, Cached
  <2>2. CASE ~Cached /\ Fetch(c)
    BY <2>2, <1>1 DEF Fetch
  <2> QED
    BY <1>2, <2>1, <2>2
<1>4. ClientTypeOK'
  BY <1>1, <1>3
<1>5. CircuitOK' /\ LeakBounded'
  BY <1>1, <1>3 DEF CircuitOK, LeakBounded
<1> QED
  BY <1>3, <1>4, <1>5

\* The two successes: the circuit closes and all leaks are forgotten.
LEMMA ClosingStep ==
    ASSUME ClientInv, NEW S \in SUBSET Coroutine, RecordSuccess, Leaks(S),
           StagesOK', tokenLock' \in Coroutine \cup {Nobody},
           at' \in [Coroutine -> ClientStage],
           bearer' \in [Coroutine -> {"none", "good", "bad"}],
           outcome' \in [Coroutine -> {"none", "ok", "unavailable", "error"}],
           healthy' \in BOOLEAN, accessToken' \in {"none", "good", "bad"}, usable' \in Nat,
           op' \in [Coroutine -> DOMAIN Steps], left' \in [Coroutine -> Nat]
    PROVE  ClientInv'
<1>1. /\ failures' \in 0 .. Threshold /\ cooling' \in 0 .. Cooldown
      /\ leaked' \in [Coroutine -> Nat] /\ \A c \in Coroutine : leaked'[c] = 0
      /\ cooling' = 0
  BY SuccessStep DEF ClientInv
<1> QED
  BY <1>1 DEF ClientInv, ClientTypeOK, CircuitOK, LeakBounded

LEMMA FetchSucceedsStep ==
    ASSUME ClientInv, NEW c \in Coroutine, FetchSucceeds(c) PROVE ClientInv'
<1> USE DEF ClientInv, ClientTypeOK, FetchSucceeds
<1>1. /\ StagesOK' /\ at' \in [Coroutine -> ClientStage]
      /\ bearer' \in [Coroutine -> {"none", "good", "bad"}]
  BY NobodyAssumption DEF StagesOK, ClientStage, SendWith
<1> QED
  BY <1>1, ClosingStep, TimeAssumption

LEMMA AnswerSucceedsStep ==
    ASSUME ClientInv, NEW c \in Coroutine, AnswerSucceeds(c) PROVE ClientInv'
<1>1. /\ at[c] = "answer" /\ RecordSuccess /\ Leaks({})
      /\ UNCHANGED <<healthy, accessToken, usable, op>>
  BY DEF AnswerSucceeds
<1>2. CASE /\ Proceed(c) /\ left[c] > 1 /\ left' = [left EXCEPT ![c] = @ - 1]
           /\ UNCHANGED outcome
  <2>1. /\ StagesOK' /\ tokenLock' \in Coroutine \cup {Nobody}
        /\ at' \in [Coroutine -> ClientStage]
        /\ bearer' \in [Coroutine -> {"none", "good", "bad"}]
    BY <1>1, <1>2, ProceedStages
  <2>2. left' \in [Coroutine -> Nat]
    BY <1>2 DEF ClientInv, ClientTypeOK
  <2> QED
    BY <1>1, <1>2, <2>1, <2>2, ClosingStep DEF ClientInv, ClientTypeOK
<1>3. CASE Conclude(c, "ok") /\ UNCHANGED <<left, tokenLock>>
  <2>1. /\ StagesOK' /\ tokenLock' \in Coroutine \cup {Nobody}
        /\ at' \in [Coroutine -> ClientStage]
        /\ bearer' \in [Coroutine -> {"none", "good", "bad"}]
        /\ outcome' \in [Coroutine -> {"none", "ok", "unavailable", "error"}]
    BY <1>1, <1>3, FinishStages
  <2> QED
    BY <1>1, <1>3, <2>1, ClosingStep DEF ClientInv, ClientTypeOK
<1> QED
  BY <1>2, <1>3 DEF AnswerSucceeds

\* What a recorded failure leaves in any action.
LEMMA FailureKeeps ==
    ASSUME ClientInv, RecordFailure
    PROVE  /\ failures' \in 0 .. Threshold /\ cooling' \in 0 .. Cooldown
           /\ cooling' > 0 => failures' = Threshold
BY TimeAssumption DEF ClientInv, ClientTypeOK, CircuitOK, RecordFailure, FailureAfter

LEMMA FailingStep ==
    ASSUME ClientInv, NEW c \in Coroutine,
           \/ FetchRejected(c) \/ FetchEscapes(c) \/ FetchGarbled(c)
           \/ Unauthorized(c) \/ AnswerFails(c) \/ AnswerInvalid(c)
    PROVE  ClientInv'
<1> USE DEF ClientInv, ClientTypeOK
<1>1. CASE FetchRejected(c)
  BY <1>1, FailureKeeps, EndingStep DEF FetchRejected
<1>2. CASE FetchEscapes(c)
  BY <1>2, EndingStep DEF FetchEscapes, CircuitOK
<1>3. CASE FetchGarbled(c)
  BY <1>3, EndingStep DEF FetchGarbled, CircuitOK
<1>4. CASE Unauthorized(c)
  BY <1>4, FailureKeeps, EndingStep DEF Unauthorized
<1>5. CASE AnswerFails(c)
  BY <1>5, FailureKeeps, EndingStep DEF AnswerFails
<1>6. CASE AnswerInvalid(c)
  <2>1. /\ failures' \in 0 .. Threshold /\ cooling' \in 0 .. Cooldown
        /\ cooling' > 0 => failures' = Threshold
    BY <1>6, TimeAssumption DEF AnswerInvalid
  <2> QED
    BY <1>6, <2>1, EndingStep DEF AnswerInvalid
<1> QED
  BY <1>1, <1>2, <1>3, <1>4, <1>5, <1>6

LEMMA ReturnStep == ASSUME ClientInv, NEW c \in Coroutine, Return(c) PROVE ClientInv'
<1> USE DEF ClientInv, ClientTypeOK, Return
<1>1. /\ leaked' \in [Coroutine -> Nat]
      /\ \A d \in Coroutine : leaked'[d] = leaked[d] \/ leaked'[d] = 0
      /\ \A d \in Coroutine : leaked'[d] <= 1
      /\ cooling' = 0 => \A d \in Coroutine : leaked'[d] = 0
  BY QuietLeaks
<1>2. ClientTypeOK'
  BY <1>1 DEF ClientStage, Steps
<1>3. StagesOK'
  BY NobodyAssumption DEF StagesOK, ClientStage
<1>4. CircuitOK' /\ LeakBounded'
  BY <1>1 DEF CircuitOK, LeakBounded
<1> QED
  BY <1>2, <1>3, <1>4

LEMMA OutsideStep == ASSUME ClientInv, Turn \/ Forget \/ ClientTick PROVE ClientInv'
<1> USE DEF ClientInv, callerVars
<1>1. CASE Turn
  BY <1>1 DEF Turn, ClientTypeOK, StagesOK, CircuitOK, LeakBounded
<1>2. CASE Forget
  <2>1. ClientTypeOK'
    BY <1>2 DEF Forget, ClientTypeOK, Forgotten
  <2>2. StagesOK'
    BY <1>2 DEF Forget, ClientTypeOK, StagesOK, Forgotten
  <2>3. CircuitOK' /\ LeakBounded'
    BY <1>2 DEF Forget, CircuitOK, LeakBounded
  <2> QED
    BY <2>1, <2>2, <2>3
<1>3. CASE ClientTick
  <2>1. usable' \in Nat /\ cooling' \in 0 .. Cooldown /\ (cooling' > 0 => cooling > 0)
    BY <1>3, TimeAssumption DEF ClientTick, ClientTypeOK
  <2>2. /\ leaked' \in [Coroutine -> Nat]
        /\ \A d \in Coroutine : leaked'[d] = leaked[d] \/ leaked'[d] = 0
        /\ \A d \in Coroutine : leaked'[d] <= 1
        /\ cooling' = 0 => \A d \in Coroutine : leaked'[d] = 0
    BY <1>3, <2>1, QuietLeaks DEF ClientTick
  <2>3. ClientTypeOK'
    BY <1>3, <2>1, <2>2 DEF ClientTick, ClientTypeOK
  <2>4. StagesOK'
    BY <1>3 DEF ClientTick, StagesOK
  <2>5. CircuitOK' /\ LeakBounded'
    BY <1>3, <2>1, <2>2 DEF ClientTick, CircuitOK, LeakBounded
  <2> QED
    BY <2>3, <2>4, <2>5
<1> QED
  BY <1>1, <1>2, <1>3

LEMMA StutterStep == ASSUME ClientInv, UNCHANGED clientVars PROVE ClientInv'
BY DEF ClientInv, ClientTypeOK, StagesOK, CircuitOK, LeakBounded, clientVars, callerVars

LEMMA ClientNextInv == ASSUME ClientInv, [ClientNext]_clientVars PROVE ClientInv'
BY CallStep, RefuseStep, TakeStep, FetchSucceedsStep, AnswerSucceedsStep, FailingStep,
   ReturnStep, OutsideStep, StutterStep
DEF ClientNext, Work

\* The invariant holds for any number of callers, whatever Keycloak answers.
THEOREM ClientInvariant == ClientSpec => []ClientInv
<1>1. ClientInv /\ [ClientNext]_clientVars => ClientInv'
  BY ClientNextInv
<1> QED
  BY ClientInitInv, <1>1, PTL DEF ClientSpec

-----------------------------------------------------------------------------

\* After the circuit has opened each caller sends at most one more HTTP request until
\* it closes.
THEOREM LeaksBounded == ClientSpec => []LeakBounded
<1>1. ClientInv => LeakBounded
  BY DEF ClientInv
<1> QED
  BY ClientInvariant, <1>1, PTL

LEMMA FetchStep ==
    ASSUME ClientInv, [ClientNext]_clientVars, NEW c \in Coroutine,
           at[c] # "fetch", at'[c] = "fetch"
    PROVE  ~Cached /\ \A d \in Coroutine \ {c} : at'[d] # "fetch"
<1> USE DEF ClientInv, ClientTypeOK
<1>1. ASSUME NEW d \in Coroutine, Call(d)
      PROVE  ~Cached /\ \A e \in Coroutine \ {c} : at'[e] # "fetch"
  <2>1. at[d] = "idle" /\ Proceed(d) /\ UNCHANGED outcome
    BY <1>1 DEF Call
  <2> QED
    BY <2>1, ProceedStages
<1>2. ASSUME NEW d \in Coroutine, AnswerSucceeds(d)
      PROVE  ~Cached /\ \A e \in Coroutine \ {c} : at'[e] # "fetch"
  <2>1. at[d] = "answer" /\ ((Proceed(d) /\ UNCHANGED outcome) \/ Conclude(d, "ok"))
    BY <1>2 DEF AnswerSucceeds
  <2>2. Proceed(d) /\ UNCHANGED outcome
    BY <2>1 DEF Conclude
  <2> QED
    BY <2>1, <2>2, ProceedStages
<1>3. ASSUME NEW d \in Coroutine, Take(d)
      PROVE  ~Cached /\ \A e \in Coroutine \ {c} : at'[e] # "fetch"
  BY <1>3, NobodyAssumption DEF Take, SendWith, Fetch, StagesOK
<1>4. ASSUME NEW d \in Coroutine,
             \/ Refuse(d) \/ FetchSucceeds(d) \/ FetchRejected(d) \/ FetchEscapes(d)
             \/ FetchGarbled(d) \/ Unauthorized(d) \/ AnswerFails(d)
             \/ AnswerInvalid(d) \/ Return(d)
      PROVE  FALSE
  BY <1>4 DEF Refuse, FetchSucceeds, FetchRejected, FetchEscapes, FetchGarbled,
     Unauthorized, AnswerFails, AnswerInvalid, Return, Conclude, SendWith
<1>5. ~(Turn \/ Forget \/ ClientTick \/ UNCHANGED clientVars)
  BY DEF Turn, Forget, ClientTick, clientVars, callerVars
<1> QED
  BY <1>1, <1>2, <1>3, <1>4, <1>5 DEF ClientNext, Work

\* No two callers fetch a token at once, and none while a usable one is cached.
THEOREM FetchAlone == ClientSpec => SingleFetch
<1>1. ClientInv /\ [ClientNext]_clientVars =>
        [\A c \in Coroutine : at[c] # "fetch" /\ at'[c] = "fetch" =>
            /\ ~Cached
            /\ \A d \in Coroutine \ {c} : at'[d] # "fetch"]_clientVars
  BY FetchStep
<1> QED
  BY ClientInvariant, <1>1, PTL DEF ClientSpec, SingleFetch

-----------------------------------------------------------------------------
(* The signing keys, for any number of callers, keys and lifetimes. *)

USE DEF InOrder, Within, Fetching, KeysFresh, MetaFresh

-----------------------------------------------------------------------------
(* What the operators that several actions share do. *)

\* Decode ends the call or sends it to look for newer keys.
LEMMA DecodeMoves ==
    ASSUME TypeOK, NEW c \in Caller, NEW span \in Span, token[c] # None, Decode(c, span)
    PROVE  /\ token' \in [Caller -> Token \cup {None}]
           /\ force' \in [Caller -> BOOLEAN]
           /\ verdict' \in [Caller -> Verdict \cup {None}]
           /\ \/ /\ pc' = [pc EXCEPT ![c] = "done"]
                 /\ token' = [token EXCEPT ![c] = None]
                 /\ force' = [force EXCEPT ![c] = FALSE]
              \/ /\ pc' = [pc EXCEPT ![c] = "keysLock"] \/ pc' = [pc EXCEPT ![c] = "metaLock"]
                 /\ token' = token /\ force' = [force EXCEPT ![c] = TRUE]
  BY DEF TypeOK, Decode, SeekKeys, Finish, Goto, Token, Verdict, Stage

\* AfterMeta ends a call for the metadata and lets a validation go on.
LEMMA MetaMoves ==
    ASSUME TypeOK, NEW c \in Caller, AfterMeta(c)
    PROVE  /\ token' \in [Caller -> Token \cup {None}]
           /\ force' \in [Caller -> BOOLEAN]
           /\ verdict' \in [Caller -> Verdict \cup {None}]
           /\ \/ /\ pc' = [pc EXCEPT ![c] = "done"]
                 /\ token' = [token EXCEPT ![c] = None]
                 /\ force' = [force EXCEPT ![c] = FALSE]
              \/ /\ token[c] # None
                 /\ pc' = [pc EXCEPT ![c] = "keysLock"]
                 /\ token' = token /\ force' = force
  BY DEF TypeOK, AfterMeta, Finish, Goto, Token, Verdict, Stage

-----------------------------------------------------------------------------
(* The inductive invariant. *)

LEMMA InitInv == Init => KeysInv
  BY BoundAssumption, NoneAssumption
     DEF Init, KeysInv, TypeOK, LockHeld, TokensOK, SpansOK, AgesOK, Key, Span, Stage

LEMMA NextInv == KeysInv /\ [Next]_vars => KeysInv'
<1> SUFFICES ASSUME KeysInv, [Next]_vars
             PROVE  KeysInv'
    OBVIOUS
<1> USE BoundAssumption, NoneAssumption
<1>1. CASE Publish
  <2>1. TypeOK' /\ LockHeld' /\ TokensOK'
        BY <1>1 DEF KeysInv, TypeOK, LockHeld, TokensOK, Publish, cache, Key, Span, Token
  <2>2. SpansOK' /\ AgesOK'
        BY <1>1 DEF KeysInv, TypeOK, TokensOK, SpansOK, AgesOK, Publish, cache, Key, Span, Token
  <2> QED BY <2>1, <2>2 DEF KeysInv
<1>2. CASE Withdraw
  <2>1. TypeOK' /\ LockHeld' /\ TokensOK'
        BY <1>2 DEF KeysInv, TypeOK, LockHeld, TokensOK, Withdraw, cache, Key, Span
  <2>2. SpansOK'
        BY <1>2 DEF KeysInv, TypeOK, SpansOK, Withdraw, cache, Key, Span
  <2>3. AgesOK'
        BY <1>2 DEF KeysInv, TypeOK, SpansOK, AgesOK, Withdraw, cache, Key, Span
  <2> QED BY <2>1, <2>2, <2>3 DEF KeysInv
<1>3. CASE Tick
  <2>1. TypeOK' /\ LockHeld' /\ TokensOK' /\ SpansOK'
        BY <1>3 DEF KeysInv, TypeOK, LockHeld, TokensOK, SpansOK, Tick, cache, provider
  <2>2. AgesOK'
        BY <1>3 DEF KeysInv, TypeOK, AgesOK, Tick, cache, provider, Key, Span
  <2> QED BY <2>1, <2>2 DEF KeysInv
<1>4. ASSUME NEW c \in Caller, StartValidation(c)
      PROVE  KeysInv'
  <2>1. TypeOK' /\ LockHeld'
        BY <1>4 DEF KeysInv, TypeOK, LockHeld, StartValidation, Goto, cache, provider, Stage
  <2>2. TokensOK'
        BY <1>4 DEF KeysInv, TypeOK, TokensOK, StartValidation, Goto, cache, provider, Stage, Token
  <2>3. SpansOK' /\ AgesOK'
        BY <1>4 DEF KeysInv, TypeOK, LockHeld, SpansOK, AgesOK, StartValidation, Goto, cache, provider,
                    Stage
  <2> QED BY <2>1, <2>2, <2>3 DEF KeysInv
<1>5. ASSUME NEW c \in Caller, StartMetadata(c)
      PROVE  KeysInv'
  <2>3. TypeOK'
        BY <1>5 DEF KeysInv, TypeOK, StartMetadata, Finish, Goto, cache, provider, Stage, Verdict
  <2>4. /\ lock' = lock /\ ~Fetching(c) /\ ~Fetching(c)'
        /\ \A d \in Caller \ {c} : pc'[d] = pc[d]
        BY <1>5 DEF KeysInv, TypeOK, StartMetadata, Finish, Goto, Fetching
  <2>5. LockHeld'
        BY <2>4 DEF KeysInv, LockHeld, Fetching
  <2>1. TokensOK'
        BY <1>5 DEF KeysInv, TypeOK, TokensOK, StartMetadata, Finish, Goto, cache, provider,
                    Stage, Token
  <2>2. SpansOK' /\ AgesOK'
        BY <1>5 DEF KeysInv, TypeOK, SpansOK, AgesOK, StartMetadata, Finish, Goto, cache, provider, Stage
  <2> QED BY <2>1, <2>2, <2>3, <2>5 DEF KeysInv
<1>6. ASSUME NEW c \in Caller, Answer(c)
      PROVE  KeysInv'
  <2>1. TypeOK' /\ LockHeld' /\ TokensOK'
        BY <1>6 DEF KeysInv, TypeOK, LockHeld, TokensOK, Answer, cache, provider
  <2>2. SpansOK' /\ AgesOK'
        BY <1>6 DEF KeysInv, TypeOK, TokensOK, SpansOK, AgesOK, Answer, cache, provider, Span, Key, Token
  <2> QED BY <2>1, <2>2 DEF KeysInv
<1>7. ASSUME NEW c \in Caller, ReadKeys(c)
      PROVE  KeysInv'
  <2>1. /\ token' \in [Caller -> Token \cup {None}]
        /\ force' \in [Caller -> BOOLEAN]
        /\ verdict' \in [Caller -> Verdict \cup {None}]
        /\ \/ /\ pc' = [pc EXCEPT ![c] = "done"]
              /\ token' = [token EXCEPT ![c] = None]
              /\ force' = [force EXCEPT ![c] = FALSE]
           \/ /\ pc' = [pc EXCEPT ![c] = "keysLock"] \/ pc' = [pc EXCEPT ![c] = "metaLock"]
              /\ token' = token
              /\ force' = force \/ force' = [force EXCEPT ![c] = TRUE]
    <3>1. CASE KeysFresh /\ Decode(c, keys)
      <4>1. token[c] # None /\ keys \in Span /\ TypeOK
            BY <1>7, <3>1 DEF KeysInv, TypeOK, TokensOK, ReadKeys
      <4> QED BY <3>1, <4>1, DecodeMoves
    <3>2. CASE SeekKeys(c) /\ UNCHANGED <<token, force, verdict>>
          BY <3>2 DEF KeysInv, TypeOK, SeekKeys, Goto
    <3> QED BY <1>7, <3>1, <3>2 DEF ReadKeys
  <2>2. pc[c] = "keys" /\ token[c] # None /\ UNCHANGED <<now, provider, cache, lock, sent, answer>>
        BY <1>7 DEF ReadKeys, KeysInv, TokensOK
  <2>3. TypeOK' /\ LockHeld'
        BY <2>1, <2>2 DEF KeysInv, TypeOK, LockHeld, cache, provider, Stage
  <2>4. TokensOK'
        BY <2>1, <2>2 DEF KeysInv, TypeOK, TokensOK, cache, provider, Stage, Token
  <2>5. SpansOK' /\ AgesOK'
        BY <2>1, <2>2 DEF KeysInv, TypeOK, SpansOK, AgesOK, cache, provider, Stage
  <2> QED BY <2>3, <2>4, <2>5 DEF KeysInv
<1>8. ASSUME NEW c \in Caller, EnterMeta(c)
      PROVE  KeysInv'
  <2>1. CASE MetaFresh /\ lock = None /\ AfterMeta(c) /\ UNCHANGED <<lock, sent>>
    <3>1. /\ token' \in [Caller -> Token \cup {None}]
          /\ force' \in [Caller -> BOOLEAN]
          /\ verdict' \in [Caller -> Verdict \cup {None}]
          /\ \/ /\ pc' = [pc EXCEPT ![c] = "done"]
                /\ token' = [token EXCEPT ![c] = None]
                /\ force' = [force EXCEPT ![c] = FALSE]
             \/ /\ token[c] # None
                /\ pc' = [pc EXCEPT ![c] = "keysLock"]
                /\ token' = token /\ force' = force
          BY <2>1, MetaMoves DEF KeysInv
    <3>2. pc[c] = "metaLock" /\ UNCHANGED <<now, provider, cache, answer, lock, sent>>
          BY <1>8, <2>1 DEF EnterMeta
    <3>3. TypeOK' /\ LockHeld'
          BY <3>1, <3>2 DEF KeysInv, TypeOK, LockHeld, cache, provider, Stage
    <3>4. TokensOK'
          BY <3>1, <3>2 DEF KeysInv, TypeOK, TokensOK, cache, provider, Stage, Token
    <3>5. SpansOK' /\ AgesOK'
          BY <3>1, <3>2 DEF KeysInv, TypeOK, SpansOK, AgesOK, cache, provider, Stage
    <3> QED BY <3>3, <3>4, <3>5 DEF KeysInv
  <2>2. CASE ~MetaFresh /\ Acquire(c) /\ Send(c, "metaFetch")
    <3>1. /\ pc[c] = "metaLock" /\ lock = None /\ lock' = c
          /\ pc' = [pc EXCEPT ![c] = "metaFetch"]
          /\ sent' = [sent EXCEPT ![c] = now]
          /\ UNCHANGED <<now, provider, cache, answer, token, force, verdict>>
          BY <1>8, <2>2 DEF EnterMeta, Acquire, Send, Goto
    <3>2. TypeOK' /\ LockHeld' /\ TokensOK'
          BY <3>1 DEF KeysInv, TypeOK, LockHeld, TokensOK, cache, provider, Stage
    <3>3. SpansOK' /\ AgesOK'
          BY <3>1 DEF KeysInv, TypeOK, SpansOK, AgesOK, cache, provider, Stage
    <3> QED BY <3>2, <3>3 DEF KeysInv
  <2> QED BY <1>8, <2>1, <2>2 DEF EnterMeta
<1>9. ASSUME NEW c \in Caller, ReceiveMeta(c)
      PROVE  KeysInv'
  <2>1. /\ token' \in [Caller -> Token \cup {None}]
        /\ force' \in [Caller -> BOOLEAN]
        /\ verdict' \in [Caller -> Verdict \cup {None}]
        /\ \/ /\ pc' = [pc EXCEPT ![c] = "done"]
              /\ token' = [token EXCEPT ![c] = None]
              /\ force' = [force EXCEPT ![c] = FALSE]
           \/ /\ token[c] # None
              /\ pc' = [pc EXCEPT ![c] = "keysLock"]
              /\ token' = token /\ force' = force
        BY <1>9, MetaMoves DEF KeysInv, ReceiveMeta
  <2>2. /\ pc[c] = "metaFetch" /\ metaUntil' = now + Life /\ lock' = None
        /\ sent' = [sent EXCEPT ![c] = 0] /\ answer' = [answer EXCEPT ![c] = None]
        /\ UNCHANGED <<now, provider, keys, keysUntil>>
        BY <1>9 DEF ReceiveMeta, Release, Received
  <2>3. TypeOK' /\ LockHeld'
        BY <2>1, <2>2 DEF KeysInv, TypeOK, LockHeld, provider, Stage
  <2>4. TokensOK'
        BY <2>1, <2>2 DEF KeysInv, TypeOK, TokensOK, provider, Stage, Token
  <2>5. SpansOK' /\ AgesOK'
        BY <2>1, <2>2 DEF KeysInv, TypeOK, SpansOK, AgesOK, provider, Stage
  <2> QED BY <2>3, <2>4, <2>5 DEF KeysInv
<1>10. ASSUME NEW c \in Caller, EnterKeys(c)
       PROVE  KeysInv'
  <2>1. CASE ~force[c] /\ KeysFresh /\ lock = None /\ Decode(c, keys) /\ UNCHANGED <<lock, sent>>
    <3>1. token[c] # None /\ keys \in Span /\ TypeOK
          BY <1>10, <2>1 DEF KeysInv, TypeOK, TokensOK, EnterKeys
    <3>2. /\ token' \in [Caller -> Token \cup {None}]
          /\ force' \in [Caller -> BOOLEAN]
          /\ verdict' \in [Caller -> Verdict \cup {None}]
          /\ \/ /\ pc' = [pc EXCEPT ![c] = "done"]
                /\ token' = [token EXCEPT ![c] = None]
                /\ force' = [force EXCEPT ![c] = FALSE]
             \/ /\ pc' = [pc EXCEPT ![c] = "keysLock"] \/ pc' = [pc EXCEPT ![c] = "metaLock"]
                /\ token' = token /\ force' = [force EXCEPT ![c] = TRUE]
          BY <2>1, <3>1, DecodeMoves
    <3>3. pc[c] = "keysLock" /\ UNCHANGED <<now, provider, cache, answer, lock, sent>>
          BY <1>10, <2>1 DEF EnterKeys
    <3>4. TypeOK' /\ LockHeld'
          BY <3>2, <3>3 DEF KeysInv, TypeOK, LockHeld, cache, provider, Stage
    <3>5. TokensOK'
          BY <3>1, <3>2, <3>3 DEF KeysInv, TypeOK, TokensOK, cache, provider, Stage, Token
    <3>6. SpansOK' /\ AgesOK'
          BY <3>2, <3>3 DEF KeysInv, TypeOK, SpansOK, AgesOK, cache, provider, Stage
    <3> QED BY <3>4, <3>5, <3>6 DEF KeysInv
  <2>2. CASE Acquire(c) /\ Send(c, "keysFetch")
    <3>1. /\ pc[c] = "keysLock" /\ lock = None /\ lock' = c
          /\ pc' = [pc EXCEPT ![c] = "keysFetch"]
          /\ sent' = [sent EXCEPT ![c] = now]
          /\ UNCHANGED <<now, provider, cache, answer, token, force, verdict>>
          BY <1>10, <2>2 DEF EnterKeys, Acquire, Send, Goto
    <3>2. TypeOK' /\ LockHeld' /\ TokensOK'
          BY <3>1 DEF KeysInv, TypeOK, LockHeld, TokensOK, cache, provider, Stage
    <3>3. SpansOK' /\ AgesOK'
          BY <3>1 DEF KeysInv, TypeOK, SpansOK, AgesOK, cache, provider, Stage
    <3> QED BY <3>2, <3>3 DEF KeysInv
  <2> QED BY <1>10, <2>1, <2>2 DEF EnterKeys
<1>11. ASSUME NEW c \in Caller, ReceiveKeys(c)
       PROVE  KeysInv'
  <2>1. /\ pc[c] = "keysFetch" /\ answer[c] # None /\ answer[c] \in Span
        /\ token[c] # None /\ TypeOK
        /\ keys' = answer[c] /\ keysUntil' = now + Life /\ lock' = None
        /\ sent' = [sent EXCEPT ![c] = 0] /\ answer' = [answer EXCEPT ![c] = None]
        /\ UNCHANGED <<now, provider, metaUntil>>
        BY <1>11 DEF ReceiveKeys, Release, Received, KeysInv, TypeOK, TokensOK
  <2>2. /\ token' \in [Caller -> Token \cup {None}]
        /\ force' \in [Caller -> BOOLEAN]
        /\ verdict' \in [Caller -> Verdict \cup {None}]
        /\ \/ /\ pc' = [pc EXCEPT ![c] = "done"]
              /\ token' = [token EXCEPT ![c] = None]
              /\ force' = [force EXCEPT ![c] = FALSE]
           \/ /\ pc' = [pc EXCEPT ![c] = "keysLock"] \/ pc' = [pc EXCEPT ![c] = "metaLock"]
              /\ token' = token /\ force' = [force EXCEPT ![c] = TRUE]
        BY <1>11, <2>1, DecodeMoves DEF ReceiveKeys
  <2>3. TypeOK' /\ LockHeld'
        BY <2>1, <2>2 DEF KeysInv, TypeOK, LockHeld, provider, Stage
  <2>4. TokensOK'
        BY <2>1, <2>2 DEF KeysInv, TypeOK, TokensOK, provider, Stage, Token
  <2>5. \A d \in Caller : answer'[d] = None
        BY <2>1 DEF KeysInv, TypeOK, LockHeld, SpansOK
  <2>6. SpansOK'
        BY <2>1, <2>5 DEF KeysInv, TypeOK, SpansOK, provider
  <2>7. AgesOK'
    <3>1. /\ \A k \in Key : withdrawn[k] # None /\ Within(k, answer[c]) => sent[c] <= withdrawn[k]
          /\ now <= sent[c] + Timeout /\ withdrawn \in [Key -> Nat \cup {None}]
          /\ now \in Nat /\ sent[c] \in Nat
          BY <2>1 DEF KeysInv, TypeOK, AgesOK
    <3>2. \A k \in Key : withdrawn'[k] # None /\ keys' # None /\ Within(k, keys') =>
             keysUntil' <= withdrawn'[k] + Timeout + Life
          BY <2>1, <3>1 DEF provider
    <3>3. /\ keysUntil' <= now' + Life
          /\ \A k \in Key : withdrawn'[k] = None <=> published'.first <= k
          BY <2>1, <3>1 DEF KeysInv, AgesOK, provider
    <3>4. \A d \in Caller : Fetching(d)' => sent'[d] <= now' /\ now' <= sent'[d] + Timeout
          BY <2>1, <2>2 DEF KeysInv, TypeOK, AgesOK, LockHeld
    <3> QED BY <2>5, <3>2, <3>3, <3>4 DEF AgesOK
  <2> QED BY <2>3, <2>4, <2>6, <2>7 DEF KeysInv
<1>12. ASSUME NEW c \in Caller, Fail(c)
       PROVE  KeysInv'
  <2>1. TypeOK' /\ LockHeld' /\ TokensOK'
        BY <1>12 DEF KeysInv, TypeOK, LockHeld, TokensOK, Fail, Finish, Release, Received, Goto,
                     cache, provider, Stage, Verdict, Token
  <2>2. SpansOK' /\ AgesOK'
        BY <1>12 DEF KeysInv, TypeOK, SpansOK, AgesOK, Fail, Finish, Release, Received, Goto,
                     cache, provider, Stage
  <2> QED BY <2>1, <2>2 DEF KeysInv
<1>13. CASE UNCHANGED vars
       BY <1>13 DEF vars, cache, provider, KeysInv, TypeOK, LockHeld, TokensOK, SpansOK, AgesOK
<1> QED BY <1>1, <1>2, <1>3, <1>4, <1>5, <1>6, <1>7, <1>8, <1>9, <1>10, <1>11, <1>12, <1>13
        DEF Next, Run, Rest

\* The validator's cache, its lock and the answers under way agree at all times.
THEOREM KeysInvariant == Spec => []KeysInv
  BY InitInv, NextInv, PTL DEF Spec

-----------------------------------------------------------------------------
(* What follows from the invariant. *)

\* The cached keys change only to the answer of the refresh that holds the lock.
LEMMA KeysFrom ==
    ASSUME KeysInv, [Next]_vars, keys # None, keys' # keys
    PROVE  keys'.first >= keys.first /\ keys'.last >= keys.last
<1>1. PICK c \in Caller : ReceiveKeys(c)
      BY DEF Next, vars, cache, Publish, Withdraw, Answer, Tick, Rest, StartValidation,
             StartMetadata, Run, ReadKeys, EnterMeta, ReceiveMeta, EnterKeys, Fail
<1>2. keys' = answer[c] /\ InOrder(keys, answer[c])
      BY <1>1 DEF ReceiveKeys, KeysInv, SpansOK
<1>3. keys \in Span /\ answer[c] \in Span
      BY <1>1 DEF KeysInv, TypeOK, ReceiveKeys
<1> QED BY <1>2, <1>3 DEF Span, Key

\* Refreshes never take the cached keys back to an older set (jwks).
THEOREM KeysNeverGoBack == Spec => KeysForward
<1>1. KeysInv /\ [Next]_vars =>
        [keys # None /\ keys' # keys =>
            keys'.first >= keys.first /\ keys'.last >= keys.last]_vars
      BY KeysFrom
<1> QED BY <1>1, KeysInvariant, PTL DEF Spec, KeysForward

\* A verdict on a token comes from Decode, with the cached keys while they live or
\* with an answer that has just arrived.
LEMMA VerdictFrom ==
    ASSUME KeysInv, [Next]_vars, NEW c \in Caller,
           verdict'[c] # verdict[c], verdict'[c] \in {"accepted", "rejected"}
    PROVE  /\ token[c] # None
           /\ \/ Decode(c, keys) /\ keys # None /\ now < keysUntil /\ ~force[c]
              \/ Decode(c, answer[c]) /\ answer[c] # None
<1>0. verdict \in [Caller -> Verdict \cup {None}]
      BY DEF KeysInv, TypeOK
<1>1. PICK d \in Caller : ReadKeys(d) \/ EnterKeys(d) \/ ReceiveKeys(d)
  <2>1. ASSUME NEW d \in Caller, StartMetadata(d) \/ EnterMeta(d) \/ ReceiveMeta(d) \/ Fail(d)
        PROVE  FALSE
        BY <1>0, <2>1 DEF StartMetadata, EnterMeta, ReceiveMeta, Fail, AfterMeta, Send, Finish
  <2> QED BY <2>1 DEF Next, vars, Publish, Withdraw, Answer, Tick, Rest, StartValidation, Run
<1>2. c = d /\ (\/ Decode(c, keys) /\ keys # None /\ now < keysUntil /\ ~force[c]
                \/ Decode(c, answer[c]) /\ answer[c] # None)
  <2>1. CASE ReadKeys(d)
    <3>1. KeysFresh /\ Decode(d, keys) /\ pc[d] = "keys"
          BY <1>0, <2>1 DEF ReadKeys
    <3>2. c = d
          BY <1>0, <3>1 DEF Decode, Finish
    <3> QED BY <3>1, <3>2 DEF KeysInv, TypeOK, TokensOK
  <2>2. CASE EnterKeys(d)
    <3>1. KeysFresh /\ Decode(d, keys) /\ ~force[d]
          BY <1>0, <2>2 DEF EnterKeys, Send
    <3>2. c = d
          BY <1>0, <3>1 DEF Decode, Finish
    <3> QED BY <3>1, <3>2
  <2>3. CASE ReceiveKeys(d)
    <3>1. Decode(d, answer[d]) /\ answer[d] # None
          BY <2>3 DEF ReceiveKeys
    <3>2. c = d
          BY <1>0, <3>1 DEF Decode, Finish
    <3> QED BY <3>1, <3>2
  <2> QED BY <1>1, <2>1, <2>2, <2>3
<1>3. pc[d] \in {"keys", "keysLock", "keysFetch"}
      BY <1>1 DEF ReadKeys, EnterKeys, ReceiveKeys
<1> QED BY <1>2, <1>3 DEF KeysInv, TokensOK

\* A good token is rejected only when its key is published no more.
LEMMA RejectionFair ==
    ASSUME KeysInv, [Next]_vars, NEW c \in Caller,
           verdict'[c] = "rejected", verdict[c] # "rejected", token[c].sound
    PROVE  ~Within(token[c].key, published)
<1>1. /\ token[c] # None
      /\ \/ Decode(c, keys) /\ keys # None /\ now < keysUntil /\ ~force[c]
         \/ Decode(c, answer[c]) /\ answer[c] # None
      BY VerdictFrom
<1>2. verdict \in [Caller -> Verdict \cup {None}] /\ token[c] \in Token
      BY <1>1 DEF KeysInv, TypeOK
<1>3. CASE Decode(c, keys) /\ ~force[c]
      BY <1>2, <1>3 DEF Decode, Finish
<1>4. CASE Decode(c, answer[c]) /\ answer[c] # None
  <2>1. ~Within(token[c].key, answer[c])
        BY <1>2, <1>4 DEF Decode, Finish
  <2>2. InOrder(answer[c], published) /\ token[c].key <= answer[c].last
        BY <1>4 DEF KeysInv, SpansOK
  <2>3. answer[c] \in Span /\ published \in Span
        BY <1>4 DEF KeysInv, TypeOK
  <2> QED BY <1>2, <2>1, <2>2, <2>3 DEF Span, Key, Token
<1> QED BY <1>1, <1>3, <1>4

\* A stale cache rejects no good token: an unknown key is looked up again (_decode).
THEOREM FreshKeysAccepted == Spec => FreshAccepted
<1>1. KeysInv /\ [Next]_vars =>
        [\A c \in Caller :
           verdict'[c] = "rejected" /\ verdict[c] # "rejected" /\ token[c].sound =>
              ~Within(token[c].key, published)]_vars
      BY RejectionFair
<1> QED BY <1>1, KeysInvariant, PTL DEF Spec, FreshAccepted

\* A key is accepted only while the set that names it may be cached.
LEMMA AcceptanceEnds ==
    ASSUME KeysInv, [Next]_vars, NEW c \in Caller,
           verdict'[c] = "accepted", verdict[c] # "accepted",
           withdrawn[token[c].key] # None
    PROVE  now < withdrawn[token[c].key] + Timeout + Life
<1> DEFINE k == token[c].key
<1>1. /\ token[c] # None
      /\ \/ Decode(c, keys) /\ keys # None /\ now < keysUntil /\ ~force[c]
         \/ Decode(c, answer[c]) /\ answer[c] # None
      BY VerdictFrom
<1>2. verdict \in [Caller -> Verdict \cup {None}] /\ k \in Key
      BY <1>1 DEF KeysInv, TypeOK, Token
<1>3. withdrawn[k] \in Nat /\ now \in Nat /\ keysUntil \in Nat /\ sent[c] \in Nat
      BY <1>2 DEF KeysInv, TypeOK
<1>4. CASE Decode(c, keys) /\ keys # None /\ now < keysUntil
  <2>1. Within(k, keys)
        BY <1>2, <1>4 DEF Decode, Finish
  <2>2. keysUntil <= withdrawn[k] + Timeout + Life
        BY <1>2, <1>4, <2>1 DEF KeysInv, AgesOK
  <2> QED BY <1>3, <1>4, <2>2, BoundAssumption
<1>5. CASE Decode(c, answer[c]) /\ answer[c] # None
  <2>1. Within(k, answer[c])
        BY <1>2, <1>5 DEF Decode, Finish
  <2>2. sent[c] <= withdrawn[k] /\ now <= sent[c] + Timeout
        BY <1>2, <1>5, <2>1 DEF KeysInv, AgesOK, SpansOK
  <2> QED BY <1>3, <2>2, BoundAssumption
<1> QED BY <1>1, <1>4, <1>5

\* A withdrawn key is accepted no longer than the cache and one request last.
THEOREM WithdrawnKeysEnd == Spec => WithdrawnEnds
<1>1. KeysInv /\ [Next]_vars =>
        [\A c \in Caller :
           verdict'[c] = "accepted" /\ verdict[c] # "accepted" =>
              LET w == withdrawn[token[c].key] IN w # None => now < w + Timeout + Life]_vars
      BY AcceptanceEnds
<1> QED BY <1>1, KeysInvariant, PTL DEF Spec, WithdrawnEnds
=============================================================================
