---------------------------- MODULE LogoutTokens ----------------------------
(***************************************************************************)
(* Back-channel logout tokens (src/app/auth/backchannel_logout.py): a      *)
(* token that names a subject ends the subject's sessions, and a row with  *)
(* its identifier makes a second delivery fail.  The row is looked up      *)
(* without a lock and inserted by the flush of the commit, after the       *)
(* answer (the session factory has autoflush off); the retention command   *)
(* deletes it when the token has expired.                                  *)
(***************************************************************************)
EXTENDS Integers

CONSTANTS
    Token,    \* logout tokens (a token and the hash of its jti are one)
    Session,  \* portal sessions of the subject
    Request,  \* slots for deliveries in progress
    Life,     \* from a token's issue to its exp claim
    Skew,     \* OIDC_CLOCK_SKEW_SECONDS
    MaxTime,  \* bound on the clock, for model checking
    MaxTries, \* bound on honours before another delivery starts, for model checking
    None      \* a missing row, no value

NullOr(S) == S \cup {None}

ASSUME TimeAssumption == Life \in Nat /\ Skew \in Nat /\ MaxTime \in Nat /\ MaxTries \in Nat
ASSUME NoneAssumption == None \notin Nat \cup Token

VARIABLES
    now,       \* the wall clock
    expiry,    \* external: the exp claim of each token issued
    replays,   \* logout_token_replays: expires_at of the committed rows
    sessions,  \* portal_sessions: not opened yet, live, or ended
    pc,        \* the next step of each delivery
    token,     \* the token of each delivery
    dirty,     \* the sessions whose uncommitted end a delivery has written
    cleaning,  \* the clock of the retention command in progress, or None
    erased,    \* rows it has deleted and not committed, or None before that
    honoured,  \* history: committed deliveries of each token
    forgotten, \* history: rows that retention has deleted
    since,     \* history: the tokens honoured before a session was opened
    ender      \* history: the token that ended a session

requestVars == <<pc, token, dirty>>
cleanupVars == <<cleaning, erased>>
history == <<honoured, forgotten, since, ender>>
vars == <<now, expiry, replays, sessions, requestVars, cleanupVars, history>>

Stage == {"idle", "lookup", "revoke", "insert", "commit"}

\* Mutant: a row is deleted while its token is still valid.
OverEarly(exp, t) == exp <= t + 1

\* datetime.fromtimestamp(exp) < now, the retention command's condition.
Over(exp, t) == exp < t

\* The validation of the exp claim with its leeway.
Fresh(exp, t) == t <= exp + Skew

Erasing(t) == erased # None /\ t \in erased

Init ==
    /\ now = 0
    /\ expiry = [t \in Token |-> None] /\ replays = [t \in Token |-> None]
    /\ sessions = [s \in Session |-> "none"]
    /\ pc = [r \in Request |-> "idle"]
    /\ token = [r \in Request |-> None]
    /\ dirty = [r \in Request |-> {}]
    /\ cleaning = None /\ erased = None
    /\ honoured = [t \in Token |-> 0] /\ forgotten = [t \in Token |-> 0]
    /\ since = [s \in Session |-> {}] /\ ender = [s \in Session |-> None]

-----------------------------------------------------------------------------
(* Keycloak issues tokens, logins commit sessions (see PortalSessions). *)

Issue ==
    \E t \in Token :
        /\ expiry[t] = None
        /\ expiry' = [expiry EXCEPT ![t] = now + Life]
        /\ UNCHANGED <<now, replays, sessions, requestVars, cleanupVars, history>>

OpenSession ==
    \E s \in Session :
        /\ sessions[s] = "none"
        /\ sessions' = [sessions EXCEPT ![s] = "live"]
        /\ since' = [since EXCEPT ![s] = {t \in Token : honoured[t] # 0}]
        /\ UNCHANGED <<now, expiry, replays, requestVars, cleanupVars, honoured,
                       forgotten, ender>>

-----------------------------------------------------------------------------
(* process_logout_token: one delivery, possibly repeated, one transaction. *)

Deliver(r) ==
    \E t \in Token :
        /\ pc[r] = "idle"
        /\ expiry[t] # None /\ Fresh(expiry[t], now)
        /\ honoured[t] < MaxTries
        /\ token' = [token EXCEPT ![r] = t]
        /\ pc' = [pc EXCEPT ![r] = "lookup"]
        /\ UNCHANGED <<now, expiry, replays, sessions, dirty, cleanupVars, history>>

End(r) ==
    /\ pc' = [pc EXCEPT ![r] = "idle"]
    /\ token' = [token EXCEPT ![r] = None]
    /\ dirty' = [dirty EXCEPT ![r] = {}]

\* The SELECT takes no lock and sees committed rows.
LookUp(r) ==
    /\ pc[r] = "lookup"
    /\ replays[token[r]] = None
    /\ pc' = [pc EXCEPT ![r] = "revoke"]
    /\ UNCHANGED <<now, expiry, replays, sessions, token, dirty, cleanupVars, history>>

AlreadyProcessed(r) ==
    /\ pc[r] = "lookup"
    /\ replays[token[r]] # None
    /\ End(r)
    /\ UNCHANGED <<now, expiry, replays, sessions, cleanupVars, history>>

\* The UPDATE over the subject's live sessions waits for the writers of its rows;
\* the answer 200 follows it.
Revoke(r) ==
    /\ pc[r] = "revoke"
    /\ \A q \in Request \ {r} : dirty[q] = {}
    /\ dirty' = [dirty EXCEPT ![r] = {s \in Session : sessions[s] = "live"}]
    /\ pc' = [pc EXCEPT ![r] = "insert"]
    /\ UNCHANGED <<now, expiry, replays, sessions, token, cleanupVars, history>>

\* The unique index: an INSERT waits for transactions that have inserted or deleted
\* the same key and not ended.
Undisputed(r) ==
    /\ \A q \in Request : pc[q] = "commit" => token[q] # token[r]
    /\ ~Erasing(token[r])

\* Mutant: an identifier that is there already is no error.
InsertAnyway(r) ==
    /\ pc[r] = "insert"
    /\ Undisputed(r)
    /\ pc' = [pc EXCEPT ![r] = "commit"]
    /\ UNCHANGED <<now, expiry, replays, sessions, token, dirty, cleanupVars, history>>

\* The flush of the commit.
Insert(r) ==
    /\ pc[r] = "insert"
    /\ Undisputed(r)
    /\ replays[token[r]] = None
    /\ pc' = [pc EXCEPT ![r] = "commit"]
    /\ UNCHANGED <<now, expiry, replays, sessions, token, dirty, cleanupVars, history>>

\* Another delivery has committed the key: IntegrityError, after the answer.
LoseRace(r) ==
    /\ pc[r] = "insert"
    /\ Undisputed(r)
    /\ replays[token[r]] # None
    /\ End(r)
    /\ UNCHANGED <<now, expiry, replays, sessions, cleanupVars, history>>

Commit(r) ==
    LET t == token[r] IN
    /\ pc[r] = "commit"
    /\ replays' = [replays EXCEPT ![t] = expiry[t]]
    /\ sessions' = [s \in Session |-> IF s \in dirty[r] THEN "ended" ELSE sessions[s]]
    /\ honoured' = [honoured EXCEPT ![t] = @ + 1]
    /\ ender' = [s \in Session |-> IF s \in dirty[r] THEN t ELSE ender[s]]
    /\ End(r)
    /\ UNCHANGED <<now, expiry, cleanupVars, forgotten, since>>

Fail(r) ==
    /\ pc[r] # "idle"
    /\ End(r)
    /\ UNCHANGED <<now, expiry, replays, sessions, cleanupVars, history>>

-----------------------------------------------------------------------------
(* The retention command: its clock, its DELETE, its commit. *)

StartCleanup ==
    /\ cleaning = None
    /\ cleaning' = now
    /\ UNCHANGED <<now, expiry, replays, sessions, requestVars, erased, history>>

DeleteReplays ==
    /\ cleaning # None /\ erased = None
    /\ erased' = {t \in Token : replays[t] # None /\ Over(expiry[t], cleaning)}
    /\ UNCHANGED <<now, expiry, replays, sessions, requestVars, cleaning, history>>

CommitCleanup ==
    /\ erased # None
    /\ replays' = [t \in Token |-> IF t \in erased THEN None ELSE replays[t]]
    /\ forgotten' = [t \in Token |-> IF t \in erased THEN forgotten[t] + 1 ELSE forgotten[t]]
    /\ cleaning' = None /\ erased' = None
    /\ UNCHANGED <<now, expiry, sessions, requestVars, honoured, since, ender>>

FailCleanup ==
    /\ cleaning # None
    /\ cleaning' = None /\ erased' = None
    /\ UNCHANGED <<now, expiry, replays, sessions, requestVars, history>>

Tick ==
    /\ now < MaxTime
    /\ now' = now + 1
    /\ UNCHANGED <<expiry, replays, sessions, requestVars, cleanupVars, history>>

-----------------------------------------------------------------------------

Run(r) == \/ Deliver(r) \/ LookUp(r) \/ AlreadyProcessed(r) \/ Revoke(r)
          \/ Insert(r) \/ LoseRace(r) \/ Commit(r) \/ Fail(r)

Cleanup == StartCleanup \/ DeleteReplays \/ CommitCleanup \/ FailCleanup

Next == (\E r \in Request : Run(r)) \/ Issue \/ OpenSession \/ Cleanup \/ Tick

Spec == Init /\ [][Next]_vars

-----------------------------------------------------------------------------
(* Properties. *)

TypeOK ==
    /\ now \in Nat
    /\ expiry \in [Token -> NullOr(Nat)] /\ replays \in [Token -> NullOr(Nat)]
    /\ sessions \in [Session -> {"none", "live", "ended"}]
    /\ pc \in [Request -> Stage] /\ token \in [Request -> NullOr(Token)]
    /\ dirty \in [Request -> SUBSET Session]
    /\ cleaning \in NullOr(Nat) /\ (erased # None => erased \in SUBSET Token)
    /\ honoured \in [Token -> Nat] /\ forgotten \in [Token -> Nat]
    /\ since \in [Session -> SUBSET Token] /\ ender \in [Session -> NullOr(Token)]

\* Overlapping deliveries of one token, which all pass the look-up, are told apart
\* by the unique key: each one honoured has left its own row, which is there or has
\* been deleted by retention (process_logout_token and the commit in get_db).
HonoursRecorded ==
    \A t \in Token : honoured[t] = forgotten[t] + IF replays[t] = None THEN 0 ELSE 1

\* A token is honoured at most once until its exp claim has passed.
HonouredOnceWhileValid ==
    \A t \in Token : expiry[t] # None /\ now <= expiry[t] => honoured[t] <= 1

\* Until its exp claim has passed, a token that has been processed ends no session that
\* was opened later (backchannel_logout.py:1, "Replay-resistant").
LaterSessionsKeptWhileValid ==
    \A s \in Session : \A t \in since[s] :
        ender[s] = t => expiry[t] # None /\ expiry[t] < now

-----------------------------------------------------------------------------
(* The inductive invariant behind them. *)

\* A row carries its token's expiry; retention deletes rows of expired tokens only.
RowsOK ==
    /\ \A t \in Token : replays[t] # None => expiry[t] # None /\ replays[t] = expiry[t]
    /\ \A t \in Token : forgotten[t] # 0 => expiry[t] # None /\ expiry[t] < now
    /\ cleaning # None => cleaning <= now
    /\ erased # None =>
          /\ cleaning # None
          /\ \A t \in erased : /\ replays[t] # None /\ expiry[t] # None
                               /\ expiry[t] < now

\* An inserted key is nobody else's, committed or not.
KeysUnique ==
    /\ \A r \in Request : pc[r] # "idle" => token[r] # None /\ expiry[token[r]] # None
    /\ \A r \in Request : pc[r] = "commit" => replays[token[r]] = None
    /\ \A q, r \in Request : pc[q] = "commit" /\ pc[r] = "commit" /\ token[q] = token[r] => q = r

\* What a session has in its past has happened, and it has ended by nothing yet
\* when it opens.
OpenedOK ==
    \A s \in Session :
        /\ \A t \in since[s] : honoured[t] # 0
        /\ sessions[s] = "none" => ender[s] = None /\ \A r \in Request : s \notin dirty[r]

\* The inductive invariant of the logout tokens, behind HonouredOnceWhileValid and
\* LaterSessionsKeptWhileValid (process_logout_token, cleanup_retained_data).
TokenInv == TypeOK /\ RowsOK /\ KeysUnique /\ OpenedOK /\ HonoursRecorded
            /\ LaterSessionsKeptWhileValid
=============================================================================
