--------------------------- MODULE PortalSessions ---------------------------
(***************************************************************************)
(* The portal's server-side sessions (src/app/auth/sessions.py) and every  *)
(* request that reads or writes them.                                      *)
(*                                                                         *)
(* A request runs in one database transaction (get_db): it resolves its    *)
(* cookie, does the work of its route, answers, and then commits.  The     *)
(* database is PostgreSQL at READ COMMITTED: a SELECT sees the committed   *)
(* rows and the request's own writes; an UPDATE locks each row it changes  *)
(* until the transaction ends, works on the row's latest committed version *)
(* and writes only the columns that changed.  Between any two statements   *)
(* another request, on this or another portal instance, may run.           *)
(***************************************************************************)
EXTENDS Integers, FiniteSets

CONSTANTS
    Session,         \* session identifiers (row id, cookie and hash are one)
    Subject,         \* Keycloak subjects
    Sid,             \* Keycloak SSO session identifiers
    Address,         \* client network addresses
    Request,         \* slots for requests in progress
    Operations,      \* the routes and commands used in this instance
    MaxConcurrent,   \* SESSION_MAX_CONCURRENT
    IdleTimeout,     \* SESSION_IDLE_MINUTES
    AbsoluteTimeout, \* SESSION_ABSOLUTE_HOURS
    TouchAfter,      \* the 60 seconds after which a use is recorded
    Retention,       \* REVOKED_SESSION_RETENTION_DAYS
    MaxTime,         \* bound on the clock, for model checking
    None,            \* NULL, a missing row, no value
    Clean            \* a row that the transaction has not written

NullOr(S) == S \cup {None}

Row == [subject : Subject, sid : NullOr(Sid), revoked : NullOr(Nat),
        seen : Nat, idle : Nat, absolute : Nat]

\* The same two revocations are offered by the sessions pages and by the security
\* module, under rate limits of their own.
RevokingOne    == {"revoke", "security_revoke"}
RevokingOthers == {"others", "security_others"}

\* Routes that go through the rate limiter ("login" is the callback).
Limited == {"login", "everywhere"} \cup RevokingOne \cup RevokingOthers

LockKeys == Limited \X (Subject \cup Address)

ASSUME LimitAssumption == MaxConcurrent \in Nat \ {0}
ASSUME TimeAssumption ==
    /\ IdleTimeout \in Nat /\ AbsoluteTimeout \in Nat
    /\ TouchAfter \in Nat \ {0}
    /\ Retention \in Nat /\ MaxTime \in Nat
ASSUME FiniteAssumption == IsFiniteSet(Session) /\ IsFiniteSet(Address)
ASSUME NullAssumption ==
    /\ None \notin Row \cup Nat \cup Session \cup Subject \cup Sid \cup Address
    /\ None \notin LockKeys
    /\ Clean \notin Row \cup {None}

VARIABLES
    now,       \* the wall clock
    rows,      \* portal_sessions: the committed rows
    issued,    \* identifiers generated so far (random, never drawn twice)
    handed,    \* identifiers that a browser holds as a cookie
    ended,     \* external: <<subject, sid>> pairs that Keycloak has reported ended
    loggedOut, \* history: pairs of which that report has committed
    closed,    \* history: sessions that a committed request chose to close
    pc,        \* the next statement of each request
    req,       \* the input of each request
    at,        \* the last datetime.now() the request took
    auth,      \* the session row that resolve loaded, or None
    minted,    \* the session identifier a login created, or None
    todo,      \* rows the current statement has still to write
    chosen,    \* history: rows the request has selected for closing
    dirty,     \* uncommitted row versions; a row with one is locked
    lock       \* the advisory transaction lock held, or None

requestVars == <<pc, req, at, auth, minted, todo, chosen, dirty, lock>>
vars == <<now, rows, issued, handed, ended, loggedOut, closed, requestVars>>

NoInput == [op |-> "none", cookie |-> None, target |-> None,
            address |-> None, subject |-> None, sid |-> None]

\* Routes that go through require_auth, and those content with optional_auth.
Protected == {"page", "logout", "everywhere"} \cup RevokingOne \cup RevokingOthers
Public    == {"error", "login"}
System    == {"backchannel", "cleanup"}

Stage == {"idle", "resolve", "expire", "touch", "refuse", "lock", "exchange",
          "select", "flush", "insert", "enforce", "central", "bulk", "sweep",
          "respond", "commit"}

Input == [op : {"none"} \cup Protected \cup Public \cup System, cookie : NullOr(Session),
          target : NullOr(Session), address : NullOr(Address),
          subject : NullOr(Subject), sid : NullOr(Sid)]

-----------------------------------------------------------------------------
(* What a transaction sees and what it may write. *)

Visible(r, s) == IF dirty[r][s] = Clean THEN rows[s] ELSE dirty[r][s]

Live(row) == row # None /\ row.revoked = None

\* Mutant: the revocation is not looked at.
UsableUnrevoked(row, t) == row # None /\ t < row.idle /\ t < row.absolute

Usable(row, t) == Live(row) /\ t < row.idle /\ t < row.absolute

Holders(s) == {q \in Request : dirty[q][s] # Clean}

MayWrite(r, s) == Holders(s) \subseteq {r}

Write(r, s, row) == dirty' = [dirty EXCEPT ![r][s] = row]

Earlier(a, b) == IF a <= b THEN a ELSE b

\* What the ORM and the UPDATE statements make of a row.
Revoked(row, t) == [row EXCEPT !.revoked = t]

\* Mutant: the deadline moves and the last use is not recorded.
UsedUnseen(row, t, deadline) == [row EXCEPT !.idle = deadline]

Used(row, t, deadline) ==
    [subject |-> row.subject, sid |-> row.sid, revoked |-> row.revoked,
     seen |-> t, idle |-> deadline, absolute |-> row.absolute]

Goto(r, stage) == pc' = [pc EXCEPT ![r] = stage]

\* The stage that follows a successful resolve, or an anonymous visit.
Entry(op) == IF op \in {"page", "error"} THEN "respond"
             ELSE IF op = "logout" THEN "select"
             ELSE "lock"

\* Mutant: a session-level advisory lock, which outlives the transaction.
EndKeepingLock(r) ==
    /\ pc' = [pc EXCEPT ![r] = "idle"]
    /\ req' = [req EXCEPT ![r] = NoInput]
    /\ at' = [at EXCEPT ![r] = 0]
    /\ auth' = [auth EXCEPT ![r] = None]
    /\ minted' = [minted EXCEPT ![r] = None]
    /\ todo' = [todo EXCEPT ![r] = {}]
    /\ chosen' = [chosen EXCEPT ![r] = {}]
    /\ dirty' = [dirty EXCEPT ![r] = [s \in Session |-> Clean]]
    /\ UNCHANGED lock

\* The end of a transaction: its locks and its uncommitted writes are gone.
End(r) ==
    /\ pc' = [pc EXCEPT ![r] = "idle"]
    /\ req' = [req EXCEPT ![r] = NoInput]
    /\ at' = [at EXCEPT ![r] = 0]
    /\ auth' = [auth EXCEPT ![r] = None]
    /\ minted' = [minted EXCEPT ![r] = None]
    /\ todo' = [todo EXCEPT ![r] = {}]
    /\ chosen' = [chosen EXCEPT ![r] = {}]
    /\ dirty' = [dirty EXCEPT ![r] = [s \in Session |-> Clean]]
    /\ lock' = [lock EXCEPT ![r] = None]

Init ==
    /\ now = 0
    /\ rows = [s \in Session |-> None]
    /\ issued = {} /\ handed = {} /\ ended = {} /\ loggedOut = {} /\ closed = {}
    /\ pc = [r \in Request |-> "idle"]
    /\ req = [r \in Request |-> NoInput]
    /\ at = [r \in Request |-> 0]
    /\ auth = [r \in Request |-> None]
    /\ minted = [r \in Request |-> None]
    /\ todo = [r \in Request |-> {}]
    /\ chosen = [r \in Request |-> {}]
    /\ dirty = [r \in Request |-> [s \in Session |-> Clean]]
    /\ lock = [r \in Request |-> None]

-----------------------------------------------------------------------------
(* Arrival: the transaction begins and the clock is read. *)

Start(r, q, stage) ==
    /\ pc[r] = "idle"
    /\ q.op \in Operations
    /\ Goto(r, stage)
    /\ req' = [req EXCEPT ![r] = q]
    /\ at' = [at EXCEPT ![r] = now]
    /\ UNCHANGED <<now, rows, issued, handed, loggedOut, closed,
                   auth, minted, todo, chosen, dirty, lock>>

\* A browser calls a route with a cookie that it was given, or with none.
Browse(r) ==
    \E op \in {"page", "error", "logout", "everywhere"} \cup RevokingOthers,
       c \in NullOr(handed) :
        /\ Start(r, [NoInput EXCEPT !.op = op, !.cookie = c], "resolve")
        /\ UNCHANGED ended

\* The sessions page names another session of the list to revoke.
BrowseRevoke(r) ==
    \E op \in RevokingOne, c \in NullOr(handed), t \in issued :
        /\ c # t
        /\ Start(r, [NoInput EXCEPT !.op = op, !.cookie = c, !.target = t],
                 "resolve")
        /\ UNCHANGED ended

\* Bound: a login starts only while an identifier is left for it.
BrowseCallback(r) ==
    \E c \in NullOr(handed), a \in Address :
        /\ Cardinality({q \in Request : req[q].op = "login" /\ minted[q] = None})
             < Cardinality(Session \ issued)
        /\ Start(r, [NoInput EXCEPT !.op = "login", !.cookie = c, !.address = a],
                 "resolve")
        /\ UNCHANGED ended

\* Keycloak ends SSO sessions and reports it with a logout token that names a
\* sid, a subject or both.  After one that names no sid the subject may log in
\* again, with an SSO session of a new sid or of none.
Named(q, pair) ==
    /\ q.subject \in {None, pair[1]}
    /\ q.sid \in {None, pair[2]}

NotifyLogout(r) ==
    \E u \in NullOr(Subject), i \in NullOr(Sid) :
        LET q == [NoInput EXCEPT !.op = "backchannel", !.subject = u, !.sid = i] IN
        /\ u # None \/ i # None
        /\ Start(r, q, "bulk")
        /\ ended' = ended \cup {pair \in Subject \X Sid : i # None /\ Named(q, pair)}

\* The operator runs the retention command.
StartCleanup(r) ==
    /\ Start(r, [NoInput EXCEPT !.op = "cleanup"], "bulk")
    /\ UNCHANGED ended

-----------------------------------------------------------------------------
(* SessionService.resolve under optional_auth and require_auth. *)

\* A protected route answers 401 to a visitor without a session.
Unauthenticated(op) == IF op \in Protected THEN "refuse" ELSE Entry(op)

\* The SELECT by hash.  The clock was read on arrival, before it.
Resolve(r) ==
    LET c   == req[r].cookie
        row == IF c = None THEN None ELSE rows[c]
    IN  /\ pc[r] = "resolve"
        /\ \/ /\ Usable(row, at[r])
              /\ auth' = [auth EXCEPT ![r] = row]
              /\ Goto(r, IF at[r] - row.seen >= TouchAfter THEN "touch"
                         ELSE Entry(req[r].op))
           \/ /\ ~Usable(row, at[r])
              /\ Goto(r, IF Live(row) THEN "expire" ELSE Unauthenticated(req[r].op))
              /\ UNCHANGED auth
        /\ UNCHANGED <<now, rows, issued, handed, ended, loggedOut, closed,
                       req, at, minted, todo, chosen, dirty, lock>>

\* The outlived session is marked revoked, reason "expired".
Expire(r) ==
    LET c == req[r].cookie IN
    /\ pc[r] = "expire"
    /\ MayWrite(r, c) /\ rows[c] # None
    /\ Write(r, c, Revoked(rows[c], at[r]))
    /\ Goto(r, Unauthenticated(req[r].op))
    /\ UNCHANGED <<now, rows, issued, handed, ended, loggedOut, closed,
                   req, at, auth, minted, todo, chosen, lock>>

\* Mutant: every loaded column is written back, not only those that changed.
TouchWholeRow(r) ==
    LET c == req[r].cookie IN
    /\ pc[r] = "touch"
    /\ MayWrite(r, c) /\ rows[c] # None
    /\ Write(r, c, Used(auth[r], at[r], Earlier(at[r] + IdleTimeout, auth[r].absolute)))
    /\ Goto(r, Entry(req[r].op))
    /\ UNCHANGED <<now, rows, issued, handed, ended, loggedOut, closed,
                   req, at, auth, minted, todo, chosen, lock>>

\* The use is recorded.  The unit of work compares the new values with those
\* it loaded: a deadline equal to the loaded one is not part of the UPDATE.
Touch(r) ==
    LET c        == req[r].cookie
        deadline == Earlier(at[r] + IdleTimeout, auth[r].absolute)
    IN  /\ pc[r] = "touch"
        /\ MayWrite(r, c) /\ rows[c] # None
        /\ Write(r, c, Used(rows[c], at[r],
                           IF deadline = auth[r].idle THEN rows[c].idle ELSE deadline))
        /\ Goto(r, Entry(req[r].op))
        /\ UNCHANGED <<now, rows, issued, handed, ended, loggedOut, closed,
                       req, at, auth, minted, todo, chosen, lock>>

-----------------------------------------------------------------------------
(* The work of a route. *)

\* The rate limiter's advisory lock: per address for the callback, per subject
\* for the session mutations; held until the transaction ends.
LockKey(r) == IF req[r].op = "login" THEN <<"login", req[r].address>>
              ELSE <<req[r].op, auth[r].subject>>

AfterLock(op) == IF op = "login" THEN "exchange"
                 ELSE IF op \in RevokingOne THEN "select"
                 ELSE IF op \in RevokingOthers THEN "bulk"
                 ELSE "central"

\* Mutant: the rate limiter is entered without its lock.
AcquireUnlocked(r) ==
    /\ pc[r] = "lock"
    /\ lock' = [lock EXCEPT ![r] = LockKey(r)]
    /\ Goto(r, AfterLock(req[r].op))
    /\ UNCHANGED <<now, rows, issued, handed, ended, loggedOut, closed,
                   req, at, auth, minted, todo, chosen, dirty>>

AcquireLock(r) ==
    /\ pc[r] = "lock"
    /\ \A q \in Request : lock[q] # LockKey(r)
    /\ lock' = [lock EXCEPT ![r] = LockKey(r)]
    /\ Goto(r, AfterLock(req[r].op))
    /\ UNCHANGED <<now, rows, issued, handed, ended, loggedOut, closed,
                   req, at, auth, minted, todo, chosen, dirty>>

\* complete_login: Keycloak exchanges a code only for an SSO session that it
\* has not ended.  A prior session of this browser is rotated out next.
ExchangeCode(r) ==
    \E pair \in (Subject \X NullOr(Sid)) \ ended :
        /\ pc[r] = "exchange"
        /\ req' = [req EXCEPT ![r] = [@ EXCEPT !.subject = pair[1], !.sid = pair[2]]]
        /\ Goto(r, IF auth[r] = None THEN "insert" ELSE "select")
        /\ UNCHANGED <<now, rows, issued, handed, ended, loggedOut, closed,
                       at, auth, minted, todo, chosen, dirty, lock>>

\* Keycloak reports an error, the limit is exceeded or the flow is refused: the
\* failure is recorded and the request commits, without a session.
RejectCallback(r) ==
    /\ pc[r] \in {"lock", "exchange"}
    /\ req[r].op = "login"
    /\ Goto(r, "respond")
    /\ UNCHANGED <<now, rows, issued, handed, ended, loggedOut, closed,
                   req, at, auth, minted, todo, chosen, dirty, lock>>

\* The SELECT of revoke.  A route whose target is gone answers 404; a logout
\* or a rotation goes on.
SelectOne(r) ==
    LET target == IF req[r].op \in RevokingOne THEN req[r].target ELSE req[r].cookie
        row    == Visible(r, target)
        found  == Live(row) /\ row.subject = auth[r].subject
    IN  /\ pc[r] = "select"
        /\ at' = [at EXCEPT ![r] = now]
        /\ todo' = [todo EXCEPT ![r] = IF found THEN {target} ELSE {}]
        /\ chosen' = [chosen EXCEPT ![r] = IF found THEN {target} ELSE {}]
        /\ Goto(r, IF found THEN "flush"
                   ELSE IF req[r].op \in RevokingOne THEN "refuse"
                   ELSE IF req[r].op = "login" THEN "insert"
                   ELSE "respond")
        /\ UNCHANGED <<now, rows, issued, handed, ended, loggedOut, closed,
                       req, auth, minted, dirty, lock>>

\* One UPDATE ... WHERE id of a flush.  It does not look again whether the row
\* is still unrevoked.  The order of the rows is left open.
FlushRow(r) ==
    \E s \in todo[r] :
        /\ pc[r] = "flush"
        /\ MayWrite(r, s) /\ Visible(r, s) # None
        /\ Write(r, s, Revoked(Visible(r, s), at[r]))
        /\ todo' = [todo EXCEPT ![r] = @ \ {s}]
        /\ Goto(r, IF todo[r] # {s} THEN "flush"
                   ELSE IF req[r].op = "login" /\ minted[r] = None THEN "insert"
                   ELSE "respond")
        /\ UNCHANGED <<now, rows, issued, handed, ended, loggedOut, closed,
                       req, at, auth, minted, chosen, lock>>

\* SessionService.create: the new row.
NewRow(r) == [subject |-> req[r].subject, sid |-> req[r].sid, revoked |-> None,
              seen |-> now, idle |-> now + IdleTimeout,
              absolute |-> now + AbsoluteTimeout]

InsertSession(r) ==
    \E s \in Session \ issued :
        /\ pc[r] = "insert"
        /\ issued' = issued \cup {s}
        /\ minted' = [minted EXCEPT ![r] = s]
        /\ Write(r, s, NewRow(r))
        /\ Goto(r, "enforce")
        /\ UNCHANGED <<now, rows, handed, ended, loggedOut, closed,
                       req, at, auth, todo, chosen, lock>>

\* _enforce_concurrent_limit: the most recently seen others are kept.
Others(r) == {s \in Session \ {minted[r]} :
                /\ Live(Visible(r, s))
                /\ Visible(r, s).subject = req[r].subject}

\* Mutant: the new session is not counted.
KeptBesideNew(r) == Earlier(Cardinality(Others(r)), MaxConcurrent)

Kept(r) == Earlier(Cardinality(Others(r)), MaxConcurrent - 1)

EnforceLimit(r) ==
    \E kept \in SUBSET Others(r) :
        LET surplus == Others(r) \ kept IN
        /\ pc[r] = "enforce"
        /\ Cardinality(kept) = Kept(r)
        /\ \A k \in kept, s \in surplus : Visible(r, k).seen >= Visible(r, s).seen
        /\ at' = [at EXCEPT ![r] = now]
        /\ todo' = [todo EXCEPT ![r] = surplus]
        /\ chosen' = [chosen EXCEPT ![r] = @ \cup surplus]
        /\ Goto(r, IF surplus = {} THEN "respond" ELSE "flush")
        /\ UNCHANGED <<now, rows, issued, handed, ended, loggedOut, closed,
                       req, auth, minted, dirty, lock>>

\* sign_out_everywhere: Keycloak ends every SSO session that the subject has now, and
\* reports that with requests of its own (NotifyLogout).
LogoutCentrally(r) ==
    /\ pc[r] = "central"
    /\ Goto(r, "bulk")
    /\ UNCHANGED <<now, rows, issued, handed, ended, loggedOut, closed,
                   req, at, auth, minted, todo, chosen, dirty, lock>>

-----------------------------------------------------------------------------
(* Statements over many rows. *)

\* The WHERE clause, on row version row of session s.
Selects(r, s, row) ==
    LET q == req[r] IN
    /\ row # None
    /\ \/ /\ q.op \in {"everywhere"} \cup RevokingOthers
          /\ row.revoked = None /\ row.subject = auth[r].subject
          /\ q.op \in RevokingOthers => s # q.cookie
       \/ /\ q.op = "backchannel"
          /\ row.revoked = None
          /\ q.sid \in {None, row.sid} /\ q.subject \in {None, row.subject}
       \/ /\ q.op = "cleanup"
          /\ row.revoked # None /\ row.revoked < at[r] - Retention

\* What the statement makes of the row: DELETE for the retention command.
Outcome(r, row) == IF req[r].op = "cleanup" THEN None
                   ELSE Revoked(row, at[r])

\* The statement takes its snapshot.
StartBulk(r) ==
    LET hits == {s \in Session : Selects(r, s, Visible(r, s))} IN
    /\ pc[r] = "bulk"
    /\ at' = [at EXCEPT ![r] = IF req[r].op = "cleanup" THEN @ ELSE now]
    /\ todo' = [todo EXCEPT ![r] = hits]
    /\ chosen' = [chosen EXCEPT ![r] = hits]
    /\ Goto(r, "sweep")
    /\ UNCHANGED <<now, rows, issued, handed, ended, loggedOut, closed,
                   req, auth, minted, dirty, lock>>

\* It locks the rows one by one, waiting where it must, and looks again at the
\* latest version of each.
SweepRow(r) ==
    \E s \in todo[r] :
        /\ pc[r] = "sweep"
        /\ MayWrite(r, s)
        /\ todo' = [todo EXCEPT ![r] = @ \ {s}]
        /\ IF Selects(r, s, Visible(r, s)) THEN Write(r, s, Outcome(r, Visible(r, s)))
           ELSE UNCHANGED dirty
        /\ UNCHANGED <<now, rows, issued, handed, ended, loggedOut, closed,
                       pc, req, at, auth, minted, chosen, lock>>

FinishBulk(r) ==
    /\ pc[r] = "sweep"
    /\ todo[r] = {}
    /\ Goto(r, "respond")
    /\ UNCHANGED <<now, rows, issued, handed, ended, loggedOut, closed,
                   req, at, auth, minted, todo, chosen, dirty, lock>>

-----------------------------------------------------------------------------
(* The end of a request. *)

\* The answer leaves before get_db commits; a login's answer sets the cookie.
Respond(r) ==
    /\ pc[r] = "respond"
    /\ handed' = handed \cup ({minted[r]} \ {None})
    /\ Goto(r, "commit")
    /\ UNCHANGED <<now, rows, issued, ended, loggedOut, closed,
                   req, at, auth, minted, todo, chosen, dirty, lock>>

\* The <<subject, sid>> pairs that a logout request reports as ended.
Covered(r) ==
    {pair \in Subject \X Sid :
        req[r].op = "backchannel" /\ req[r].sid # None /\ Named(req[r], pair)}

Commit(r) ==
    /\ pc[r] = "commit"
    /\ rows' = [s \in Session |-> Visible(r, s)]
    /\ loggedOut' = loggedOut \cup Covered(r)
    /\ closed' = closed \cup chosen[r]
    /\ End(r)
    /\ UNCHANGED <<now, issued, handed, ended>>

Discard(r) ==
    /\ End(r)
    /\ UNCHANGED <<now, rows, issued, handed, ended, loggedOut, closed>>

\* 401 of require_auth, 404 of a revocation: an HTTPException rolls back.
Refuse(r) == pc[r] = "refuse" /\ Discard(r)

\* The ORM updates a row that the retention command has deleted: the count of
\* matched rows is wrong (StaleDataError) and the transaction rolls back.
LoseRow(r) ==
    /\ \/ pc[r] \in {"expire", "touch"} /\ rows[req[r].cookie] = None
       \/ pc[r] = "flush" /\ \E s \in todo[r] : Visible(r, s) = None
    /\ Discard(r)

\* Any other exception: a refused CSRF token, a limit, Keycloak unavailable, a
\* cancelled request, a lost connection or a killed process, also after the
\* answer has left and before the commit.
Fail(r) == pc[r] # "idle" /\ Discard(r)

\* The requests that r waits for; empty when it can go on.
Blockers(r) ==
    CASE pc[r] = "lock" -> {q \in Request : lock[q] = LockKey(r)}
      [] pc[r] \in {"expire", "touch"} -> Holders(req[r].cookie)
      [] pc[r] \in {"flush", "sweep"} ->
            IF \E s \in todo[r] : MayWrite(r, s) THEN {}
            ELSE UNION {Holders(s) : s \in todo[r]}
      [] OTHER -> {}

Deadlocked(r) ==
    \E ring \in SUBSET Request :
        /\ r \in ring
        /\ \A q \in ring : /\ Blockers(q) # {} /\ Blockers(q) \subseteq ring
                          /\ \E p \in ring : q \in Blockers(p)

\* PostgreSQL's deadlock detector aborts a member of the cycle.
AbortVictim(r) == Deadlocked(r) /\ Discard(r)

Tick ==
    /\ now < MaxTime
    /\ now' = now + 1
    /\ UNCHANGED <<rows, issued, handed, ended, loggedOut, closed, requestVars>>

-----------------------------------------------------------------------------

Arrive(r) == \/ Browse(r) \/ BrowseRevoke(r) \/ BrowseCallback(r)
             \/ NotifyLogout(r) \/ StartCleanup(r)

\* The statements of a request in progress.
Run(r) == \/ Resolve(r) \/ Expire(r) \/ Touch(r)
          \/ AcquireLock(r) \/ ExchangeCode(r) \/ RejectCallback(r)
          \/ SelectOne(r) \/ FlushRow(r) \/ InsertSession(r) \/ EnforceLimit(r)
          \/ LogoutCentrally(r) \/ StartBulk(r) \/ SweepRow(r) \/ FinishBulk(r)
          \/ Respond(r) \/ Commit(r) \/ Refuse(r) \/ LoseRow(r) \/ AbortVictim(r)

Next == \/ Tick
        \/ \E r \in Request : Arrive(r) \/ Run(r) \/ Fail(r)

Spec == Init /\ [][Next]_vars

\* The event loop runs every request that can go on; PostgreSQL queues the
\* waiters of a lock in order, so one that is offered it again and again gets it.
FairSpec == Spec /\ \A r \in Request : SF_vars(Run(r))

-----------------------------------------------------------------------------
(* Properties. *)

TypeOK ==
    /\ now \in Nat
    /\ rows \in [Session -> NullOr(Row)]
    /\ issued \subseteq Session /\ handed \subseteq Session
    /\ closed \subseteq Session
    /\ ended \subseteq Subject \X Sid /\ loggedOut \subseteq Subject \X Sid
    /\ pc \in [Request -> Stage]
    /\ req \in [Request -> Input]
    /\ at \in [Request -> Nat]
    /\ auth \in [Request -> NullOr(Row)]
    /\ minted \in [Request -> NullOr(Session)]
    /\ todo \in [Request -> SUBSET Session]
    /\ chosen \in [Request -> SUBSET Session]
    /\ dirty \in [Request -> [Session -> NullOr(Row) \cup {Clean}]]
    /\ lock \in [Request -> NullOr(LockKeys)]

LiveOf(u) == {s \in Session : Live(rows[s]) /\ rows[s].subject = u}

\* No subject has more than SESSION_MAX_CONCURRENT unrevoked sessions, however
\* logins overlap with touches and revocations (_enforce_concurrent_limit).
ConcurrentLimit == \A u \in Subject : Cardinality(LiveOf(u)) <= MaxConcurrent

\* The callback's lock is its address's, so logins from several addresses overlap:
\* each address but one may add a session, and no more.
Ceiling == MaxConcurrent + Cardinality(Address) - 1

SpreadLimit == \A u \in Subject : Cardinality(LiveOf(u)) <= Ceiling

\* A session that a committed logout, revocation, rotation or limit selected for
\* closing is revoked or gone in the database and stays so, whatever touches and
\* other revocations of the same row were in progress.
ClosedStayClosed == \A s \in closed : ~Live(rows[s])

\* A session is never usable for longer than SESSION_IDLE_MINUTES after its
\* recorded last use, even when overlapping touches overwrite one another.
IdleJustified ==
    \A s \in Session : rows[s] # None => rows[s].idle <= rows[s].seen + IdleTimeout

\* A request is never admitted on a session that a committed request has chosen
\* to close, nor on one whose login has not committed: resolve never works from a
\* stale or uncommitted row.
AdmissionSound ==
    [][\A r \in Request : auth[r] = None /\ auth'[r] # None =>
           /\ req[r].cookie \notin closed
           /\ \A q \in Request : minted[q] # req[r].cookie]_vars

\* Once Keycloak has ended an SSO session and the logout that reports it has
\* committed, no portal session of it is unrevoked (back-channel logout).
LoggedOutStayOut ==
    \A s \in Session : Live(rows[s]) => <<rows[s].subject, rows[s].sid>> \notin loggedOut

\* Every request ends, in spite of row locks and advisory locks taken in
\* opposite orders.
RequestsEnd == \A r \in Request : pc[r] # "idle" ~> pc[r] = "idle"

-----------------------------------------------------------------------------
(* The inductive invariant behind ConcurrentLimit, ClosedStayClosed and IdleJustified. *)

\* What a stage says of the request that has reached it.  In particular no
\* protected route does any work before it has an authenticated session.
StageOK(r) ==
    LET op == req[r].op IN
    /\ pc[r] = "idle" => op = "none"
    /\ pc[r] \in {"idle", "resolve"} => auth[r] = None /\ minted[r] = None
    /\ pc[r] \in {"resolve", "expire", "touch"} => op \in Protected \cup Public
    /\ pc[r] \in {"expire", "touch"} => req[r].cookie # None
    /\ pc[r] = "touch" => auth[r] # None
    /\ auth[r] # None => req[r].cookie # None
    /\ op \in Protected /\ pc[r] \notin {"resolve", "expire", "refuse"} => auth[r] # None
    /\ pc[r] = "lock" => op \in Limited
    /\ pc[r] \in {"exchange", "insert", "enforce"} => op = "login"
    /\ pc[r] = "central" => op = "everywhere"
    /\ pc[r] \in {"bulk", "sweep"} => op \in {"everywhere"} \cup RevokingOthers \cup System
    /\ pc[r] \in {"select", "flush"} => op \in {"logout", "login"} \cup RevokingOne
    /\ pc[r] = "select" => auth[r] # None
    /\ op \in RevokingOne => req[r].target # None
    /\ op = "login" => req[r].address # None
    /\ \/ op = "login" /\ pc[r] \in {"select", "flush", "insert", "enforce"}
       \/ minted[r] # None
       => req[r].subject # None

StagesOK == \A r \in Request : StageOK(r)

\* A request that mints a session holds the lock of its address; a lock has one
\* holder.
LoginLocked ==
    /\ \A q, r \in Request : lock[q] = lock[r] /\ lock[r] # None => q = r
    /\ \A r \in Request :
         /\ req[r].op = "login"
         /\ \/ pc[r] \in {"exchange", "select", "flush", "insert", "enforce"}
            \/ minted[r] # None
         => lock[r] = <<"login", req[r].address>>

\* A row has at most one uncommitted version.
SingleWriter ==
    \A s \in Session, q, r \in Request : q \in Holders(s) /\ r \in Holders(s) => q = r

\* Identifiers that are no longer new: no insert can use them again.
Settled == issued \ {minted[q] : q \in Request}

MintedOK ==
    \A r \in Request : minted[r] # None =>
        /\ req[r].op = "login"
        /\ pc[r] \in {"enforce", "flush", "respond", "commit"}
        /\ minted[r] \in issued
        /\ rows[minted[r]] = None
        /\ dirty[r][minted[r]] \in Row
        /\ Live(dirty[r][minted[r]])
        /\ dirty[r][minted[r]].subject = req[r].subject
        /\ \A q \in Request : minted[q] = minted[r] => q = r

\* Committed and uncommitted versions belong to settled identifiers, but for the
\* row a login inserts; an uncommitted version never revives a revoked row.
Descent ==
    /\ \A s \in Session : rows[s] # None => s \in Settled
    /\ \A r \in Request, s \in Session :
         dirty[r][s] # Clean =>
            \/ s = minted[r]
            \/ /\ s \in Settled
               /\ Live(dirty[r][s]) =>
                     /\ Live(rows[s])
                     /\ dirty[r][s].subject = rows[s].subject
                     /\ dirty[r][s].sid = rows[s].sid

\* A row chosen for closing is still to be written or already closed, and a
\* statement in progress still selects its targets unless they have been closed.
ChosenFor(r) ==
    /\ todo[r] \subseteq chosen[r]
    /\ chosen[r] \subseteq Settled
    /\ \A s \in chosen[r] \ todo[r] : ~Live(Visible(r, s))
    /\ pc[r] \notin {"flush", "sweep"} => todo[r] = {}
    /\ pc[r] = "sweep" =>
          \A s \in todo[r] : Live(Visible(r, s)) => Selects(r, s, Visible(r, s))

ChosenOK == \A r \in Request : ChosenFor(r)

\* A request writes nothing before the outcome of resolve.
CleanStart ==
    \A r \in Request : pc[r] \in {"idle", "resolve", "expire", "touch"} =>
        \A s \in Session : dirty[r][s] = Clean

ClosedOK == closed \subseteq Settled /\ ClosedStayClosed

\* The logins that have enforced the limit and not committed.
Enforced(u) == {r \in Request : /\ minted[r] # None /\ pc[r] # "enforce"
                               /\ req[r].subject = u}

\* What is left of a subject's sessions when the logins of a set have closed theirs.
Left(u, logins) ==
    {s \in LiveOf(u) : \A r \in logins : s \notin todo[r] /\ Live(Visible(r, s))}

\* Whichever of them commit, there is room for the sessions that they have minted.
RoomLeft ==
    \A u \in Subject : \A logins \in SUBSET Enforced(u) :
        Cardinality(Left(u, logins)) + Cardinality(logins) <= Ceiling

\* A later version of a row expires when the earlier did, or within the same bound.
Follows(old, new) ==
    new.absolute = old.absolute /\ (old.idle <= old.absolute => new.idle <= new.absolute)

\* The deadlines of every version of a row, and of the version that resolve loaded.
DeadlinesOK ==
    /\ IdleJustified
    /\ \A r \in Request, s \in Session : dirty[r][s] \notin {Clean, None} =>
          /\ dirty[r][s].idle <= dirty[r][s].seen + IdleTimeout
          /\ s # minted[r] => rows[s] # None /\ Follows(rows[s], dirty[r][s])
    /\ \A r \in Request :
          /\ auth[r] # None =>
                /\ auth[r].idle <= auth[r].seen + IdleTimeout
                /\ req[r].cookie \in Settled
                /\ rows[req[r].cookie] # None => Follows(auth[r], rows[req[r].cookie])
          /\ pc[r] = "touch" => auth[r].seen < at[r]

SessionInv ==
    /\ TypeOK /\ StagesOK
    /\ SingleWriter /\ CleanStart /\ MintedOK /\ Descent /\ ChosenOK /\ ClosedOK

LimitInv == SessionInv /\ DeadlinesOK /\ LoginLocked /\ RoomLeft
=============================================================================
