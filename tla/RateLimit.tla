----------------------------- MODULE RateLimit -----------------------------
(***************************************************************************)
(* The fixed-window rate limiter (src/app/middleware/rate_limit.py) as the *)
(* routes use it: enforce runs inside the transaction of its request, so a *)
(* count is kept only when the request commits, and the retention command  *)
(* deletes the buckets that are over.  Portal instances share the table.   *)
(***************************************************************************)
EXTENDS Integers

CONSTANTS
    Key,       \* key_hash: namespace and identity
    Request,   \* slots for requests in progress
    Limit,     \* RateLimit.requests
    Window,    \* RateLimit.window_seconds
    MaxTime,   \* bound on the clock, for model checking
    None       \* a missing row, no value

Bucket == [start : Nat, expires : Nat, count : Nat]

ASSUME LimitAssumption == Limit \in Nat \ {0}
ASSUME WindowAssumption == Window \in Nat \ {0} /\ MaxTime \in Nat
ASSUME NoneAssumption == None \notin Bucket \cup Key \cup Nat

VARIABLES
    now,       \* the wall clock
    bucket,    \* rate_limit_buckets: the committed rows
    pc,        \* the next step of each request
    key,       \* the key it is limited by
    current,   \* datetime.now() on entry of enforce, before the advisory lock
    seen,      \* the row that its SELECT ... FOR UPDATE returned
    draft,     \* the row that it is going to commit
    cleaning,  \* the clock of the retention command in progress, or None
    victims,   \* the rows that its DELETE has still to visit
    erased,    \* the rows that it has deleted and not committed
    admitted   \* history: requests served in the open window of a key

requestVars == <<pc, key, current, seen, draft>>
cleanupVars == <<cleaning, victims, erased>>
vars == <<now, bucket, requestVars, cleanupVars, admitted>>

Stage == {"idle", "lock", "read", "flush", "serve", "refuse"}

\* A request holds the advisory lock of its key from here to its end ...
Holding == {"read", "flush", "serve", "refuse"}

Holds(r, k) == pc[r] \in Holding /\ key[r] = k

\* ... and the lock of the row, if there was one to select.
RowHeld(k) ==
    \E r \in Request : pc[r] \in Holding \ {"read"} /\ key[r] = k /\ seen[r] # None

Over(b, t) == b # None => b.expires <= t

\* Mutant: the limit is compared one too late.
FullLate(b) == b.count > Limit

Full(b) == b.count >= Limit

Opened(t) == [start |-> t, expires |-> t + Window, count |-> 1]

Counted(b) == [start |-> b.start, expires |-> b.expires, count |-> b.count + 1]

Goto(r, stage) == pc' = [pc EXCEPT ![r] = stage]

Init ==
    /\ now = 0
    /\ bucket = [k \in Key |-> None]
    /\ pc = [r \in Request |-> "idle"]
    /\ key = [r \in Request |-> None]
    /\ current = [r \in Request |-> 0]
    /\ seen = [r \in Request |-> None]
    /\ draft = [r \in Request |-> None]
    /\ cleaning = None /\ victims = {} /\ erased = {}
    /\ admitted = [k \in Key |-> 0]

-----------------------------------------------------------------------------
(* enforce, and the rest of the request's transaction. *)

Arrive(r) ==
    \E k \in Key :
        /\ pc[r] = "idle"
        /\ Goto(r, "lock")
        /\ key' = [key EXCEPT ![r] = k]
        /\ current' = [current EXCEPT ![r] = now]
        /\ UNCHANGED <<now, bucket, seen, draft, cleanupVars, admitted>>

\* Mutant: no advisory lock.
AcquireNothing(r) ==
    /\ pc[r] = "lock"
    /\ Goto(r, "read")
    /\ UNCHANGED <<now, bucket, key, current, seen, draft, cleanupVars, admitted>>

AcquireLock(r) ==
    /\ pc[r] = "lock"
    /\ \A q \in Request : ~Holds(q, key[r])
    /\ Goto(r, "read")
    /\ UNCHANGED <<now, bucket, key, current, seen, draft, cleanupVars, admitted>>

\* SELECT ... FOR UPDATE waits for the retention command if it has deleted the
\* row; then the request starts a window, counts itself or is refused.
ReadBucket(r) ==
    LET b == bucket[key[r]] IN
    /\ pc[r] = "read"
    /\ key[r] \notin erased
    /\ seen' = [seen EXCEPT ![r] = b]
    /\ \/ /\ Over(b, current[r])
          /\ draft' = [draft EXCEPT ![r] = Opened(current[r])]
          /\ Goto(r, "flush")
       \/ /\ ~Over(b, current[r]) /\ ~Full(b)
          /\ draft' = [draft EXCEPT ![r] = Counted(b)]
          /\ Goto(r, "flush")
       \/ /\ ~Over(b, current[r]) /\ Full(b)
          /\ Goto(r, "refuse")
          /\ UNCHANGED draft
    /\ UNCHANGED <<now, bucket, key, current, cleanupVars, admitted>>

\* The INSERT or UPDATE of the bucket; the work of the route follows.
Flush(r) ==
    /\ pc[r] = "flush"
    /\ Goto(r, "serve")
    /\ UNCHANGED <<now, bucket, key, current, seen, draft, cleanupVars, admitted>>

End(r) ==
    /\ pc' = [pc EXCEPT ![r] = "idle"]
    /\ key' = [key EXCEPT ![r] = None]
    /\ current' = [current EXCEPT ![r] = 0]
    /\ seen' = [seen EXCEPT ![r] = None]
    /\ draft' = [draft EXCEPT ![r] = None]

Commit(r) ==
    /\ pc[r] = "serve"
    /\ bucket' = [bucket EXCEPT ![key[r]] = draft[r]]
    /\ admitted' = [admitted EXCEPT
                      ![key[r]] = IF Over(seen[r], current[r]) THEN 1 ELSE @ + 1]
    /\ End(r)
    /\ UNCHANGED <<now, cleanupVars>>

\* RateLimitExceeded: most routes roll back, the callback commits its audit
\* event; the bucket stays as it is.
Refuse(r) ==
    /\ pc[r] = "refuse"
    /\ End(r)
    /\ UNCHANGED <<now, bucket, cleanupVars, admitted>>

\* The route fails later on, or its connection is lost: its count is rolled back.
Fail(r) ==
    /\ pc[r] # "idle"
    /\ End(r)
    /\ UNCHANGED <<now, bucket, cleanupVars, admitted>>

-----------------------------------------------------------------------------
(* The retention command: DELETE ... WHERE expires_at < now. *)

StartCleanup ==
    /\ cleaning = None
    /\ cleaning' = now
    /\ victims' = {k \in Key : bucket[k] # None /\ bucket[k].expires < now}
    /\ UNCHANGED <<now, bucket, requestVars, erased, admitted>>

\* Mutant: a row is deleted as it was in the snapshot, without another look.
EraseSnapshot ==
    \E k \in victims :
        /\ ~RowHeld(k)
        /\ victims' = victims \ {k}
        /\ erased' = IF bucket[k] # None THEN erased \cup {k} ELSE erased
        /\ UNCHANGED <<now, bucket, requestVars, cleaning, admitted>>

\* A row that a request has selected for update is waited for, and looked at
\* again.
EraseRow ==
    \E k \in victims :
        /\ ~RowHeld(k)
        /\ victims' = victims \ {k}
        /\ erased' = IF bucket[k] # None /\ bucket[k].expires < cleaning
                     THEN erased \cup {k} ELSE erased
        /\ UNCHANGED <<now, bucket, requestVars, cleaning, admitted>>

StopCleanup == cleaning' = None /\ victims' = {} /\ erased' = {}

CommitCleanup ==
    /\ cleaning # None /\ victims = {}
    /\ bucket' = [k \in Key |-> IF k \in erased THEN None ELSE bucket[k]]
    /\ admitted' = [k \in Key |-> IF k \in erased THEN 0 ELSE admitted[k]]
    /\ StopCleanup
    /\ UNCHANGED <<now, requestVars>>

FailCleanup ==
    /\ cleaning # None
    /\ StopCleanup
    /\ UNCHANGED <<now, bucket, requestVars, admitted>>

Tick ==
    /\ now < MaxTime
    /\ now' = now + 1
    /\ UNCHANGED <<bucket, requestVars, cleanupVars, admitted>>

-----------------------------------------------------------------------------

Run(r) == \/ Arrive(r) \/ AcquireLock(r) \/ ReadBucket(r) \/ Flush(r)
          \/ Commit(r) \/ Refuse(r) \/ Fail(r)

Cleanup == StartCleanup \/ EraseRow \/ CommitCleanup \/ FailCleanup

Next == (\E r \in Request : Run(r)) \/ Cleanup \/ Tick

Spec == Init /\ [][Next]_vars

-----------------------------------------------------------------------------
(* Properties. *)

TypeOK ==
    /\ now \in Nat
    /\ bucket \in [Key -> Bucket \cup {None}]
    /\ pc \in [Request -> Stage]
    /\ key \in [Request -> Key \cup {None}]
    /\ current \in [Request -> Nat]
    /\ seen \in [Request -> Bucket \cup {None}]
    /\ draft \in [Request -> Bucket \cup {None}]
    /\ cleaning \in Nat \cup {None}
    /\ victims \subseteq Key /\ erased \subseteq Key
    /\ admitted \in [Key -> Nat]

\* The stored count is the number of committed requests of the open window, none
\* lost and none counted twice, and it never exceeds the limit (enforce).
AdmissionsCounted ==
    \A k \in Key :
        /\ admitted[k] = IF bucket[k] = None THEN 0 ELSE bucket[k].count
        /\ admitted[k] <= Limit

\* The INSERT of a key's first bucket never meets a row of another request, so the
\* first-write race of acquire_advisory_xact_lock's comment does not happen.
FirstWriteAlone ==
    \A r \in Request :
        pc[r] \in {"flush", "serve"} /\ seen[r] = None =>
            /\ bucket[key[r]] = None
            /\ \A q \in Request \ {r} :
                  ~(pc[q] \in {"flush", "serve"} /\ key[q] = key[r])

\* Requests, retries, rollbacks and the retention command together behave as one
\* fixed-window counter per key.
Windows == INSTANCE FixedWindow WITH clock <- now, window <- bucket
FixedWindows == Windows!Spec

-----------------------------------------------------------------------------
(* The inductive invariant. *)

\* One request at a time is past the lock of a key.
LockExclusive ==
    \A q, r \in Request : pc[q] \in Holding /\ pc[r] \in Holding /\ key[q] = key[r] => q = r

\* What a request has read is still the committed row when it commits, and its
\* draft is the successor of that row.
ReadIsCurrent ==
    \A r \in Request : pc[r] \in {"flush", "serve"} =>
        /\ seen[r] = bucket[key[r]]
        /\ \/ Over(seen[r], current[r]) /\ draft[r] = Opened(current[r])
           \/ /\ seen[r] # None /\ ~Full(seen[r])
              /\ ~Over(seen[r], current[r]) /\ draft[r] = Counted(seen[r])

\* A row deleted by the retention command is over, and no request has selected it.
ErasedIsOver ==
    /\ erased # {} \/ victims # {} => cleaning # None
    /\ cleaning # None => cleaning <= now
    /\ \A k \in erased :
          /\ bucket[k] # None /\ bucket[k].expires < cleaning
          /\ ~RowHeld(k)

\* A request in progress has a key, and its clock has been the wall clock.
Timely ==
    \A r \in Request :
        /\ current[r] <= now
        /\ pc[r] # "idle" => key[r] \in Key

LimiterInv ==
    TypeOK /\ LockExclusive /\ ReadIsCurrent /\ ErasedIsOver /\ Timely /\ AdmissionsCounted
=============================================================================
