--------------------------- MODULE RateLimitProofs ---------------------------
(***************************************************************************)
(* The rate limiter counts every committed request exactly once and never  *)
(* exceeds its limit, and it implements FixedWindow, for every number of   *)
(* keys and requests, every limit and every window.                        *)
(***************************************************************************)
EXTENDS RateLimit, TLAPS


LEMMA OpenedBucket ==
    ASSUME NEW t \in Nat PROVE Opened(t) \in Bucket /\ Opened(t).count = 1
BY WindowAssumption DEF Opened, Bucket

LEMMA CountedBucket ==
    ASSUME NEW b \in Bucket PROVE Counted(b) \in Bucket /\ Counted(b).count = b.count + 1
BY DEF Counted, Bucket

LEMMA BucketFields ==
    ASSUME NEW b \in Bucket
    PROVE  b # None /\ b.count \in Nat /\ b.expires \in Nat
BY NoneAssumption DEF Bucket

LEMMA InvInit == Init => LimiterInv
<1> SUFFICES ASSUME Init PROVE LimiterInv
  OBVIOUS
<1>1. TypeOK
  BY DEF Init, TypeOK, Stage
<1>2. AdmissionsCounted
  <2>1. \A k \in Key : bucket[k] = None /\ admitted[k] = 0
    BY DEF Init
  <2>2. 0 <= Limit
    BY LimitAssumption
  <2> QED
    BY <2>1, <2>2 DEF AdmissionsCounted
<1>3. LockExclusive /\ ReadIsCurrent /\ Timely
  BY DEF Init, LockExclusive, ReadIsCurrent, Timely, Holding
<1>4. ErasedIsOver
  BY DEF Init, ErasedIsOver
<1> QED
  BY <1>1, <1>2, <1>3, <1>4 DEF LimiterInv

-----------------------------------------------------------------------------
(* One lemma per group of actions. *)

\* A request that ends leaves the invariant's other parts alone.
LEMMA EndStep ==
    ASSUME LimiterInv, NEW r \in Request, End(r),
           UNCHANGED <<now, bucket, cleanupVars, admitted>>
    PROVE  LimiterInv'
<1> USE DEF LimiterInv, End, cleanupVars
<1>1. TypeOK'
  BY DEF TypeOK, Stage
<1>2. LockExclusive'
  BY DEF LockExclusive, Holding, TypeOK
<1>3. ReadIsCurrent'
  BY DEF ReadIsCurrent, TypeOK, Over, Full, Opened, Counted
<1>4. ErasedIsOver'
  BY DEF ErasedIsOver, RowHeld, Holding, TypeOK
<1>5. Timely' /\ AdmissionsCounted'
  BY NoneAssumption DEF Timely, AdmissionsCounted, TypeOK
<1> QED
  BY <1>1, <1>2, <1>3, <1>4, <1>5

LEMMA ArriveStep ==
    ASSUME LimiterInv, NEW r \in Request, Arrive(r) PROVE LimiterInv'
<1> USE DEF LimiterInv, Arrive, Goto, cleanupVars
<1>1. TypeOK'
  BY DEF TypeOK, Stage
<1>2. LockExclusive'
  BY DEF LockExclusive, Holding, TypeOK
<1>3. ReadIsCurrent'
  BY DEF ReadIsCurrent, TypeOK, Over, Full, Opened, Counted
<1>4. ErasedIsOver'
  BY DEF ErasedIsOver, RowHeld, Holding, TypeOK
<1>5. Timely' /\ AdmissionsCounted'
  BY DEF Timely, AdmissionsCounted, TypeOK
<1> QED
  BY <1>1, <1>2, <1>3, <1>4, <1>5

LEMMA AcquireStep ==
    ASSUME LimiterInv, NEW r \in Request, AcquireLock(r) PROVE LimiterInv'
<1> USE DEF LimiterInv, AcquireLock, Goto, cleanupVars
<1>1. TypeOK'
  BY DEF TypeOK, Stage
<1>2. LockExclusive'
  BY DEF LockExclusive, Holding, Holds, TypeOK
<1>3. ReadIsCurrent'
  BY DEF ReadIsCurrent, TypeOK, Over, Full, Opened, Counted
<1>4. ErasedIsOver'
  BY DEF ErasedIsOver, RowHeld, Holding, TypeOK
<1>5. Timely' /\ AdmissionsCounted'
  BY DEF Timely, AdmissionsCounted, TypeOK
<1> QED
  BY <1>1, <1>2, <1>3, <1>4, <1>5

\* The decision of enforce: what it drafts is the successor of what it read.
LEMMA ReadStep ==
    ASSUME LimiterInv, NEW r \in Request, ReadBucket(r) PROVE LimiterInv'
<1> USE DEF LimiterInv, cleanupVars
<1> DEFINE b == bucket[key[r]]
<1>1. /\ pc[r] = "read" /\ key[r] \notin erased
      /\ seen' = [seen EXCEPT ![r] = b]
      /\ UNCHANGED <<now, bucket, key, current, cleanupVars, admitted>>
  BY DEF ReadBucket
<1>2. key[r] \in Key /\ b \in Bucket \cup {None} /\ current[r] \in Nat
  BY <1>1 DEF Timely, TypeOK
<1>3. \/ /\ pc' = [pc EXCEPT ![r] = "flush"]
         /\ Over(b, current[r]) /\ draft' = [draft EXCEPT ![r] = Opened(current[r])]
      \/ /\ pc' = [pc EXCEPT ![r] = "flush"]
         /\ ~Over(b, current[r]) /\ ~Full(b) /\ b # None
         /\ draft' = [draft EXCEPT ![r] = Counted(b)]
      \/ pc' = [pc EXCEPT ![r] = "refuse"] /\ UNCHANGED draft
  BY DEF ReadBucket, Goto, Over
<1>4. TypeOK'
  <2>1. draft' \in [Request -> Bucket \cup {None}]
    BY <1>2, <1>3, OpenedBucket, CountedBucket DEF TypeOK
  <2>2. pc' \in [Request -> Stage] /\ seen' \in [Request -> Bucket \cup {None}]
    BY <1>1, <1>2, <1>3 DEF TypeOK, Stage
  <2> QED
    BY <1>1, <2>1, <2>2 DEF TypeOK
<1>5. LockExclusive'
  BY <1>1, <1>3 DEF LockExclusive, Holding, TypeOK
<1>6. ReadIsCurrent'
  <2> SUFFICES ASSUME NEW q \in Request, pc'[q] \in {"flush", "serve"}
               PROVE  /\ seen'[q] = bucket[key[q]]
                      /\ \/ /\ Over(seen'[q], current[q])
                            /\ draft'[q] = Opened(current[q])
                         \/ /\ seen'[q] # None /\ ~Full(seen'[q])
                            /\ ~Over(seen'[q], current[q])
                            /\ draft'[q] = Counted(seen'[q])
    BY <1>1 DEF ReadIsCurrent, Over, Full, Opened, Counted
  <2>1. CASE q = r
    BY <1>1, <1>3, <2>1 DEF TypeOK
  <2>2. CASE q # r
    <3>1. seen'[q] = seen[q] /\ draft'[q] = draft[q] /\ pc'[q] = pc[q]
      BY <1>1, <1>3, <2>2 DEF TypeOK
    <3> QED
      BY <3>1 DEF ReadIsCurrent
  <2> QED
    BY <2>1, <2>2
<1>7. ErasedIsOver'
  <2>1. \A k \in erased : ~RowHeld(k)'
    BY <1>1, <1>3 DEF ErasedIsOver, RowHeld, Holding, TypeOK
  <2> QED
    BY <1>1, <2>1 DEF ErasedIsOver
<1>8. Timely' /\ AdmissionsCounted'
  BY <1>1, <1>3 DEF Timely, AdmissionsCounted, TypeOK
<1> QED
  BY <1>4, <1>5, <1>6, <1>7, <1>8

LEMMA FlushStep ==
    ASSUME LimiterInv, NEW r \in Request, Flush(r) PROVE LimiterInv'
<1> USE DEF LimiterInv, Flush, Goto, cleanupVars
<1>1. TypeOK'
  BY DEF TypeOK, Stage
<1>2. LockExclusive'
  BY DEF LockExclusive, Holding, TypeOK
<1>3. ReadIsCurrent'
  BY DEF ReadIsCurrent, TypeOK, Over, Full, Opened, Counted
<1>4. ErasedIsOver'
  BY DEF ErasedIsOver, RowHeld, Holding, TypeOK
<1>5. Timely' /\ AdmissionsCounted'
  BY DEF Timely, AdmissionsCounted, TypeOK
<1> QED
  BY <1>1, <1>2, <1>3, <1>4, <1>5

-----------------------------------------------------------------------------
(* The commit of a request. *)

\* What a request commits is the next bucket of its key.
LEMMA CommitBucket ==
    ASSUME LimiterInv, NEW r \in Request, Commit(r)
    PROVE  LET k == key[r] IN
           /\ k \in Key /\ current[r] \in 0 .. now
           /\ draft[r] \in Bucket /\ draft[r].count <= Limit
           /\ k \notin erased
           /\ \/ Over(bucket[k], current[r]) /\ draft[r] = Opened(current[r])
              \/ /\ bucket[k] \in Bucket /\ ~Over(bucket[k], current[r])
                 /\ bucket[k].count < Limit /\ draft[r] = Counted(bucket[k])
<1> USE DEF LimiterInv
<1> DEFINE k == key[r]
<1>1. pc[r] = "serve"
  BY DEF Commit
<1>2. k \in Key /\ current[r] \in 0 .. now /\ current[r] \in Nat
      /\ bucket[k] \in Bucket \cup {None}
  BY <1>1 DEF Timely, TypeOK
<1>3. /\ seen[r] = bucket[k]
      /\ \/ Over(bucket[k], current[r]) /\ draft[r] = Opened(current[r])
         \/ /\ bucket[k] # None /\ ~Full(bucket[k])
            /\ ~Over(bucket[k], current[r]) /\ draft[r] = Counted(bucket[k])
  BY <1>1 DEF ReadIsCurrent
<1>4. k \notin erased
  <2>1. bucket[k] # None => RowHeld(k)
    BY <1>1, <1>3 DEF RowHeld, Holding
  <2> QED
    BY <1>2, <2>1 DEF ErasedIsOver
<1>5. CASE Over(bucket[k], current[r]) /\ draft[r] = Opened(current[r])
  BY <1>2, <1>4, <1>5, OpenedBucket, LimitAssumption
<1>6. CASE /\ bucket[k] # None /\ ~Full(bucket[k])
           /\ ~Over(bucket[k], current[r]) /\ draft[r] = Counted(bucket[k])
  <2>1. bucket[k] \in Bucket /\ bucket[k].count \in Nat
    BY <1>2, <1>6, BucketFields
  <2>2. bucket[k].count < Limit
    BY <1>6, <2>1, LimitAssumption DEF Full
  <2> QED
    BY <1>2, <1>4, <1>6, <2>1, <2>2, CountedBucket, LimitAssumption
<1> QED
  BY <1>3, <1>5, <1>6

LEMMA CommitStep ==
    ASSUME LimiterInv, NEW r \in Request, Commit(r) PROVE LimiterInv'
<1> DEFINE k == key[r]
<1>1. /\ k \in Key /\ current[r] \in 0 .. now
      /\ draft[r] \in Bucket /\ draft[r].count <= Limit
      /\ k \notin erased
      /\ \/ Over(bucket[k], current[r]) /\ draft[r] = Opened(current[r])
         \/ /\ bucket[k] \in Bucket /\ ~Over(bucket[k], current[r])
            /\ bucket[k].count < Limit /\ draft[r] = Counted(bucket[k])
  BY CommitBucket
<1>2. /\ pc[r] = "serve" /\ seen[r] = bucket[k]
      /\ bucket' = [bucket EXCEPT ![k] = draft[r]]
      /\ UNCHANGED <<now, cleaning, victims, erased>>
  BY DEF Commit, cleanupVars, LimiterInv, ReadIsCurrent
<1>3. admitted' = [admitted EXCEPT ![k] = IF Over(bucket[k], current[r]) THEN 1 ELSE @ + 1]
  BY <1>2 DEF Commit
<1>4. /\ pc' = [pc EXCEPT ![r] = "idle"]
      /\ key' = [key EXCEPT ![r] = None]
      /\ current' = [current EXCEPT ![r] = 0]
      /\ seen' = [seen EXCEPT ![r] = None]
      /\ draft' = [draft EXCEPT ![r] = None]
  BY DEF Commit, End
<1> USE DEF LimiterInv
<1>5. TypeOK'
  BY <1>1, <1>2, <1>3, <1>4 DEF TypeOK, Stage
<1>6. LockExclusive'
  BY <1>4 DEF LockExclusive, Holding, TypeOK
<1>7. ReadIsCurrent'
  <2> SUFFICES ASSUME NEW q \in Request, pc'[q] \in {"flush", "serve"}
               PROVE  /\ q # r /\ pc'[q] = pc[q] /\ seen'[q] = seen[q]
                      /\ draft'[q] = draft[q] /\ current'[q] = current[q]
                      /\ key'[q] = key[q]
                      /\ bucket'[key[q]] = bucket[key[q]]
    BY DEF ReadIsCurrent, Over, Full, Opened, Counted
  <2>1. q # r
    BY <1>4 DEF TypeOK
  <2>2. key[q] # k
    BY <1>2, <1>4, <2>1 DEF LockExclusive, Holding, TypeOK
  <2> QED
    BY <1>2, <1>4, <2>1, <2>2 DEF TypeOK
<1>8. ErasedIsOver'
  <2>1. \A x \in erased : bucket'[x] = bucket[x] /\ ~RowHeld(x)'
    BY <1>1, <1>2, <1>4 DEF ErasedIsOver, RowHeld, Holding, TypeOK
  <2> QED
    BY <1>2, <2>1 DEF ErasedIsOver
<1>9. Timely'
  BY <1>2, <1>4 DEF Timely, TypeOK
<1>10. AdmissionsCounted'
  <2>1. draft[r] # None /\ draft[r].count \in Nat
    BY <1>1, BucketFields
  <2>2. IF Over(bucket[k], current[r]) THEN draft[r].count = 1
        ELSE /\ bucket[k] # None
             /\ draft[r].count = bucket[k].count + 1
    <3>1. current[r] \in Nat
      BY <1>1 DEF TypeOK
    <3> QED
      BY <1>1, <3>1, OpenedBucket, CountedBucket, BucketFields
  <2>3. admitted'[k] = draft[r].count
    BY <1>1, <1>3, <2>2 DEF AdmissionsCounted, TypeOK
  <2>4. bucket'[k] = draft[r]
    BY <1>1, <1>2 DEF TypeOK
  <2>5. \A x \in Key \ {k} : bucket'[x] = bucket[x] /\ admitted'[x] = admitted[x]
    BY <1>2, <1>3 DEF TypeOK
  <2> QED
    BY <1>1, <2>1, <2>3, <2>4, <2>5 DEF AdmissionsCounted
<1> QED
  BY <1>5, <1>6, <1>7, <1>8, <1>9, <1>10

-----------------------------------------------------------------------------
(* The retention command and the clock. *)

LEMMA CleanupStep ==
    ASSUME LimiterInv, Cleanup PROVE LimiterInv'
<1> USE DEF LimiterInv, requestVars, cleanupVars
<1>1. CASE StartCleanup
  <2>1. erased = {} /\ now \in Nat
    BY <1>1 DEF StartCleanup, ErasedIsOver, TypeOK
  <2>2. TypeOK'
    BY <1>1, <2>1 DEF StartCleanup, TypeOK
  <2>3. ErasedIsOver'
    BY <1>1, <2>1, NoneAssumption DEF StartCleanup, ErasedIsOver
  <2> QED
    BY <1>1, <2>2, <2>3 DEF StartCleanup, LockExclusive, ReadIsCurrent, Timely,
       AdmissionsCounted, Over, Full, Opened, Counted
<1>2. CASE EraseRow
  <2>1. PICK k \in victims :
          /\ ~RowHeld(k) /\ victims' = victims \ {k}
          /\ erased' = IF bucket[k] # None /\ bucket[k].expires < cleaning
                       THEN erased \cup {k} ELSE erased
    BY <1>2 DEF EraseRow
  <2>2. UNCHANGED <<now, bucket, requestVars, cleaning, admitted>>
    BY <1>2 DEF EraseRow
  <2>3. TypeOK'
    BY <2>1, <2>2 DEF TypeOK
  <2>4. \A x \in Key : RowHeld(x)' <=> RowHeld(x)
    BY <2>2 DEF RowHeld
  <2>5. ErasedIsOver'
    BY <2>1, <2>2, <2>4 DEF ErasedIsOver, TypeOK
  <2> QED
    BY <2>2, <2>3, <2>5 DEF LockExclusive, ReadIsCurrent, Timely,
       AdmissionsCounted, Over, Full, Opened, Counted
<1>3. CASE CommitCleanup
  <2>1. /\ bucket' = [k \in Key |-> IF k \in erased THEN None ELSE bucket[k]]
        /\ admitted' = [k \in Key |-> IF k \in erased THEN 0 ELSE admitted[k]]
        /\ cleaning' = None /\ victims' = {} /\ erased' = {}
        /\ UNCHANGED <<now, pc, key, current, seen, draft>>
    BY <1>3 DEF CommitCleanup, StopCleanup
  <2>2. TypeOK'
    BY <2>1 DEF TypeOK
  <2>3. ReadIsCurrent'
    <3> SUFFICES ASSUME NEW q \in Request, pc[q] \in {"flush", "serve"}
                 PROVE  bucket'[key[q]] = bucket[key[q]]
      BY <2>1 DEF ReadIsCurrent, Over, Full, Opened, Counted
    <3>1. key[q] \in Key /\ seen[q] = bucket[key[q]]
      BY DEF Timely, ReadIsCurrent
    <3>2. key[q] \notin erased
      BY <3>1 DEF ErasedIsOver, RowHeld, Holding
    <3> QED
      BY <2>1, <3>1, <3>2
  <2>4. AdmissionsCounted'
    BY <2>1, LimitAssumption DEF AdmissionsCounted, TypeOK
  <2>5. LockExclusive' /\ Timely' /\ ErasedIsOver'
    BY <2>1 DEF LockExclusive, Timely, ErasedIsOver
  <2> QED
    BY <2>2, <2>3, <2>4, <2>5
<1>4. CASE FailCleanup
  <2>1. TypeOK' /\ ErasedIsOver'
    BY <1>4 DEF FailCleanup, StopCleanup, TypeOK, ErasedIsOver
  <2> QED
    BY <1>4, <2>1 DEF FailCleanup, StopCleanup, LockExclusive, ReadIsCurrent, Timely,
       AdmissionsCounted, Over, Full, Opened, Counted
<1> QED
  BY <1>1, <1>2, <1>3, <1>4 DEF Cleanup

LEMMA TickStep ==
    ASSUME LimiterInv, Tick PROVE LimiterInv'
<1> USE DEF LimiterInv, Tick, requestVars, cleanupVars
<1>1. TypeOK'
  BY DEF TypeOK
<1>2. Timely'
  BY DEF Timely, TypeOK
<1>3. ErasedIsOver'
  <2>1. cleaning # None => cleaning \in Nat /\ cleaning <= now'
    BY DEF ErasedIsOver, TypeOK
  <2>2. \A x \in Key : RowHeld(x)' <=> RowHeld(x)
    BY DEF RowHeld
  <2> QED
    BY <2>1, <2>2 DEF ErasedIsOver, TypeOK
<1> QED
  BY <1>1, <1>2, <1>3 DEF LockExclusive, ReadIsCurrent, AdmissionsCounted, Over, Full,
     Opened, Counted

LEMMA InvStep == ASSUME LimiterInv, [Next]_vars PROVE LimiterInv'
<1>1. ASSUME NEW r \in Request, Run(r) PROVE LimiterInv'
  <2>1. CASE Refuse(r)
    BY <2>1, EndStep DEF Refuse
  <2>2. CASE Fail(r)
    BY <2>2, EndStep DEF Fail
  <2> QED
    BY <1>1, <2>1, <2>2, ArriveStep, AcquireStep, ReadStep, FlushStep, CommitStep DEF Run
<1>2. ASSUME UNCHANGED vars PROVE LimiterInv'
  <2> USE <1>2 DEF vars, requestVars, cleanupVars, LimiterInv
  <2>1. TypeOK' /\ LockExclusive' /\ Timely' /\ AdmissionsCounted'
    BY DEF TypeOK, LockExclusive, Timely, AdmissionsCounted
  <2>2. ReadIsCurrent' /\ ErasedIsOver'
    BY DEF ReadIsCurrent, ErasedIsOver, RowHeld, Over, Full, Opened, Counted
  <2> QED
    BY <2>1, <2>2
<1> QED
  BY <1>1, <1>2, CleanupStep, TickStep DEF Next

-----------------------------------------------------------------------------
(* The theorems. *)

\* The inductive invariant of the limiter: one request at a time is past the lock
\* of a key, and what it has read stays current until it commits.
THEOREM LimiterInvariant == Spec => []LimiterInv
<1>1. LimiterInv /\ [Next]_vars => LimiterInv'
  BY InvStep
<1> QED
  BY InvInit, <1>1, PTL DEF Spec

\* The stored count is the number of committed requests of the open window and is
\* never above the limit (enforce), whatever overlaps, fails or is cleaned up.
THEOREM CountsHold == Spec => []AdmissionsCounted
<1>1. LimiterInv => AdmissionsCounted
  BY DEF LimiterInv
<1> QED
  BY <1>1, LimiterInvariant, PTL

\* The INSERT of the first bucket of a key is alone: the advisory lock closes the
\* race that SELECT ... FOR UPDATE leaves open.
THEOREM FirstWrites == Spec => []FirstWriteAlone
<1>1. LimiterInv => FirstWriteAlone
  BY DEF LimiterInv, FirstWriteAlone, ReadIsCurrent, LockExclusive, Holding
<1> QED
  BY <1>1, LimiterInvariant, PTL

-----------------------------------------------------------------------------
(* The limiter implements FixedWindow. *)

LEMMA WindowStep ==
    ASSUME LimiterInv, [Next]_vars PROVE [Windows!Next]_<<now, bucket>>
<1>1. ASSUME NEW r \in Request, Commit(r) PROVE Windows!Next
  <2> DEFINE k == key[r]
  <2>1. /\ k \in Key /\ current[r] \in 0 .. now
        /\ \/ Over(bucket[k], current[r]) /\ draft[r] = Opened(current[r])
           \/ /\ bucket[k] \in Bucket /\ ~Over(bucket[k], current[r])
              /\ bucket[k].count < Limit /\ draft[r] = Counted(bucket[k])
    BY <1>1, CommitBucket
  <2>2. bucket' = [bucket EXCEPT ![k] = draft[r]] /\ now' = now
    BY <1>1 DEF Commit
  <2>3. CASE Over(bucket[k], current[r]) /\ draft[r] = Opened(current[r])
    <3>1. Windows!Open(k)
      BY <2>1, <2>2, <2>3 DEF Windows!Open, Over, Opened
    <3> QED
      BY <2>1, <3>1 DEF Windows!Next
  <2>4. CASE /\ bucket[k] \in Bucket /\ bucket[k].count < Limit
             /\ draft[r] = Counted(bucket[k])
    <3>1. Windows!Serve(k)
      BY <2>2, <2>4, BucketFields DEF Windows!Serve, Counted
    <3> QED
      BY <2>1, <3>1 DEF Windows!Next
  <2> QED
    BY <2>1, <2>3, <2>4
<1>2. ASSUME CommitCleanup PROVE Windows!Next
  <2>1. erased \in SUBSET {k \in Key : bucket[k] # None /\ bucket[k].expires < now}
    <3> SUFFICES ASSUME NEW k \in erased
                 PROVE  k \in Key /\ bucket[k] # None /\ bucket[k].expires < now
      OBVIOUS
    <3>1. k \in Key /\ bucket[k] # None /\ bucket[k].expires < cleaning
      BY DEF LimiterInv, ErasedIsOver, TypeOK
    <3>2. bucket[k].expires \in Nat
      BY <3>1, BucketFields DEF LimiterInv, TypeOK
    <3>3. cleaning \in Nat /\ cleaning <= now /\ now \in Nat
      BY <1>2 DEF CommitCleanup, LimiterInv, ErasedIsOver, TypeOK
    <3> QED
      BY <3>1, <3>2, <3>3
  <2>2. /\ bucket' = [k \in Key |-> IF k \in erased THEN None ELSE bucket[k]]
        /\ now' = now
    BY <1>2 DEF CommitCleanup
  <2>3. Windows!Forget
    BY <2>1, <2>2 DEF Windows!Forget
  <2> QED
    BY <2>3 DEF Windows!Next
<1>3. ASSUME Tick PROVE Windows!Next
  BY <1>3 DEF Tick, Windows!Next, Windows!Advance
<1>4. ASSUME NEW r \in Request, Run(r), ~Commit(r) PROVE UNCHANGED <<now, bucket>>
  BY <1>4 DEF Run, Arrive, AcquireLock, ReadBucket, Flush, Refuse, Fail
<1>5. ASSUME Cleanup, ~CommitCleanup PROVE UNCHANGED <<now, bucket>>
  BY <1>5 DEF Cleanup, StartCleanup, EraseRow, FailCleanup
<1>6. ASSUME UNCHANGED vars PROVE UNCHANGED <<now, bucket>>
  BY <1>6 DEF vars
<1> QED
  BY <1>1, <1>2, <1>3, <1>4, <1>5, <1>6 DEF Next

\* Requests, rollbacks and the retention command together are one fixed-window
\* counter per key.
THEOREM ImplementsFixedWindow == Spec => FixedWindows
<1>1. Init => Windows!Init
  BY DEF Init, Windows!Init
<1>2. LimiterInv /\ [Next]_vars => [Windows!Next]_<<now, bucket>>
  BY WindowStep
<1> QED
  BY <1>1, <1>2, LimiterInvariant, PTL DEF Spec, FixedWindows, Windows!Spec
=============================================================================
