----------------------- MODULE ServiceRegistryProofs -----------------------
(***************************************************************************)
(* Proofs about service connections: overlapping touches leave the latest  *)
(* time that any of them reported, and never take a time back.             *)
(***************************************************************************)
EXTENDS ServiceRegistry, TLAPS

LEMMA TouchedRow ==
    ASSUME NEW row \in Connection \cup {None}, NEW t \in Time
    PROVE  /\ Touched(row, t) \in Connection \cup {None}
           /\ row = None => Touched(row, t).last = t /\ Touched(row, t) # None
           /\ row # None /\ Touched(row, t) = None => row.last >= t
           /\ row # None /\ Touched(row, t) # None =>
                 /\ Touched(row, t).first = row.first
                 /\ Touched(row, t).last = t /\ t > row.last
<1>1. CASE row = None
  BY <1>1, NoneAssumption DEF Touched, Connection
<1>2. CASE row # None
  <2>1. row \in Connection /\ row.last \in Nat /\ t \in Nat
    BY <1>2, TimeAssumption DEF Connection
  <2> QED
    BY <1>2, <2>1, NoneAssumption DEF Touched, Connection
<1> QED
  BY <1>1, <1>2

\* What the proofs ask of one request.
StageOK(r) ==
    /\ pc[r] # "idle" => req[r] # None
    /\ pc[r] \in TouchStage => req[r].kind = "touch"
    /\ pc[r] = "find" => req[r].kind = "deactivate"

DraftOK(r) ==
    IF Touching(r) /\ pc[r] \in {"insert", "commit"}
    THEN draft[r] = Touched(connections[<<req[r].subject, req[r].key>>], req[r].time)
    ELSE draft[r] = None

LEMMA StagesAll == StagesOK <=> \A r \in Request : StageOK(r)
  BY DEF StagesOK, StageOK

LEMMA DraftsAll == DraftIsCurrent <=> \A r \in Request : DraftOK(r)
  BY DEF DraftIsCurrent, DraftOK

\* A touch's fields.
LEMMA TouchFields ==
    ASSUME ConnectionsTyped, NEW r \in Request, Touching(r), req[r] # None
    PROVE  /\ <<req[r].subject, req[r].key>> \in Subject \X Key
           /\ req[r].time \in Time
<1>1. req[r] \in Touch
  BY DEF ConnectionsTyped, Touching, Touch, Register, Deactivate
<1> QED
  BY <1>1 DEF Touch

\* A request that a step leaves alone.
Untouched(q) == pc'[q] = pc[q] /\ req'[q] = req[q] /\ draft'[q] = draft[q]

LEMMA Frame ==
    ASSUME NEW q, Untouched(q)
    PROVE  /\ Touching(q)' <=> Touching(q)
           /\ Holding(q)' <=> Holding(q)
           /\ StageOK(q)' <=> StageOK(q)
  BY DEF Untouched, Touching, Holding, StageOK

\* The lock is kept by a step of r that does not take it, and is given to r by one
\* that nobody holds it against.
LEMMA LockFrame ==
    ASSUME LockExclusive, NEW r \in Request, \A q \in Request \ {r} : Untouched(q),
           Holding(r)' => \/ Holding(r) /\ req'[r] = req[r]
                          \/ /\ req'[r] = req[r]
                             /\ \A q \in Request : Holding(q) => ~SameConnection(q, r)
    PROVE  LockExclusive'
<1>1. \A q \in Request \ {r} : Holding(q)' <=> Holding(q)
  BY Frame
<1>2. ASSUME NEW q \in Request \ {r}, Holding(q)', Holding(r)'
      PROVE  ~SameConnection(q, r)' /\ ~SameConnection(r, q)'
  <2>1. Holding(q) /\ req'[q] = req[q] /\ req'[r] = req[r]
    BY <1>1, <1>2 DEF Untouched
  <2>2. ~SameConnection(q, r)
    BY <1>2, <2>1 DEF LockExclusive
  <2> QED
    BY <2>1, <2>2 DEF SameConnection
<1>3. ASSUME NEW p \in Request \ {r}, NEW q \in Request \ {r}, p # q, Holding(p)', Holding(q)'
      PROVE  ~SameConnection(p, q)'
  BY <1>1, <1>3 DEF LockExclusive, SameConnection, Untouched
<1> QED
  BY <1>2, <1>3 DEF LockExclusive

\* A step of r that leaves the connections alone keeps the invariant if r itself is
\* in order after it.
LEMMA StepFrame ==
    ASSUME ConnectionInv, NEW r \in Request, \A q \in Request \ {r} : Untouched(q),
           UNCHANGED <<connections, latest>>,
           ConnectionsTyped', StageOK(r)', LockExclusive', DraftOK(r)'
    PROVE  ConnectionInv'
<1>1. \A q \in Request \ {r} : StageOK(q)'
  BY Frame, StagesAll DEF ConnectionInv
<1>2. \A q \in Request \ {r} : DraftOK(q)'
  BY Frame, DraftsAll DEF ConnectionInv, DraftOK, Untouched
<1>3. StagesOK'
  BY <1>1 DEF StagesOK, StageOK
<1>4. DraftIsCurrent'
  BY <1>2 DEF DraftIsCurrent, DraftOK
<1> QED
  BY <1>3, <1>4 DEF ConnectionInv, LatestRecorded

LEMMA InitInv == Init => ConnectionInv
  BY DEF Init, ConnectionInv, ConnectionsTyped, StagesOK, LockExclusive, DraftIsCurrent,
         LatestRecorded, Holding, Touching, Stage, TouchStage

-----------------------------------------------------------------------------
(* Steps before the commit. *)

LEMMA StartStep ==
    ASSUME ConnectionInv, NEW r \in Request, StartTouch(r) \/ StartRegister(r) \/ StartDeactivate(r)
    PROVE  ConnectionInv'
<1>1. PICK what, stage :
        /\ pc[r] = "idle" /\ req' = [req EXCEPT ![r] = what]
        /\ pc' = [pc EXCEPT ![r] = stage]
        /\ UNCHANGED <<connections, draft, latest>>
        /\ \/ what \in Touch /\ stage = "limiter"
           \/ what \in Register /\ stage = "upsert"
           \/ what \in Deactivate /\ stage = "find"
  BY DEF StartTouch, StartRegister, StartDeactivate, Start, Goto
<1>2. /\ req'[r] = what /\ pc'[r] = stage /\ draft'[r] = draft[r]
      /\ \A q \in Request \ {r} : Untouched(q)
  BY <1>1 DEF ConnectionInv, ConnectionsTyped, Untouched
<1>3. what # None
  BY <1>1, NoneAssumption
<1>4. ConnectionsTyped'
  BY <1>1 DEF ConnectionInv, ConnectionsTyped, Stage
<1>5. StageOK(r)'
  BY <1>1, <1>2, <1>3 DEF StageOK, TouchStage, Touch, Register, Deactivate
<1>6. ~Holding(r)'
  BY <1>1, <1>2 DEF Holding, Touching, Touch, Register, Deactivate
<1>7. LockExclusive'
  BY <1>2, <1>6, LockFrame DEF ConnectionInv
<1>8. DraftOK(r)'
  <2>1. draft[r] = None
    BY <1>1, DraftsAll DEF ConnectionInv, DraftOK, Touching
  <2> QED
    BY <1>1, <1>2, <2>1 DEF DraftOK
<1> QED
  BY <1>1, <1>2, <1>4, <1>5, <1>7, <1>8, StepFrame

\* Steps that move a request from one stage to the next and write no connection.
LEMMA MoveStep ==
    ASSUME ConnectionInv, NEW r \in Request,
           \/ AcquireLimiter(r) \/ AcquireLock(r) \/ FindActive(r)
           \/ Upsert(r) \/ FindService(r) \/ FlushService(r) \/ FlushConnection(r)
    PROVE  ConnectionInv'
<1>1. PICK stage :
        /\ pc' = [pc EXCEPT ![r] = stage]
        /\ UNCHANGED <<connections, req, draft, latest>>
        /\ \/ pc[r] = "limiter" /\ stage = "lock"
           \/ /\ pc[r] = "lock" /\ stage = "service"
              /\ \A q \in Request : Holding(q) => ~SameConnection(q, r)
           \/ pc[r] = "service" /\ stage \in {"connect", "upsert"}
           \/ pc[r] \in {"upsert", "find"} /\ stage = "flush"
           \/ pc[r] = "flush" /\ stage = IF req[r].kind = "touch" THEN "connect" ELSE "commit"
           \/ pc[r] = "insert" /\ stage = "commit"
  BY DEF AcquireLimiter, AcquireLock, FindActive, Upsert, FindService, FlushService,
         FlushConnection, Goto
<1>2. stage \in Stage \ {"idle", "find", "limiter", "insert"} /\ pc[r] # "idle"
  BY <1>1 DEF Stage
<1>3. /\ pc'[r] = stage /\ req'[r] = req[r] /\ draft'[r] = draft[r]
      /\ \A q \in Request \ {r} : Untouched(q)
  BY <1>1 DEF ConnectionInv, ConnectionsTyped, Untouched
<1>4. StageOK(r) /\ DraftOK(r)
  BY StagesAll, DraftsAll DEF ConnectionInv
<1>5. ConnectionsTyped'
  BY <1>1, <1>2 DEF ConnectionInv, ConnectionsTyped
<1>6. StageOK(r)'
  BY <1>1, <1>2, <1>3, <1>4 DEF StageOK, TouchStage
<1>7. LockExclusive'
  <2>1. Holding(r)' => \/ Holding(r)
                       \/ \A q \in Request : Holding(q) => ~SameConnection(q, r)
    BY <1>1, <1>2, <1>3 DEF Holding, Touching
  <2> QED
    BY <1>3, <2>1, LockFrame DEF ConnectionInv
<1>8. DraftOK(r)'
  BY <1>1, <1>2, <1>3, <1>4 DEF DraftOK, StageOK, TouchStage, Touching
<1> QED
  BY <1>1, <1>3, <1>5, <1>6, <1>7, <1>8, StepFrame

\* The SELECT of the connection: nobody else is past the lock, and the row that is read
\* is the row that the draft will be compared with.
LEMMA ConnectStep ==
    ASSUME ConnectionInv, NEW r \in Request, Connect(r) PROVE ConnectionInv'
<1> DEFINE c == <<req[r].subject, req[r].key>>
<1>1. /\ pc[r] = "connect" /\ pc' = [pc EXCEPT ![r] = "insert"]
      /\ draft' = [draft EXCEPT ![r] = Touched(connections[c], req[r].time)]
      /\ UNCHANGED <<connections, req, latest>>
  BY DEF Connect, Goto
<1>2. req[r] # None /\ req[r].kind = "touch"
  BY <1>1, StagesAll DEF ConnectionInv, StageOK, TouchStage
<1>3. c \in Subject \X Key /\ req[r].time \in Time
  BY <1>1, <1>2, TouchFields DEF ConnectionInv, Touching
<1>4. Touched(connections[c], req[r].time) \in Connection \cup {None}
  BY <1>3, TouchedRow DEF ConnectionInv, ConnectionsTyped
<1>5. /\ pc'[r] = "insert" /\ req'[r] = req[r]
      /\ draft'[r] = Touched(connections[c], req[r].time)
      /\ \A q \in Request \ {r} : Untouched(q)
  BY <1>1, <1>4 DEF ConnectionInv, ConnectionsTyped, Untouched
<1>6. ConnectionsTyped'
  <2>1. draft' \in [Request -> Connection \cup {None}]
    BY <1>1, <1>4 DEF ConnectionInv, ConnectionsTyped
  <2> QED
    BY <1>1, <2>1 DEF ConnectionInv, ConnectionsTyped, Stage
<1>7. StageOK(r)'
  BY <1>2, <1>5 DEF StageOK
<1>8. LockExclusive'
  <2>1. Holding(r)
    BY <1>1, <1>2 DEF Holding, Touching
  <2> QED
    BY <1>5, <2>1, LockFrame DEF ConnectionInv
<1>9. DraftOK(r)'
  BY <1>1, <1>2, <1>5 DEF DraftOK, Touching
<1> QED
  BY <1>1, <1>5, <1>6, <1>7, <1>8, <1>9, StepFrame

-----------------------------------------------------------------------------
(* The end of a transaction. *)

LEMMA EndedOK ==
    ASSUME ConnectionInv, NEW r \in Request, End(r)
    PROVE  /\ pc'[r] = "idle" /\ req'[r] = None /\ draft'[r] = None
           /\ \A q \in Request \ {r} : Untouched(q)
           /\ pc' \in [Request -> Stage] /\ draft' \in [Request -> Connection \cup {None}]
           /\ req' \in [Request -> Touch \cup Register \cup Deactivate \cup {None}]
           /\ StageOK(r)' /\ DraftOK(r)' /\ LockExclusive'
<1>1. /\ pc' = [pc EXCEPT ![r] = "idle"] /\ req' = [req EXCEPT ![r] = None]
      /\ draft' = [draft EXCEPT ![r] = None]
  BY DEF End
<1>2. /\ pc'[r] = "idle" /\ req'[r] = None /\ draft'[r] = None
      /\ \A q \in Request \ {r} : Untouched(q)
  BY <1>1 DEF ConnectionInv, ConnectionsTyped, Untouched
<1>3. /\ pc' \in [Request -> Stage] /\ draft' \in [Request -> Connection \cup {None}]
      /\ req' \in [Request -> Touch \cup Register \cup Deactivate \cup {None}]
  BY <1>1 DEF ConnectionInv, ConnectionsTyped, Stage
<1>4. StageOK(r)' /\ DraftOK(r)'
  BY <1>2 DEF StageOK, DraftOK, TouchStage
<1>5. LockExclusive'
  BY <1>2, LockFrame DEF ConnectionInv, Holding, Touching
<1> QED
  BY <1>2, <1>3, <1>4, <1>5

LEMMA LeaveStep ==
    ASSUME ConnectionInv, NEW r \in Request, Collide(r) \/ Fail(r) PROVE ConnectionInv'
<1>1. End(r) /\ UNCHANGED <<connections, latest>>
  BY DEF Collide, Fail
<1>2. ConnectionsTyped'
  BY <1>1, EndedOK DEF ConnectionInv, ConnectionsTyped
<1> QED
  BY <1>1, <1>2, EndedOK, StepFrame

\* What the commit of a touch makes of its connection.
LEMMA TouchCommit ==
    ASSUME ConnectionInv, NEW r \in Request, Commit(r), req[r].kind = "touch"
    PROVE  LET c == <<req[r].subject, req[r].key>> IN
           /\ c \in Subject \X Key /\ Holding(r)
           /\ draft[r] = Touched(connections[c], req[r].time)
           /\ connections' = [connections EXCEPT ![c] = IF draft[r] = None THEN @ ELSE draft[r]]
           /\ latest' = [latest EXCEPT ![c] = Later(@, req[r].time)]
           /\ \A x \in (Subject \X Key) \ {c} : /\ connections'[x] = connections[x]
                                              /\ latest'[x] = latest[x]
           /\ connections'[c] \in Connection /\ latest'[c] \in Time
           /\ connections'[c].last = latest'[c]
           /\ connections[c] # None => /\ connections'[c].first = connections[c].first
                                       /\ connections'[c].last >= connections[c].last
<1> DEFINE c == <<req[r].subject, req[r].key>>
           t == req[r].time
           row == connections[c]
<1>1. pc[r] = "commit" /\ Touching(r) /\ Holding(r)
  BY DEF Commit, Touching, Holding
<1>2. req[r] # None
  BY <1>1, StagesAll DEF ConnectionInv, StageOK
<1>3. c \in Subject \X Key /\ t \in Time
  BY <1>1, <1>2, TouchFields DEF ConnectionInv
<1>4. draft[r] = Touched(row, t)
  BY <1>1, DraftsAll DEF ConnectionInv, DraftOK
<1>5. /\ connections' = [connections EXCEPT ![c] = IF draft[r] = None THEN @ ELSE draft[r]]
      /\ latest' = [latest EXCEPT ![c] = Later(@, t)]
  BY DEF Commit
<1>6. /\ connections'[c] = IF draft[r] = None THEN row ELSE draft[r]
      /\ latest'[c] = Later(latest[c], t)
      /\ \A x \in (Subject \X Key) \ {c} : /\ connections'[x] = connections[x]
                                         /\ latest'[x] = latest[x]
  BY <1>3, <1>5 DEF ConnectionInv, ConnectionsTyped
<1>7. row \in Connection \cup {None} /\ latest[c] \in Time \cup {None}
  BY <1>3 DEF ConnectionInv, ConnectionsTyped
<1>8. IF row = None THEN latest[c] = None ELSE row.last = latest[c]
  BY <1>3 DEF ConnectionInv, LatestRecorded
<1>9. /\ draft[r] \in Connection \cup {None}
      /\ row = None => draft[r].last = t /\ draft[r] # None
      /\ row # None /\ draft[r] = None => row.last >= t
      /\ row # None /\ draft[r] # None =>
            /\ draft[r].first = row.first
            /\ draft[r].last = t /\ t > row.last
  BY <1>3, <1>4, <1>7, TouchedRow
<1>10. t \in Nat /\ t # None /\ (row # None => row.last \in Nat)
  BY <1>3, <1>7, TimeAssumption, NoneAssumption DEF Connection
<1>11. /\ connections'[c] \in Connection /\ latest'[c] \in Time
       /\ connections'[c].last = latest'[c]
       /\ row # None => /\ connections'[c].first = row.first
                        /\ connections'[c].last >= row.last
  <2>1. CASE row = None
    BY <1>3, <1>6, <1>8, <1>9, <2>1 DEF Later
  <2>2. CASE row # None
    <3>1. latest[c] = row.last /\ latest[c] \in Nat /\ latest[c] # None
      BY <1>7, <1>8, <1>10, <2>2, NoneAssumption DEF Connection
    <3>2. latest'[c] = IF t > row.last THEN t ELSE row.last
      BY <1>6, <3>1 DEF Later
    <3>3. CASE draft[r] = None
      BY <1>6, <1>7, <1>8, <1>9, <1>10, <2>2, <3>1, <3>2, <3>3 DEF Connection
    <3>4. CASE draft[r] # None
      BY <1>3, <1>6, <1>9, <1>10, <2>2, <3>2, <3>4
    <3> QED
      BY <3>3, <3>4
  <2> QED
    BY <2>1, <2>2
<1> QED
  BY <1>1, <1>3, <1>4, <1>5, <1>6, <1>11

LEMMA CommitStep ==
    ASSUME ConnectionInv, NEW r \in Request, Commit(r) PROVE ConnectionInv'
<1>1. End(r)
  BY DEF Commit
<1>2. CASE req[r].kind # "touch"
  <2>1. UNCHANGED <<connections, latest>>
    BY <1>2 DEF Commit
  <2>2. ConnectionsTyped'
    BY <1>1, <2>1, EndedOK DEF ConnectionInv, ConnectionsTyped
  <2> QED
    BY <1>1, <2>1, <2>2, EndedOK, StepFrame
<1>3. CASE req[r].kind = "touch"
  <2> DEFINE c == <<req[r].subject, req[r].key>>
  <2>1. /\ c \in Subject \X Key /\ Holding(r)
        /\ connections' = [connections EXCEPT ![c] = IF draft[r] = None THEN @ ELSE draft[r]]
        /\ latest' = [latest EXCEPT ![c] = Later(@, req[r].time)]
        /\ \A x \in (Subject \X Key) \ {c} : /\ connections'[x] = connections[x]
                                           /\ latest'[x] = latest[x]
        /\ connections'[c] \in Connection /\ latest'[c] \in Time
        /\ connections'[c].last = latest'[c]
    BY <1>3, TouchCommit
  <2>2. ConnectionsTyped'
    <3>1. /\ connections' \in [Subject \X Key -> Connection \cup {None}]
          /\ latest' \in [Subject \X Key -> Time \cup {None}]
      BY <2>1 DEF ConnectionInv, ConnectionsTyped
    <3> QED
      BY <1>1, <3>1, EndedOK DEF ConnectionsTyped
  <2>3. LatestRecorded'
    BY <2>1, NoneAssumption DEF ConnectionInv, LatestRecorded
  <2>4. ASSUME NEW q \in Request \ {r} PROVE DraftOK(q)'
    <3>1. Untouched(q) /\ DraftOK(q)
      BY <1>1, EndedOK, DraftsAll DEF ConnectionInv
    <3>2. CASE Touching(q) /\ pc[q] \in {"insert", "commit"}
      <4>1. Holding(q) /\ req[q] # None
        BY <3>2, StagesAll DEF Holding, ConnectionInv, StageOK, Touching
      <4>2. <<req[q].subject, req[q].key>> \in (Subject \X Key) \ {c}
        <5>1. ~SameConnection(q, r)
          BY <2>1, <4>1 DEF ConnectionInv, LockExclusive
        <5>2. <<req[q].subject, req[q].key>> \in Subject \X Key
          BY <3>2, <4>1, TouchFields DEF ConnectionInv
        <5> QED
          BY <5>1, <5>2 DEF SameConnection
      <4>3. connections'[<<req[q].subject, req[q].key>>]
              = connections[<<req[q].subject, req[q].key>>]
        BY <2>1, <4>2
      <4> QED
        BY <3>1, <3>2, <4>3 DEF DraftOK, Untouched, Touching
    <3>3. CASE ~(Touching(q) /\ pc[q] \in {"insert", "commit"})
      BY <3>1, <3>3 DEF DraftOK, Untouched, Touching
    <3> QED
      BY <3>2, <3>3
  <2>5. DraftIsCurrent'
    BY <1>1, <2>4, EndedOK DEF DraftIsCurrent, DraftOK
  <2>6. StagesOK'
    <3>1. \A q \in Request \ {r} : StageOK(q)'
      BY <1>1, EndedOK, Frame, StagesAll DEF ConnectionInv
    <3> QED
      BY <1>1, <3>1, EndedOK DEF StagesOK, StageOK
  <2> QED
    BY <1>1, <2>2, <2>3, <2>5, <2>6, EndedOK DEF ConnectionInv
<1> QED
  BY <1>2, <1>3

-----------------------------------------------------------------------------
(* The service rows. *)

LEMMA RequestKey ==
    ASSUME ConnectionInv, NEW r \in Request, req[r] # None
    PROVE  /\ req[r].key \in Key
           /\ req[r].kind = "register" => req[r].values \in Service
BY DEF ConnectionInv, ConnectionsTyped, Touch, Register, Deactivate

\* What ServicesTyped asks of one request.
EditOK(r) ==
    /\ DOMAIN edit[r] \subseteq {"domain", "active"}
    /\ "domain" \in DOMAIN edit[r] => edit[r].domain \in Domain
    /\ "active" \in DOMAIN edit[r] => edit[r].active \in BOOLEAN
    /\ inserting[r] => edit[r] \in Service
    /\ edit[r] # NoEdit /\ ~inserting[r] => services[req[r].key] # None
    /\ pc[r] = "upsert" => \/ req[r].kind = "register"
                           \/ req[r].kind = "touch" /\ req[r].key \in DOMAIN DefaultDomain
    /\ pc[r] \in {"idle", "find"} => edit[r] = NoEdit /\ ~inserting[r]

LEMMA EditsAll ==
    ServicesTyped <=> /\ services \in [Key -> Service \cup {None}]
                      /\ inserting \in [Request -> BOOLEAN]
                      /\ DOMAIN edit = Request
                      /\ \A r \in Request : EditOK(r)
BY DEF ServicesTyped, EditOK

\* A step of r that deletes no service row.
ServiceStep(r) ==
    /\ inserting' \in [Request -> BOOLEAN] /\ DOMAIN edit' = Request
    /\ \A q \in Request \ {r} : /\ pc'[q] = pc[q] /\ req'[q] = req[q]
                                 /\ inserting'[q] = inserting[q] /\ edit'[q] = edit[q]
    /\ services' \in [Key -> Service \cup {None}]
    /\ \A k \in Key : services[k] # None => services'[k] # None
    /\ EditOK(r)'

LEMMA ServiceFrame ==
    ASSUME ConnectionInv, ServicesTyped, NEW r \in Request, ServiceStep(r)
    PROVE  ServicesTyped'
<1>1. ASSUME NEW q \in Request \ {r} PROVE EditOK(q)'
  <2>1. EditOK(q)
    BY EditsAll
  <2>2. /\ pc'[q] = pc[q] /\ req'[q] = req[q] /\ inserting'[q] = inserting[q]
        /\ edit'[q] = edit[q]
    BY DEF ServiceStep
  <2>3. edit[q] # NoEdit => pc[q] # "idle"
    BY <2>1 DEF EditOK
  <2>4. edit[q] # NoEdit => req[q] # None
    BY <2>3 DEF ConnectionInv, StagesOK
  <2>5. edit[q] # NoEdit /\ ~inserting[q] => services'[req[q].key] # None
    BY <2>1, <2>4, RequestKey DEF EditOK, ServiceStep
  <2>6. NoEdit' = NoEdit
    BY DEF NoEdit
  <2> QED
    BY <2>1, <2>2, <2>5, <2>6 DEF EditOK
<1> QED
  BY <1>1 DEF ServiceStep, ServicesTyped, EditOK

LEMMA ServicesStep ==
    ASSUME ConnectionInv, ServicesTyped, [Next]_vars PROVE ServicesTyped'
<1>1. CASE UNCHANGED vars
  BY <1>1 DEF vars, requestVars, ServicesTyped, NoEdit
<1>2. ASSUME NEW r \in Request, StartTouch(r) \/ StartRegister(r) \/ StartDeactivate(r)
      PROVE  ServiceStep(r)
  BY <1>2, EditsAll DEF StartTouch, StartRegister, StartDeactivate, Start, Goto, ServiceStep,
     EditOK, NoEdit, ConnectionInv, ConnectionsTyped, Register
<1>3. ASSUME NEW r \in Request,
             AcquireLimiter(r) \/ AcquireLock(r) \/ Connect(r) \/ FlushConnection(r)
             \/ FlushService(r)
      PROVE  ServiceStep(r)
  BY <1>3, EditsAll DEF AcquireLimiter, AcquireLock, Connect, FlushConnection, FlushService,
     Goto, ServiceStep, EditOK, NoEdit, ConnectionInv, ConnectionsTyped
<1>4. ASSUME NEW r \in Request, FindActive(r) PROVE ServiceStep(r)
  BY <1>4, EditsAll DEF FindActive, Goto, ServiceStep, EditOK, NoEdit, ConnectionInv,
     ConnectionsTyped, StagesOK, TouchStage
<1>5. ASSUME NEW r \in Request, Upsert(r) PROVE ServiceStep(r)
  <2> DEFINE row == services[req[r].key]
  <2>1. req[r] # None /\ req[r].key \in Key
    BY <1>5, RequestKey DEF Upsert, ConnectionInv, StagesOK
  <2>2. Wanted(r) \in Service
    BY <1>5, <2>1, RequestKey, DefaultsAssumption, EditsAll DEF Upsert, EditOK, Wanted, Service
  <2>3. row \in Service \cup {None}
    BY <2>1 DEF ServicesTyped
  <2>4. /\ DOMAIN Changes(row, Wanted(r)) \subseteq {"domain", "active"}
        /\ \A c \in DOMAIN Changes(row, Wanted(r)) : Changes(row, Wanted(r))[c] = Wanted(r)[c]
        /\ row = None => Changes(row, Wanted(r)) \in Service
    BY <2>2 DEF Changes, Service
  <2>5. /\ inserting' = [inserting EXCEPT ![r] = row = None]
        /\ edit' = [edit EXCEPT ![r] = Changes(row, Wanted(r))]
        /\ pc' = [pc EXCEPT ![r] = "flush"]
        /\ UNCHANGED <<services, req>>
    BY <1>5 DEF Upsert, Goto
  <2>6. inserting' \in [Request -> BOOLEAN] /\ DOMAIN edit' = Request
    BY <2>5 DEF ServicesTyped
  <2>7. inserting'[r] = (row = None) /\ edit'[r] = Changes(row, Wanted(r)) /\ pc'[r] = "flush"
    BY <2>5 DEF ServicesTyped, ConnectionInv, ConnectionsTyped
  <2>8. EditOK(r)'
    BY <2>2, <2>4, <2>5, <2>7 DEF EditOK, Service
  <2> QED
    BY <2>5, <2>6, <2>8 DEF ServiceStep, ServicesTyped, ConnectionInv, ConnectionsTyped
<1>6. ASSUME NEW r \in Request, FindService(r) PROVE ServiceStep(r)
  <2>1. /\ pc' = [pc EXCEPT ![r] = "flush"]
        /\ UNCHANGED <<services, req, inserting>>
        /\ services[req[r].key] # None /\ ~inserting[r]
        /\ \/ edit' = [edit EXCEPT ![r] = [c \in {"active"} |-> FALSE]]
           \/ edit' = [edit EXCEPT ![r] = NoEdit]
    BY <1>6, EditsAll DEF FindService, Goto, EditOK
  <2>2. pc'[r] = "flush" /\ edit'[r] \in {[c \in {"active"} |-> FALSE], NoEdit}
    BY <2>1 DEF ServicesTyped, ConnectionInv, ConnectionsTyped
  <2>3. EditOK(r)'
    BY <2>1, <2>2 DEF EditOK, NoEdit
  <2> QED
    BY <2>1, <2>3, EditsAll DEF ServiceStep, ConnectionInv, ConnectionsTyped
<1>7. ASSUME NEW r \in Request, Collide(r) \/ Fail(r) PROVE ServiceStep(r)
  <2>1. End(r) /\ UNCHANGED services
    BY <1>7 DEF Collide, Fail
  <2>2. /\ inserting' = [inserting EXCEPT ![r] = FALSE]
        /\ edit' = [edit EXCEPT ![r] = NoEdit]
        /\ pc' = [pc EXCEPT ![r] = "idle"]
        /\ req' = [req EXCEPT ![r] = None]
    BY <2>1 DEF End
  <2>3. EditOK(r)'
    BY <2>2 DEF EditOK, NoEdit, ServicesTyped, ConnectionInv, ConnectionsTyped
  <2> QED
    BY <2>1, <2>2, <2>3, EditsAll DEF ServiceStep, ConnectionInv, ConnectionsTyped
<1>8. ASSUME NEW r \in Request, Commit(r) PROVE ServiceStep(r)
  <2> DEFINE k == req[r].key
  <2>1. k \in Key
    BY <1>8, RequestKey DEF Commit, ConnectionInv, StagesOK
  <2>2. /\ edit[r] # NoEdit /\ services[k] = None => edit[r] \in Service
        /\ edit[r] # NoEdit /\ services[k] # None => Edited(services[k], edit[r]) \in Service
    BY <2>1, EditsAll DEF EditOK, Edited, Service
  <2>3. /\ services' \in [Key -> Service \cup {None}]
        /\ \A j \in Key : services[j] # None => services'[j] # None
    BY <1>8, <2>1, <2>2, NoneAssumption DEF Commit, ServicesTyped
  <2>4. End(r)
    BY <1>8 DEF Commit
  <2> QED
    BY <2>3, <2>4, EditsAll DEF End, ServiceStep, EditOK, NoEdit, ConnectionInv,
       ConnectionsTyped
<1> QED
  BY <1>1, <1>2, <1>3, <1>4, <1>5, <1>6, <1>7, <1>8, ServiceFrame DEF Next, Run

-----------------------------------------------------------------------------
(* The theorems. *)

LEMMA ConnectionStep == ASSUME ConnectionInv, [Next]_vars PROVE ConnectionInv'
<1>1. CASE UNCHANGED vars
  BY <1>1 DEF vars, requestVars, ConnectionInv, ConnectionsTyped, StagesOK, LockExclusive,
              DraftIsCurrent, LatestRecorded, Holding, Touching, SameConnection
<1> QED
  BY <1>1, StartStep, MoveStep, ConnectStep, LeaveStep, CommitStep DEF Next, Run

\* The inductive invariant holds: touch_connection decides on the row that it will
\* meet, and upsert_service writes whole rows or existing ones, for any services,
\* users, clients and overlapping requests.
THEOREM RegistryInvariant == Spec => []RegistryInv
<1>1. Init => RegistryInv
  BY InitInv DEF Init, RegistryInv, ServicesTyped, NoEdit
<1>2. RegistryInv /\ [Next]_vars => RegistryInv'
  BY ConnectionStep, ServicesStep DEF RegistryInv
<1> QED
  BY <1>1, <1>2, PTL DEF Spec

\* A connection shows the latest time that any committed touch has reported
\* (touch_connection).
THEOREM LatestShown == Spec => []LatestRecorded
<1>1. RegistryInv => LatestRecorded
  BY DEF RegistryInv, ConnectionInv
<1> QED
  BY <1>1, RegistryInvariant, PTL

\* No step takes back a connection, its first time or its last (touch_connection).
THEOREM TimesGrow == Spec => ConnectionTimes
<1>1. ASSUME ConnectionInv, UNCHANGED connections PROVE TimesKept
  <2>1. \A c \in Subject \X Key : connections[c] # None => connections[c].last \in Nat
    BY <1>1, TimeAssumption DEF ConnectionInv, ConnectionsTyped, Connection
  <2> QED
    BY <1>1, <2>1 DEF TimesKept
<1>2. ASSUME ConnectionInv, NEW r \in Request, Run(r) PROVE TimesKept
  <2>1. CASE UNCHANGED connections
    BY <1>1, <1>2, <2>1
  <2>2. CASE Commit(r) /\ req[r].kind = "touch"
    <3> DEFINE d == <<req[r].subject, req[r].key>>
    <3>1. \A c \in Subject \X Key : connections[c] # None => connections[c].last \in Nat
      BY <1>2, TimeAssumption DEF ConnectionInv, ConnectionsTyped, Connection
    <3>2. /\ \A c \in (Subject \X Key) \ {d} : connections'[c] = connections[c]
          /\ connections'[d] \in Connection
          /\ connections[d] # None => /\ connections'[d].first = connections[d].first
                                      /\ connections'[d].last >= connections[d].last
      BY <1>2, <2>2, TouchCommit
    <3>3. ASSUME NEW c \in Subject \X Key, connections[c] # None
          PROVE  /\ connections'[c] # None
                 /\ connections'[c].first = connections[c].first
                 /\ connections'[c].last >= connections[c].last
      <4>1. CASE c = d
        BY <3>2, <3>3, <4>1, NoneAssumption
      <4>2. CASE c # d
        <5>1. connections'[c] = connections[c]
          BY <3>2, <3>3, <4>2
        <5> QED
          BY <3>1, <3>3, <5>1
      <4> QED
        BY <4>1, <4>2
    <3> QED
      BY <3>3 DEF TimesKept
  <2>3. UNCHANGED connections \/ (Commit(r) /\ req[r].kind = "touch")
    BY <1>2 DEF Run, StartTouch, StartRegister, StartDeactivate, Start, AcquireLimiter,
                AcquireLock, FindActive, Connect, FlushConnection, Upsert, FindService,
                FlushService, Collide, Fail, Commit
  <2> QED
    BY <2>1, <2>2, <2>3
<1>3. ConnectionInv /\ [Next]_vars => [TimesKept]_vars
  BY <1>2 DEF Next
<1>4. RegistryInv => ConnectionInv
  BY DEF RegistryInv
<1> QED
  BY <1>3, <1>4, RegistryInvariant, PTL DEF Spec, ConnectionTimes
=============================================================================
