-------------------------- MODULE ServiceRegistry --------------------------
(***************************************************************************)
(* The service registry and its connections (src/app/services_registry/    *)
(* and the service commands of src/app/cli/main.py).  A service's backend  *)
(* touches the connection of a user; the operator registers and            *)
(* deactivates services.  Each is one database transaction.                *)
(***************************************************************************)
EXTENDS Naturals

CONSTANTS
    Key,            \* service keys
    Subject,        \* users
    Client,         \* the two client names of a service: key and key-backend
    Time,           \* times of authentication that backends report
    Domain,         \* domains of services
    DefaultDomain,  \* DEFAULT_SERVICES: the domain of each default service
    Request,        \* slots for transactions in progress
    None            \* a missing row, no value

Service == [domain : Domain, active : BOOLEAN]
Connection == [first : Time, last : Time]

\* What a request asks for.
Touch == [kind : {"touch"}, key : Key, subject : Subject, client : Client, time : Time]
Register == [kind : {"register"}, key : Key, values : Service]
Deactivate == [kind : {"deactivate"}, key : Key]

ASSUME TimeAssumption == Time \subseteq Nat
ASSUME DefaultsAssumption ==
    /\ DOMAIN DefaultDomain \subseteq Key
    /\ \A k \in DOMAIN DefaultDomain : DefaultDomain[k] \in Domain
ASSUME NoneAssumption ==
    None \notin Connection \cup Time \cup Service \cup Touch \cup Register \cup Deactivate

VARIABLES
    services,     \* service_registry: the committed rows
    connections,  \* user_service_connections: the committed rows
    pc,           \* the next step of each request
    req,          \* what each request has been asked to do
    inserting,    \* whether its service row is a new one
    edit,         \* the columns of the service row that the ORM will write
    draft,        \* the connection row that it will write, or None
    latest        \* history: the latest time of a committed touch, or None

requestVars == <<pc, req, inserting, edit, draft>>
vars == <<services, connections, requestVars, latest>>

Stage == {"idle", "limiter", "lock", "service", "find", "upsert", "flush",
          "connect", "insert", "commit"}

NoEdit == [c \in {} |-> None]

Goto(r, stage) == pc' = [pc EXCEPT ![r] = stage]

Touching(r) == pc[r] # "idle" /\ req[r].kind = "touch"

\* A touch past its advisory lock, which the end of the transaction releases.
Holding(r) == Touching(r) /\ pc[r] \notin {"limiter", "lock"}

SameConnection(q, r) == req[q].subject = req[r].subject /\ req[q].key = req[r].key

Init ==
    /\ services = [k \in Key |-> None]
    /\ connections = [c \in Subject \X Key |-> None]
    /\ pc = [r \in Request |-> "idle"]
    /\ req = [r \in Request |-> None]
    /\ inserting = [r \in Request |-> FALSE]
    /\ edit = [r \in Request |-> NoEdit]
    /\ draft = [r \in Request |-> None]
    /\ latest = [c \in Subject \X Key |-> None]

-----------------------------------------------------------------------------
(* Arrivals. *)

Start(r, what, stage) ==
    /\ pc[r] = "idle"
    /\ req' = [req EXCEPT ![r] = what]
    /\ Goto(r, stage)
    /\ UNCHANGED <<services, connections, inserting, edit, draft, latest>>

StartTouch(r) == \E what \in Touch : Start(r, what, "limiter")
StartRegister(r) == \E what \in Register : Start(r, what, "upsert")
StartDeactivate(r) == \E what \in Deactivate : Start(r, what, "find")

-----------------------------------------------------------------------------
(* touch_connection. *)

\* rate_limiter.enforce: an advisory lock on the client, to the end of the transaction.
AcquireLimiter(r) ==
    /\ pc[r] = "limiter"
    /\ \A q \in Request : Touching(q) /\ pc[q] # "limiter" =>
          <<req[q].key, req[q].client>> # <<req[r].key, req[r].client>>
    /\ Goto(r, "lock")
    /\ UNCHANGED <<services, connections, req, inserting, edit, draft, latest>>

\* Mutant: no advisory lock on the connection.
AcquireNothing(r) ==
    /\ pc[r] = "lock"
    /\ Goto(r, "service")
    /\ UNCHANGED <<services, connections, req, inserting, edit, draft, latest>>

AcquireLock(r) ==
    /\ pc[r] = "lock"
    /\ \A q \in Request : Holding(q) => ~SameConnection(q, r)
    /\ Goto(r, "service")
    /\ UNCHANGED <<services, connections, req, inserting, edit, draft, latest>>

\* The SELECT of an active service, else ensure_default_service, else a refusal.
FindActive(r) ==
    LET k == req[r].key IN
    /\ pc[r] = "service"
    /\ services[k] # None => services[k].active \/ k \in DOMAIN DefaultDomain
    /\ services[k] = None => k \in DOMAIN DefaultDomain
    /\ Goto(r, IF services[k] # None /\ services[k].active THEN "connect" ELSE "upsert")
    /\ UNCHANGED <<services, connections, req, inserting, edit, draft, latest>>

\* Mutant: the connection is overwritten with whatever time the touch reports.
Overwritten(row, t) ==
    IF row = None THEN [first |-> t, last |-> t] ELSE [row EXCEPT !.last = t]

\* The row a touch leaves, or None where it leaves the row as it is.
Touched(row, t) ==
    IF row = None THEN [first |-> t, last |-> t]
    ELSE IF t > row.last THEN [row EXCEPT !.last = t] ELSE None

\* The SELECT of the connection and the assignments.
Connect(r) ==
    /\ pc[r] = "connect"
    /\ draft' = [draft EXCEPT ![r] =
                    Touched(connections[<<req[r].subject, req[r].key>>], req[r].time)]
    /\ Goto(r, "insert")
    /\ UNCHANGED <<services, connections, req, inserting, edit, latest>>

\* The flush: an INSERT or UPDATE waits for another uncommitted write of the row.
FlushConnection(r) ==
    /\ pc[r] = "insert"
    /\ draft[r] # None => \A q \in Request \ {r} :
          pc[q] = "commit" /\ draft[q] # None => ~SameConnection(q, r)
    /\ Goto(r, "commit")
    /\ UNCHANGED <<services, connections, req, inserting, edit, draft, latest>>

-----------------------------------------------------------------------------
(* upsert_service, for the operator's register and for ensure_default_service. *)

\* The values that upsert_service assigns.
Wanted(r) == IF req[r].kind = "register" THEN req[r].values
             ELSE [domain |-> DefaultDomain[req[r].key], active |-> TRUE]

\* Mutant: the domain is left to a later statement.
ActiveOnly(row, values) == [c \in {"active"} |-> values[c]]

\* The ORM writes the columns whose value is not the one it has loaded.
Changes(row, values) ==
    [c \in {x \in {"domain", "active"} : row = None \/ row[x] # values[x]} |-> values[c]]

Upsert(r) ==
    LET row == services[req[r].key] IN
    /\ pc[r] = "upsert"
    /\ inserting' = [inserting EXCEPT ![r] = row = None]
    /\ edit' = [edit EXCEPT ![r] = Changes(row, Wanted(r))]
    /\ Goto(r, "flush")
    /\ UNCHANGED <<services, connections, req, draft, latest>>

\* deactivate_service: only a row that exists; an inactive one is not written.
FindService(r) ==
    LET row == services[req[r].key] IN
    /\ pc[r] = "find"
    /\ row # None
    /\ edit' = [edit EXCEPT ![r] = IF row.active THEN [c \in {"active"} |-> FALSE] ELSE NoEdit]
    /\ Goto(r, "flush")
    /\ UNCHANGED <<services, connections, req, inserting, draft, latest>>

\* Requests that have written a service row and not ended.
Wrote(q) == pc[q] \in {"connect", "insert", "commit"} /\ edit[q] # NoEdit

SetsDomain(r) == "domain" \in DOMAIN edit[r]

\* The flush waits for the writers of its row and of its domain's index entry.
Undisputed(r) ==
    \A q \in Request \ {r} : Wrote(q) =>
        /\ req[q].key # req[r].key
        /\ SetsDomain(r) /\ SetsDomain(q) =>
              /\ edit[q].domain # edit[r].domain
              /\ ~inserting[q] => services[req[q].key].domain # edit[r].domain

\* The unique keys of service_registry.
Duplicate(r) ==
    \/ inserting[r] /\ services[req[r].key] # None
    \/ SetsDomain(r) /\ \E k \in Key \ {req[r].key} :
          services[k] # None /\ services[k].domain = edit[r].domain

FlushService(r) ==
    /\ pc[r] = "flush"
    /\ edit[r] # NoEdit => Undisputed(r) /\ ~Duplicate(r)
    /\ Goto(r, IF req[r].kind = "touch" THEN "connect" ELSE "commit")
    /\ UNCHANGED <<services, connections, req, inserting, edit, draft, latest>>

-----------------------------------------------------------------------------
(* The end of a transaction: get_db, or _with_database for the commands. *)

End(r) ==
    /\ pc' = [pc EXCEPT ![r] = "idle"]
    /\ req' = [req EXCEPT ![r] = None]
    /\ inserting' = [inserting EXCEPT ![r] = FALSE]
    /\ edit' = [edit EXCEPT ![r] = NoEdit]
    /\ draft' = [draft EXCEPT ![r] = None]

\* IntegrityError: the touch is answered 500, the command ends with an error.
Collide(r) ==
    /\ pc[r] = "flush"
    /\ edit[r] # NoEdit /\ Undisputed(r) /\ Duplicate(r)
    /\ End(r)
    /\ UNCHANGED <<services, connections, latest>>

\* LookupError and "service not found", any exception, a lost connection.
Fail(r) ==
    /\ pc[r] # "idle"
    /\ End(r)
    /\ UNCHANGED <<services, connections, latest>>

Later(t, u) == IF t = None \/ u > t THEN u ELSE t

Edited(row, columns) ==
    [c \in {"domain", "active"} |-> IF c \in DOMAIN columns THEN columns[c] ELSE row[c]]

Commit(r) ==
    LET k == req[r].key IN
    /\ pc[r] = "commit"
    /\ services' = [services EXCEPT ![k] = IF edit[r] = NoEdit THEN @
                                           ELSE IF @ = None THEN edit[r] ELSE Edited(@, edit[r])]
    /\ IF req[r].kind = "touch"
       THEN LET c == <<req[r].subject, k>> IN
            /\ connections' = [connections EXCEPT ![c] = IF draft[r] = None THEN @ ELSE draft[r]]
            /\ latest' = [latest EXCEPT ![c] = Later(@, req[r].time)]
       ELSE UNCHANGED <<connections, latest>>
    /\ End(r)

-----------------------------------------------------------------------------

Run(r) == \/ StartTouch(r) \/ StartRegister(r) \/ StartDeactivate(r)
          \/ AcquireLimiter(r) \/ AcquireLock(r) \/ FindActive(r)
          \/ Connect(r) \/ FlushConnection(r)
          \/ Upsert(r) \/ FindService(r) \/ FlushService(r)
          \/ Collide(r) \/ Fail(r) \/ Commit(r)

Next == \E r \in Request : Run(r)

Spec == Init /\ [][Next]_vars

-----------------------------------------------------------------------------
(* Properties. *)

ConnectionsTyped ==
    /\ connections \in [Subject \X Key -> Connection \cup {None}]
    /\ pc \in [Request -> Stage]
    /\ req \in [Request -> Touch \cup Register \cup Deactivate \cup {None}]
    /\ draft \in [Request -> Connection \cup {None}]
    /\ latest \in [Subject \X Key -> Time \cup {None}]

\* A new service row has every column; other writes have a row to change, which is
\* never deleted.
ServicesTyped ==
    /\ services \in [Key -> Service \cup {None}]
    /\ inserting \in [Request -> BOOLEAN]
    /\ DOMAIN edit = Request
    /\ \A r \in Request :
          /\ DOMAIN edit[r] \subseteq {"domain", "active"}
          /\ "domain" \in DOMAIN edit[r] => edit[r].domain \in Domain
          /\ "active" \in DOMAIN edit[r] => edit[r].active \in BOOLEAN
          /\ inserting[r] => edit[r] \in Service
          /\ edit[r] # NoEdit /\ ~inserting[r] => services[req[r].key] # None
          /\ pc[r] = "upsert" => \/ req[r].kind = "register"
                                 \/ req[r].kind = "touch" /\ req[r].key \in DOMAIN DefaultDomain
          /\ pc[r] \in {"idle", "find"} => edit[r] = NoEdit /\ ~inserting[r]

TypeOK == ConnectionsTyped /\ ServicesTyped

\* touch_connection: whatever order overlapping touches of two clients and retries
\* commit in, the connection shows the latest time any of them reported.
LatestRecorded ==
    \A c \in Subject \X Key :
        IF connections[c] = None THEN latest[c] = None ELSE connections[c].last = latest[c]

TimesKept ==
    \A c \in Subject \X Key : connections[c] # None =>
        /\ connections'[c] # None
        /\ connections'[c].first = connections[c].first
        /\ connections'[c].last >= connections[c].last

\* No touch takes back the day a user first connected or the time of the last use
\* (touch_connection).
ConnectionTimes == [][TimesKept]_vars

-----------------------------------------------------------------------------
(* The inductive invariant behind LatestRecorded and ConnectionTimes. *)

TouchStage == {"limiter", "lock", "service", "connect", "insert"}

StagesOK ==
    \A r \in Request :
        /\ pc[r] # "idle" => req[r] # None
        /\ pc[r] \in TouchStage => req[r].kind = "touch"
        /\ pc[r] = "find" => req[r].kind = "deactivate"

\* One touch of a connection at a time is past the advisory lock.
LockExclusive ==
    \A q, r \in Request :
        q # r /\ Holding(q) /\ Holding(r) => ~SameConnection(q, r)

\* What a touch is about to write follows from the row that is committed now.
DraftIsCurrent ==
    \A r \in Request :
        IF Touching(r) /\ pc[r] \in {"insert", "commit"}
        THEN draft[r] = Touched(connections[<<req[r].subject, req[r].key>>], req[r].time)
        ELSE draft[r] = None

\* The inductive invariant of the connections.
ConnectionInv ==
    ConnectionsTyped /\ StagesOK /\ LockExclusive /\ DraftIsCurrent /\ LatestRecorded

\* Touches, with their advisory lock and late commit, and the operator's commands:
\* one touch of a connection at a time decides on the row that it will meet, and no
\* write of a service row lacks the columns, or the row, that it needs.
RegistryInv == ConnectionInv /\ ServicesTyped
=============================================================================
