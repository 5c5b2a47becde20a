------------------------ MODULE CentralAccountProofs ------------------------
(***************************************************************************)
(* Proofs about CentralAccount: for any number of requests, sessions and   *)
(* authenticators, and any set of routes, what the portal records of the   *)
(* calls to Keycloak is true, overlapping changes of the address mail      *)
(* nobody else's, and a disabled account stays disabled for those who read *)
(* it later.                                                               *)
(***************************************************************************)
EXTENDS CentralAccount, TLAPS

-----------------------------------------------------------------------------
(* The routes and their calls. *)

ArgSet == User \cup Otp \cup {Client, None}

LEMMA NamesApart ==
    /\ None \notin User /\ None \notin Call /\ None \notin Routes /\ None \notin Status
    /\ None # "ok" /\ None # "error" /\ None # "held"
    /\ \A r \in Request : r # Before
BY NameAssumption

LEMMA ToIsCall ==
    ASSUME NEW n \in Names
    PROVE  To(n) \in Call /\ To(n).name = n /\ To(n).arg = None
BY DEF To, Call

\* A route's first call needs none before it.
LEMMA FirstCallRight ==
    ASSUME NEW o \in Routes
    PROVE  /\ FirstCall(o) \in Names \ {"putUser"}
           /\ FirstCall(o) \in Calls(o)
           /\ Preceding(o, FirstCall(o)) = {}
           /\ o = "email" => FirstCall(o) = "getUser"
           /\ FirstCall(o) # Removal(o)
<1>1. FirstCall(o) \in Names \ {"putUser"} /\ (o = "email" => FirstCall(o) = "getUser")
  BY DEF FirstCall, Routes, Names
<1>2. FirstCall(o) \in Calls(o)
  BY DEF FirstCall, Routes, Calls, Needed
<1>3. Preceding(o, FirstCall(o)) = {}
  BY DEF FirstCall, Routes, Preceding
<1>4. FirstCall(o) # Removal(o)
  BY DEF FirstCall, Routes, Removal
<1> QED
  BY <1>1, <1>2, <1>3, <1>4

\* The route of a call, and the call that comes after it.
LEMMA CallsOfRoutes ==
    ASSUME NEW o \in Routes, NEW n \in Calls(o)
    PROVE  /\ n \in Names
           /\ n \in {"getUser", "putUser"} => o = "email"
           /\ o = "email" => n \in {"getUser", "putUser", "verify"}
           /\ o = "everywhere" => n = "logout"
           /\ n = "logout" => o = "everywhere"
           /\ o = "no_totp" => n \in {"getCredentials", "deleteOtp"}
           /\ o = "consent" => n \in {"getConsents", "deleteConsent"}
           /\ n \in {"getCredentials", "deleteOtp"} => o = "no_totp"
           /\ n \in {"getConsents", "deleteConsent"} => o = "consent"
<1> USE DEF Routes, Calls, Needed, Names
<1>1. CASE o \in {"password", "totp", "verification"}
  BY <1>1
<1>2. CASE o = "email"
  BY <1>2
<1>3. CASE o \in {"no_totp", "consent"}
  BY <1>3
<1>4. CASE o \in {"everywhere", "export"}
  BY <1>4
<1> QED
  BY <1>1, <1>2, <1>3, <1>4

LEMMA PrecedingCalls ==
    /\ Preceding("email", "getUser") = {}
    /\ Preceding("email", "putUser") = {"getUser"}
    /\ Preceding("email", "verify") = {"getUser", "putUser"}
    /\ Preceding("no_totp", "deleteOtp") = {"getCredentials"}
    /\ Preceding("consent", "deleteConsent") = {"getConsents"}
BY DEF Preceding

\* A route that has made its last call has made them all.
LEMMA LastCall ==
    ASSUME NEW o \in Routes,
           NEW n \in Calls(o) \ {"getUser", "putUser", "getCredentials", "getConsents"}
    PROVE  Needed(o) \subseteq Preceding(o, n) \cup {n}
<1> USE DEF Routes, Calls, Needed, Preceding
<1>1. CASE o \in {"password", "totp", "verification"}
  BY <1>1
<1>2. CASE o = "email"
  BY <1>2
<1>3. CASE o \in {"no_totp", "consent"}
  BY <1>3
<1>4. CASE o \in {"everywhere", "export"}
  BY <1>4
<1> QED
  BY <1>1, <1>2, <1>3, <1>4

LEMMA NothingNeeded == Needed("export") = {}
BY DEF Needed
-----------------------------------------------------------------------------
(* What a step of one request leaves of another. *)

ReqOK(r) == StageOK(r) /\ CallOK(r) /\ MailOK(r) /\ RemovalOK(r)

Same(q) ==
    /\ pc'[q] = pc[q] /\ op'[q] = op[q] /\ rows'[q] = rows[q] /\ call'[q] = call[q]
    /\ body'[q] = body[q] /\ found'[q] = found[q] /\ reply'[q] = reply[q]
    /\ status'[q] = status[q]

\* Whether the account must have the address of request q.
Addressed(q) ==
    op[q] = "email" /\ pc[q] = "await"
    /\ (call[q].name = "verify" \/ (call[q].name = "putUser" /\ Replied(q)))

\* What r may send as the account: only if it is an old one does it enable the account.
MayPut(r, u) ==
    /\ PutOK(r, u) /\ <<r, "getUser">> \in effects
    /\ ~user.enabled /\ u.enabled => r \in early

USE DEF MayPut

\* A request stays right while nothing is taken from what Keycloak has done, no
\* session comes back, and nobody else gives up a call or writes its audit row.
LEMMA OtherKept ==
    ASSUME NEW q \in Request, ReqOK(q), Same(q),
           effects \subseteq effects', live' \subseteq live, mails \subseteq mails',
           otp' \subseteq otp, consent' \subseteq consent,
           lost \subseteq lost', q \in lost' => q \in lost,
           \A s \in Status : <<q, s>> \in audit' => <<q, s>> \in audit,
           lost' = {} /\ Addressed(q) => user'.email = user.email
    PROVE  ReqOK(q)'
<1>1. StageOK(q)'
  BY DEF ReqOK, StageOK, Same, Ended
<1>2. CallOK(q)'
  BY DEF ReqOK, CallOK, Same, Replied
<1>3. MailOK(q)'
  <2> SUFFICES ASSUME op'[q] = "email" PROVE MailOK(q)'
    BY DEF MailOK
  <2>1. q \in lost' => status'[q] # "requested" /\ <<q, "requested">> \notin audit'
    BY DEF ReqOK, MailOK, Same, Status
  <2>2. lost' = {} /\ pc'[q] = "await"
           /\ (call'[q].name = "verify" \/ (call'[q].name = "putUser" /\ Replied(q)'))
           => user'.email = q
    BY DEF ReqOK, MailOK, Same, Replied, Addressed
  <2>3. lost' = {} /\ (\/ pc'[q] = "await" /\ call'[q].name = "verify" /\ Replied(q)'
                       \/ status'[q] = "requested"
                       \/ <<q, "requested">> \in audit')
           => <<q, q>> \in mails'
    BY DEF ReqOK, MailOK, Same, Replied, Status
  <2> QED
    BY <2>1, <2>2, <2>3 DEF MailOK
<1>4. RemovalOK(q)'
  BY DEF ReqOK, RemovalOK, Same, Replied, Left, Status
<1> QED
  BY <1>1, <1>2, <1>3, <1>4 DEF ReqOK

-----------------------------------------------------------------------------
(* A step of request r in the portal. *)

\* What a step of r owes the invariant, beside its types.
LEMMA PortalStep ==
    ASSUME CentralInv, NEW r \in Request, TypeOK', ReqOK(r)',
           \A q \in Request \ {r} : Same(q),
           UNCHANGED <<central, effects, early>>,
           live' \subseteq live, lost \subseteq lost', lost' \subseteq lost \cup {r},
           \A q \in Request \ {r}, s \in Status : <<q, s>> \in audit' => <<q, s>> \in audit,
           Locked(r)' => \A q \in Request \ {r} : Locked(q) => op[q] # op'[r],
           \A q \in Request \ {r} : rows'[r] \cap rows[q] \cap live' = {},
           Ended(r) => Ended(r)',
           \A c \in late' \ late :
              /\ c.by = r /\ r \in lost' /\ Ended(r)'
              /\ c.name = "putUser" => MayPut(r, c.arg),
           ~user.enabled =>
              /\ body'[r] # None /\ body'[r].enabled => r \in early
              /\ call'[r] # None /\ call'[r].name = "putUser" /\ call'[r].arg.enabled =>
                    r \in early
    PROVE  CentralInv'
<1> USE DEF central
<1>1. ASSUME NEW q \in Request PROVE ReqOK(q)'
  <2>1. CASE q = r
    BY <2>1
  <2>2. CASE q # r
    BY <2>2, OtherKept DEF CentralInv, ReqOK, TypeOK
  <2> QED
    BY <2>1, <2>2
<1>2. LockAlone'
  BY DEF CentralInv, LockAlone, Locked, Same
<1>3. RowsApart'
  BY DEF CentralInv, RowsApart, Same
<1>4. LateOK'
  <2> SUFFICES ASSUME NEW c \in late'
               PROVE  /\ c.by \in lost' /\ Ended(c.by)'
                      /\ c.name = "putUser" =>
                            PutOK(c.by, c.arg)' /\ <<c.by, "getUser">> \in effects'
    BY DEF LateOK
  <2>1. CASE c \in late
    <3>1. /\ c.by \in Request /\ c.by \in lost /\ Ended(c.by)
          /\ c.name = "putUser" => PutOK(c.by, c.arg) /\ <<c.by, "getUser">> \in effects
      BY <2>1 DEF CentralInv, TypeOK, LateOK
    <3>2. Ended(c.by)'
      BY <3>1 DEF Ended, Same
    <3> QED
      BY <3>1, <3>2 DEF PutOK
  <2>2. CASE c \notin late
    BY <2>2 DEF PutOK
  <2> QED
    BY <2>1, <2>2
<1>5. EnabledOK'
  <2> SUFFICES ASSUME ~user.enabled PROVE EnabledOK'
    BY DEF EnabledOK
  <2>1. ASSUME NEW q \in Request
        PROVE  /\ body'[q] # None /\ body'[q].enabled => q \in early
               /\ call'[q] # None /\ call'[q].name = "putUser" /\ call'[q].arg.enabled =>
                     q \in early
    BY DEF CentralInv, EnabledOK, Same
  <2>2. ASSUME NEW c \in late', c.name = "putUser", c.arg.enabled PROVE c.by \in early
    BY <2>2 DEF CentralInv, EnabledOK
  <2> QED
    BY <2>1, <2>2 DEF EnabledOK
<1>6. (\A q \in Request : <<q, "logout">> \in effects => ~signedIn)'
  BY DEF CentralInv
<1> QED
  BY <1>1, <1>2, <1>3, <1>4, <1>5, <1>6 DEF CentralInv, ReqOK

LEMMA StartStep == ASSUME CentralInv, NEW r \in Request, Start(r) PROVE CentralInv'
<1> USE NamesApart
<1>1. PICK o \in Operations, s \in live, touched \in SUBSET Session :
        /\ pc[r] = "waiting"
        /\ touched \subseteq {s}
        /\ \A q \in Request : touched \cap rows[q] = {}
        /\ op' = [op EXCEPT ![r] = o]
        /\ rows' = [rows EXCEPT ![r] = touched]
        /\ Goto(r, "lock")
        /\ UNCHANGED <<central, notice, live, call, body, found, reply, status, late, lost,
                       effects, early, audit>>
  BY DEF Start
<1>2. TypeOK'
  BY <1>1, RouteAssumption DEF CentralInv, TypeOK, Goto, central, Stage, NullOr
<1>3. /\ pc'[r] = "lock" /\ op'[r] \in Routes /\ rows'[r] = touched
      /\ call'[r] = None /\ reply'[r] = None /\ body'[r] = None /\ found'[r] = {}
      /\ status'[r] = None /\ r \notin lost /\ \A t \in Status : <<r, t>> \notin audit
  BY <1>1, RouteAssumption DEF CentralInv, TypeOK, StageOK, Goto, Ended
<1>4. ReqOK(r)'
  BY <1>1, <1>3 DEF ReqOK, StageOK, CallOK, MailOK, RemovalOK, Status, central
<1>5. \A q \in Request \ {r} : Same(q)
  BY <1>1 DEF CentralInv, TypeOK, Same, Goto
<1>6. ~Locked(r)' /\ ~Ended(r)
  BY <1>1, <1>3 DEF Locked, Ended
<1> QED
  BY <1>1, <1>2, <1>3, <1>4, <1>5, <1>6, PortalStep DEF central
LEMMA EnterStep == ASSUME CentralInv, NEW r \in Request, Enter(r) PROVE CentralInv'
<1> DEFINE n == FirstCall(op[r])
<1>1. /\ pc[r] = "lock" /\ Goto(r, "await")
      /\ \A q \in Request : Locked(q) => op[q] # op[r]
      /\ call' = [call EXCEPT ![r] = To(n)]
      /\ UNCHANGED <<central, notice, live, op, rows, body, found, reply, status, late, lost,
                     effects, early, audit>>
  BY DEF Enter
<1>2. /\ op[r] \in Routes /\ call[r] = None /\ reply[r] = None /\ body[r] = None
      /\ found[r] = {} /\ status[r] = None /\ r \notin lost
      /\ \A t \in Status : <<r, t>> \notin audit
  BY <1>1 DEF CentralInv, StageOK, Ended
<1>3. /\ To(n) \in Call /\ To(n).name = n /\ n # "putUser" /\ n \in Calls(op[r])
      /\ Preceding(op[r], n) = {} /\ (op[r] = "email" => n = "getUser") /\ n # Removal(op[r])
  BY <1>2, FirstCallRight, ToIsCall
<1> HIDE DEF n
<1>4. TypeOK'
  BY <1>1, <1>3 DEF CentralInv, TypeOK, Goto, central, Stage, NullOr
<1>5. pc'[r] = "await" /\ call'[r] = To(n)
  BY <1>1 DEF CentralInv, TypeOK, Goto
<1>6. StageOK(r)'
  BY <1>1, <1>2, <1>5, NamesApart DEF StageOK, Status
<1>7. CallOK(r)'
  BY <1>1, <1>2, <1>3, <1>5, NamesApart DEF CallOK, Replied
<1>8. MailOK(r)'
  BY <1>1, <1>2, <1>3, <1>5, NamesApart DEF MailOK, Status
<1>9. RemovalOK(r)'
  BY <1>1, <1>2, <1>3, <1>5, NamesApart DEF RemovalOK, Removal, Replied, Status
<1>10. \A q \in Request \ {r} : Same(q)
  BY <1>1 DEF CentralInv, TypeOK, Same, Goto
<1>11. \A q \in Request \ {r} : rows'[r] \cap rows[q] \cap live' = {}
  BY <1>1 DEF CentralInv, RowsApart
<1> QED
  BY <1>1, <1>2, <1>3, <1>4, <1>5, <1>6, <1>7, <1>8, <1>9, <1>10, <1>11, PortalStep
  DEF central, Ended, ReqOK

LEMMA RejectStep == ASSUME CentralInv, NEW r \in Request, Reject(r) PROVE CentralInv'
<1>1. /\ pc[r] = "await" /\ reply' = [reply EXCEPT ![r] = "error"]
      /\ UNCHANGED <<central, notice, live, pc, op, rows, call, body, found, status, late, lost,
                     effects, early, audit>>
  BY DEF Reject
<1>2. TypeOK'
  BY <1>1 DEF CentralInv, TypeOK, central
<1>3. reply'[r] = "error"
  BY <1>1 DEF CentralInv, TypeOK
<1>4. StageOK(r)'
  BY <1>1 DEF CentralInv, StageOK, Ended
<1>5. CallOK(r)'
  BY <1>1, <1>3 DEF CentralInv, CallOK, Replied
<1>6. MailOK(r)'
  BY <1>1, <1>3 DEF CentralInv, MailOK, Replied, central
<1>7. \A q \in Request \ {r} : Same(q)
  BY <1>1 DEF CentralInv, TypeOK, Same
<1>8. Locked(r)' => \A q \in Request \ {r} : Locked(q) => op[q] # op'[r]
  BY <1>1 DEF CentralInv, LockAlone, Locked
<1>9. \A q \in Request \ {r} : rows'[r] \cap rows[q] \cap live' = {}
  BY <1>1 DEF CentralInv, RowsApart
<1>10. ~user.enabled =>
          /\ body'[r] # None /\ body'[r].enabled => r \in early
          /\ call'[r] # None /\ call'[r].name = "putUser" /\ call'[r].arg.enabled => r \in early
  BY <1>1 DEF CentralInv, EnabledOK
<1>11. RemovalOK(r)'
  BY <1>1, <1>3 DEF CentralInv, RemovalOK, Replied, Left, central
<1> QED
  BY <1>1, <1>2, <1>4, <1>5, <1>6, <1>7, <1>8, <1>9, <1>10, <1>11, PortalStep
  DEF Ended, ReqOK

LEMMA BulkStep == ASSUME CentralInv, NEW r \in Request, Bulk(r) PROVE CentralInv'
<1>1. /\ pc[r] = "bulk" /\ \A q \in Request \ {r} : rows[q] \cap live = {}
      /\ rows' = [rows EXCEPT ![r] = live] /\ Goto(r, "commit")
      /\ UNCHANGED <<central, notice, live, op, call, body, found, reply, status, late, lost,
                     effects, early, audit>>
  BY DEF Bulk
<1>2. TypeOK'
  BY <1>1 DEF CentralInv, TypeOK, Goto, central, Stage
<1>3. pc'[r] = "commit" /\ rows'[r] = live
  BY <1>1 DEF CentralInv, TypeOK, Goto
<1>4. StageOK(r)'
  BY <1>1, <1>3 DEF CentralInv, StageOK, Ended
<1>5. CallOK(r)'
  BY <1>3 DEF CallOK
<1>6. MailOK(r)'
  BY <1>1, <1>3 DEF CentralInv, MailOK, central
<1>7. \A q \in Request \ {r} : Same(q)
  BY <1>1 DEF CentralInv, TypeOK, Same, Goto
<1>8. Locked(r)' => \A q \in Request \ {r} : Locked(q) => op[q] # op'[r]
  BY <1>1 DEF CentralInv, LockAlone, Locked
<1>9. body'[r] = None /\ call'[r] = None /\ Ended(r)'
  BY <1>1, <1>3 DEF CentralInv, StageOK, Ended
<1>10. RemovalOK(r)'
  BY <1>1, <1>3 DEF CentralInv, RemovalOK, Left, central
<1> QED
  BY <1>1, <1>2, <1>3, <1>4, <1>5, <1>6, <1>7, <1>8, <1>9, <1>10, PortalStep
  DEF ReqOK

-----------------------------------------------------------------------------
(* How a request ends its calls. *)

LEMMA ConcludeStep ==
    ASSUME CentralInv, NEW r \in Request, NEW s \in Status, pc[r] = "await", Conclude(r, s),
           UNCHANGED <<central, notice, live, op, rows, effects, early, audit>>,
           lost \subseteq lost', lost' \subseteq lost \cup {r},
           late' \subseteq [by : Request, name : Names, arg : ArgSet],
           \A c \in late' \ late :
              /\ c.by = r /\ r \in lost'
              /\ c.name = "putUser" => MayPut(r, c.arg),
           s = "requested" => {r} \X Needed(op[r]) \subseteq effects,
           op[r] \in {"no_totp", "consent"} /\ s = "requested" => Left(op[r]) = {},
           op[r] = "email" /\ s = "requested" => /\ r \notin lost'
                                                 /\ lost' = {} => <<r, r>> \in mails
    PROVE  CentralInv'
<1> DEFINE stage == IF op[r] = "everywhere" THEN "bulk" ELSE "commit"
<1>1. /\ status' = [status EXCEPT ![r] = s] /\ pc' = [pc EXCEPT ![r] = stage]
      /\ call' = [call EXCEPT ![r] = None] /\ reply' = [reply EXCEPT ![r] = None]
      /\ body' = [body EXCEPT ![r] = None] /\ found' = [found EXCEPT ![r] = {}]
  BY DEF Conclude, Goto, Forget
<1>2. /\ stage \in {"bulk", "commit"}
      /\ stage = "bulk" => op[r] = "everywhere"
      /\ stage = "commit" => op[r] # "everywhere"
  OBVIOUS
<1> HIDE DEF stage
<1>3. TypeOK'
  BY <1>1, <1>2 DEF CentralInv, TypeOK, central, Stage, NullOr, ArgSet
<1>4. /\ pc'[r] = stage /\ status'[r] = s /\ call'[r] = None /\ reply'[r] = None
      /\ body'[r] = None /\ found'[r] = {} /\ op[r] \in Routes
      /\ \A t \in Status : <<r, t>> \notin audit
  BY <1>1 DEF CentralInv, TypeOK, StageOK
<1>5. StageOK(r)'
  BY <1>2, <1>4, NamesApart DEF StageOK, Ended
<1>6. CallOK(r)'
  BY <1>2, <1>4 DEF CallOK
<1>7. MailOK(r)'
  BY <1>2, <1>4 DEF MailOK, central, Status
<1>8. \A q \in Request \ {r} : Same(q)
  BY <1>1 DEF CentralInv, TypeOK, Same
<1>9. Locked(r)' => \A q \in Request \ {r} : Locked(q) => op[q] # op'[r]
  BY DEF CentralInv, LockAlone, Locked
<1>10. \A q \in Request \ {r} : rows'[r] \cap rows[q] \cap live' = {}
  BY DEF CentralInv, RowsApart
<1>11. Ended(r)'
  BY <1>2, <1>4 DEF Ended
<1>12. RemovalOK(r)'
  BY <1>2, <1>4 DEF RemovalOK, Left, central, Status
<1> QED
  BY <1>3, <1>4, <1>5, <1>6, <1>7, <1>8, <1>9, <1>10, <1>11, <1>12, PortalStep DEF ReqOK

\* What a request says when Keycloak has failed it claims nothing.
LEMMA GiveUpStatus ==
    ASSUME CentralInv, NEW r \in Request, pc[r] = "await", GiveUp(r)
    PROVE  \E s \in Status : /\ Conclude(r, s)
                             /\ s = "requested" => {r} \X Needed(op[r]) \subseteq effects
                             /\ op[r] \in {"email", "no_totp", "consent"} => s # "requested"
<1> DEFINE s == CASE op[r] = "export"  -> "requested"
                  [] op[r] = "consent" -> "unsupported"
                  [] OTHER             -> "unavailable"
<1>1. Conclude(r, s)
  BY DEF GiveUp
<1>2. s \in Status /\ (s = "requested" => op[r] = "export")
  BY DEF Status
<1> HIDE DEF s
<1>3. s = "requested" => {r} \X Needed(op[r]) \subseteq effects
  BY <1>2, NothingNeeded
<1> QED
  BY <1>1, <1>2, <1>3

LEMMA FailsStep == ASSUME CentralInv, NEW r \in Request, Fails(r) PROVE CentralInv'
<1>1. /\ pc[r] = "await" /\ GiveUp(r)
      /\ UNCHANGED <<central, notice, live, op, rows, late, lost, effects, early, audit>>
  BY DEF Fails
<1>2. PICK s \in Status : /\ Conclude(r, s)
                          /\ s = "requested" => {r} \X Needed(op[r]) \subseteq effects
                          /\ op[r] \in {"email", "no_totp", "consent"} => s # "requested"
  BY <1>1, GiveUpStatus
<1>3. late \subseteq [by : Request, name : Names, arg : ArgSet]
  BY DEF CentralInv, TypeOK, ArgSet
<1> QED
  BY <1>1, <1>2, <1>3, ConcludeStep

\* A request that sends a PUT has read the account.
LEMMA CallRead ==
    ASSUME CentralInv, NEW r \in Request, pc[r] = "await", call[r].name = "putUser"
    PROVE  <<r, "getUser">> \in effects
<1>1. op[r] = "email" /\ {r} \X Preceding(op[r], "putUser") \subseteq effects
  BY CallsOfRoutes DEF CentralInv, StageOK, CallOK
<1> QED
  BY <1>1, PrecedingCalls

\* A call that is given up is one that the request was right to make.
LEMMA DroppedCall ==
    ASSUME CentralInv, NEW r \in Request, pc[r] = "await", Dropped(r)
    PROVE  /\ lost' = lost \cup {r}
           /\ late' \subseteq [by : Request, name : Names, arg : ArgSet]
           /\ \A c \in late' \ late :
                 /\ c.by = r
                 /\ c.name = "putUser" => MayPut(r, c.arg)
<1> DEFINE c == [by |-> r, name |-> call[r].name, arg |-> call[r].arg]
<1>1. /\ call[r] \in Call
      /\ call[r].name = "putUser" => PutOK(r, call[r].arg) /\ <<r, "getUser">> \in effects
  BY CallRead DEF CentralInv, CallOK
<1>2. ~user.enabled /\ call[r].name = "putUser" /\ call[r].arg.enabled => r \in early
  BY <1>1, NamesApart DEF CentralInv, EnabledOK
<1>3. c \in [by : Request, name : Names, arg : ArgSet]
  BY <1>1 DEF Call, ArgSet
<1>4. late' = late \/ late' = late \cup {c}
  BY DEF Dropped
<1>5. lost' = lost \cup {r}
  BY DEF Dropped
<1>6. late \subseteq [by : Request, name : Names, arg : ArgSet]
  BY DEF CentralInv, TypeOK, ArgSet
<1>7. c.by = r /\ c.name = call[r].name /\ c.arg = call[r].arg
  OBVIOUS
<1> HIDE DEF c
<1> QED
  BY <1>1, <1>2, <1>3, <1>4, <1>5, <1>6, <1>7

LEMMA TimeOutStep == ASSUME CentralInv, NEW r \in Request, TimeOut(r) PROVE CentralInv'
<1>1. /\ pc[r] = "await" /\ Dropped(r) /\ GiveUp(r)
      /\ UNCHANGED <<central, notice, live, op, rows, effects, early, audit>>
  BY DEF TimeOut
<1>2. PICK s \in Status : /\ Conclude(r, s)
                          /\ s = "requested" => {r} \X Needed(op[r]) \subseteq effects
                          /\ op[r] \in {"email", "no_totp", "consent"} => s # "requested"
  BY <1>1, GiveUpStatus
<1> QED
  BY <1>1, <1>2, DroppedCall, ConcludeStep

-----------------------------------------------------------------------------
(* The next call of a route. *)

\* A request goes on with a call whose predecessors Keycloak has carried out.
LEMMA ContinueStep ==
    ASSUME CentralInv, NEW r \in Request, NEW c \in Call, pc[r] = "await", Continue(r, c),
           UNCHANGED <<central, notice, live, op, rows, late, lost, effects, early, audit>>,
           c.name \in Calls(op[r]),
           {r} \X Preceding(op[r], c.name) \subseteq effects,
           c.name = "putUser" => MayPut(r, c.arg),
           op[r] = "email" /\ c.name = "verify" /\ lost = {} => user.email = r,
           c.name = Removal(op[r]) => Left(op[r]) \subseteq found[r]
    PROVE  CentralInv'
<1>1. /\ call' = [call EXCEPT ![r] = c] /\ reply' = [reply EXCEPT ![r] = None]
      /\ body' = [body EXCEPT ![r] = None] /\ found' = [found EXCEPT ![r] = found[r] \ {c.arg}]
      /\ UNCHANGED <<pc, status>>
  BY DEF Continue
<1>2. TypeOK'
  BY <1>1 DEF CentralInv, TypeOK, central, NullOr
<1>3. /\ call'[r] = c /\ reply'[r] = None /\ body'[r] = None /\ found'[r] = found[r] \ {c.arg}
      /\ op[r] \in Routes /\ \A t \in Status : <<r, t>> \notin audit
      /\ status[r] = None /\ r \notin lost
  BY <1>1 DEF CentralInv, TypeOK, StageOK, Ended
<1>4. StageOK(r)'
  BY <1>1, <1>3, NamesApart DEF StageOK, Ended, Status
<1>5. CallOK(r)'
  BY <1>1, <1>3, NamesApart DEF CentralInv, CallOK, Replied, PutOK
<1>6. MailOK(r)'
  BY <1>1, <1>3, NamesApart DEF MailOK, Replied, central, Status
<1>7. \A q \in Request \ {r} : Same(q)
  BY <1>1 DEF CentralInv, TypeOK, Same
<1>8. Locked(r)' => \A q \in Request \ {r} : Locked(q) => op[q] # op'[r]
  BY <1>1 DEF CentralInv, LockAlone, Locked
<1>9. \A q \in Request \ {r} : rows'[r] \cap rows[q] \cap live' = {}
  BY DEF CentralInv, RowsApart
<1>10. Ended(r) => Ended(r)'
  BY <1>1 DEF Ended
<1>11. RemovalOK(r)'
  BY <1>1, <1>3, NamesApart DEF RemovalOK, Replied, Left, central, Status
<1> QED
  BY <1>2, <1>3, <1>4, <1>5, <1>6, <1>7, <1>8, <1>9, <1>10, <1>11, PortalStep DEF ReqOK

LEMMA ReceiveStep == ASSUME CentralInv, NEW r \in Request, Receive(r) PROVE CentralInv'
<1> DEFINE name == call[r].name
<1>1. /\ pc[r] = "await" /\ Replied(r)
      /\ UNCHANGED <<central, notice, live, op, rows, late, lost, effects, early, audit>>
  BY DEF Receive, Replied
<1>2. /\ op[r] \in Routes /\ call[r] \in Call /\ name \in Calls(op[r]) /\ name \in Names
      /\ {r} \X Preceding(op[r], name) \subseteq effects /\ <<r, name>> \in effects
      /\ name = "getUser" => body[r] \in User
      /\ found[r] # {} => op[r] \in {"no_totp", "consent"}
      /\ found[r] \subseteq Otp \cup {Client}
      /\ r \notin lost
      /\ op[r] \in {"no_totp", "consent"} => Left(op[r]) \subseteq found[r]
  BY <1>1 DEF CentralInv, TypeOK, StageOK, CallOK, RemovalOK, Ended, Call, NullOr
<1>3. CASE name = "getUser" /\ Continue(r, [name |-> "putUser", arg |-> Put(r)])
  <2> DEFINE c == [name |-> "putUser", arg |-> Put(r)]
  <2>1. op[r] = "email"
    BY <1>2, <1>3, CallsOfRoutes
  <2>2. PutOK(r, Put(r)) /\ Put(r).enabled = body[r].enabled
    BY <1>2, <1>3 DEF PutOK, Put, User, Email
  <2>3. c \in Call /\ c.name = "putUser" /\ c.arg = Put(r)
    BY <2>2 DEF Call, Names, PutOK
  <2>4. "putUser" \in Calls("email") /\ {r} \X Preceding("email", "putUser") \subseteq effects
    BY <1>2, <1>3, PrecedingCalls DEF Calls, Needed
  <2>5. ~user.enabled /\ body[r].enabled => r \in early
    BY <1>2, <1>3, NamesApart DEF CentralInv, EnabledOK
  <2>6. "putUser" # Removal(op[r])
    BY DEF Removal
  <2> HIDE DEF c
  <2> QED
    BY <1>1, <1>2, <1>3, <2>1, <2>2, <2>3, <2>4, <2>5, <2>6, ContinueStep DEF c
<1>4. CASE name = "putUser" /\ Continue(r, To("verify"))
  <2>1. op[r] = "email"
    BY <1>2, <1>4, CallsOfRoutes
  <2>2. To("verify") \in Call /\ To("verify").name = "verify"
    BY ToIsCall DEF Names
  <2>3. "verify" \in Calls("email") /\ {r} \X Preceding("email", "verify") \subseteq effects
    BY <1>2, <1>4, <2>1, PrecedingCalls DEF Calls, Needed
  <2>4. lost = {} => user.email = r
    BY <1>1, <1>4, <2>1 DEF CentralInv, MailOK
  <2>5. "verify" # Removal(op[r])
    BY DEF Removal
  <2> QED
    BY <1>1, <1>4, <2>1, <2>2, <2>3, <2>4, <2>5, ContinueStep
<1>5. CASE \E i \in found[r] : Continue(r, [name |-> Removal(op[r]), arg |-> i])
  <2>1. PICK i \in found[r] : Continue(r, [name |-> Removal(op[r]), arg |-> i])
    BY <1>5
  <2> DEFINE c == [name |-> Removal(op[r]), arg |-> i]
  <2>2. \/ /\ op[r] = "no_totp" /\ Removal(op[r]) = "deleteOtp"
           /\ name \in {"getCredentials", "deleteOtp"}
        \/ /\ op[r] = "consent" /\ Removal(op[r]) = "deleteConsent"
           /\ name \in {"getConsents", "deleteConsent"}
    BY <1>2, <2>1, CallsOfRoutes DEF Removal
  <2>3. Removal(op[r]) \in Calls(op[r])
    BY <2>2 DEF Calls, Needed
  <2>4. {r} \X Preceding(op[r], Removal(op[r])) \subseteq effects
    BY <1>2, <2>2, PrecedingCalls
  <2>5. c \in Call /\ c.name = Removal(op[r])
    BY <1>2, <2>1, <2>2 DEF Call, Names
  <2> HIDE DEF c
  <2> QED
    BY <1>1, <1>2, <2>1, <2>2, <2>3, <2>4, <2>5, ContinueStep DEF c
<1>6. CASE Conclude(r, "unsupported")
  BY <1>1, <1>6, ConcludeStep DEF CentralInv, TypeOK, ArgSet, Status
<1>7. CASE /\ name \notin {"getUser", "putUser", "getCredentials", "getConsents"}
           /\ found[r] = {} /\ Conclude(r, "requested")
  <2>1. {r} \X Needed(op[r]) \subseteq effects
    BY <1>2, <1>7, LastCall
  <2>2. op[r] = "email" => name = "verify"
    BY <1>2, <1>7, CallsOfRoutes
  <2>3. op[r] = "email" /\ lost = {} => <<r, r>> \in mails
    BY <1>1, <2>2 DEF CentralInv, MailOK
  <2> QED
    BY <1>1, <1>2, <1>7, <2>1, <2>3, ConcludeStep DEF CentralInv, TypeOK, ArgSet, Status, central
<1> QED
  BY <1>3, <1>4, <1>5, <1>6, <1>7 DEF Receive

-----------------------------------------------------------------------------
(* The end of a request. *)

LEMMA EndStep ==
    ASSUME CentralInv, NEW r \in Request, pc[r] # "waiting", End(r),
           live' \subseteq live,
           audit' \subseteq audit \cup {<<r, s>> : s \in Status},
           lost \subseteq lost', lost' \subseteq lost \cup {r},
           late' \subseteq [by : Request, name : Names, arg : ArgSet],
           \A c \in late' \ late :
              /\ c.by = r /\ r \in lost'
              /\ c.name = "putUser" => MayPut(r, c.arg),
           op[r] = "email" /\ <<r, "requested">> \in audit' =>
              r \notin lost' /\ (lost' = {} => <<r, r>> \in mails),
           op[r] \in {"no_totp", "consent"} /\ <<r, "requested">> \in audit' =>
              Left(op[r]) = {}
    PROVE  CentralInv'
<1>1. /\ status' = [status EXCEPT ![r] = None] /\ pc' = [pc EXCEPT ![r] = "done"]
      /\ rows' = [rows EXCEPT ![r] = {}]
      /\ call' = [call EXCEPT ![r] = None] /\ reply' = [reply EXCEPT ![r] = None]
      /\ body' = [body EXCEPT ![r] = None] /\ found' = [found EXCEPT ![r] = {}]
      /\ UNCHANGED <<central, notice, op, effects, early>>
  BY DEF End, Goto, Forget
<1>2. TypeOK'
  <2>1. live' \subseteq Session /\ audit' \subseteq Request \X Status /\ lost' \subseteq Request
    BY DEF CentralInv, TypeOK
  <2> QED
    BY <1>1, <2>1 DEF CentralInv, TypeOK, central, Stage, NullOr, ArgSet
<1>3. /\ pc'[r] = "done" /\ status'[r] = None /\ rows'[r] = {} /\ call'[r] = None
      /\ reply'[r] = None /\ body'[r] = None /\ found'[r] = {} /\ op[r] \in Routes
  BY <1>1 DEF CentralInv, TypeOK, StageOK
<1>4. StageOK(r)'
  BY <1>1, <1>3, NamesApart DEF StageOK, Ended, Status
<1>5. CallOK(r)'
  BY <1>3 DEF CallOK
<1>6. MailOK(r)'
  BY <1>1, <1>3, NamesApart DEF MailOK, central, Status
<1>7. \A q \in Request \ {r} : Same(q)
  BY <1>1 DEF CentralInv, TypeOK, Same
<1>8. ~Locked(r)' /\ Ended(r)'
  BY <1>3 DEF Locked, Ended
<1>9. RemovalOK(r)'
  BY <1>1, <1>3, NamesApart DEF RemovalOK, Left, central, Status
<1> QED
  BY <1>1, <1>2, <1>3, <1>4, <1>5, <1>6, <1>7, <1>8, <1>9, PortalStep DEF ReqOK

LEMMA CommitStep == ASSUME CentralInv, NEW r \in Request, Commit(r) PROVE CentralInv'
<1>1. /\ pc[r] = "commit" /\ End(r) /\ UNCHANGED <<late, lost>>
      /\ audit' = audit \cup {<<r, status[r]>>}
      /\ live' = IF op[r] = "everywhere" THEN live \ rows[r] ELSE live
  BY DEF Commit
<1>2. status[r] \in Status /\ \A s \in Status : <<r, s>> \notin audit
  BY <1>1 DEF CentralInv, TypeOK, StageOK, NullOr
<1>3. op[r] = "email" /\ <<r, "requested">> \in audit' =>
         r \notin lost /\ (lost = {} => <<r, r>> \in mails)
  BY <1>1, <1>2 DEF CentralInv, MailOK, Status
<1>4. op[r] \in {"no_totp", "consent"} /\ <<r, "requested">> \in audit' => Left(op[r]) = {}
  BY <1>1, <1>2 DEF CentralInv, RemovalOK, Status
<1> QED
  BY <1>1, <1>2, <1>3, <1>4, EndStep DEF CentralInv, TypeOK, ArgSet

\* A request that ends with nothing recorded.
LEMMA SilentEnd ==
    ASSUME CentralInv, NEW r \in Request, pc[r] # "waiting", pc[r] # "done", End(r),
           UNCHANGED <<live, audit>>,
           UNCHANGED <<late, lost>> \/ (pc[r] = "await" /\ Dropped(r))
    PROVE  CentralInv'
<1>1. \A s \in Status : <<r, s>> \notin audit
  BY DEF CentralInv, StageOK
<1>2. CASE UNCHANGED <<late, lost>>
  BY <1>1, <1>2, EndStep DEF CentralInv, TypeOK, ArgSet, Status
<1>3. CASE pc[r] = "await" /\ Dropped(r)
  BY <1>1, <1>3, DroppedCall, EndStep DEF Status
<1> QED
  BY <1>2, <1>3

LEMMA FailStep ==
    ASSUME CentralInv, NEW r \in Request,
           Unavailable(r) \/ GiveUpLogout(r) \/ AbortVictim(r) \/ Fail(r)
    PROVE  CentralInv'
<1>1. CASE Unavailable(r)
  BY <1>1, SilentEnd DEF Unavailable
<1>2. CASE GiveUpLogout(r)
  BY <1>2, SilentEnd DEF GiveUpLogout
<1>3. CASE AbortVictim(r)
  BY <1>3, SilentEnd DEF AbortVictim
<1>4. CASE Fail(r)
  BY <1>4, SilentEnd DEF Fail
<1> QED
  BY <1>1, <1>2, <1>3, <1>4

LEMMA RunStep ==
    ASSUME CentralInv, NEW r \in Request, Start(r) \/ Run(r) \/ Fail(r)
    PROVE  CentralInv'
BY StartStep, EnterStep, ReceiveStep, FailsStep, TimeOutStep, BulkStep, CommitStep, FailStep
DEF Run

-----------------------------------------------------------------------------
(* The steps of Keycloak. *)

\* What a call changes.
LEMMA EffectFacts ==
    ASSUME TypeOK, NEW r \in Request, NEW c, c.name \in Names,
           c.name = "putUser" => PutOK(r, c.arg), Effect(r, c)
    PROVE  /\ user' \in User /\ otp' \subseteq Otp /\ consent' \subseteq {Client}
           /\ mails' \subseteq Request \X Email /\ notice' \in {"none", "sent", "done", "failed"}
           /\ signedIn' \in BOOLEAN /\ (signedIn' => signedIn)
           /\ mails \subseteq mails' /\ otp' \subseteq otp /\ consent' \subseteq consent
           /\ c.name = "putUser" => user' = c.arg
           /\ c.name # "putUser" => user' = user
           /\ c.name = "verify" => <<r, user.email>> \in mails'
           /\ c.name = "logout" => ~signedIn'
           /\ c.name = "deleteOtp" => c.arg \notin otp'
           /\ c.name = "deleteConsent" => c.arg \notin consent'
<1> USE DEF TypeOK, Effect, central
<1>1. CASE c.name = "putUser"
  BY <1>1 DEF PutOK
<1>2. CASE c.name = "verify"
  BY <1>2 DEF User
<1>3. CASE c.name \in {"deleteOtp", "deleteConsent"}
  BY <1>3
<1>4. CASE c.name = "logout"
  BY <1>4
<1>5. CASE c.name \in {"actions", "getUser", "getCredentials", "getConsents", "getSessions"}
  BY <1>5
<1> QED
  BY <1>1, <1>2, <1>3, <1>4, <1>5 DEF Names

\* When the account is disabled, whoever may hold a copy of it has read it.
LEMMA EarlyFacts ==
    ASSUME CentralInv, MarkEarly
    PROVE  /\ early' \subseteq Request
           /\ ~user.enabled => early' = early
           /\ user.enabled /\ ~user'.enabled =>
                 /\ \A r \in Request : body[r] # None => r \in early'
                 /\ \A r \in Request : call[r] # None /\ call[r].name = "putUser" => r \in early'
                 /\ \A c \in late : c.name = "putUser" => c.by \in early'
<1>1. early' \subseteq Request /\ (~user.enabled => early' = early)
  BY DEF MarkEarly, CentralInv, TypeOK
<1>2. ASSUME user.enabled, ~user'.enabled
      PROVE  /\ \A r \in Request : body[r] # None => r \in early'
             /\ \A r \in Request : call[r] # None /\ call[r].name = "putUser" => r \in early'
             /\ \A c \in late : c.name = "putUser" => c.by \in early'
  <2>1. early' = {r \in Request : <<r, "getUser">> \in effects}
    BY <1>2 DEF MarkEarly
  <2>2. \A r \in Request : body[r] # None \/ call[r] # None => pc[r] = "await"
    BY DEF CentralInv, StageOK
  <2>3. \A r \in Request : body[r] # None => <<r, "getUser">> \in effects
    BY <2>2 DEF CentralInv, CallOK
  <2>4. \A c \in late : c.name = "putUser" => c.by \in Request /\ <<c.by, "getUser">> \in effects
    BY DEF CentralInv, LateOK, TypeOK
  <2> QED
    BY <2>1, <2>2, <2>3, <2>4, CallRead
<1> QED
  BY <1>1, <1>2

\* A step that changes no request, and no address that a request relies on.
LEMMA OutsideStep ==
    ASSUME CentralInv, UNCHANGED <<flow, lost, audit>>, TypeOK',
           live' \subseteq live, late' \subseteq late,
           effects \subseteq effects', mails \subseteq mails', signedIn' => signedIn,
           otp' \subseteq otp, consent' \subseteq consent,
           \A r \in Request : <<r, "logout">> \in effects' \ effects => ~signedIn',
           lost = {} => user'.email = user.email,
           ~user'.enabled /\ ~user.enabled => early' = early,
           ~user'.enabled /\ user.enabled =>
              /\ \A r \in Request : body[r] # None => r \in early'
              /\ \A r \in Request : call[r] # None /\ call[r].name = "putUser" => r \in early'
              /\ \A c \in late : c.name = "putUser" => c.by \in early'
    PROVE  CentralInv'
<1> USE DEF flow
<1>1. ASSUME NEW q \in Request PROVE ReqOK(q)'
  BY OtherKept DEF CentralInv, ReqOK, Same
<1>2. LockAlone' /\ RowsApart'
  BY DEF CentralInv, LockAlone, Locked, RowsApart
<1>3. LateOK'
  BY DEF CentralInv, LateOK, Ended, PutOK
<1>4. EnabledOK'
  <2> SUFFICES ASSUME ~user'.enabled PROVE EnabledOK'
    BY DEF EnabledOK
  <2>1. CASE user.enabled
    BY <2>1 DEF EnabledOK
  <2>2. CASE ~user.enabled
    BY <2>2 DEF CentralInv, EnabledOK
  <2> QED
    BY <2>1, <2>2
<1>5. (\A q \in Request : <<q, "logout">> \in effects => ~signedIn)'
  BY DEF CentralInv
<1> QED
  BY <1>1, <1>2, <1>3, <1>4, <1>5 DEF CentralInv, ReqOK

LEMMA ProcessLateStep == ASSUME CentralInv, ProcessLate PROVE CentralInv'
<1>1. PICK c \in late :
        /\ late' = late \ {c}
        /\ IF Refused(c) THEN UNCHANGED <<central, notice, effects>>
           ELSE /\ Effect(c.by, c)
                /\ effects' = effects \cup {<<c.by, c.name>>}
        /\ MarkEarly
        /\ UNCHANGED <<live, flow, lost, audit>>
  BY DEF ProcessLate
<1>2. /\ c.by \in Request /\ c.name \in Names /\ lost # {}
      /\ c.name = "putUser" => PutOK(c.by, c.arg)
  BY <1>1 DEF CentralInv, TypeOK, LateOK
<1>3. /\ early' \subseteq Request
      /\ ~user.enabled => early' = early
      /\ user.enabled /\ ~user'.enabled =>
            /\ \A r \in Request : body[r] # None => r \in early'
            /\ \A r \in Request : call[r] # None /\ call[r].name = "putUser" => r \in early'
            /\ \A d \in late : d.name = "putUser" => d.by \in early'
  BY <1>1, EarlyFacts
<1>4. CASE Refused(c)
  <2>1. TypeOK'
    BY <1>1, <1>3, <1>4 DEF CentralInv, TypeOK, central, flow
  <2> QED
    BY <1>1, <1>3, <1>4, <2>1, OutsideStep DEF central
<1>5. CASE ~Refused(c)
  <2>1. /\ user' \in User /\ otp' \subseteq Otp /\ consent' \subseteq {Client}
        /\ mails' \subseteq Request \X Email
        /\ notice' \in {"none", "sent", "done", "failed"}
        /\ signedIn' \in BOOLEAN /\ (signedIn' => signedIn)
        /\ mails \subseteq mails' /\ otp' \subseteq otp /\ consent' \subseteq consent
        /\ c.name = "logout" => ~signedIn'
    BY <1>1, <1>2, <1>5, EffectFacts DEF CentralInv
  <2>2. TypeOK'
    BY <1>1, <1>2, <1>3, <1>5, <2>1 DEF CentralInv, TypeOK, flow
  <2> QED
    BY <1>1, <1>2, <1>3, <1>5, <2>1, <2>2, OutsideStep
<1> QED
  BY <1>4, <1>5

LEMMA AccountStep == ASSUME CentralInv, Disable \/ FollowLink PROVE CentralInv'
<1>1. CASE Disable
  <2>1. /\ user.enabled /\ user' = [user EXCEPT !.enabled = FALSE] /\ MarkEarly
        /\ UNCHANGED <<otp, consent, signedIn, mails, notice, live, flow, late, lost, effects,
                       audit>>
    BY <1>1 DEF Disable
  <2>2. user' \in User /\ user'.email = user.email
    BY <2>1 DEF CentralInv, TypeOK, User
  <2>3. TypeOK'
    BY <2>1, <2>2, EarlyFacts DEF CentralInv, TypeOK, flow
  <2> QED
    BY <2>1, <2>2, <2>3, EarlyFacts, OutsideStep
<1>2. CASE FollowLink
  <2>1. /\ user' = [user EXCEPT !.verified = TRUE]
        /\ UNCHANGED <<otp, consent, signedIn, mails, notice, live, flow, late, lost, effects,
                       early, audit>>
    BY <1>2 DEF FollowLink
  <2>2. user' \in User /\ user'.email = user.email /\ user'.enabled = user.enabled
    BY <2>1 DEF CentralInv, TypeOK, User
  <2>3. TypeOK'
    BY <2>1, <2>2 DEF CentralInv, TypeOK, flow
  <2> QED
    BY <2>1, <2>2, <2>3, OutsideStep
<1> QED
  BY <1>1, <1>2

LEMMA QuietStep ==
    ASSUME CentralInv, RevokeNotified \/ RejectNotice \/ UNCHANGED vars
    PROVE  CentralInv'
<1>1. /\ UNCHANGED <<central, flow, late, lost, effects, early, audit>>
      /\ live' \subseteq live /\ notice' \in {"none", "sent", "done", "failed"}
  BY DEF RevokeNotified, RejectNotice, vars, CentralInv, TypeOK
<1>2. TypeOK'
  BY <1>1 DEF CentralInv, TypeOK, central, flow
<1> QED
  BY <1>1, <1>2, OutsideStep DEF central

\* Keycloak carries out the call of request r: of the requests for e-mail changes only r
\* is between the limiter's lock and its end, and its own address is the one it sets.
LEMMA ProcessStep == ASSUME CentralInv, NEW r \in Request, Process(r) PROVE CentralInv'
<1> DEFINE c == call[r]
           answer == IF c.name = "logout" /\ signedIn THEN "held" ELSE "ok"
<1>1. /\ pc[r] = "await" /\ reply[r] = None /\ ~Refused(c)
      /\ Effect(r, c) /\ MarkEarly
      /\ effects' = effects \cup {<<r, c.name>>}
      /\ body' = IF c.name = "getUser" THEN [body EXCEPT ![r] = user] ELSE body
      /\ found' = IF c.name \in {"getCredentials", "getConsents"}
                  THEN [found EXCEPT ![r] = Listed(c)] ELSE found
      /\ reply' = [reply EXCEPT ![r] = answer]
      /\ UNCHANGED <<live, pc, op, rows, call, status, late, lost, audit>>
  BY DEF Process
<1>2. /\ op[r] \in Routes /\ c \in Call /\ c.name \in Calls(op[r]) /\ c.name \in Names
      /\ c.name = "putUser" => PutOK(r, c.arg)
      /\ {r} \X Preceding(op[r], c.name) \subseteq effects
      /\ found[r] # {} => op[r] \in {"no_totp", "consent"}
      /\ r \notin lost /\ status[r] = None /\ \A s \in Status : <<r, s>> \notin audit
  BY <1>1 DEF CentralInv, StageOK, CallOK, Call, Ended
<1>3. answer \in {"ok", "held"}
  OBVIOUS
<1> HIDE DEF answer
<1>4. /\ user' \in User /\ otp' \subseteq Otp /\ consent' \subseteq {Client}
      /\ mails' \subseteq Request \X Email /\ notice' \in {"none", "sent", "done", "failed"}
      /\ signedIn' \in BOOLEAN /\ (signedIn' => signedIn)
      /\ mails \subseteq mails' /\ otp' \subseteq otp /\ consent' \subseteq consent
      /\ c.name = "putUser" => user' = c.arg
      /\ c.name # "putUser" => user' = user
      /\ c.name = "verify" => <<r, user.email>> \in mails'
      /\ c.name = "logout" => ~signedIn'
      /\ c.name = "deleteOtp" => c.arg \notin otp'
      /\ c.name = "deleteConsent" => c.arg \notin consent'
      /\ c.name \in {"getCredentials", "getConsents"} => otp' = otp /\ consent' = consent
  BY <1>1, <1>2, EffectFacts DEF CentralInv, Effect, central
<1>5. /\ early' \subseteq Request
      /\ ~user.enabled => early' = early
      /\ user.enabled /\ ~user'.enabled =>
            /\ \A q \in Request : body[q] # None => q \in early'
            /\ \A q \in Request : call[q] # None /\ call[q].name = "putUser" => q \in early'
            /\ \A d \in late : d.name = "putUser" => d.by \in early'
  BY <1>1, EarlyFacts
<1>6. /\ found' \in [Request -> SUBSET (Otp \cup {Client})]
      /\ found'[r] # found[r] => op[r] \in {"no_totp", "consent"}
      /\ \A q \in Request \ {r} : found'[q] = found[q]
  <2>1. CASE c.name \in {"getCredentials", "getConsents"}
    <3>1. Listed(c) \subseteq Otp \cup {Client}
      BY <2>1 DEF Listed, CentralInv, TypeOK
    <3>2. op[r] \in {"no_totp", "consent"}
      BY <1>2, <2>1, CallsOfRoutes
    <3> QED
      BY <1>1, <2>1, <3>1, <3>2 DEF CentralInv, TypeOK
  <2>2. CASE c.name \notin {"getCredentials", "getConsents"}
    BY <1>1, <2>2 DEF CentralInv, TypeOK
  <2> QED
    BY <2>1, <2>2
<1>7. /\ body' \in [Request -> NullOr(User)]
      /\ c.name = "getUser" => body'[r] = user
      /\ c.name # "getUser" => body' = body
      /\ \A q \in Request \ {r} : body'[q] = body[q]
  BY <1>1 DEF CentralInv, TypeOK, NullOr
<1>8. reply' \in [Request -> {None, "ok", "error", "held"}] /\ reply'[r] = answer
      /\ \A q \in Request \ {r} : reply'[q] = reply[q]
  BY <1>1, <1>3 DEF CentralInv, TypeOK
<1>9. TypeOK'
  BY <1>1, <1>2, <1>4, <1>5, <1>6, <1>7, <1>8 DEF CentralInv, TypeOK
<1>10. StageOK(r)'
  BY <1>1, <1>2, NamesApart DEF StageOK, Ended, Status
<1>11. CallOK(r)'
  <2>1. user # None
    BY NamesApart DEF CentralInv, TypeOK
  <2>2. body'[r] # None => <<r, "getUser">> \in effects'
    BY <1>1, <1>7 DEF CentralInv, CallOK
  <2> QED
    BY <1>1, <1>2, <1>6, <1>7, <2>1, <2>2 DEF CallOK, Replied, PutOK
<1>12. MailOK(r)'
  <2> SUFFICES ASSUME op[r] = "email", lost = {} PROVE
        /\ c.name = "verify" \/ c.name = "putUser" => user'.email = r
        /\ c.name = "verify" => <<r, r>> \in mails'
    BY <1>1, <1>2, NamesApart DEF MailOK, Status
  <2>1. c.name = "verify" => user.email = r
    BY <1>1 DEF CentralInv, MailOK
  <2> QED
    BY <1>2, <1>4, <2>1 DEF PutOK
<1>13. ASSUME NEW q \in Request, q # r PROVE ReqOK(q)'
  <2>1. Same(q)
    BY <1>1, <1>6, <1>7, <1>8, <1>13 DEF Same
  <2>2. Addressed(q) => user'.email = user.email
    <3>1. CASE c.name = "putUser"
      <4>1. op[r] = "email"
        BY <1>2, <3>1, CallsOfRoutes
      <4> QED
        BY <1>1, <1>13, <4>1 DEF Addressed, CentralInv, LockAlone, Locked
    <3>2. CASE c.name # "putUser"
      BY <1>4, <3>2
    <3> QED
      BY <3>1, <3>2
  <2> QED
    BY <1>1, <1>4, <2>1, <2>2, OtherKept DEF CentralInv, ReqOK
<1>14. LockAlone' /\ RowsApart'
  BY <1>1 DEF CentralInv, LockAlone, Locked, RowsApart
<1>15. LateOK'
  BY <1>1 DEF CentralInv, LateOK, Ended, PutOK
<1>16. EnabledOK'
  <2> SUFFICES ASSUME ~user'.enabled PROVE EnabledOK'
    BY DEF EnabledOK
  <2>1. \A q \in Request : body'[q] # None /\ body'[q].enabled => body'[q] = body[q]
    BY <1>2, <1>4, <1>7
  <2>2. CASE user.enabled
    BY <1>1, <1>5, <2>1, <2>2 DEF EnabledOK
  <2>3. CASE ~user.enabled
    BY <1>1, <1>5, <2>1, <2>3 DEF CentralInv, EnabledOK
  <2> QED
    BY <2>2, <2>3
<1>17. (\A q \in Request : <<q, "logout">> \in effects => ~signedIn)'
  BY <1>1, <1>4 DEF CentralInv
<1>18. RemovalOK(r)'
  <2> SUFFICES ASSUME op[r] \in {"no_totp", "consent"}
               PROVE  Left(op[r])' \subseteq found'[r]
    BY <1>1, <1>2, <1>3, <1>8, NamesApart DEF RemovalOK, Replied, Status
  <2>1. CASE c.name \in {"getCredentials", "getConsents"}
    <3>1. found'[r] = Listed(c)
      BY <1>1, <2>1 DEF CentralInv, TypeOK
    <3>2. Listed(c) = Left(op[r])
      BY <1>2, <2>1, CallsOfRoutes DEF Listed, Left
    <3> QED
      BY <1>1, <1>4, <2>1, <3>1, <3>2 DEF Left
  <2>2. CASE c.name \in {"deleteOtp", "deleteConsent"}
    <3>1. c.name = Removal(op[r]) /\ found' = found
      BY <1>1, <1>2, <2>2, CallsOfRoutes DEF Removal
    <3>2. Left(op[r]) \subseteq found[r] \cup {c.arg}
      BY <1>1, <3>1, NamesApart DEF CentralInv, RemovalOK, Replied
    <3>3. c.arg \notin Left(op[r])' /\ Left(op[r])' \subseteq Left(op[r])
      BY <1>1, <1>2, <1>4, <2>2, CallsOfRoutes DEF Left
    <3> QED
      BY <3>1, <3>2, <3>3
  <2> QED
    BY <1>2, <2>1, <2>2, CallsOfRoutes
<1> QED
  BY <1>9, <1>10, <1>11, <1>12, <1>13, <1>14, <1>15, <1>16, <1>17, <1>18 DEF CentralInv, ReqOK

-----------------------------------------------------------------------------
(* The invariant. *)

LEMMA InvInit == Init => CentralInv
<1> SUFFICES ASSUME Init PROVE CentralInv
  OBVIOUS
<1> USE NamesApart DEF Init
<1>1. TypeOK
  BY DEF TypeOK, User, Email, Stage, NullOr
<1>2. LockAlone /\ RowsApart /\ LateOK /\ EnabledOK
  BY DEF LockAlone, Locked, RowsApart, LateOK, EnabledOK
<1>3. ASSUME NEW r \in Request PROVE StageOK(r) /\ CallOK(r) /\ MailOK(r) /\ RemovalOK(r)
  BY DEF StageOK, CallOK, MailOK, RemovalOK, Status
<1> QED
  BY <1>1, <1>2, <1>3 DEF CentralInv

LEMMA InvStep == ASSUME CentralInv, [Next]_vars PROVE CentralInv'
BY RunStep, ProcessStep, RejectStep, ProcessLateStep, AccountStep, QuietStep
DEF Next, Keycloak, Rest

\* The portal and Keycloak owe each other, at every step, what CentralInv says: for any
\* number of overlapping requests of any routes, whatever Keycloak refuses, delays or
\* carries out too late.
THEOREM CentralInvariant == Spec => []CentralInv
<1>1. CentralInv /\ [Next]_vars => CentralInv'
  BY InvStep
<1> QED
  BY InvInit, <1>1, PTL DEF Spec

-----------------------------------------------------------------------------
(* What follows from it. *)

\* A user whose e-mail change was accepted gets the verification mail at that address,
\* as long as no other request has given up a call.
THEOREM MailsMatch == Spec => []MailMatches
<1>1. CentralInv => MailMatches
  <2> SUFFICES ASSUME CentralInv, NEW r \in Request, <<r, "requested">> \in audit,
                      op[r] = "email", lost \subseteq {r}
               PROVE  <<r, r>> \in mails
    BY DEF MailMatches
  <2>1. MailOK(r)
    BY DEF CentralInv
  <2>2. lost = {}
    BY <2>1 DEF MailOK
  <2> QED
    BY <2>1, <2>2 DEF MailOK
<1> QED
  BY CentralInvariant, <1>1, PTL

\* What a step of the portal leaves of the account and of the other requests.
LEMMA PortalMoves ==
    ASSUME CentralInv, NEW r \in Request, Start(r) \/ Run(r) \/ Fail(r) \/ Reject(r)
    PROVE  /\ UNCHANGED <<central, effects, early>> /\ live' \subseteq live
           /\ \A q \in Request : pc[q] # "waiting" => op'[q] = op[q]
           /\ audit' = audit \/ Commit(r)
<1>1. UNCHANGED <<central, effects, early>>
  BY DEF Start, Run, Enter, Receive, Fails, TimeOut, Bulk, Commit, Unavailable, GiveUpLogout,
     AbortVictim, Fail, End, Reject
<1>2. live' \subseteq live
  BY DEF Start, Run, Enter, Receive, Fails, TimeOut, Bulk, Commit, Unavailable, GiveUpLogout,
     AbortVictim, Fail, Reject
<1>3. \A q \in Request : pc[q] # "waiting" => op'[q] = op[q]
  <2>1. CASE Start(r)
    BY <2>1 DEF Start, CentralInv, TypeOK
  <2>2. CASE Run(r) \/ Fail(r) \/ Reject(r)
    BY <2>2 DEF Run, Enter, Receive, Fails, TimeOut, Bulk, Commit, Unavailable, GiveUpLogout,
       AbortVictim, Fail, End, Reject
  <2> QED
    BY <2>1, <2>2
<1>4. audit' = audit \/ Commit(r)
  BY DEF Start, Run, Enter, Receive, Fails, TimeOut, Bulk, Unavailable, GiveUpLogout,
     AbortVictim, Fail, Reject
<1> QED
  BY <1>1, <1>2, <1>3, <1>4

\* What Keycloak changes of the account by a call of request r: a PUT sets it to what r
\* has sent.
CallMoves(r) ==
    /\ effects \subseteq effects' /\ mails \subseteq mails' /\ (signedIn' => signedIn)
    /\ \/ user' = user
       \/ MayPut(r, user')

LEMMA KeycloakMoves ==
    ASSUME CentralInv, (\E r \in Request : Process(r)) \/ ProcessLate
    PROVE  UNCHANGED <<live, op, audit>> /\ \E r \in Request : CallMoves(r)
<1>1. ASSUME NEW r \in Request, Process(r)
      PROVE  UNCHANGED <<live, op, audit>> /\ CallMoves(r)
  <2>1. /\ pc[r] = "await" /\ Effect(r, call[r]) /\ UNCHANGED <<live, op, audit>>
        /\ effects' = effects \cup {<<r, call[r].name>>}
    BY <1>1 DEF Process
  <2>2. /\ call[r] \in Call /\ call[r].name \in Names
        /\ call[r].name = "putUser" => PutOK(r, call[r].arg) /\ <<r, "getUser">> \in effects
    BY <2>1, CallRead DEF CentralInv, CallOK, Call
  <2>3. /\ mails \subseteq mails' /\ (signedIn' => signedIn)
        /\ call[r].name = "putUser" => user' = call[r].arg
        /\ call[r].name # "putUser" => user' = user
    BY <2>1, <2>2, EffectFacts DEF CentralInv
  <2>4. ~user.enabled /\ call[r].name = "putUser" /\ call[r].arg.enabled => r \in early
    BY <2>2, NamesApart DEF CentralInv, EnabledOK
  <2> QED
    BY <2>1, <2>2, <2>3, <2>4 DEF CallMoves
<1>2. ASSUME ProcessLate
      PROVE  UNCHANGED <<live, op, audit>> /\ \E r \in Request : CallMoves(r)
  <2>1. PICK c \in late :
          /\ IF Refused(c) THEN UNCHANGED <<central, notice, effects>>
             ELSE /\ Effect(c.by, c)
                  /\ effects' = effects \cup {<<c.by, c.name>>}
          /\ UNCHANGED <<live, flow, audit>>
    BY <1>2 DEF ProcessLate
  <2>2. /\ c.by \in Request /\ c.name \in Names
        /\ c.name = "putUser" => PutOK(c.by, c.arg) /\ <<c.by, "getUser">> \in effects
        /\ ~user.enabled /\ c.name = "putUser" /\ c.arg.enabled => c.by \in early
    BY <2>1 DEF CentralInv, TypeOK, LateOK, EnabledOK
  <2>3. CASE Refused(c)
    BY <2>1, <2>2, <2>3 DEF CallMoves, central, flow
  <2>4. CASE ~Refused(c)
    <3>1. /\ mails \subseteq mails' /\ (signedIn' => signedIn)
          /\ c.name = "putUser" => user' = c.arg
          /\ c.name # "putUser" => user' = user
      BY <2>1, <2>2, <2>4, EffectFacts DEF CentralInv
    <3>2. CallMoves(c.by)
      BY <2>1, <2>2, <2>4, <3>1 DEF CallMoves
    <3> QED
      BY <2>1, <2>2, <3>2 DEF flow
  <2> QED
    BY <2>3, <2>4
<1> QED
  BY <1>1, <1>2

\* What any step may change.
LEMMA StepMoves ==
    ASSUME CentralInv, [Next]_vars
    PROVE  /\ effects \subseteq effects' /\ live' \subseteq live /\ mails \subseteq mails'
           /\ signedIn' => signedIn
           /\ \A q \in Request : pc[q] # "waiting" => op'[q] = op[q]
           /\ audit' = audit \/ \E r \in Request : Commit(r)
           /\ user' = user \/ Disable \/ FollowLink \/ \E r \in Request : CallMoves(r)
<1>1. CASE \E r \in Request : Start(r) \/ Run(r) \/ Fail(r) \/ Reject(r)
  BY <1>1, PortalMoves DEF central
<1>2. CASE (\E r \in Request : Process(r)) \/ ProcessLate
  BY <1>2, KeycloakMoves DEF CallMoves
<1>3. CASE Disable
  BY <1>3 DEF Disable, flow
<1>4. CASE FollowLink
  BY <1>4 DEF FollowLink, flow
<1>5. CASE RevokeNotified \/ RejectNotice \/ UNCHANGED vars
  BY <1>5 DEF RevokeNotified, RejectNotice, vars, central, flow
<1> QED
  BY <1>1, <1>2, <1>3, <1>4, <1>5 DEF Next, Keycloak, Rest

\* A row that reports success stays true: the route is over and its calls stay made.
LEMMA AuditStep ==
    ASSUME CentralInv, AuditTruthful, [Next]_vars
    PROVE  AuditTruthful'
<1> SUFFICES ASSUME NEW r \in Request, <<r, "requested">> \in audit'
             PROVE  /\ {r} \X Needed(op'[r]) \subseteq effects'
                    /\ op'[r] \in {"no_totp", "consent"} => Left(op[r])' = {}
                    /\ op'[r] = "everywhere" => ~signedIn' /\ live' = {}
  BY DEF AuditTruthful
<1>1. /\ effects \subseteq effects' /\ live' \subseteq live /\ (signedIn' => signedIn)
      /\ pc[r] # "waiting" => op'[r] = op[r]
  BY StepMoves
<1>2. <<r, "requested">> \in audit \/ (Commit(r) /\ status[r] = "requested")
  BY StepMoves DEF Commit
<1>3. op'[r] \in {"no_totp", "consent"} => Left(op[r])' = {}
  BY InvStep DEF CentralInv, RemovalOK
<1>4. CASE <<r, "requested">> \in audit
  <2>1. pc[r] = "done"
    BY <1>4 DEF CentralInv, StageOK, Status
  <2> QED
    BY <1>1, <1>4, <1>3, <2>1 DEF AuditTruthful
<1>5. CASE Commit(r) /\ status[r] = "requested"
  <2>1. pc[r] = "commit" /\ {r} \X Needed(op[r]) \subseteq effects
    BY <1>5 DEF Commit, CentralInv, StageOK
  <2>2. ASSUME op[r] = "everywhere" PROVE ~signedIn' /\ live' = {}
    <3>1. ~signedIn
      BY <2>1, <2>2 DEF Needed, CentralInv
    <3>2. live \subseteq rows[r]
      BY <2>1, <2>2 DEF CentralInv, StageOK
    <3> QED
      BY <1>1, <1>5, <2>2, <3>1, <3>2 DEF Commit
  <2> QED
    BY <1>1, <1>3, <2>1, <2>2
<1> QED
  BY <1>2, <1>4, <1>5

\* Every audit row that reports success is about calls that Keycloak has carried out: after
\* a removal no authenticator, or no consent, is left, and after a sign-out everywhere
\* neither an SSO session nor a portal session.
THEOREM AuditIsTrue == Spec => []AuditTruthful
<1>1. Init => AuditTruthful
  BY DEF Init, AuditTruthful
<1>2. CentralInv /\ AuditTruthful /\ [Next]_vars => AuditTruthful'
  BY AuditStep
<1> QED
  BY CentralInvariant, <1>1, <1>2, PTL DEF Spec

\* No request makes Keycloak take an address for verified that was not mailed: a PUT
\* says that it is not.
THEOREM VerifiedWasMailed == Spec => []VerifiedMailed
<1>1. Init => VerifiedMailed
  BY DEF Init, VerifiedMailed
<1>2. ASSUME CentralInv, VerifiedMailed, [Next]_vars PROVE VerifiedMailed'
  <2>1. mails \subseteq mails'
    BY <1>2, StepMoves
  <2>2. CASE user' = user
    BY <1>2, <2>1, <2>2 DEF VerifiedMailed
  <2>3. CASE Disable
    <3>1. user'.email = user.email /\ user'.verified = user.verified
      BY <2>3 DEF Disable, CentralInv, TypeOK, User
    <3> QED
      BY <1>2, <2>1, <3>1 DEF VerifiedMailed
  <2>4. CASE FollowLink
    <3>1. user'.email = user.email /\ \E m \in mails : m[2] = user.email
      BY <2>4 DEF FollowLink, CentralInv, TypeOK, User
    <3> QED
      BY <2>1, <3>1 DEF VerifiedMailed
  <2>5. CASE \E r \in Request : PutOK(r, user')
    BY <2>5 DEF VerifiedMailed, PutOK
  <2> QED
    BY <1>2, <2>2, <2>3, <2>4, <2>5, StepMoves DEF CallMoves
<1>3. CentralInv /\ VerifiedMailed /\ [Next]_vars => VerifiedMailed'
  BY <1>2
<1> QED
  BY CentralInvariant, <1>1, <1>3, PTL DEF Spec

\* A request that reads the account while it is disabled never enables it again.
THEOREM DisabledKept == Spec => DisabledStays
<1>1. ASSUME CentralInv, [Next]_vars, ~user.enabled, user'.enabled
      PROVE  user'.email \in early
  <2>1. ~(user' = user) /\ ~Disable
    BY <1>1 DEF Disable
  <2>2. ~FollowLink
    BY <1>1 DEF FollowLink, CentralInv, TypeOK, User
  <2>3. PICK r \in Request : CallMoves(r)
    BY <1>1, <2>1, <2>2, StepMoves
  <2> QED
    BY <1>1, <2>1, <2>3 DEF CallMoves, PutOK
<1>2. CentralInv /\ [Next]_vars => [~user.enabled /\ user'.enabled => user'.email \in early]_vars
  BY <1>1
<1> QED
  BY CentralInvariant, <1>2, PTL DEF Spec, DisabledStays
=============================================================================
