--------------------------- MODULE CentralAccount ---------------------------
(***************************************************************************)
(* The requests with which a user changes the account that Keycloak keeps  *)
(* (src/app/account_security/routes.py, sign_out_everywhere): e-mail,      *)
(* credentials, consents, SSO sessions.                                    *)
(*                                                                         *)
(* Each request runs once.  It may hold its own session row from the touch *)
(* of resolve, takes the rate limiter's lock, makes its HTTP calls to      *)
(* Keycloak one by one, records what came of them, and commits.  Keycloak  *)
(* is no part of the transaction: what it has done stays done, and a call  *)
(* that has timed out at the portal may still be carried out later.        *)
(***************************************************************************)
EXTENDS FiniteSets

CONSTANTS
    Request,    \* the requests of the user's browsers
    Operations, \* the routes used in this instance
    Session,    \* the user's portal sessions
    Otp,        \* the user's authenticators
    Client,     \* the client whose consent the user revokes
    Before,     \* the e-mail address before the first request
    None

NullOr(S) == S \cup {None}

\* An address is named by the request that sets it.
Email == Request \cup {Before}

User == [email : Email, enabled : BOOLEAN, verified : BOOLEAN]

\* A call to Keycloak: its path, and what the body or the path carries.
Names == {"actions", "verify", "getUser", "putUser", "getCredentials", "deleteOtp",
          "getConsents", "deleteConsent", "logout", "getSessions"}

Call == [name : Names, arg : User \cup Otp \cup {Client, None}]

To(name) == [name |-> name, arg |-> None]

FirstCall(o) == CASE o \in {"password", "totp"} -> "actions"
                  [] o = "verification"         -> "verify"
                  [] o = "email"                -> "getUser"
                  [] o = "no_totp"              -> "getCredentials"
                  [] o = "consent"              -> "getConsents"
                  [] o = "everywhere"           -> "logout"
                  [] o = "export"               -> "getSessions"

Routes == {"password", "totp", "verification", "email", "no_totp", "consent",
           "everywhere", "export"}

Stage == {"waiting", "lock", "await", "bulk", "commit", "done"}

\* What the user is told and the audit row says.
Status == {"requested", "unavailable", "unsupported"}

ASSUME RouteAssumption == Operations \subseteq Routes

ASSUME NameAssumption ==
    /\ Before \notin Request
    /\ None \notin User \cup Otp \cup {Client} \cup Call
    /\ None \notin Routes \cup Status \cup {"ok", "error", "held"}

VARIABLES
    user,     \* external: the account at Keycloak
    otp,      \* external: its authenticators
    consent,  \* external: the clients that have the user's consent
    signedIn, \* external: whether an SSO session is open
    mails,    \* external: <<request, address>> of each verification mail
    notice,   \* the back-channel logout that Keycloak sends before it answers
    live,     \* the portal sessions that are not revoked
    pc,       \* the next step of each request
    op,       \* its route
    rows,     \* the session rows that it has written and holds
    call,     \* the call it makes next, or awaits
    body,     \* the account as its GET returned it
    found,    \* the authenticators or consents that its GET listed and it has left
    reply,    \* Keycloak's answer on its way to the portal
    status,   \* what it will record
    late,     \* calls given up by the portal that Keycloak may still carry out
    lost,     \* history: requests of which a call was given up
    effects,  \* history: <<request, call>> that Keycloak has carried out
    early,    \* history: requests that had read the account when it was last disabled
    audit     \* committed audit rows: <<request, status>>

central == <<user, otp, consent, signedIn, mails>>
flow    == <<pc, op, rows, call, body, found, reply, status>>
vars == <<central, notice, live, flow, late, lost, effects, early, audit>>

Init ==
    /\ user = [email |-> Before, enabled |-> TRUE, verified |-> TRUE]
    /\ otp \in SUBSET Otp
    /\ consent = {Client} /\ signedIn = TRUE
    /\ mails = {}
    /\ notice = "none"
    /\ live = Session
    /\ pc = [r \in Request |-> "waiting"]
    /\ op = [r \in Request |-> None]
    /\ rows = [r \in Request |-> {}]
    /\ call = [r \in Request |-> None]
    /\ body = [r \in Request |-> None]
    /\ found = [r \in Request |-> {}]
    /\ reply = [r \in Request |-> None]
    /\ status = [r \in Request |-> None]
    /\ late = {} /\ lost = {} /\ effects = {} /\ early = {} /\ audit = {}

Goto(r, stage) == pc' = [pc EXCEPT ![r] = stage]

-----------------------------------------------------------------------------
(* The portal, up to a call. *)

\* resolve admits the request, and writes its session row or leaves it.
Start(r) ==
    \E o \in Operations, s \in live, touched \in SUBSET Session :
        /\ pc[r] = "waiting"
        /\ touched \subseteq {s}
        /\ \A q \in Request : touched \cap rows[q] = {}
        /\ op' = [op EXCEPT ![r] = o]
        /\ rows' = [rows EXCEPT ![r] = touched]
        /\ Goto(r, "lock")
        /\ UNCHANGED <<central, notice, live, call, body, found, reply, status, late, lost,
                       effects, early, audit>>

\* The rate limiter's lock, one per route and user, is held to the end.
Locked(r) == pc[r] \in {"await", "bulk", "commit"}

\* Mutant: the rate limiter takes no lock.
EnterAnyway(r) ==
    /\ pc[r] = "lock"
    /\ call' = [call EXCEPT ![r] = To(FirstCall(op[r]))]
    /\ Goto(r, "await")
    /\ UNCHANGED <<central, notice, live, op, rows, body, found, reply, status, late, lost,
                   effects, early, audit>>

Enter(r) ==
    /\ pc[r] = "lock"
    /\ \A q \in Request : Locked(q) => op[q] # op[r]
    /\ call' = [call EXCEPT ![r] = To(FirstCall(op[r]))]
    /\ Goto(r, "await")
    /\ UNCHANGED <<central, notice, live, op, rows, body, found, reply, status, late, lost,
                   effects, early, audit>>

-----------------------------------------------------------------------------
(* Keycloak. *)

\* What Keycloak does for request r with call c.
Effect(r, c) ==
    CASE c.name = "putUser" ->
            user' = c.arg /\ UNCHANGED <<otp, consent, signedIn, mails, notice>>
      [] c.name = "verify" ->
            /\ mails' = mails \cup {<<r, user.email>>}
            /\ UNCHANGED <<user, otp, consent, signedIn, notice>>
      [] c.name = "deleteOtp" ->
            otp' = otp \ {c.arg} /\ UNCHANGED <<user, consent, signedIn, mails, notice>>
      [] c.name = "deleteConsent" ->
            consent' = consent \ {c.arg} /\ UNCHANGED <<user, otp, signedIn, mails, notice>>
      [] c.name = "logout" ->
            /\ signedIn' = FALSE
            /\ notice' = IF signedIn THEN "sent" ELSE notice
            /\ UNCHANGED <<user, otp, consent, mails>>
      [] OTHER -> UNCHANGED <<central, notice>>

\* Also a PUT disables the account, when it puts back what was read while it was disabled.
MarkEarly == early' = IF user.enabled /\ ~user'.enabled
                      THEN {r \in Request : <<r, "getUser">> \in effects} ELSE early

Refused(c) == \/ c.name = "deleteOtp" /\ c.arg \notin otp
              \/ c.name = "deleteConsent" /\ c.arg \notin consent

\* What a GET lists.
Listed(c) == CASE c.name = "getCredentials" -> otp
               [] c.name = "getConsents"    -> consent

\* The answer to the logout that ends the SSO session waits for the portal's answer to
\* its notice.
Process(r) ==
    /\ pc[r] = "await" /\ reply[r] = None
    /\ ~Refused(call[r])
    /\ Effect(r, call[r]) /\ MarkEarly
    /\ effects' = effects \cup {<<r, call[r].name>>}
    /\ body' = IF call[r].name = "getUser" THEN [body EXCEPT ![r] = user] ELSE body
    /\ found' = IF call[r].name \in {"getCredentials", "getConsents"}
                THEN [found EXCEPT ![r] = Listed(call[r])] ELSE found
    /\ reply' = [reply EXCEPT ![r] = IF call[r].name = "logout" /\ signedIn
                                     THEN "held" ELSE "ok"]
    /\ UNCHANGED <<live, pc, op, rows, call, status, late, lost, audit>>

\* Any status but 200, 201 and 204, or no connection at all.
Reject(r) ==
    /\ pc[r] = "await" /\ reply[r] = None
    /\ reply' = [reply EXCEPT ![r] = "error"]
    /\ UNCHANGED <<central, notice, live, pc, op, rows, call, body, found, status, late, lost,
                   effects, early, audit>>

ProcessLate ==
    \E c \in late :
        /\ late' = late \ {c}
        /\ IF Refused(c) THEN UNCHANGED <<central, notice, effects>>
           ELSE /\ Effect(c.by, c)
                /\ effects' = effects \cup {<<c.by, c.name>>}
        /\ MarkEarly
        /\ UNCHANGED <<live, flow, lost, audit>>

\* An administrator disables the account.
Disable ==
    /\ user.enabled
    /\ user' = [user EXCEPT !.enabled = FALSE]
    /\ MarkEarly
    /\ UNCHANGED <<otp, consent, signedIn, mails, notice, live, flow, late, lost,
                   effects, audit>>

\* The user follows the link of a mail to the account's address.
FollowLink ==
    /\ ~user.verified
    /\ \E m \in mails : m[2] = user.email
    /\ user' = [user EXCEPT !.verified = TRUE]
    /\ UNCHANGED <<otp, consent, signedIn, mails, notice, live, flow, late, lost,
                   effects, early, audit>>

-----------------------------------------------------------------------------
(* The portal's answer to the notice: an UPDATE that waits for the rows. *)

RevokeNotified ==
    /\ notice = "sent"
    /\ \A r \in Request : rows[r] \cap live = {}
    /\ notice' = "done"
    /\ live' = {}
    /\ UNCHANGED <<central, flow, late, lost, effects, early, audit>>

RejectNotice ==
    /\ notice = "sent"
    /\ notice' = "failed"
    /\ UNCHANGED <<central, live, flow, late, lost, effects, early, audit>>

-----------------------------------------------------------------------------
(* The portal, after a call. *)

Continue(r, c) ==
    /\ call' = [call EXCEPT ![r] = c]
    /\ reply' = [reply EXCEPT ![r] = None]
    /\ body' = [body EXCEPT ![r] = None]
    /\ found' = [found EXCEPT ![r] = @ \ {c.arg}]
    /\ UNCHANGED <<pc, status>>

\* What a request forgets when it has made its calls.
Forget(r) ==
    /\ call' = [call EXCEPT ![r] = None]
    /\ reply' = [reply EXCEPT ![r] = None]
    /\ body' = [body EXCEPT ![r] = None]
    /\ found' = [found EXCEPT ![r] = {}]

Conclude(r, s) ==
    /\ status' = [status EXCEPT ![r] = s]
    /\ Goto(r, IF op[r] = "everywhere" THEN "bulk" ELSE "commit")
    /\ Forget(r)

\* Mutant: the representation is sent with emailVerified and enabled as they should be.
PutEnabled(r) == [email |-> r, enabled |-> TRUE, verified |-> FALSE]

\* Mutant: emailVerified is written back as it was read.
PutVerified(r) == [email |-> r, enabled |-> body[r].enabled, verified |-> body[r].verified]

\* update_user_email: the representation as it was read, with the new address.
Put(r) == [email |-> r, enabled |-> body[r].enabled, verified |-> FALSE]

\* remove_totp_credentials deletes what it has listed; revoke_user_consent, the one client.
Removal(o) == IF o = "consent" THEN "deleteConsent" ELSE "deleteOtp"

\* The next call of the route, or its end.
Receive(r) ==
    LET name == call[r].name IN
    /\ pc[r] = "await"
    /\ reply[r] = "ok" \/ (reply[r] = "held" /\ notice # "sent")
    /\ \/ name = "getUser" /\ Continue(r, [name |-> "putUser", arg |-> Put(r)])
       \/ name = "putUser" /\ Continue(r, To("verify"))
       \/ \E i \in found[r] : Continue(r, [name |-> Removal(op[r]), arg |-> i])
       \/ /\ name \in {"getCredentials", "getConsents"} /\ found[r] = {}
          /\ Conclude(r, "unsupported")
       \/ /\ name \notin {"getUser", "putUser", "getCredentials", "getConsents"}
          /\ found[r] = {}
          /\ Conclude(r, "requested")
    /\ UNCHANGED <<central, notice, live, op, rows, late, lost, effects, early, audit>>

\* Mutant: the message is chosen before the call.
GiveUpGladly(r) == Conclude(r, "requested")

\* KeycloakUnavailable: most routes say so and go on; a consent counts as not revoked,
\* and the export has no sessions to show.
GiveUp(r) == Conclude(r, CASE op[r] = "export"  -> "requested"
                           [] op[r] = "consent" -> "unsupported"
                           [] OTHER             -> "unavailable")

Fails(r) ==
    /\ pc[r] = "await" /\ reply[r] = "error" /\ op[r] # "everywhere"
    /\ GiveUp(r)
    /\ UNCHANGED <<central, notice, live, op, rows, late, lost, effects, early, audit>>

\* The time limit of the HTTP client.  A call that Keycloak has not carried out
\* may be lost, or carried out later.
Dropped(r) ==
    /\ lost' = lost \cup {r}
    /\ late' = IF reply[r] # None THEN late
               ELSE late \cup {[by |-> r, name |-> call[r].name, arg |-> call[r].arg]}

TimeOut(r) ==
    /\ pc[r] = "await" /\ reply[r] # "error" /\ op[r] # "everywhere"
    /\ Dropped(r)
    /\ GiveUp(r)
    /\ UNCHANGED <<central, notice, live, op, rows, effects, early, audit>>

\* sign_out_everywhere: revoke_by_oidc_logout, over every session of the user.
Bulk(r) ==
    /\ pc[r] = "bulk"
    /\ \A q \in Request \ {r} : rows[q] \cap live = {}
    /\ rows' = [rows EXCEPT ![r] = live]
    /\ Goto(r, "commit")
    /\ UNCHANGED <<central, notice, live, op, call, body, found, reply, status, late, lost,
                   effects, early, audit>>

End(r) ==
    /\ Goto(r, "done")
    /\ rows' = [rows EXCEPT ![r] = {}]
    /\ status' = [status EXCEPT ![r] = None]
    /\ Forget(r)
    /\ UNCHANGED <<central, notice, op, effects, early>>

Commit(r) ==
    /\ pc[r] = "commit"
    /\ audit' = audit \cup {<<r, status[r]>>}
    /\ live' = IF op[r] = "everywhere" THEN live \ rows[r] ELSE live
    /\ End(r)
    /\ UNCHANGED <<late, lost>>

\* 503: the HTTPException rolls back, and nothing is recorded.
Unavailable(r) ==
    /\ pc[r] = "await" /\ reply[r] = "error" /\ op[r] = "everywhere"
    /\ End(r)
    /\ UNCHANGED <<live, late, lost, audit>>

\* Mutant: the HTTP client waits for ever.
GiveUpNever(r) == FALSE /\ UNCHANGED vars

GiveUpLogout(r) ==
    /\ pc[r] = "await" /\ reply[r] # "error" /\ op[r] = "everywhere"
    /\ Dropped(r)
    /\ End(r)
    /\ UNCHANGED <<live, audit>>

\* Two sign-outs: one waits for the lock with its row, the other for the row.
AbortVictim(r) ==
    /\ op[r] = "everywhere" /\ pc[r] \in {"lock", "bulk"}
    /\ \E q \in Request :
         /\ op[q] = "everywhere" /\ {pc[q], pc[r]} = {"lock", "bulk"}
         /\ rows[IF pc[q] = "lock" THEN q ELSE r] \cap live # {}
    /\ End(r)
    /\ UNCHANGED <<live, late, lost, audit>>

\* A limit, a refused CSRF token, a lost connection, a crash or a failed commit, also
\* after calls that Keycloak has carried out; the one under way is left to it.
Fail(r) ==
    /\ pc[r] \in {"lock", "await", "bulk", "commit"}
    /\ IF pc[r] = "await" /\ reply[r] = None THEN Dropped(r) ELSE UNCHANGED <<late, lost>>
    /\ End(r)
    /\ UNCHANGED <<live, audit>>

Run(r) == \/ Enter(r) \/ Receive(r) \/ Fails(r) \/ TimeOut(r) \/ Bulk(r)
          \/ Commit(r) \/ Unavailable(r) \/ GiveUpLogout(r) \/ AbortVictim(r)

Keycloak == \/ \E r \in Request : Process(r) \/ Reject(r)
            \/ ProcessLate \/ Disable \/ FollowLink

\* A request without a session is sent to the login page.
Rest == /\ \A r \in Request : pc[r] = "done" \/ (pc[r] = "waiting" /\ live = {})
        /\ UNCHANGED vars

Next == \/ Keycloak \/ RevokeNotified \/ RejectNotice \/ Rest
        \/ \E r \in Request : Start(r) \/ Run(r) \/ Fail(r)

Spec == Init /\ [][Next]_vars

\* The portal runs what can go on.  Nothing is assumed of Keycloak.
FairSpec == Spec /\ WF_vars(RevokeNotified) /\ \A r \in Request : WF_vars(Run(r))

-----------------------------------------------------------------------------
(* Properties. *)

TypeOK ==
    /\ user \in User /\ otp \subseteq Otp /\ consent \subseteq {Client} /\ signedIn \in BOOLEAN
    /\ mails \subseteq Request \X Email
    /\ notice \in {"none", "sent", "done", "failed"}
    /\ live \subseteq Session
    /\ pc \in [Request -> Stage]
    /\ op \in [Request -> NullOr(Routes)]
    /\ rows \in [Request -> SUBSET Session]
    /\ call \in [Request -> NullOr(Call)]
    /\ body \in [Request -> NullOr(User)]
    /\ found \in [Request -> SUBSET (Otp \cup {Client})]
    /\ reply \in [Request -> {None, "ok", "error", "held"}]
    /\ status \in [Request -> NullOr(Status)]
    /\ late \subseteq [by : Request, name : Names, arg : User \cup Otp \cup {Client, None}]
    /\ lost \subseteq Request /\ early \subseteq Request
    /\ effects \subseteq Request \X Names
    /\ audit \subseteq Request \X Status

\* The calls that a route must have made before it may claim success.
Needed(o) == CASE o \in {"password", "totp"} -> {"actions"}
               [] o = "verification"         -> {"verify"}
               [] o = "email"                -> {"getUser", "putUser", "verify"}
               [] o = "no_totp"              -> {"getCredentials", "deleteOtp"}
               [] o = "consent"              -> {"getConsents", "deleteConsent"}
               [] o = "everywhere"           -> {"logout"}
               [] o = "export"               -> {}

\* What a removal is to leave nothing of.
Left(o) == IF o = "no_totp" THEN otp ELSE consent

\* An audit row that reports success is about something that has happened: Keycloak
\* has carried out every call of the route, no authenticator and no consent is left
\* where they were to be removed (nothing here adds one), and after a sign-out
\* everywhere no portal session.
AuditTruthful ==
    \A r \in Request : <<r, "requested">> \in audit =>
        /\ {r} \X Needed(op[r]) \subseteq effects
        /\ op[r] \in {"no_totp", "consent"} => Left(op[r]) = {}
        /\ op[r] = "everywhere" => ~signedIn /\ live = {}

\* A user who is told that the e-mail change was accepted gets the verification mail
\* at that address, unless a call of another request was given up and came late:
\* overlapping changes never mail one another's address (update_user_email).
MailMatches ==
    \A r \in Request :
        <<r, "requested">> \in audit /\ op[r] = "email" /\ lost \subseteq {r} =>
            <<r, r>> \in mails

\* A request that reads the account while it is disabled never enables it again; one that
\* had read it before may (update_user_email writes back what it has read).
DisabledStays ==
    [][~user.enabled /\ user'.enabled => user'.email \in early]_vars

\* An address counts as verified only after a verification mail to it.
VerifiedMailed == user.verified => user.email = Before \/ \E m \in mails : m[2] = user.email

\* Every request ends, whatever Keycloak does: also a sign-out everywhere that holds
\* the session row for which the back-channel logout, and so Keycloak's answer, waits.
RequestsEnd == \A r \in Request : pc[r] # "waiting" ~> pc[r] = "done"

\* Once Keycloak has ended the SSO session every portal session is revoked, by the
\* notice or by the request, unless the notice fails.
SignOutSpreads == ~signedIn ~> live = {} \/ notice = "failed"

-----------------------------------------------------------------------------
(* The inductive invariant. *)

Calls(o) == IF o = "export" THEN {"getSessions"} ELSE Needed(o)

\* The calls of a route that precede one of them.
Preceding(o, name) ==
    CASE name = "putUser"                -> {"getUser"}
      [] name = "verify" /\ o = "email"  -> {"getUser", "putUser"}
      [] name = "deleteOtp"              -> {"getCredentials"}
      [] name = "deleteConsent"          -> {"getConsents"}
      [] OTHER                           -> {}

Replied(r) == reply[r] \in {"ok", "held"}

Ended(r) == pc[r] \in {"bulk", "commit", "done"}

\* What an e-mail change sends.
PutOK(r, u) == u \in User /\ u.email = r /\ ~u.verified

\* What a request is about at a stage, and what it may claim there.
StageOK(r) ==
    /\ pc[r] # "waiting" => op[r] \in Routes
    /\ pc[r] = "bulk" => op[r] = "everywhere"
    /\ pc[r] # "await" => call[r] = None /\ reply[r] = None /\ body[r] = None /\ found[r] = {}
    /\ status[r] # None <=> pc[r] \in {"bulk", "commit"}
    /\ status[r] = "requested" => {r} \X Needed(op[r]) \subseteq effects
    /\ op[r] = "everywhere" /\ pc[r] = "commit" => live \subseteq rows[r]
    /\ \A s \in Status : <<r, s>> \in audit => pc[r] = "done"
    /\ r \in lost => Ended(r)

\* The call that a request awaits is one of its route's, made after those before it.
CallOK(r) ==
    pc[r] = "await" =>
        /\ call[r] \in Call /\ call[r].name \in Calls(op[r])
        /\ {r} \X Preceding(op[r], call[r].name) \subseteq effects
        /\ Replied(r) => <<r, call[r].name>> \in effects
        /\ Replied(r) /\ call[r].name = "getUser" => body[r] # None
        /\ call[r].name = "putUser" => PutOK(r, call[r].arg)
        /\ found[r] # {} => op[r] \in {"no_totp", "consent"}
        /\ body[r] # None => <<r, "getUser">> \in effects

\* A removal has yet to remove what its list still holds and what it is about to remove.
RemovalOK(r) ==
    op[r] \in {"no_totp", "consent"} =>
        /\ pc[r] = "await" /\ (Replied(r) \/ call[r].name = Removal(op[r])) =>
              Left(op[r]) \subseteq found[r] \cup IF Replied(r) THEN {} ELSE {call[r].arg}
        /\ status[r] = "requested" \/ <<r, "requested">> \in audit => Left(op[r]) = {}

\* Unless a call is given up, the address is the request's own from its PUT to its mail.
MailOK(r) ==
    op[r] = "email" =>
        /\ r \in lost => status[r] # "requested" /\ <<r, "requested">> \notin audit
        /\ lost = {} /\ pc[r] = "await"
              /\ (call[r].name = "verify" \/ (call[r].name = "putUser" /\ Replied(r)))
              => user.email = r
        /\ lost = {} /\ (\/ pc[r] = "await" /\ call[r].name = "verify" /\ Replied(r)
                         \/ status[r] = "requested"
                         \/ <<r, "requested">> \in audit)
              => <<r, r>> \in mails

\* A request that holds the account as enabled had read it before it was disabled.
EnabledOK ==
    ~user.enabled =>
        /\ \A r \in Request :
              /\ body[r] # None /\ body[r].enabled => r \in early
              /\ call[r] # None /\ call[r].name = "putUser" /\ call[r].arg.enabled => r \in early
        /\ \A c \in late : c.name = "putUser" /\ c.arg.enabled => c.by \in early

LateOK ==
    \A c \in late :
        /\ c.by \in lost /\ Ended(c.by)
        /\ c.name = "putUser" => PutOK(c.by, c.arg) /\ <<c.by, "getUser">> \in effects

\* One request of a route is between lock and end.
LockAlone == \A p, q \in Request : Locked(p) /\ Locked(q) /\ op[p] = op[q] => p = q

\* A live session row has one holder.
RowsApart == \A p, q \in Request : p # q => rows[p] \cap rows[q] \cap live = {}

\* Everything that the requests, their calls and Keycloak owe each other: one request of
\* a route at a time, one holder of a session row, no call before those that it needs, no
\* success recorded before Keycloak has carried out every call of the route, nothing left
\* of what a removal has finished with, nobody else's address under a mail, and no stale
\* copy of a disabled account but an old one.
CentralInv ==
    /\ TypeOK /\ LockAlone /\ RowsApart
    /\ \A r \in Request : StageOK(r) /\ CallOK(r) /\ MailOK(r) /\ RemovalOK(r)
    /\ LateOK /\ EnabledOK
    /\ \A r \in Request : <<r, "logout">> \in effects => ~signedIn
=============================================================================
