------------------------------ MODULE Accounts ------------------------------
(***************************************************************************)
(* What the portal stores about one user: profile, photo, preferences,     *)
(* social link and contacts (src/app/accounts, src/app/preferences), under *)
(* the requests that change it.                                            *)
(*                                                                         *)
(* Every request runs once, in one PostgreSQL transaction at READ          *)
(* COMMITTED.  The ORM does not flush before a SELECT; a flush writes only *)
(* the columns that differ from those it loaded.  A column holds the name  *)
(* of the request that wrote it: what matters is whose value survives.     *)
(***************************************************************************)
EXTENDS Integers, FiniteSets

CONSTANTS
    Request,    \* the requests of the user's browsers
    Operations, \* the routes used in this instance
    Kind,       \* contact types
    Limit,      \* PROFILE_CONTACT_LIMIT
    Before,     \* the writer of what was stored before the first request
    None,       \* NULL, no row
    Clean       \* a row that the transaction has not written, or not read

NullOr(S) == S \cup {None}

Writer == Request \cup {Before}

\* Rows are named by their unique key; a contact, by the request that adds it.
Single == {"profile", "prefs", "photo", "link"}
Key    == Single \cup Writer

Profile == [name : Writer, rest : Writer, avatar : NullOr(Writer), stamp : Writer]
Prefs   == [theme : Writer, rest : Writer]
Photo   == [id : Writer, key : Writer]
Link    == [id : Writer, url : Writer]
Contact == [kind : Kind, value : Writer, primary : BOOLEAN]

Table(k) == CASE k = "profile" -> Profile
              [] k = "prefs"   -> Prefs
              [] k = "photo"   -> Photo
              [] k = "link"    -> Link
              [] OTHER         -> Contact

Rows == Profile \cup Prefs \cup Photo \cup Link \cup Contact

\* What the profile page puts into its form, and what comes back.
Form == [stamp : Writer, name : Writer, rest : Writer]

\* Routes that serialize on a lock of the user: the rate limiter's, or
\* account-bootstrap for the login.
Locking == {"login", "profile", "upload", "contact", "link"}
Routes  == Locking \cup {"unphoto", "uncontact", "unlink", "preferences", "theme"}

Stage == {"waiting", "lock", "read", "reread", "delete", "flush", "flush2",
          "commit", "done"}

Input == [op : Routes \cup {"none"}, form : NullOr(Form), prefs : NullOr(Prefs),
          contact : NullOr(Contact), target : NullOr(Writer)]

ASSUME LimitAssumption == Limit \in Nat
ASSUME RequestAssumption == IsFiniteSet(Request)
ASSUME NameAssumption ==
    /\ Before \notin Request
    /\ Writer \cap Single = {}
    /\ None \notin Rows \cup Form \cup Writer
    /\ Clean \notin Rows \cup {None}

VARIABLES
    rows,   \* the committed rows
    forms,  \* the profile forms that browsers may hold
    pc,     \* the next statement of each request
    req,    \* the input of each request
    holds,  \* the requests that hold their route's lock
    loaded, \* the rows that the ORM session of a request has loaded
    demote, \* the primary contact that a request has marked as not primary
    dirty   \* uncommitted row versions; a row with one is locked

vars == <<rows, forms, pc, req, holds, loaded, demote, dirty>>

NoInput == [op |-> "none", form |-> None, prefs |-> None, contact |-> None,
            target |-> None]

-----------------------------------------------------------------------------
(* What a transaction sees, and where its statements wait. *)

Visible(r, k) == IF dirty[r][k] = Clean THEN rows[k] ELSE dirty[r][k]

Holders(k) == {q \in Request : dirty[q][k] # Clean}

MayWrite(r, k) == Holders(k) \subseteq {r}

Write(r, k, row) == dirty' = [dirty EXCEPT ![r][k] = row]

Goto(r, stage) == pc' = [pc EXCEPT ![r] = stage]

\* Unique keys of contacts: one row per value, one primary per type.
Clashes(c, row) ==
    /\ row # None
    /\ row.kind = c.kind
    /\ row.value = c.value \/ (row.primary /\ c.primary)

\* Uncommitted rows whose end an INSERT of contact c must await.
Pending(r, c) ==
    {q \in Request \ {r} : \E k \in Writer :
        dirty[q][k] # Clean /\ (Clashes(c, dirty[q][k]) \/ Clashes(c, rows[k]))}

Contacts(r) == {k \in Writer : Visible(r, k) # None}

FormOf(row) == [stamp |-> row.stamp, name |-> row.name, rest |-> row.rest]

\* A user who has not logged in yet, or one whose earlier requests have left a bare
\* profile or one with a photo and a link, and perhaps a contact.
Init ==
    /\ \/ rows = [k \in Key |-> None]
       \/ \E old \in {None, Before},
              c \in NullOr([kind : Kind, value : {Before}, primary : BOOLEAN]) :
            /\ c # None => Limit > 0
            /\ rows = [k \in Key |->
                 CASE k = "profile" -> [name |-> Before, rest |-> Before,
                                        avatar |-> old, stamp |-> Before]
                   [] k = "prefs"   -> [theme |-> Before, rest |-> Before]
                   [] k = "photo"   -> IF old = None THEN None
                                       ELSE [id |-> Before, key |-> old]
                   [] k = "link"    -> IF old = None THEN None
                                       ELSE [id |-> Before, url |-> old]
                   [] k = Before    -> c
                   [] OTHER         -> None]
    /\ forms = IF rows["profile"] = None THEN {} ELSE {FormOf(rows["profile"])}
    /\ pc = [r \in Request |-> "waiting"]
    /\ req = [r \in Request |-> NoInput]
    /\ holds = {}
    /\ loaded = [r \in Request |-> [k \in Single |-> Clean]]
    /\ demote = [r \in Request |-> None]
    /\ dirty = [r \in Request |-> [k \in Key |-> Clean]]

-----------------------------------------------------------------------------
(* Arrival. *)

Start(r, q) ==
    /\ pc[r] = "waiting"
    /\ q.op \in Operations
    /\ Goto(r, IF q.op \in Locking THEN "lock"
               ELSE IF q.op \in {"uncontact", "unlink"} THEN "delete"
               ELSE "read")
    /\ req' = [req EXCEPT ![r] = q]
    /\ UNCHANGED <<rows, forms, holds, loaded, demote, dirty>>

StartLogin(r) == Start(r, [NoInput EXCEPT !.op = "login"])

\* Every other route needs a session, which a committed login has created.
Known == rows["profile"] # None

\* The user has typed some of the fields; the others come back as shown.
StartProfile(r) ==
    \E form \in forms, typed \in SUBSET {"name", "rest"} :
        /\ Known
        /\ Start(r, [NoInput EXCEPT !.op = "profile",
                     !.form = [stamp |-> form.stamp,
                               name |-> IF "name" \in typed THEN r ELSE form.name,
                               rest |-> IF "rest" \in typed THEN r ELSE form.rest]])

StartPhoto(r) ==
    \E op \in {"upload", "unphoto"} : Known /\ Start(r, [NoInput EXCEPT !.op = op])

\* A value of its own, or one that another contact may have.
StartContact(r) ==
    \E c \in [kind : Kind, value : {r, Before}, primary : BOOLEAN] :
        Known /\ Start(r, [NoInput EXCEPT !.op = "contact", !.contact = c])

StartLink(r) == Known /\ Start(r, [NoInput EXCEPT !.op = "link"])

\* A delete button of the page names a row that has been committed.
StartDelete(r) ==
    \/ \E k \in Writer :
         /\ Known /\ rows[k] # None
         /\ Start(r, [NoInput EXCEPT !.op = "uncontact", !.target = k])
    \/ /\ Known /\ rows["link"] # None
       /\ Start(r, [NoInput EXCEPT !.op = "unlink", !.target = rows["link"].id])

\* The preferences page sends the user's choices beside what it showed.
StartPreferences(r) ==
    LET shown == rows["prefs"] IN
    /\ Known
    /\ \E theme \in {r, shown.theme}, rest \in {r, shown.rest} :
         Start(r, [NoInput EXCEPT !.op = "preferences",
                   !.prefs = [theme |-> theme, rest |-> rest]])

\* The theme menu sends the theme only.
StartTheme(r) == Known /\ Start(r, [NoInput EXCEPT !.op = "theme"])

Arrive(r) == \/ StartLogin(r) \/ StartProfile(r) \/ StartPhoto(r) \/ StartContact(r)
             \/ StartLink(r) \/ StartDelete(r) \/ StartPreferences(r) \/ StartTheme(r)

-----------------------------------------------------------------------------
(* Reading. *)

\* Mutant: no lock serializes the requests of one route.
AcquireNothing(r) ==
    /\ pc[r] = "lock"
    /\ holds' = holds \cup {r}
    /\ Goto(r, "read")
    /\ UNCHANGED <<rows, forms, req, loaded, demote, dirty>>

AcquireLock(r) ==
    /\ pc[r] = "lock"
    /\ \A q \in holds : req[q].op # req[r].op
    /\ holds' = holds \cup {r}
    /\ Goto(r, "read")
    /\ UNCHANGED <<rows, forms, req, loaded, demote, dirty>>

FirstRead(op) == CASE op \in {"login", "unphoto"}     -> "profile"
                   [] op = "upload"                   -> "photo"
                   [] op = "link"                     -> "link"
                   [] op \in {"preferences", "theme"} -> "prefs"

SecondRead(op) == IF op = "login" THEN "prefs" ELSE "profile"

\* A SELECT without a lock.
Read(r) ==
    LET op == req[r].op
        k  == IF pc[r] = "read" THEN FirstRead(op) ELSE SecondRead(op)
    IN  /\ pc[r] \in {"read", "reread"}
        /\ op \notin {"profile", "contact"}
        /\ loaded' = [loaded EXCEPT ![r][k] = Visible(r, k)]
        /\ Goto(r, IF pc[r] = "read" /\ op \in {"login", "upload"} THEN "reread"
                   ELSE IF op = "unphoto" THEN "delete"
                   ELSE "flush")
        /\ UNCHANGED <<rows, forms, req, holds, demote, dirty>>

\* Mutant: the SELECT takes no row lock.
ReadProfile(r) == UNCHANGED dirty

\* FOR UPDATE: a locked row is a version that equals the committed one.
LockProfile(r) == MayWrite(r, "profile") /\ Write(r, "profile", rows["profile"])

\* update_profile, and the comparison of versions.  When they differ the page is
\* shown again: the version and the fields are those of the row, but for the
\* display name, which is the user's.
SelectProfile(r) ==
    LET row  == rows["profile"]
        form == req[r].form
    IN  /\ pc[r] = "read" /\ req[r].op = "profile"
        /\ LockProfile(r)
        /\ loaded' = [loaded EXCEPT ![r]["profile"] = row]
        /\ \/ /\ row.stamp = form.stamp
              /\ Goto(r, "flush")
              /\ UNCHANGED forms
           \/ /\ row.stamp # form.stamp
              /\ forms' = forms \cup {[FormOf(row) EXCEPT !.name = form.name]}
              /\ Goto(r, "commit")
        /\ UNCHANGED <<rows, req, holds, demote>>

\* add_contact: the number of contacts, then the primary one of the type.
CountContacts(r) ==
    /\ pc[r] = "read" /\ req[r].op = "contact"
    /\ Cardinality(Contacts(r)) < Limit
    /\ Goto(r, IF req[r].contact.primary THEN "reread" ELSE "flush2")
    /\ UNCHANGED <<rows, forms, req, holds, loaded, demote, dirty>>

FindPrimary(r) ==
    LET found == {k \in Contacts(r) : /\ Visible(r, k).kind = req[r].contact.kind
                                      /\ Visible(r, k).primary}
    IN  /\ pc[r] = "reread" /\ req[r].op = "contact"
        /\ \/ found = {} /\ Goto(r, "flush2") /\ UNCHANGED demote
           \/ \E k \in found : demote' = [demote EXCEPT ![r] = k] /\ Goto(r, "flush")
        /\ UNCHANGED <<rows, forms, req, holds, loaded, dirty>>

-----------------------------------------------------------------------------
(* Writing. *)

\* The flush takes the classes in the order of their names.
FlushKey(r) ==
    CASE req[r].op = "login"   -> IF pc[r] = "flush" THEN "prefs" ELSE "profile"
      [] req[r].op = "upload"  -> IF pc[r] = "flush" THEN "profile" ELSE "photo"
      [] req[r].op \in {"profile", "unphoto"} -> "profile"
      [] req[r].op = "link"    -> "link"
      [] OTHER                 -> "prefs"

Inserted(r, k) ==
    CASE k = "profile" -> [name |-> r, rest |-> r, avatar |-> None, stamp |-> r]
      [] k = "prefs"   -> [theme |-> r, rest |-> r]
      [] k = "photo"   -> [id |-> r, key |-> r]
      [] k = "link"    -> [id |-> r, url |-> r]

\* Mutant: every column is written back.
ChosenWhole(r, row) ==
    IF req[r].op = "theme" THEN [loaded[r]["prefs"] EXCEPT !.theme = r] ELSE req[r].prefs

\* The columns of update_preferences: those that differ from the loaded row.
Chosen(r, row) ==
    LET old == loaded[r]["prefs"]
        new == IF req[r].op = "theme" THEN [old EXCEPT !.theme = r] ELSE req[r].prefs
    IN  [theme |-> IF new.theme = old.theme THEN row.theme ELSE new.theme,
         rest  |-> IF new.rest = old.rest THEN row.rest ELSE new.rest]

\* Mutant: an upload names its photo only when the profile names none.
UpdatedOnce(r, k, row) ==
    CASE req[r].op = "profile" -> [name |-> req[r].form.name, rest |-> req[r].form.rest,
                                   avatar |-> row.avatar, stamp |-> r]
      [] req[r].op = "upload" /\ k = "profile" ->
            [row EXCEPT !.avatar = IF @ = None THEN r ELSE @, !.stamp = r]
      [] req[r].op = "unphoto" -> [row EXCEPT !.avatar = None, !.stamp = r]
      [] k = "photo" -> [row EXCEPT !.key = r]
      [] k = "link"  -> [row EXCEPT !.url = r]
      [] k = "prefs" -> Chosen(r, row)

\* What an UPDATE makes of the row it finds.
Updated(r, k, row) ==
    CASE req[r].op = "profile" -> [name |-> req[r].form.name, rest |-> req[r].form.rest,
                                   avatar |-> row.avatar, stamp |-> r]
      [] req[r].op = "upload" /\ k = "profile" -> [row EXCEPT !.avatar = r, !.stamp = r]
      [] req[r].op = "unphoto" -> [row EXCEPT !.avatar = None, !.stamp = r]
      [] k = "photo" -> [row EXCEPT !.key = r]
      [] k = "link"  -> [row EXCEPT !.url = r]
      [] k = "prefs" -> Chosen(r, row)

\* Nothing to write: the login found the row, or the photo was gone already.
Unchanged(r, k) ==
    \/ req[r].op = "login" /\ loaded[r][k] # None
    \/ req[r].op = "unphoto" /\ loaded[r][k].avatar = None

\* The row that an UPDATE names by its primary key is still the loaded one.
StillThere(r, k) ==
    LET row == Visible(r, k) IN
    /\ row # None
    /\ k \in {"photo", "link"} => row.id = loaded[r][k].id

Flush(r) ==
    LET k == FlushKey(r)
        v == Visible(r, k)
    IN  /\ pc[r] \in {"flush", "flush2"} /\ req[r].op # "contact"
        /\ \/ Unchanged(r, k) /\ UNCHANGED dirty
           \/ /\ ~Unchanged(r, k) /\ MayWrite(r, k)
              /\ \/ loaded[r][k] = None /\ v = None /\ Write(r, k, Inserted(r, k))
                 \/ loaded[r][k] # None /\ StillThere(r, k) /\ Write(r, k, Updated(r, k, v))
        /\ Goto(r, IF pc[r] = "flush" /\ req[r].op \in {"login", "upload"} THEN "flush2"
                   ELSE "commit")
        /\ UNCHANGED <<rows, forms, req, holds, loaded, demote>>

\* add_contact: the old primary's UPDATE precedes the INSERT.
DemotePrimary(r) ==
    LET k == demote[r] IN
    /\ pc[r] = "flush" /\ req[r].op = "contact"
    /\ MayWrite(r, k) /\ rows[k] # None
    /\ Write(r, k, [rows[k] EXCEPT !.primary = FALSE])
    /\ Goto(r, "flush2")
    /\ UNCHANGED <<rows, forms, req, holds, loaded, demote>>

InsertContact(r) ==
    LET c == req[r].contact IN
    /\ pc[r] = "flush2" /\ req[r].op = "contact"
    /\ Pending(r, c) = {}
    /\ \A k \in Writer : ~Clashes(c, Visible(r, k))
    /\ Write(r, r, c)
    /\ Goto(r, "commit")
    /\ UNCHANGED <<rows, forms, req, holds, loaded, demote>>

DeleteKey(r) == CASE req[r].op = "unphoto" -> "photo"
                  [] req[r].op = "unlink"  -> "link"
                  [] OTHER                 -> req[r].target

Matches(r, row) == /\ row # None
                   /\ req[r].op = "unlink" => row.id = req[r].target

\* DELETE: a row that is not committed yet is not seen, and not waited for.
Delete(r) ==
    LET k == DeleteKey(r) IN
    /\ pc[r] = "delete"
    /\ \/ rows[k] # None /\ MayWrite(r, k) /\ Matches(r, rows[k]) /\ Write(r, k, None)
       \/ /\ req[r].op = "unphoto" /\ rows[k] = None
          /\ UNCHANGED dirty
    /\ Goto(r, IF req[r].op = "unphoto" THEN "flush" ELSE "commit")
    /\ UNCHANGED <<rows, forms, req, holds, loaded, demote>>

-----------------------------------------------------------------------------
(* The end of a request. *)

End(r) ==
    /\ Goto(r, "done")
    /\ holds' = holds \ {r}
    /\ loaded' = [loaded EXCEPT ![r] = [k \in Single |-> Clean]]
    /\ demote' = [demote EXCEPT ![r] = None]
    /\ dirty' = [dirty EXCEPT ![r] = [k \in Key |-> Clean]]
    /\ req' = [req EXCEPT ![r] = NoInput]

\* A profile page may show every committed version to some browser.
Commit(r) ==
    /\ pc[r] = "commit"
    /\ rows' = [k \in Key |-> Visible(r, k)]
    /\ forms' = forms \cup {FormOf(Visible(r, "profile"))}
    /\ End(r)

Discard(r) == End(r) /\ UNCHANGED <<rows, forms>>

\* 422 with a rollback: the contact limit.
RefuseContact(r) ==
    /\ pc[r] = "read" /\ req[r].op = "contact"
    /\ Cardinality(Contacts(r)) >= Limit
    /\ Discard(r)

\* A unique key is taken: 422 for a contact, 500 elsewhere.
Collide(r) ==
    /\ \/ /\ pc[r] \in {"flush", "flush2"} /\ req[r].op # "contact"
          /\ ~Unchanged(r, FlushKey(r)) /\ MayWrite(r, FlushKey(r))
          /\ loaded[r][FlushKey(r)] = None /\ Visible(r, FlushKey(r)) # None
       \/ /\ pc[r] = "flush2" /\ req[r].op = "contact"
          /\ Pending(r, req[r].contact) = {}
          /\ \E k \in Writer : Clashes(req[r].contact, Visible(r, k))
    /\ Discard(r)

\* StaleDataError: the row to be updated has been deleted.
LoseRow(r) ==
    /\ \/ /\ pc[r] \in {"flush", "flush2"} /\ req[r].op # "contact"
          /\ ~Unchanged(r, FlushKey(r)) /\ MayWrite(r, FlushKey(r))
          /\ loaded[r][FlushKey(r)] # None /\ ~StillThere(r, FlushKey(r))
       \/ /\ pc[r] = "flush" /\ req[r].op = "contact"
          /\ MayWrite(r, demote[r]) /\ rows[demote[r]] = None
    /\ Discard(r)

\* 404: the row to be deleted is gone.
NotFound(r) ==
    /\ pc[r] = "delete" /\ req[r].op # "unphoto"
    /\ ~Matches(r, rows[DeleteKey(r)])
    /\ Discard(r)

\* Any other exception, invalid input, a limit, a refused CSRF token or a lost
\* connection.
Fail(r) == pc[r] \notin {"waiting", "done"} /\ Discard(r)

\* The requests that r waits for.
Blockers(r) ==
    CASE pc[r] = "lock" -> {q \in holds : req[q].op = req[r].op}
      [] pc[r] = "read" /\ req[r].op = "profile" -> Holders("profile") \ {r}
      [] pc[r] = "delete" ->
            IF rows[DeleteKey(r)] = None THEN {} ELSE Holders(DeleteKey(r)) \ {r}
      [] pc[r] = "flush" /\ req[r].op = "contact" -> Holders(demote[r]) \ {r}
      [] pc[r] = "flush2" /\ req[r].op = "contact" -> Pending(r, req[r].contact)
      [] pc[r] \in {"flush", "flush2"} /\ req[r].op # "contact" ->
            IF Unchanged(r, FlushKey(r)) THEN {} ELSE Holders(FlushKey(r)) \ {r}
      [] OTHER -> {}

\* PostgreSQL's deadlock detector aborts a member of a cycle.
AbortVictim(r) ==
    /\ \E ring \in SUBSET Request :
          /\ r \in ring
          /\ \A q \in ring : /\ Blockers(q) # {} /\ Blockers(q) \subseteq ring
                            /\ \E p \in ring : q \in Blockers(p)
    /\ Discard(r)

Run(r) == \/ AcquireLock(r) \/ Read(r) \/ SelectProfile(r) \/ CountContacts(r)
          \/ FindPrimary(r) \/ Flush(r) \/ DemotePrimary(r) \/ InsertContact(r)
          \/ Delete(r) \/ Commit(r) \/ RefuseContact(r) \/ Collide(r) \/ LoseRow(r)
          \/ NotFound(r) \/ AbortVictim(r)

\* All requests have ended: nothing is left to do.
Rest == (\A r \in Request : pc[r] = "done") /\ UNCHANGED vars

Next == Rest \/ \E r \in Request : Arrive(r) \/ Run(r) \/ Fail(r)

Spec == Init /\ [][Next]_vars

-----------------------------------------------------------------------------
(* Properties. *)

RowsOK(table, extra) == \A k \in Key : table[k] \in Table(k) \cup extra

TypeOK ==
    /\ DOMAIN rows = Key /\ RowsOK(rows, {None})
    /\ forms \subseteq Form
    /\ pc \in [Request -> Stage]
    /\ req \in [Request -> Input]
    /\ holds \subseteq Request
    /\ \A r \in Request :
          /\ DOMAIN loaded[r] = Single
          /\ \A k \in Single : loaded[r][k] \in Table(k) \cup {None, Clean}
    /\ DOMAIN loaded = Request /\ DOMAIN dirty = Request
    /\ demote \in [Request -> NullOr(Writer)]
    /\ \A r \in Request : DOMAIN dirty[r] = Key /\ RowsOK(dirty[r], {None, Clean})

Stored == {k \in Writer : rows[k] # None}

\* When the profile names a photo and one is stored, it is that one, however
\* uploads, removals and profile edits overlap (upsert_profile_photo).
PhotoAgrees ==
    rows["photo"] # None /\ rows["profile"].avatar # None =>
        rows["profile"].avatar = rows["photo"].key

\* The number of contacts stays within PROFILE_CONTACT_LIMIT, although add_contact
\* counts before it inserts.
ContactLimit == Cardinality(Stored) <= Limit

Commits(r) == pc[r] = "commit" /\ pc'[r] = "done"

\* A saved profile replaces the version its form was made from, and a photo request
\* leaves the other fields alone: no committed edit of the profile is lost.
EditsKept ==
    [][\A r \in Request :
         LET old == rows["profile"] new == rows'["profile"] IN
         Commits(r) /\ old # None /\ new # old =>
            IF req[r].op = "profile" THEN old.stamp = req[r].form.stamp /\ new.avatar = old.avatar
            ELSE new.name = old.name /\ new.rest = old.rest]_vars

\* The theme menu changes the theme and nothing else, also while the preferences
\* page is being saved (quick_theme_update).
ThemeOnly ==
    [][\A r \in Request :
         Commits(r) /\ req[r].op = "theme" => rows'["prefs"].rest = rows["prefs"].rest]_vars

-----------------------------------------------------------------------------
(* The inductive invariant. *)

\* The stages of a route.
Stages(op) ==
    CASE op = "none" -> {"waiting", "done"}
      [] op \in {"login", "upload", "contact"} ->
            {"lock", "read", "reread", "flush", "flush2", "commit"}
      [] op \in {"profile", "link"}      -> {"lock", "read", "flush", "commit"}
      [] op = "unphoto"                  -> {"read", "delete", "flush", "commit"}
      [] op \in {"uncontact", "unlink"}  -> {"delete", "commit"}
      [] op \in {"preferences", "theme"} -> {"read", "flush", "commit"}

\* The rows that a request has read when it reaches a stage.
Loads(op, stage) ==
    CASE op = "login" /\ stage = "reread"                  -> {"profile"}
      [] op = "login" /\ stage \in {"flush", "flush2"}     -> {"profile", "prefs"}
      [] op = "upload" /\ stage = "reread"                 -> {"photo"}
      [] op = "upload" /\ stage \in {"flush", "flush2"}    -> {"profile", "photo"}
      [] op = "profile" /\ stage = "flush"                 -> {"profile"}
      [] op = "unphoto" /\ stage \in {"delete", "flush"}   -> {"profile"}
      [] op = "link" /\ stage = "flush"                    -> {"link"}
      [] op \in {"preferences", "theme"} /\ stage = "flush" -> {"prefs"}
      [] OTHER                                             -> {}

\* The route that may insert a row.
Inserter(k) == CASE k = "photo" -> "upload" [] k = "link" -> "link" [] OTHER -> "login"

StageOK(r) ==
    /\ pc[r] \in Stages(req[r].op)
    /\ req[r].op = "profile" => req[r].form \in Form
    /\ req[r].op = "contact" => req[r].contact \in Contact
    /\ req[r].op = "contact" /\ pc[r] = "flush" => demote[r] \in Writer
    /\ req[r].op = "uncontact" => req[r].target \in Writer
    /\ req[r].op = "preferences" => req[r].prefs \in Prefs
    /\ \A k \in Loads(req[r].op, pc[r]) : loaded[r][k] # Clean
    /\ pc[r] \in {"waiting", "lock", "done"} => \A k \in Single : loaded[r][k] = Clean
    /\ pc[r] \in {"waiting", "lock", "read", "reread", "done"} =>
           \A k \in Key : dirty[r][k] = Clean

\* A user has a profile and preferences from the first login on.
KeptOK(r) ==
    /\ req[r].op \notin {"none", "login"} => Known
    /\ req[r].op = "login" /\ pc[r] \in {"flush2", "commit"} => Visible(r, "prefs") # None
    /\ req[r].op = "login" /\ pc[r] = "commit" => Visible(r, "profile") # None
    /\ \A k \in {"profile", "prefs"} :
          /\ dirty[r][k] # None
          /\ loaded[r][k] \notin {None, Clean} => rows[k] # None

\* What was missing when a request read it is still missing, and only the route
\* that inserts it has met that.
MissingOK(r) ==
    \A k \in Single :
        /\ loaded[r][k] = None => rows[k] = None /\ req[r].op = Inserter(k)
        /\ dirty[r][k] # Clean /\ rows[k] = None => req[r].op = Inserter(k)

\* What the uncommitted versions of profile and preferences may differ in.
EditOK(r) ==
    LET old == rows["profile"]  new == dirty[r]["profile"] IN
    /\ new # Clean =>
          /\ req[r].op \in {"login", "profile", "upload", "unphoto"}
          /\ req[r].op = "login" => old = None
          /\ req[r].op = "profile" =>
                new = old \/ (old.stamp = req[r].form.stamp /\ new.avatar = old.avatar)
          /\ req[r].op \in {"upload", "unphoto"} =>
                new.name = old.name /\ new.rest = old.rest
    /\ req[r].op = "profile" /\ pc[r] = "flush" =>
          new = old /\ old.stamp = req[r].form.stamp
    /\ req[r].op = "theme" /\ dirty[r]["prefs"] # Clean =>
          dirty[r]["prefs"].rest = rows["prefs"].rest

\* A request inserts the contact that bears its name, and demotes or deletes others.
ContactOK(r) ==
    /\ rows[r] # None => pc[r] = "done"
    /\ \A k \in Writer : dirty[r][k] # Clean =>
          \/ k = r /\ req[r].op = "contact" /\ pc[r] = "commit" /\ dirty[r][k] = req[r].contact
          \/ rows[k] # None /\ dirty[r][k] \in {None, [rows[k] EXCEPT !.primary = FALSE]}
    /\ req[r].op = "contact" /\ pc[r] \notin {"lock", "read"} => Cardinality(Stored) < Limit

\* The place of a new primary contact is free.
PlaceOK(r) ==
    req[r].op = "contact" /\ req[r].contact.primary =>
       \A k \in Writer :
          /\ pc[r] = "flush" /\ rows[k] # None /\ rows[k].primary
                /\ rows[k].kind = req[r].contact.kind => k = demote[r]
          /\ pc[r] \in {"flush2", "commit"} /\ k # r /\ Visible(r, k) # None
                /\ Visible(r, k).kind = req[r].contact.kind => ~Visible(r, k).primary

RequestOK(r) == StageOK(r) /\ KeptOK(r) /\ MissingOK(r) /\ EditOK(r) /\ ContactOK(r) /\ PlaceOK(r)

\* A route's lock has one holder, who is past taking it.
LocksOK ==
    /\ \A r \in Request :
          r \in holds <=> req[r].op \in Locking /\ pc[r] # "lock"
    /\ \A p, q \in holds : req[p].op = req[q].op => p = q

\* A row has one writer.
WritersOK ==
    \A p, q \in Request, k \in Key : dirty[p][k] # Clean /\ dirty[q][k] # Clean => p = q

OnePrimary ==
    \A j, k \in Writer :
        /\ rows[j] # None /\ rows[k] # None
        /\ rows[j].primary /\ rows[k].primary /\ rows[j].kind = rows[k].kind
        => j = k

\* Everything that the rows, the locks and the stages of overlapping requests owe
\* each other: one writer per row, one holder per lock, no lost version, no insert
\* of a row that somebody else inserts, one primary contact per type.
AccountsInv ==
    /\ TypeOK /\ LocksOK /\ WritersOK
    /\ Known => rows["prefs"] # None
    /\ ContactLimit /\ OnePrimary
    /\ \A r \in Request : RequestOK(r)
=============================================================================
