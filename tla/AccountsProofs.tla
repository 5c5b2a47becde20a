--------------------------- MODULE AccountsProofs ---------------------------
(***************************************************************************)
(* Proofs about Accounts: its inductive invariant, that no committed edit  *)
(* of the profile is lost, that the theme menu changes the theme only,     *)
(* that the contact limit holds, and that profile and photo agree.         *)
(***************************************************************************)
EXTENDS Accounts, FiniteSetTheorems, TLAPS

(* Tables and what a request sees. *)

LEMMA Tables ==
    /\ Table("profile") = Profile /\ Table("prefs") = Prefs
    /\ Table("photo") = Photo /\ Table("link") = Link
    /\ \A k \in Writer : Table(k) = Contact /\ k \notin Single
    /\ \A k \in Key : Table(k) \subseteq Rows
<1>1. \A k \in Writer : k \notin Single
  BY NameAssumption
<1>2. \A k \in Writer : Table(k) = Contact
  BY <1>1 DEF Table, Single
<1>3. \A k \in Single : Table(k) \subseteq Rows
  BY DEF Table, Single, Rows
<1> QED
  BY <1>1, <1>2, <1>3 DEF Table, Key, Rows

LEMMA Names ==
    /\ Request \subseteq Writer /\ Writer \subseteq Key /\ Single \subseteq Key
    /\ \A k \in Key : None \notin Table(k) /\ Clean \notin Table(k)
    /\ None # Clean /\ None \notin Form /\ None \notin Writer
BY Tables, NameAssumption DEF Key, Writer

LEMMA RowType ==
    ASSUME TypeOK, NEW r \in Request, NEW k \in Key
    PROVE  /\ rows[k] \in Table(k) \cup {None} /\ rows[k] # Clean
           /\ dirty[r][k] \in Table(k) \cup {None, Clean}
           /\ Visible(r, k) \in Table(k) \cup {None} /\ Visible(r, k) # Clean
BY Names DEF TypeOK, RowsOK, Visible

LEMMA StoredFinite == IsFiniteSet(Writer) /\ IsFiniteSet(Stored)
<1>1. IsFiniteSet(Writer)
  BY RequestAssumption, FS_AddElement DEF Writer
<1>2. Stored \subseteq Writer
  BY DEF Stored
<1> QED
  BY <1>1, <1>2, FS_Subset

-----------------------------------------------------------------------------
(* Steps of one request. *)

\* Nobody but r moves.
Alone(r) ==
    \A q \in Request \ {r} :
        /\ pc'[q] = pc[q] /\ req'[q] = req[q] /\ loaded'[q] = loaded[q]
        /\ demote'[q] = demote[q] /\ dirty'[q] = dirty[q]

\* Neither a row nor a lock changes, and r has passed its lock.
Middle(r) ==
    /\ UNCHANGED <<rows, req, holds>>
    /\ Alone(r)
    /\ pc[r] # "lock" /\ pc'[r] # "lock"

LEMMA OthersKept ==
    ASSUME AccountsInv, NEW r \in Request, Alone(r), UNCHANGED rows, RequestOK(r)'
    PROVE  \A q \in Request : RequestOK(q)'
<1> SUFFICES ASSUME NEW q \in Request \ {r} PROVE RequestOK(q)'
  OBVIOUS
<1>1. RequestOK(q)
  BY DEF AccountsInv
<1>2. StageOK(q)' /\ KeptOK(q)' /\ MissingOK(q)'
  BY <1>1 DEF RequestOK, Alone, StageOK, KeptOK, MissingOK, Known, Visible
<1>3. EditOK(q)' /\ ContactOK(q)' /\ PlaceOK(q)'
  BY <1>1 DEF RequestOK, Alone, EditOK, ContactOK, PlaceOK, Visible, Stored
<1> QED
  BY <1>2, <1>3 DEF RequestOK

LEMMA SameTables ==
    ASSUME AccountsInv, UNCHANGED rows
    PROVE  (Known => rows["prefs"] # None)' /\ ContactLimit' /\ OnePrimary'
BY DEF AccountsInv, Known, ContactLimit, Stored, OnePrimary

LEMMA LocksFrame ==
    ASSUME LocksOK, NEW r \in Request, Middle(r)
    PROVE  LocksOK'
BY DEF LocksOK, Middle, Alone

LEMMA MiddleStep ==
    ASSUME AccountsInv, NEW r \in Request, Middle(r), TypeOK', WritersOK', RequestOK(r)'
    PROVE  AccountsInv'
<1>1. LocksOK'
  BY LocksFrame DEF AccountsInv
<1>2. (Known => rows["prefs"] # None)' /\ ContactLimit' /\ OnePrimary'
  BY SameTables DEF Middle
<1>3. \A q \in Request : RequestOK(q)'
  BY OthersKept DEF Middle
<1> QED
  BY <1>1, <1>2, <1>3 DEF AccountsInv

LEMMA WriteIs ==
    ASSUME TypeOK, NEW r \in Request, NEW k \in Key, NEW row, Write(r, k, row)
    PROVE  /\ \A q \in Request, x \in Key :
                 dirty'[q][x] = IF q = r /\ x = k THEN row ELSE dirty[q][x]
           /\ \A q \in Request \ {r} : dirty'[q] = dirty[q]
           /\ DOMAIN dirty' = Request /\ \A q \in Request : DOMAIN dirty'[q] = Key
BY DEF TypeOK, Write

LEMMA WriteType ==
    ASSUME TypeOK, NEW r \in Request, NEW k \in Key, NEW row \in Table(k) \cup {None, Clean},
           Write(r, k, row)
    PROVE  /\ DOMAIN dirty' = Request
           /\ \A q \in Request : DOMAIN dirty'[q] = Key /\ RowsOK(dirty'[q], {None, Clean})
BY WriteIs DEF TypeOK, RowsOK

LEMMA WriteAlone ==
    ASSUME TypeOK, WritersOK, NEW r \in Request, NEW k \in Key, NEW row, Write(r, k, row),
           \A q \in Request \ {r} : dirty[q][k] = Clean
    PROVE  WritersOK'
BY WriteIs DEF WritersOK

LEMMA MayWriteAlone ==
    ASSUME NEW r \in Request, NEW k \in Key, MayWrite(r, k)
    PROVE  \A q \in Request \ {r} : dirty[q][k] = Clean
BY DEF MayWrite, Holders

-----------------------------------------------------------------------------
(* Arrival, the lock and the plain SELECTs. *)

\* What a request may bring.
Sound(q) ==
    /\ q \in Input /\ q.op \in Routes
    /\ q.op = "profile" => q.form \in Form
    /\ q.op = "contact" => q.contact \in Contact
    /\ q.op = "uncontact" => q.target \in Writer
    /\ q.op = "preferences" => q.prefs \in Prefs
    /\ q.op # "login" => Known

LEMMA AtRest ==
    ASSUME AccountsInv, NEW r \in Request, pc[r] \in {"waiting", "done"}
    PROVE  /\ req[r].op = "none" /\ r \notin holds
           /\ \A k \in Single : loaded[r][k] = Clean
           /\ \A k \in Key : dirty[r][k] = Clean
<1>1. RequestOK(r) /\ req[r] \in Input
  BY DEF AccountsInv, TypeOK
<1>2. req[r].op \in Routes \cup {"none"} /\ pc[r] \in Stages(req[r].op)
  BY <1>1 DEF Input, RequestOK, StageOK
<1>3. req[r].op = "none"
  BY <1>2 DEF Stages, Routes, Locking
<1> QED
  BY <1>1, <1>3 DEF RequestOK, StageOK, AccountsInv, LocksOK, Locking

LEMMA StartStep ==
    ASSUME AccountsInv, NEW r \in Request, NEW q, Sound(q), Start(r, q)
    PROVE  AccountsInv'
<1> DEFINE stage == IF q.op \in Locking THEN "lock"
                    ELSE IF q.op \in {"uncontact", "unlink"} THEN "delete" ELSE "read"
<1>1. /\ pc[r] = "waiting" /\ pc' = [pc EXCEPT ![r] = stage]
      /\ req' = [req EXCEPT ![r] = q]
      /\ UNCHANGED <<rows, forms, holds, loaded, demote, dirty>>
  BY DEF Start, Goto
<1>2. /\ req[r].op = "none" /\ r \notin holds
      /\ \A k \in Single : loaded[r][k] = Clean
      /\ \A k \in Key : dirty[r][k] = Clean
  BY <1>1, AtRest
<1>3. TypeOK
  BY DEF AccountsInv
<1>4. pc'[r] = stage /\ req'[r] = q /\ Alone(r)
  BY <1>1, <1>3 DEF TypeOK, Alone
<1>5. TypeOK'
  <2>1. pc' \in [Request -> Stage] /\ req' \in [Request -> Input]
    BY <1>1, <1>3 DEF TypeOK, Stage, Sound
  <2> QED
    BY <1>1, <1>3, <2>1 DEF TypeOK, RowsOK
<1>6. StageOK(r)'
  <2>1. stage \in Stages(q.op) /\ Loads(q.op, stage) = {}
    BY DEF Sound, Stages, Loads, Routes, Locking
  <2>2. q.op = "contact" => stage = "lock"
    BY DEF Locking
  <2> HIDE DEF stage
  <2> QED
    BY <1>1, <1>2, <1>4, <2>1, <2>2 DEF StageOK, Sound
<1>7. KeptOK(r)' /\ MissingOK(r)' /\ EditOK(r)'
  <2>1. stage \notin {"flush", "flush2", "commit"}
    OBVIOUS
  <2>2. q.op \notin {"none", "login"} => rows["profile"] # None
    BY DEF Sound, Known
  <2> HIDE DEF stage
  <2>3. KeptOK(r)'
    BY <1>1, <1>2, <1>4, <2>1, <2>2, Names DEF KeptOK, Known, Single, Key
  <2>4. MissingOK(r)' /\ EditOK(r)'
    BY <1>1, <1>2, <1>4, <2>1, Names DEF MissingOK, EditOK, Single, Key
  <2> QED
    BY <2>3, <2>4
<1>8. ContactOK(r)' /\ PlaceOK(r)'
  <2>1. rows[r] = None
    BY <1>1 DEF AccountsInv, RequestOK, ContactOK
  <2>2. /\ stage # "flush" /\ stage # "flush2" /\ stage # "commit"
        /\ q.op = "contact" => stage = "lock"
    BY DEF Locking
  <2> HIDE DEF stage
  <2> QED
    BY <1>1, <1>2, <1>4, <2>1, <2>2, Names DEF ContactOK, PlaceOK
<1>9. LocksOK'
  <2>1. stage = "lock" <=> q.op \in Locking
    OBVIOUS
  <2>2. LocksOK
    BY DEF AccountsInv
  <2> HIDE DEF stage
  <2> QED
    BY <1>1, <1>2, <1>4, <2>1, <2>2 DEF LocksOK, Alone
<1>10. WritersOK'
  BY <1>1 DEF AccountsInv, WritersOK
<1>11. (Known => rows["prefs"] # None)' /\ ContactLimit' /\ OnePrimary'
  BY <1>1, SameTables
<1>12. \A p \in Request : RequestOK(p)'
  BY <1>1, <1>4, <1>6, <1>7, <1>8, OthersKept DEF RequestOK
<1> QED
  BY <1>5, <1>9, <1>10, <1>11, <1>12 DEF AccountsInv

LEMMA ArriveStep ==
    ASSUME AccountsInv, NEW r \in Request, Arrive(r)
    PROVE  AccountsInv'
<1> USE NameAssumption
<1>1. CASE StartLogin(r)
  <2> DEFINE q == [NoInput EXCEPT !.op = "login"]
  <2>1. Sound(q)
    BY DEF NoInput, Sound, Input, NullOr, Routes, Locking
  <2> QED
    BY <1>1, <2>1, StartStep DEF StartLogin
<1>2. CASE StartProfile(r)
  <2>1. PICK form \in forms, typed \in SUBSET {"name", "rest"} : StartProfile(r)!(form, typed)
    BY <1>2 DEF StartProfile
  <2>2. form \in Form
    BY DEF AccountsInv, TypeOK
  <2> DEFINE back == [stamp |-> form.stamp,
                      name |-> IF "name" \in typed THEN r ELSE form.name,
                      rest |-> IF "rest" \in typed THEN r ELSE form.rest]
             q == [NoInput EXCEPT !.op = "profile", !.form = back]
  <2>3. back \in Form
    BY <2>2, Names DEF Form
  <2> HIDE DEF back
  <2>4. Sound(q)
    BY <2>1, <2>3 DEF NoInput, Sound, Input, NullOr, Routes, Locking
  <2>5. Start(r, q)
    BY <2>1 DEF back
  <2> QED
    BY <2>4, <2>5, StartStep
<1>3. CASE StartPhoto(r)
  <2>1. PICK op \in {"upload", "unphoto"} : Known /\ Start(r, [NoInput EXCEPT !.op = op])
    BY <1>3 DEF StartPhoto
  <2>2. Sound([NoInput EXCEPT !.op = op])
    BY <2>1 DEF NoInput, Sound, Input, NullOr, Routes, Locking
  <2> QED
    BY <2>1, <2>2, StartStep
<1>4. CASE StartContact(r)
  <2>1. PICK c \in [kind : Kind, value : {r, Before}, primary : BOOLEAN] :
           Known /\ Start(r, [NoInput EXCEPT !.op = "contact", !.contact = c])
    BY <1>4 DEF StartContact
  <2>2. c \in Contact
    BY DEF Contact, Writer
  <2>3. Sound([NoInput EXCEPT !.op = "contact", !.contact = c])
    BY <2>1, <2>2 DEF NoInput, Sound, Input, NullOr, Routes, Locking
  <2> QED
    BY <2>1, <2>3, StartStep
<1>5. CASE StartLink(r)
  <2>1. Sound([NoInput EXCEPT !.op = "link"])
    BY <1>5 DEF StartLink, NoInput, Sound, Input, NullOr, Routes, Locking
  <2> QED
    BY <1>5, <2>1, StartStep DEF StartLink
<1>6. CASE StartDelete(r)
  <2>1. ASSUME NEW k \in Writer, Known, rows[k] # None,
               Start(r, [NoInput EXCEPT !.op = "uncontact", !.target = k])
        PROVE  AccountsInv'
    <3>2. Sound([NoInput EXCEPT !.op = "uncontact", !.target = k])
      BY <2>1 DEF NoInput, Sound, Input, NullOr, Routes, Locking
    <3> QED
      BY <2>1, <3>2, StartStep
  <2>2. ASSUME Known, rows["link"] # None,
               Start(r, [NoInput EXCEPT !.op = "unlink", !.target = rows["link"].id])
        PROVE  AccountsInv'
    <3>2. rows["link"] \in Link
      BY <2>2, RowType, Tables DEF AccountsInv, Single, Key
    <3>3. rows["link"].id \in Writer
      BY <3>2 DEF Link
    <3>4. Sound([NoInput EXCEPT !.op = "unlink", !.target = rows["link"].id])
      BY <2>2, <3>3 DEF NoInput, Sound, Input, NullOr, Routes, Locking
    <3> QED
      BY <2>2, <3>4, StartStep
  <2> QED
    BY <1>6, <2>1, <2>2 DEF StartDelete
<1>7. CASE StartPreferences(r)
  <2>1. PICK theme \in {r, rows["prefs"].theme}, rest \in {r, rows["prefs"].rest} :
           Start(r, [NoInput EXCEPT !.op = "preferences",
                     !.prefs = [theme |-> theme, rest |-> rest]])
    BY <1>7 DEF StartPreferences
  <2>2. Known /\ rows["prefs"] \in Prefs
    BY <1>7, RowType, Tables DEF AccountsInv, StartPreferences, Single, Key
  <2>3. [theme |-> theme, rest |-> rest] \in Prefs
    BY <2>2, Names DEF Prefs
  <2>4. Sound([NoInput EXCEPT !.op = "preferences", !.prefs = [theme |-> theme, rest |-> rest]])
    BY <2>2, <2>3 DEF NoInput, Sound, Input, NullOr, Routes, Locking
  <2> QED
    BY <2>1, <2>4, StartStep
<1>8. CASE StartTheme(r)
  <2>1. Sound([NoInput EXCEPT !.op = "theme"])
    BY <1>8 DEF StartTheme, NoInput, Sound, Input, NullOr, Routes, Locking
  <2> QED
    BY <1>8, <2>1, StartStep DEF StartTheme
<1> QED
  BY <1>1, <1>2, <1>3, <1>4, <1>5, <1>6, <1>7, <1>8 DEF Arrive

LEMMA LockStep ==
    ASSUME AccountsInv, NEW r \in Request, AcquireLock(r)
    PROVE  AccountsInv'
<1>1. /\ pc[r] = "lock" /\ pc' = [pc EXCEPT ![r] = "read"] /\ holds' = holds \cup {r}
      /\ \A q \in holds : req[q].op # req[r].op
      /\ UNCHANGED <<rows, forms, req, loaded, demote, dirty>>
  BY DEF AcquireLock, Goto
<1>2. TypeOK /\ RequestOK(r)
  BY DEF AccountsInv
<1>3. pc'[r] = "read" /\ Alone(r)
  BY <1>1, <1>2 DEF TypeOK, Alone
<1>4. req[r] \in Input /\ pc[r] \in Stages(req[r].op)
  BY <1>2 DEF TypeOK, RequestOK, StageOK
<1>5. req[r].op \in Locking /\ "read" \in Stages(req[r].op) /\ Loads(req[r].op, "read") = {}
  BY <1>1, <1>4 DEF Input, Routes, Locking, Stages, Loads
<1>6. TypeOK'
  BY <1>1, <1>2 DEF TypeOK, RowsOK, Stage
<1>7. StageOK(r)' /\ KeptOK(r)' /\ MissingOK(r)' /\ EditOK(r)'
  BY <1>1, <1>2, <1>3, <1>5
     DEF RequestOK, StageOK, KeptOK, MissingOK, EditOK, Known, Visible
<1>8. ContactOK(r)' /\ PlaceOK(r)'
  BY <1>1, <1>2, <1>3 DEF RequestOK, ContactOK, PlaceOK, Stored, Visible
<1>9. LocksOK'
  BY <1>1, <1>3, <1>5 DEF AccountsInv, LocksOK, Alone
<1>10. WritersOK'
  BY <1>1 DEF AccountsInv, WritersOK
<1>11. \A p \in Request : RequestOK(p)'
  BY <1>1, <1>3, <1>7, <1>8, OthersKept DEF RequestOK
<1> QED
  BY <1>1, <1>6, <1>9, <1>10, <1>11, SameTables DEF AccountsInv

\* The stages of a request that reads, by its route.
LEMMA Reading ==
    ASSUME AccountsInv, NEW r \in Request, Read(r)
    PROVE  LET op == req[r].op
               k  == IF pc[r] = "read" THEN FirstRead(op) ELSE SecondRead(op)
               st == IF pc[r] = "read" /\ op \in {"login", "upload"} THEN "reread"
                     ELSE IF op = "unphoto" THEN "delete" ELSE "flush"
           IN  /\ \/ op = "login" /\ pc[r] = "read" /\ k = "profile" /\ st = "reread"
                  \/ op = "login" /\ pc[r] = "reread" /\ k = "prefs" /\ st = "flush"
                  \/ op = "upload" /\ pc[r] = "read" /\ k = "photo" /\ st = "reread"
                  \/ op = "upload" /\ pc[r] = "reread" /\ k = "profile" /\ st = "flush"
                  \/ op = "unphoto" /\ pc[r] = "read" /\ k = "profile" /\ st = "delete"
                  \/ op = "link" /\ pc[r] = "read" /\ k = "link" /\ st = "flush"
                  \/ op \in {"preferences", "theme"} /\ pc[r] = "read" /\ k = "prefs"
                        /\ st = "flush"
               /\ loaded' = [loaded EXCEPT ![r][k] = Visible(r, k)]
               /\ pc' = [pc EXCEPT ![r] = st]
               /\ UNCHANGED <<rows, forms, req, holds, demote, dirty>>
<1> DEFINE op == req[r].op
<1>1. pc[r] \in Stages(op) /\ op \in Routes \cup {"none"}
  BY DEF AccountsInv, TypeOK, Input, RequestOK, StageOK
<1>2. pc[r] \in {"read", "reread"} /\ op \notin {"profile", "contact"}
  BY DEF Read
<1>3. \/ op \in {"login", "upload"}
      \/ op \in {"unphoto", "link", "preferences", "theme"} /\ pc[r] = "read"
  BY <1>1, <1>2 DEF Routes, Locking, Stages
<1> HIDE DEF op
<1>4. /\ FirstRead("login") = "profile" /\ FirstRead("unphoto") = "profile"
      /\ FirstRead("upload") = "photo" /\ FirstRead("link") = "link"
      /\ FirstRead("preferences") = "prefs" /\ FirstRead("theme") = "prefs"
      /\ SecondRead("login") = "prefs" /\ SecondRead("upload") = "profile"
  BY DEF FirstRead, SecondRead
<1>5. /\ loaded' = [loaded EXCEPT ![r][IF pc[r] = "read" THEN FirstRead(op)
                                       ELSE SecondRead(op)] =
                       Visible(r, IF pc[r] = "read" THEN FirstRead(op) ELSE SecondRead(op))]
      /\ pc' = [pc EXCEPT ![r] = IF pc[r] = "read" /\ op \in {"login", "upload"} THEN "reread"
                     ELSE IF op = "unphoto" THEN "delete" ELSE "flush"]
      /\ UNCHANGED <<rows, forms, req, holds, demote, dirty>>
  BY DEF Read, Goto, op
<1> QED
  BY <1>2, <1>3, <1>4, <1>5 DEF op

LEMMA ReadStep ==
    ASSUME AccountsInv, NEW r \in Request, Read(r)
    PROVE  AccountsInv'
<1> DEFINE op == req[r].op
<1>1. PICK k \in Single, st \in Stage :
         /\ \/ op = "login" /\ pc[r] = "read" /\ k = "profile" /\ st = "reread"
            \/ op = "login" /\ pc[r] = "reread" /\ k = "prefs" /\ st = "flush"
            \/ op = "upload" /\ pc[r] = "read" /\ k = "photo" /\ st = "reread"
            \/ op = "upload" /\ pc[r] = "reread" /\ k = "profile" /\ st = "flush"
            \/ op = "unphoto" /\ pc[r] = "read" /\ k = "profile" /\ st = "delete"
            \/ op = "link" /\ pc[r] = "read" /\ k = "link" /\ st = "flush"
            \/ op \in {"preferences", "theme"} /\ pc[r] = "read" /\ k = "prefs" /\ st = "flush"
         /\ loaded' = [loaded EXCEPT ![r][k] = Visible(r, k)]
         /\ pc' = [pc EXCEPT ![r] = st]
         /\ UNCHANGED <<rows, forms, req, holds, demote, dirty>>
  BY Reading DEF Single, Stage
<1>2. TypeOK /\ RequestOK(r) /\ k \in Key
  BY DEF AccountsInv, Key
<1>3. pc[r] \in {"read", "reread"} /\ op \notin {"none", "contact", "profile"}
  BY <1>1
<1>4. Visible(r, k) = rows[k]
  BY <1>2, <1>3 DEF RequestOK, StageOK, Visible
<1>5. /\ pc'[r] = st
      /\ \A x \in Single : loaded'[r][x] = IF x = k THEN rows[k] ELSE loaded[r][x]
      /\ DOMAIN loaded' = Request /\ DOMAIN loaded'[r] = Single
      /\ Alone(r)
  BY <1>1, <1>2, <1>4 DEF TypeOK, Alone
<1>6. Middle(r)
  BY <1>1, <1>5 DEF Middle
<1>7. TypeOK'
  <2>1. rows[k] \in Table(k) \cup {None}
    BY <1>2, RowType
  <2>2. pc' \in [Request -> Stage]
    BY <1>1, <1>2 DEF TypeOK
  <2>3. \A q \in Request : /\ DOMAIN loaded'[q] = Single
                           /\ \A x \in Single : loaded'[q][x] \in Table(x) \cup {None, Clean}
    BY <1>2, <1>5, <2>1 DEF TypeOK, Alone
  <2> QED
    BY <1>1, <1>2, <1>5, <2>2, <2>3 DEF TypeOK, RowsOK
<1>8. rows[k] # Clean
  BY <1>2, RowType
<1>9. /\ k = "profile" => op = "login" \/ rows[k] # None
      /\ k = "prefs" => op = "login" \/ rows[k] # None
  BY <1>1, <1>2, <1>3 DEF RequestOK, KeptOK, Known, AccountsInv
<1>10. StageOK(r)'
  <2>1. st \in Stages(op)
    BY <1>1 DEF Stages
  <2>2. \A x \in Loads(op, st) : x = k \/ x \in Loads(op, pc[r])
    BY <1>1 DEF Loads
  <2>3. \A x \in Loads(op, st) : x \in Single
    BY DEF Loads, Single
  <2>4. \A x \in Loads(op, st) : loaded'[r][x] # Clean
    BY <1>2, <1>5, <1>8, <2>2, <2>3 DEF RequestOK, StageOK
  <2>5. st \notin {"waiting", "lock", "done"}
    BY <1>1
  <2>6. \A x \in Key : dirty'[r][x] = Clean
    BY <1>1, <1>2, <1>3 DEF RequestOK, StageOK
  <2>7. req' = req /\ demote' = demote
    BY <1>1
  <2> QED
    BY <1>2, <1>3, <1>5, <2>1, <2>4, <2>5, <2>6, <2>7 DEF RequestOK, StageOK
<1>11. KeptOK(r)'
  <2>1. st \notin {"flush2", "commit"} /\ req' = req /\ rows' = rows /\ dirty' = dirty
    BY <1>1
  <2> QED
    BY <1>2, <1>5, <2>1 DEF RequestOK, KeptOK, Known, Single
<1>12. MissingOK(r)'
  <2>1. rows[k] = None => op = Inserter(k)
    BY <1>1, <1>9 DEF Inserter
  <2>2. req' = req /\ rows' = rows /\ dirty' = dirty
    BY <1>1
  <2> QED
    BY <1>2, <1>5, <2>1, <2>2 DEF RequestOK, MissingOK
<1>13. EditOK(r)' /\ ContactOK(r)' /\ PlaceOK(r)'
  BY <1>1, <1>2, <1>3, <1>5 DEF RequestOK, EditOK, ContactOK, PlaceOK, Stored, Visible
<1>14. WritersOK'
  BY <1>1 DEF AccountsInv, WritersOK
<1> QED
  BY <1>6, <1>7, <1>10, <1>11, <1>12, <1>13, <1>14, MiddleStep DEF RequestOK

-----------------------------------------------------------------------------
(* The SELECTs of update_profile and add_contact. *)

LEMMA SelectStep ==
    ASSUME AccountsInv, NEW r \in Request, SelectProfile(r)
    PROVE  AccountsInv'
<1> DEFINE row  == rows["profile"]
           form == req[r].form
<1>1. /\ pc[r] = "read" /\ req[r].op = "profile"
      /\ MayWrite(r, "profile") /\ Write(r, "profile", row)
      /\ loaded' = [loaded EXCEPT ![r]["profile"] = row]
      /\ UNCHANGED <<rows, req, holds, demote>>
  BY DEF SelectProfile, LockProfile
<1>2. PICK st \in {"flush", "commit"} :
         /\ pc' = [pc EXCEPT ![r] = st]
         /\ st = "flush" => row.stamp = form.stamp /\ forms' = forms
         /\ st = "commit" => forms' = forms \cup {[FormOf(row) EXCEPT !.name = form.name]}
  BY DEF SelectProfile, Goto
<1>3. TypeOK /\ RequestOK(r) /\ "profile" \in Key /\ "profile" \in Single
  BY DEF AccountsInv, Key, Single
<1>4. row \in Profile /\ row # None /\ row # Clean
  BY <1>1, <1>3, RowType, Tables, Names DEF RequestOK, KeptOK, Known
<1>5. form \in Form
  BY <1>1, <1>3 DEF RequestOK, StageOK
<1>6. /\ pc'[r] = st
      /\ \A x \in Single : loaded'[r][x] = IF x = "profile" THEN row ELSE loaded[r][x]
      /\ DOMAIN loaded' = Request /\ DOMAIN loaded'[r] = Single
      /\ \A x \in Key : dirty'[r][x] = IF x = "profile" THEN row ELSE Clean
      /\ Alone(r)
  <2>1. pc'[r] = st /\ \A q \in Request \ {r} : pc'[q] = pc[q]
    BY <1>2, <1>3 DEF TypeOK
  <2>2. /\ \A x \in Single : loaded'[r][x] = IF x = "profile" THEN row ELSE loaded[r][x]
        /\ DOMAIN loaded' = Request /\ DOMAIN loaded'[r] = Single
        /\ \A q \in Request \ {r} : loaded'[q] = loaded[q]
    BY <1>1, <1>3 DEF TypeOK
  <2>3. \A x \in Key : dirty[r][x] = Clean
    BY <1>1, <1>3 DEF RequestOK, StageOK
  <2>4. /\ \A x \in Key : dirty'[r][x] = IF x = "profile" THEN row ELSE Clean
        /\ \A q \in Request \ {r} : dirty'[q] = dirty[q]
    BY <1>1, <1>3, <2>3, WriteIs
  <2> QED
    BY <1>1, <2>1, <2>2, <2>4 DEF Alone
<1>7. Middle(r)
  BY <1>1, <1>2, <1>6 DEF Middle
<1>8. TypeOK'
  <2>1. [FormOf(row) EXCEPT !.name = form.name] \in Form
    BY <1>4, <1>5 DEF FormOf, Form, Profile
  <2>2. forms' \subseteq Form
    BY <1>2, <1>3, <2>1 DEF TypeOK
  <2>3. pc' \in [Request -> Stage]
    BY <1>2, <1>3 DEF TypeOK, Stage
  <2>4. \A q \in Request : /\ DOMAIN loaded'[q] = Single
                           /\ \A x \in Single : loaded'[q][x] \in Table(x) \cup {None, Clean}
    BY <1>3, <1>4, <1>6, Tables DEF TypeOK, Alone
  <2>5. /\ DOMAIN dirty' = Request
        /\ \A q \in Request : DOMAIN dirty'[q] = Key /\ RowsOK(dirty'[q], {None, Clean})
    BY <1>1, <1>3, <1>4, Tables, WriteType
  <2> QED
    BY <1>1, <1>3, <1>6, <2>2, <2>3, <2>4, <2>5 DEF TypeOK
<1>9. WritersOK'
  BY <1>1, <1>3, MayWriteAlone, WriteAlone DEF AccountsInv
<1>10. StageOK(r)'
  <2>1. st \in Stages("profile") /\ Loads("profile", st) \subseteq {"profile"}
    BY <1>2 DEF Stages, Loads
  <2> QED
    BY <1>1, <1>2, <1>3, <1>4, <1>5, <1>6, <2>1 DEF RequestOK, StageOK
<1>11. KeptOK(r)'
  BY <1>1, <1>3, <1>4, <1>6, Names DEF RequestOK, KeptOK, Known, Single, Key
<1>12. MissingOK(r)'
  BY <1>1, <1>3, <1>4, <1>6, Names DEF RequestOK, MissingOK, Key
<1>13. EditOK(r)'
  BY <1>1, <1>2, <1>3, <1>4, <1>6 DEF RequestOK, EditOK
<1>14. ContactOK(r)' /\ PlaceOK(r)'
  BY <1>1, <1>3, <1>6, Names, Tables DEF RequestOK, ContactOK, PlaceOK, Stored
<1> QED
  BY <1>7, <1>8, <1>9, <1>10, <1>11, <1>12, <1>13, <1>14, MiddleStep DEF RequestOK

\* A request that has not written sees the committed contacts.
LEMMA SeesStored ==
    ASSUME AccountsInv, NEW r \in Request, pc[r] \in {"read", "reread"}
    PROVE  /\ Contacts(r) = Stored
           /\ \A k \in Key : Visible(r, k) = rows[k] /\ dirty[r][k] = Clean
<1>1. \A k \in Key : dirty[r][k] = Clean
  BY DEF AccountsInv, RequestOK, StageOK
<1> QED
  BY <1>1, Names DEF Contacts, Stored, Visible

LEMMA CountStep ==
    ASSUME AccountsInv, NEW r \in Request, CountContacts(r)
    PROVE  AccountsInv'
<1>1. PICK st \in {"reread", "flush2"} :
         /\ pc[r] = "read" /\ req[r].op = "contact"
         /\ Cardinality(Contacts(r)) < Limit
         /\ pc' = [pc EXCEPT ![r] = st]
         /\ st = "flush2" => ~req[r].contact.primary
         /\ UNCHANGED <<rows, forms, req, holds, loaded, demote, dirty>>
  BY DEF CountContacts, Goto
<1>2. TypeOK /\ RequestOK(r)
  BY DEF AccountsInv
<1>3. pc'[r] = st /\ Alone(r) /\ Middle(r)
  BY <1>1, <1>2 DEF TypeOK, Alone, Middle
<1>4. TypeOK' /\ WritersOK'
  BY <1>1, <1>2 DEF TypeOK, RowsOK, Stage, AccountsInv, WritersOK
<1>5. Cardinality(Stored) < Limit /\ \A k \in Key : dirty[r][k] = Clean
  BY <1>1, SeesStored
<1>6. StageOK(r)'
  <2>1. st \in Stages("contact") /\ Loads("contact", st) = {}
    BY DEF Stages, Loads
  <2> QED
    BY <1>1, <1>2, <1>3, <1>5, <2>1 DEF RequestOK, StageOK
<1>7. KeptOK(r)' /\ MissingOK(r)' /\ EditOK(r)'
  BY <1>1, <1>2, <1>3 DEF RequestOK, KeptOK, MissingOK, EditOK, Known, Visible
<1>8. ContactOK(r)' /\ PlaceOK(r)'
  BY <1>1, <1>2, <1>3, <1>5, Names DEF RequestOK, ContactOK, PlaceOK, Stored
<1> QED
  BY <1>3, <1>4, <1>6, <1>7, <1>8, MiddleStep DEF RequestOK

LEMMA FindStep ==
    ASSUME AccountsInv, NEW r \in Request, FindPrimary(r)
    PROVE  AccountsInv'
<1> DEFINE c == req[r].contact
           found == {k \in Contacts(r) : Visible(r, k).kind = c.kind /\ Visible(r, k).primary}
<1>1. /\ pc[r] = "reread" /\ req[r].op = "contact"
      /\ UNCHANGED <<rows, forms, req, holds, loaded, dirty>>
      /\ \/ found = {} /\ pc' = [pc EXCEPT ![r] = "flush2"] /\ demote' = demote
         \/ \E k \in found : /\ demote' = [demote EXCEPT ![r] = k]
                             /\ pc' = [pc EXCEPT ![r] = "flush"]
  BY DEF FindPrimary, Goto
<1>2. TypeOK /\ RequestOK(r) /\ OnePrimary
  BY DEF AccountsInv
<1>3. /\ Contacts(r) = Stored
      /\ \A k \in Key : Visible(r, k) = rows[k] /\ dirty[r][k] = Clean
  BY <1>1, SeesStored
<1>4. \A k \in found : /\ k \in Writer /\ rows[k] # None
                       /\ rows[k].kind = c.kind /\ rows[k].primary
  BY <1>3, Names DEF Stored
<1>5. \A k \in Writer : rows[k] # None /\ rows[k].kind = c.kind /\ rows[k].primary => k \in found
  BY <1>3, Names DEF Stored
<1>6. PICK st \in {"flush", "flush2"} :
         /\ pc'[r] = st
         /\ st = "flush" => demote'[r] \in found
         /\ st = "flush2" => found = {}
  BY <1>1, <1>2 DEF TypeOK
<1> HIDE DEF found
<1>7. Alone(r) /\ Middle(r)
  BY <1>1, <1>2, <1>6 DEF TypeOK, Alone, Middle
<1>8. TypeOK' /\ WritersOK'
  <2>1. pc' \in [Request -> Stage] /\ demote' \in [Request -> NullOr(Writer)]
    BY <1>1, <1>2, <1>4 DEF TypeOK, Stage, NullOr
  <2> QED
    BY <1>1, <1>2, <2>1 DEF TypeOK, RowsOK, AccountsInv, WritersOK
<1>9. StageOK(r)'
  <2>1. st \in Stages("contact") /\ Loads("contact", st) = {}
    BY DEF Stages, Loads
  <2> QED
    BY <1>1, <1>2, <1>3, <1>4, <1>6, <2>1 DEF RequestOK, StageOK
<1>10. KeptOK(r)' /\ MissingOK(r)' /\ EditOK(r)'
  BY <1>1, <1>2, <1>6 DEF RequestOK, KeptOK, MissingOK, EditOK, Known, Visible
<1>11. ContactOK(r)'
  BY <1>1, <1>2, <1>3, <1>6, Names DEF RequestOK, ContactOK, Stored
<1>12. PlaceOK(r)'
  <2>1. \A k \in Writer : Visible(r, k)' = rows[k]
    BY <1>1, <1>3, Names DEF Visible
  <2>2. ASSUME NEW k \in Writer, st = "flush", rows[k] # None, rows[k].primary,
               rows[k].kind = c.kind
        PROVE  k = demote'[r]
    BY <1>2, <1>4, <1>5, <1>6, <2>2 DEF OnePrimary
  <2>3. ASSUME NEW k \in Writer, st = "flush2", rows[k] # None, rows[k].kind = c.kind
        PROVE  ~rows[k].primary
    BY <1>5, <1>6, <2>3
  <2> QED
    BY <1>1, <1>6, <2>1, <2>2, <2>3 DEF PlaceOK
<1> QED
  BY <1>7, <1>8, <1>9, <1>10, <1>11, <1>12, MiddleStep DEF RequestOK

-----------------------------------------------------------------------------
(* The flush of the ORM. *)

\* The row that a stage of a route flushes has been read by then.
LEMMA Flushing ==
    ASSUME AccountsInv, NEW r \in Request, pc[r] \in {"flush", "flush2"}, req[r].op # "contact"
    PROVE  LET op == req[r].op
               k  == FlushKey(r)
               st == IF pc[r] = "flush" /\ op \in {"login", "upload"} THEN "flush2" ELSE "commit"
           IN  /\ \/ op = "login" /\ pc[r] = "flush" /\ k = "prefs" /\ st = "flush2"
                  \/ op = "login" /\ pc[r] = "flush2" /\ k = "profile" /\ st = "commit"
                  \/ op = "upload" /\ pc[r] = "flush" /\ k = "profile" /\ st = "flush2"
                  \/ op = "upload" /\ pc[r] = "flush2" /\ k = "photo" /\ st = "commit"
                  \/ op \in {"profile", "unphoto"} /\ pc[r] = "flush" /\ k = "profile"
                        /\ st = "commit"
                  \/ op = "link" /\ pc[r] = "flush" /\ k = "link" /\ st = "commit"
                  \/ op \in {"preferences", "theme"} /\ pc[r] = "flush" /\ k = "prefs"
                        /\ st = "commit"
               /\ k \in Single /\ k \in Key
               /\ loaded[r][k] \in Table(k) \cup {None}
<1> DEFINE op == req[r].op
           k  == FlushKey(r)
<1>1. pc[r] \in Stages(op) /\ op \in Routes \cup {"none"}
  BY DEF AccountsInv, TypeOK, Input, RequestOK, StageOK
<1>2. \/ op \in {"login", "upload"}
      \/ op \in {"profile", "unphoto", "link", "preferences", "theme"} /\ pc[r] = "flush"
  BY <1>1 DEF Routes, Locking, Stages
<1>3. /\ op = "login" => k = IF pc[r] = "flush" THEN "prefs" ELSE "profile"
      /\ op = "upload" => k = IF pc[r] = "flush" THEN "profile" ELSE "photo"
      /\ op \in {"profile", "unphoto"} => k = "profile"
      /\ op = "link" => k = "link"
      /\ op \in {"preferences", "theme"} => k = "prefs"
  BY DEF FlushKey
<1> HIDE DEF k
<1>4. k \in Single /\ k \in Key
  BY <1>2, <1>3 DEF Single, Key
<1>5. k \in Loads(op, pc[r])
  BY <1>2, <1>3 DEF Loads
<1>6. loaded[r][k] \in Table(k) \cup {None}
  BY <1>4, <1>5 DEF AccountsInv, RequestOK, StageOK, TypeOK
<1> QED
  BY <1>2, <1>3, <1>4, <1>6 DEF k

LEMMA InsertedType ==
    ASSUME NEW r \in Request, NEW k \in Single
    PROVE  Inserted(r, k) \in Table(k)
<1>1. r \in Writer
  BY DEF Writer
<1>2. k = "profile" => Inserted(r, k) \in Profile
  BY <1>1 DEF Inserted, Profile, NullOr
<1>3. k = "prefs" => Inserted(r, k) \in Prefs
  BY <1>1 DEF Inserted, Prefs
<1>4. k = "photo" => Inserted(r, k) \in Photo
  BY <1>1 DEF Inserted, Photo
<1>5. k = "link" => Inserted(r, k) \in Link
  BY <1>1 DEF Inserted, Link
<1> QED
  BY <1>2, <1>3, <1>4, <1>5, Tables DEF Single

\* What a flush makes of the row that it finds.
LEMMA UpdatedRow ==
    ASSUME AccountsInv, NEW r \in Request, pc[r] \in {"flush", "flush2"}, req[r].op # "contact",
           ~Unchanged(r, FlushKey(r)), loaded[r][FlushKey(r)] # None,
           NEW v \in Table(FlushKey(r))
    PROVE  LET op  == req[r].op
               k   == FlushKey(r)
               row == Updated(r, k, v)
           IN  /\ row \in Table(k)
               /\ op = "profile" => row.avatar = v.avatar
               /\ op \in {"upload", "unphoto"} /\ k = "profile" =>
                     row.name = v.name /\ row.rest = v.rest
               /\ op = "theme" => row.rest = v.rest
<1> DEFINE op  == req[r].op
           k   == FlushKey(r)
           row == Updated(r, k, v)
<1>1. /\ \/ op = "upload" /\ k \in {"profile", "photo"}
         \/ op \in {"profile", "unphoto"} /\ k = "profile"
         \/ op = "link" /\ k = "link"
         \/ op \in {"preferences", "theme"} /\ k = "prefs"
      /\ loaded[r][k] \in Table(k)
  <2>1. op # "login"
    BY DEF Unchanged
  <2> QED
    BY <2>1, Flushing
<1>2. r \in Writer /\ TypeOK /\ StageOK(r)
  BY DEF Writer, AccountsInv, RequestOK
<1> HIDE DEF k
<1>3. CASE op = "profile"
  <2>1. row = [name |-> req[r].form.name, rest |-> req[r].form.rest,
               avatar |-> v.avatar, stamp |-> r]
    <3>1. k = "profile"
      BY <1>1, <1>3
    <3> QED
      BY <1>3, <3>1 DEF Updated
  <2>2. req[r].form \in Form /\ v \in Profile /\ k = "profile"
    BY <1>1, <1>2, <1>3, Tables DEF StageOK, k
  <2>3. row \in Profile /\ row.avatar = v.avatar
    BY <1>2, <2>1, <2>2 DEF Form, Profile
  <2> QED
    BY <1>3, <2>2, <2>3, Tables DEF k
<1>4. CASE op = "upload" /\ k = "profile"
  <2>1. row = [v EXCEPT !.avatar = r, !.stamp = r]
    BY <1>4 DEF Updated
  <2>2. v \in Profile
    BY <1>4, Tables DEF k
  <2>3. row \in Profile /\ row.name = v.name /\ row.rest = v.rest
    BY <1>2, <2>1, <2>2 DEF Profile, NullOr
  <2> QED
    BY <1>4, <2>3, Tables DEF k
<1>5. CASE op = "unphoto"
  <2>1. row = [v EXCEPT !.avatar = None, !.stamp = r]
    <3>1. k = "profile"
      BY <1>1, <1>5
    <3> QED
      BY <1>5, <3>1 DEF Updated
  <2>2. v \in Profile /\ k = "profile"
    BY <1>1, <1>5, Tables DEF k
  <2>3. row \in Profile /\ row.name = v.name /\ row.rest = v.rest
    BY <1>2, <2>1, <2>2 DEF Profile, NullOr
  <2> QED
    BY <1>5, <2>2, <2>3, Tables DEF k
<1>6. CASE op = "upload" /\ k = "photo"
  <2>1. row = [v EXCEPT !.key = r] /\ v \in Photo
    BY <1>6, Tables DEF Updated, k
  <2>2. row \in Photo
    BY <1>2, <2>1 DEF Photo
  <2> QED
    BY <1>6, <2>2, Tables DEF k
<1>7. CASE op = "link"
  <2>1. row = [v EXCEPT !.url = r] /\ v \in Link /\ k = "link"
    BY <1>1, <1>7, Tables DEF Updated, k
  <2>2. row \in Link
    BY <1>2, <2>1 DEF Link
  <2> QED
    BY <1>7, <2>1, <2>2, Tables DEF k
<1>8. CASE op \in {"preferences", "theme"}
  <2>1. k = "prefs" /\ v \in Prefs /\ loaded[r]["prefs"] \in Prefs
    BY <1>1, <1>8, Tables DEF k
  <2>2. row = Chosen(r, v)
    BY <1>8, <2>1 DEF Updated
  <2>3. op = "preferences" => req[r].prefs \in Prefs
    BY <1>2 DEF StageOK
  <2>4. CASE op = "theme"
    <3>1. row.rest = v.rest /\ row \in Prefs
      BY <1>2, <2>1, <2>2, <2>4 DEF Chosen, Prefs
    <3> QED
      BY <2>1, <2>4, <3>1, Tables DEF k
  <2>5. CASE op = "preferences"
    <3>1. row \in Prefs
      BY <2>1, <2>2, <2>3, <2>5 DEF Chosen, Prefs
    <3> QED
      BY <2>1, <2>5, <3>1, Tables DEF k
  <2> QED
    BY <1>8, <2>4, <2>5
<1> QED
  BY <1>1, <1>3, <1>4, <1>5, <1>6, <1>7, <1>8 DEF k

\* A flush that finds nothing to write.
LEMMA FlushNothing ==
    ASSUME AccountsInv, NEW r \in Request, pc[r] \in {"flush", "flush2"}, req[r].op # "contact",
           NEW st \in {"flush2", "commit"}, st \in Stages(req[r].op),
           Loads(req[r].op, st) \subseteq Loads(req[r].op, pc[r]),
           pc' = [pc EXCEPT ![r] = st],
           req[r].op = "login" /\ st = "flush2" => FlushKey(r) = "prefs",
           req[r].op = "login" /\ st = "commit" =>
              pc[r] = "flush2" /\ FlushKey(r) = "profile",
           Unchanged(r, FlushKey(r)),
           UNCHANGED <<rows, forms, req, holds, loaded, demote, dirty>>
    PROVE  AccountsInv'
<1>1. TypeOK /\ RequestOK(r)
  BY DEF AccountsInv
<1>2. pc'[r] = st /\ Alone(r) /\ Middle(r)
  BY <1>1 DEF TypeOK, Alone, Middle
<1>3. TypeOK' /\ WritersOK'
  BY <1>1 DEF TypeOK, RowsOK, Stage, AccountsInv, WritersOK
<1>4. StageOK(r)'
  BY <1>1, <1>2 DEF RequestOK, StageOK
<1>5. KeptOK(r)'
  <2>1. ASSUME req[r].op = "login", st = "flush2"
        PROVE  Visible(r, "prefs") # None
    <3>1. loaded[r]["prefs"] \notin {None, Clean}
      BY <2>1, Flushing, Names, Tables DEF Unchanged, Key, Single
    <3>2. rows["prefs"] # None /\ dirty[r]["prefs"] # None
      BY <1>1, <3>1 DEF RequestOK, KeptOK
    <3> QED
      BY <3>2 DEF Visible
  <2>2. ASSUME req[r].op = "login", st = "commit"
        PROVE  Visible(r, "prefs") # None /\ Visible(r, "profile") # None
    <3>1. loaded[r]["profile"] \notin {None, Clean}
      BY <2>2, Flushing, Names, Tables DEF Unchanged, Key, Single
    <3>2. rows["profile"] # None /\ dirty[r]["profile"] # None
      BY <1>1, <3>1 DEF RequestOK, KeptOK
    <3> QED
      BY <1>1, <2>2, <3>2 DEF RequestOK, KeptOK, Visible
  <2> QED
    BY <1>1, <1>2, <2>1, <2>2 DEF RequestOK, KeptOK, Known, Visible
<1>6. MissingOK(r)' /\ EditOK(r)'
  BY <1>1, <1>2 DEF RequestOK, MissingOK, EditOK
<1>7. ContactOK(r)' /\ PlaceOK(r)'
  BY <1>1, <1>2 DEF RequestOK, ContactOK, PlaceOK
<1> QED
  BY <1>2, <1>3, <1>4, <1>5, <1>6, <1>7, MiddleStep DEF RequestOK

\* A flush that writes a row which keeps what its route has to keep.
LEMMA FlushWrite ==
    ASSUME AccountsInv, NEW r \in Request, pc[r] \in {"flush", "flush2"}, req[r].op # "contact",
           NEW st \in {"flush2", "commit"}, st \in Stages(req[r].op),
           Loads(req[r].op, st) \subseteq Loads(req[r].op, pc[r]),
           pc' = [pc EXCEPT ![r] = st],
           NEW k \in Single,
           req[r].op = "login" /\ st = "flush2" => k = "prefs",
           req[r].op = "login" /\ st = "commit" => pc[r] = "flush2" /\ k = "profile",
           k = "profile" => req[r].op \in {"login", "profile", "upload", "unphoto"},
           k = "profile" /\ req[r].op = "profile" => pc[r] = "flush",
           MayWrite(r, k), NEW row \in Table(k), Write(r, k, row),
           rows[k] = None => req[r].op = Inserter(k),
           k = "profile" /\ req[r].op = "login" => rows[k] = None,
           k = "profile" /\ req[r].op = "profile" => row.avatar = Visible(r, k).avatar,
           k = "profile" /\ req[r].op \in {"upload", "unphoto"} =>
              row.name = Visible(r, k).name /\ row.rest = Visible(r, k).rest,
           k = "prefs" /\ req[r].op = "theme" => row.rest = Visible(r, k).rest,
           UNCHANGED <<rows, forms, req, holds, loaded, demote>>
    PROVE  AccountsInv'
<1>1. TypeOK /\ RequestOK(r) /\ k \in Key /\ k \notin Writer
  BY Tables DEF AccountsInv, Key
<1>2. /\ row # None /\ row # Clean
      /\ \A x \in Key : dirty'[r][x] = IF x = k THEN row ELSE dirty[r][x]
      /\ \A q \in Request \ {r} : dirty'[q] = dirty[q]
  BY <1>1, Names, WriteIs
<1>3. pc'[r] = st /\ Alone(r) /\ Middle(r)
  BY <1>1, <1>2 DEF TypeOK, Alone, Middle
<1>4. TypeOK'
  <2>1. /\ DOMAIN dirty' = Request
        /\ \A q \in Request : DOMAIN dirty'[q] = Key /\ RowsOK(dirty'[q], {None, Clean})
    BY <1>1, WriteType
  <2>2. pc' \in [Request -> Stage]
    BY <1>1 DEF TypeOK, Stage
  <2> QED
    BY <1>1, <2>1, <2>2 DEF TypeOK, RowsOK
<1>5. WritersOK'
  BY <1>1, MayWriteAlone, WriteAlone DEF AccountsInv
<1>6. StageOK(r)'
  BY <1>1, <1>3 DEF RequestOK, StageOK
<1>7. KeptOK(r)'
  <2>1. "profile" \in Key /\ "prefs" \in Key
    BY DEF Key, Single
  <2>2. req[r].op = "login" =>
           /\ Visible(r, "prefs")' # None
           /\ st = "commit" => Visible(r, "profile")' # None
    BY <1>1, <1>2, <2>1 DEF RequestOK, KeptOK, Visible
  <2> QED
    BY <1>1, <1>2, <1>3, <2>1, <2>2 DEF RequestOK, KeptOK, Known
<1>8. MissingOK(r)'
  BY <1>1, <1>2, Names DEF RequestOK, MissingOK
<1>9. EditOK(r)'
  <2>1. "profile" \in Key /\ "prefs" \in Key
    BY DEF Key, Single
  <2>2. rows["profile"] # Clean
    BY <1>1, <2>1, RowType
  <2>3. CASE k = "profile"
    BY <1>1, <1>2, <1>3, <2>1, <2>2, <2>3 DEF RequestOK, EditOK, Visible
  <2>4. CASE k = "prefs"
    BY <1>1, <1>2, <1>3, <2>1, <2>4 DEF RequestOK, EditOK, Visible
  <2>5. CASE k \notin {"profile", "prefs"}
    BY <1>1, <1>2, <1>3, <2>1, <2>5 DEF RequestOK, EditOK
  <2> QED
    BY <2>3, <2>4, <2>5
<1>10. ContactOK(r)' /\ PlaceOK(r)'
  BY <1>1, <1>2, <1>3, Names DEF RequestOK, ContactOK, PlaceOK, Visible, Stored
<1> QED
  BY <1>3, <1>4, <1>5, <1>6, <1>7, <1>8, <1>9, <1>10, MiddleStep DEF RequestOK

LEMMA FlushStep ==
    ASSUME AccountsInv, NEW r \in Request, Flush(r)
    PROVE  AccountsInv'
<1> DEFINE op == req[r].op
           k  == FlushKey(r)
           v  == Visible(r, k)
           st == IF pc[r] = "flush" /\ op \in {"login", "upload"} THEN "flush2" ELSE "commit"
<1>1. /\ pc[r] \in {"flush", "flush2"} /\ op # "contact"
      /\ pc' = [pc EXCEPT ![r] = st]
      /\ UNCHANGED <<rows, forms, req, holds, loaded, demote>>
  BY DEF Flush, Goto
<1>2. /\ \/ op = "login" /\ pc[r] = "flush" /\ k = "prefs" /\ st = "flush2"
         \/ op = "login" /\ pc[r] = "flush2" /\ k = "profile" /\ st = "commit"
         \/ op = "upload" /\ pc[r] = "flush" /\ k = "profile" /\ st = "flush2"
         \/ op = "upload" /\ pc[r] = "flush2" /\ k = "photo" /\ st = "commit"
         \/ op \in {"profile", "unphoto"} /\ pc[r] = "flush" /\ k = "profile" /\ st = "commit"
         \/ op = "link" /\ pc[r] = "flush" /\ k = "link" /\ st = "commit"
         \/ op \in {"preferences", "theme"} /\ pc[r] = "flush" /\ k = "prefs" /\ st = "commit"
      /\ k \in Single /\ k \in Key
      /\ loaded[r][k] \in Table(k) \cup {None}
  BY <1>1, Flushing
<1>3. st \in Stages(op) /\ Loads(op, st) \subseteq Loads(op, pc[r])
  BY <1>2 DEF Stages, Loads
<1>4. CASE Unchanged(r, k) /\ UNCHANGED dirty
  BY <1>1, <1>2, <1>3, <1>4, FlushNothing
<1>5. CASE ~Unchanged(r, k) /\ MayWrite(r, k)
  <2>1. TypeOK /\ MissingOK(r) /\ KeptOK(r)
    BY DEF AccountsInv, RequestOK
  <2>2. CASE loaded[r][k] = None /\ v = None /\ Write(r, k, Inserted(r, k))
    <3>1. rows[k] = None /\ op = Inserter(k)
      BY <1>2, <2>1, <2>2 DEF MissingOK
    <3>2. Inserted(r, k) \in Table(k)
      BY <1>2, InsertedType
    <3>3. k \in {"profile", "prefs"} => op = "login"
      BY <3>1 DEF Inserter
    <3> HIDE DEF k, st
    <3> QED
      BY <1>1, <1>2, <1>3, <1>5, <2>2, <3>1, <3>2, <3>3, FlushWrite
  <2>3. CASE loaded[r][k] # None /\ StillThere(r, k) /\ Write(r, k, Updated(r, k, v))
    <3>1. v # None
      BY <2>3 DEF StillThere
    <3>2. v \in Table(k)
      BY <1>2, <2>1, <3>1, RowType
    <3>3. op # "login"
      BY <1>5, <2>3 DEF Unchanged
    <3>4. rows[k] = None => op = Inserter(k)
      BY <1>2, <2>1, <3>1 DEF MissingOK, Visible
    <3>5. /\ Updated(r, k, v) \in Table(k)
          /\ op = "profile" => Updated(r, k, v).avatar = v.avatar
          /\ op \in {"upload", "unphoto"} /\ k = "profile" =>
                Updated(r, k, v).name = v.name /\ Updated(r, k, v).rest = v.rest
          /\ op = "theme" => Updated(r, k, v).rest = v.rest
      BY <1>1, <1>5, <2>3, <3>2, UpdatedRow
    <3> HIDE DEF k, st
    <3> QED
      BY <1>1, <1>2, <1>3, <1>5, <2>3, <3>3, <3>4, <3>5, FlushWrite DEF v
  <2> QED
    BY <1>1, <1>5, <2>2, <2>3 DEF Flush
<1> QED
  BY <1>4, <1>5 DEF Flush

-----------------------------------------------------------------------------
(* Contacts, and deletion. *)

LEMMA DemoteStep ==
    ASSUME AccountsInv, NEW r \in Request, DemotePrimary(r)
    PROVE  AccountsInv'
<1> DEFINE k   == demote[r]
           row == [rows[k] EXCEPT !.primary = FALSE]
<1>1. /\ pc[r] = "flush" /\ req[r].op = "contact"
      /\ MayWrite(r, k) /\ rows[k] # None /\ Write(r, k, row)
      /\ pc' = [pc EXCEPT ![r] = "flush2"]
      /\ UNCHANGED <<rows, forms, req, holds, loaded, demote>>
  BY DEF DemotePrimary, Goto
<1>2. TypeOK /\ RequestOK(r)
  BY DEF AccountsInv
<1>3. k \in Writer /\ k \in Key /\ k \notin Single
  BY <1>1, <1>2, Names, Tables DEF RequestOK, StageOK
<1>4. rows[k] \in Contact /\ row \in Contact /\ row \in Table(k)
  <2>1. rows[k] \in Contact
    BY <1>1, <1>2, <1>3, RowType, Tables
  <2> QED
    BY <1>3, <2>1, Tables DEF Contact
<1>5. row # None /\ row # Clean /\ ~row.primary
  BY <1>3, <1>4, Names DEF Contact
<1> HIDE DEF k, row
<1>6. /\ \A x \in Key : dirty'[r][x] = IF x = k THEN row ELSE dirty[r][x]
      /\ \A q \in Request \ {r} : dirty'[q] = dirty[q]
  BY <1>1, <1>2, <1>3, WriteIs
<1>7. pc'[r] = "flush2" /\ Alone(r) /\ Middle(r)
  BY <1>1, <1>2, <1>6 DEF TypeOK, Alone, Middle
<1>8. TypeOK'
  <2>1. /\ DOMAIN dirty' = Request
        /\ \A q \in Request : DOMAIN dirty'[q] = Key /\ RowsOK(dirty'[q], {None, Clean})
    BY <1>1, <1>2, <1>3, <1>4, WriteType
  <2>2. pc' \in [Request -> Stage]
    BY <1>1, <1>2 DEF TypeOK, Stage
  <2> QED
    BY <1>1, <1>2, <2>1, <2>2 DEF TypeOK, RowsOK
<1>9. WritersOK'
  BY <1>1, <1>2, <1>3, MayWriteAlone, WriteAlone DEF AccountsInv
<1>10. StageOK(r)'
  <2>1. "flush2" \in Stages("contact") /\ Loads("contact", "flush2") = {}
    BY DEF Stages, Loads
  <2> QED
    BY <1>1, <1>2, <1>7, <2>1 DEF RequestOK, StageOK
<1>11. KeptOK(r)' /\ MissingOK(r)' /\ EditOK(r)'
  <2>1. /\ Single \subseteq Key
        /\ "profile" \in Single /\ "prefs" \in Single
    BY Names DEF Single
  <2>2. \A x \in Single : dirty'[r][x] = dirty[r][x]
    BY <1>3, <1>6, <2>1
  <2> QED
    BY <1>1, <1>2, <1>7, <2>1, <2>2 DEF RequestOK, KeptOK, MissingOK, EditOK, Known
<1>12. ContactOK(r)'
  BY <1>1, <1>2, <1>3, <1>6, <1>7, Names DEF RequestOK, ContactOK, Stored, row
<1>13. PlaceOK(r)'
  <2> SUFFICES ASSUME req[r].contact.primary, NEW x \in Writer, x # r,
                      Visible(r, x)' # None, Visible(r, x)'.kind = req[r].contact.kind
               PROVE  ~Visible(r, x)'.primary
    BY <1>1, <1>7 DEF PlaceOK
  <2>1. x \in Key
    BY Names
  <2>2. CASE x = k
    BY <1>5, <1>6, <2>1, <2>2 DEF Visible
  <2>3. CASE x # k /\ dirty[r][x] # Clean
    <3>1. /\ Visible(r, x)' = dirty[r][x]
          /\ rows[x] # None /\ dirty[r][x] \in {None, [rows[x] EXCEPT !.primary = FALSE]}
      BY <1>1, <1>2, <1>6, <2>1, <2>3 DEF Visible, RequestOK, ContactOK
    <3>2. rows[x] \in Contact
      BY <1>2, <2>1, <3>1, RowType, Tables
    <3> QED
      BY <3>1, <3>2 DEF Contact
  <2>4. CASE x # k /\ dirty[r][x] = Clean
    <3>1. Visible(r, x)' = rows[x]
      BY <1>1, <1>6, <2>1, <2>4 DEF Visible
    <3> QED
      BY <1>1, <1>2, <2>4, <3>1 DEF RequestOK, PlaceOK, k
  <2> QED
    BY <2>2, <2>3, <2>4
<1> QED
  BY <1>7, <1>8, <1>9, <1>10, <1>11, <1>12, <1>13, MiddleStep DEF RequestOK

LEMMA InsertStep ==
    ASSUME AccountsInv, NEW r \in Request, InsertContact(r)
    PROVE  AccountsInv'
<1> DEFINE c == req[r].contact
<1>1. /\ pc[r] = "flush2" /\ req[r].op = "contact"
      /\ Write(r, r, c)
      /\ pc' = [pc EXCEPT ![r] = "commit"]
      /\ UNCHANGED <<rows, forms, req, holds, loaded, demote>>
  BY DEF InsertContact, Goto
<1>2. TypeOK /\ RequestOK(r)
  BY DEF AccountsInv
<1>3. r \in Writer /\ r \in Key /\ r \notin Single /\ Table(r) = Contact
  BY Names, Tables
<1>4. c \in Contact /\ c # None /\ c # Clean
  BY <1>1, <1>2, <1>3, Names DEF RequestOK, StageOK
<1>5. rows[r] = None
  BY <1>1, <1>2 DEF RequestOK, ContactOK
<1>6. \A q \in Request \ {r} : dirty[q][r] = Clean
  BY <1>3, <1>5 DEF AccountsInv, RequestOK, ContactOK
<1>7. /\ \A x \in Key : dirty'[r][x] = IF x = r THEN c ELSE dirty[r][x]
      /\ \A q \in Request \ {r} : dirty'[q] = dirty[q]
  BY <1>1, <1>2, <1>3, WriteIs
<1>8. pc'[r] = "commit" /\ Alone(r) /\ Middle(r)
  BY <1>1, <1>2, <1>7 DEF TypeOK, Alone, Middle
<1>9. TypeOK'
  <2>1. /\ DOMAIN dirty' = Request
        /\ \A q \in Request : DOMAIN dirty'[q] = Key /\ RowsOK(dirty'[q], {None, Clean})
    BY <1>1, <1>2, <1>3, <1>4, WriteType
  <2>2. pc' \in [Request -> Stage]
    BY <1>1, <1>2 DEF TypeOK, Stage
  <2> QED
    BY <1>1, <1>2, <2>1, <2>2 DEF TypeOK, RowsOK
<1>10. WritersOK'
  BY <1>1, <1>2, <1>3, <1>6, WriteAlone DEF AccountsInv
<1>11. StageOK(r)'
  <2>1. "commit" \in Stages("contact") /\ Loads("contact", "commit") = {}
    BY DEF Stages, Loads
  <2> QED
    BY <1>1, <1>2, <1>8, <2>1 DEF RequestOK, StageOK
<1>12. KeptOK(r)' /\ MissingOK(r)' /\ EditOK(r)'
  <2>1. /\ Single \subseteq Key
        /\ "profile" \in Single /\ "prefs" \in Single
    BY Names DEF Single
  <2>2. \A x \in Single : dirty'[r][x] = dirty[r][x]
    BY <1>3, <1>7, <2>1
  <2> QED
    BY <1>1, <1>2, <1>8, <2>1, <2>2 DEF RequestOK, KeptOK, MissingOK, EditOK, Known
<1>13. ContactOK(r)'
  BY <1>1, <1>2, <1>3, <1>5, <1>7, <1>8, Names DEF RequestOK, ContactOK, Stored
<1>14. PlaceOK(r)'
  <2>1. \A x \in Writer : x # r => Visible(r, x)' = Visible(r, x)
    BY <1>1, <1>7, Names DEF Visible
  <2> QED
    BY <1>1, <1>2, <1>8, <2>1 DEF RequestOK, PlaceOK
<1> QED
  BY <1>8, <1>9, <1>10, <1>11, <1>12, <1>13, <1>14, MiddleStep DEF RequestOK

LEMMA DeleteStep ==
    ASSUME AccountsInv, NEW r \in Request, Delete(r)
    PROVE  AccountsInv'
<1> DEFINE op == req[r].op
           k  == DeleteKey(r)
           st == IF op = "unphoto" THEN "flush" ELSE "commit"
<1>1. /\ pc[r] = "delete"
      /\ \/ rows[k] # None /\ MayWrite(r, k) /\ Write(r, k, None)
         \/ dirty' = dirty
      /\ pc' = [pc EXCEPT ![r] = st]
      /\ UNCHANGED <<rows, forms, req, holds, loaded, demote>>
  BY DEF Delete, Goto
<1>2. TypeOK /\ RequestOK(r)
  BY DEF AccountsInv
<1>3. op \in {"unphoto", "uncontact", "unlink"}
  <2>1. op \in Routes \cup {"none"} /\ "delete" \in Stages(op)
    BY <1>1, <1>2 DEF TypeOK, Input, RequestOK, StageOK
  <2> QED
    BY <2>1 DEF Routes, Locking, Stages
<1>4. k \in Key /\ k \notin {"profile", "prefs"}
  <2>1. op = "uncontact" => k \in Writer
    BY <1>2 DEF RequestOK, StageOK, DeleteKey
  <2>2. op = "unphoto" => k = "photo"
    BY DEF DeleteKey
  <2>3. op = "unlink" => k = "link"
    BY DEF DeleteKey
  <2> QED
    BY <1>3, <2>1, <2>2, <2>3, Names, Tables DEF Single
<1>5. /\ \A x \in Key : dirty'[r][x] = dirty[r][x] \/ (x = k /\ dirty'[r][x] = None /\ rows[x] # None)
      /\ \A q \in Request \ {r} : dirty'[q] = dirty[q]
  BY <1>1, <1>2, <1>4, WriteIs
<1>6. pc'[r] = st /\ Alone(r) /\ Middle(r)
  BY <1>1, <1>2, <1>5 DEF TypeOK, Alone, Middle
<1>7. st \in Stages(op) /\ Loads(op, st) \subseteq Loads(op, pc[r])
  BY <1>1, <1>3 DEF Stages, Loads
<1> HIDE DEF k
<1>8. TypeOK'
  <2>1. /\ DOMAIN dirty' = Request
        /\ \A q \in Request : DOMAIN dirty'[q] = Key /\ RowsOK(dirty'[q], {None, Clean})
    <3>1. CASE Write(r, k, None)
      BY <1>2, <1>4, <3>1, WriteType
    <3>2. CASE dirty' = dirty
      BY <1>2, <3>2 DEF TypeOK, RowsOK
    <3> QED
      BY <1>1, <3>1, <3>2
  <2>2. pc' \in [Request -> Stage]
    BY <1>1, <1>2 DEF TypeOK, Stage
  <2> QED
    BY <1>1, <1>2, <2>1, <2>2 DEF TypeOK, RowsOK
<1>9. WritersOK'
  <2>1. CASE MayWrite(r, k) /\ Write(r, k, None)
    BY <1>2, <1>4, <2>1, MayWriteAlone, WriteAlone DEF AccountsInv
  <2>2. CASE dirty' = dirty
    BY <2>2 DEF AccountsInv, WritersOK
  <2> QED
    BY <1>1, <2>1, <2>2
<1>10. StageOK(r)'
  BY <1>1, <1>2, <1>3, <1>6, <1>7 DEF RequestOK, StageOK
<1>11. KeptOK(r)' /\ MissingOK(r)' /\ EditOK(r)'
  <2>1. Single \subseteq Key /\ "profile" \in Key /\ "prefs" \in Key
    BY Names DEF Single
  <2>2. dirty'[r]["profile"] = dirty[r]["profile"] /\ dirty'[r]["prefs"] = dirty[r]["prefs"]
    BY <1>4, <1>5, <2>1
  <2>3. KeptOK(r)'
    BY <1>1, <1>2, <1>3, <2>1, <2>2 DEF RequestOK, KeptOK, Known
  <2>4. MissingOK(r)'
    BY <1>1, <1>2, <1>5, <2>1 DEF RequestOK, MissingOK
  <2>5. EditOK(r)'
    BY <1>1, <1>2, <1>3, <2>2 DEF RequestOK, EditOK
  <2> QED
    BY <2>3, <2>4, <2>5
<1>12. ContactOK(r)' /\ PlaceOK(r)'
  <2>1. \A x \in Writer : dirty'[r][x] = dirty[r][x] \/ (dirty'[r][x] = None /\ rows[x] # None)
    BY <1>5, Names
  <2> QED
    BY <1>1, <1>2, <1>3, <2>1 DEF RequestOK, ContactOK, PlaceOK
<1> QED
  BY <1>6, <1>8, <1>9, <1>10, <1>11, <1>12, MiddleStep DEF RequestOK

-----------------------------------------------------------------------------
(* The end of a request. *)

\* A request that has ended owes nothing, whatever the rows.
LEMMA Ended ==
    ASSUME AccountsInv, NEW r \in Request, End(r)
    PROVE  /\ Alone(r) /\ RequestOK(r)' /\ LocksOK' /\ WritersOK'
           /\ pc'[r] = "done" /\ \A k \in Key : dirty'[r][k] = Clean
           /\ pc' \in [Request -> Stage] /\ req' \in [Request -> Input]
           /\ holds' \subseteq Request
           /\ \A q \in Request :
                 /\ DOMAIN loaded'[q] = Single
                 /\ \A k \in Single : loaded'[q][k] \in Table(k) \cup {None, Clean}
           /\ DOMAIN loaded' = Request /\ DOMAIN dirty' = Request
           /\ demote' \in [Request -> NullOr(Writer)]
           /\ \A q \in Request : DOMAIN dirty'[q] = Key /\ RowsOK(dirty'[q], {None, Clean})
<1>1. /\ pc' = [pc EXCEPT ![r] = "done"] /\ holds' = holds \ {r}
      /\ loaded' = [loaded EXCEPT ![r] = [k \in Single |-> Clean]]
      /\ demote' = [demote EXCEPT ![r] = None]
      /\ dirty' = [dirty EXCEPT ![r] = [k \in Key |-> Clean]]
      /\ req' = [req EXCEPT ![r] = NoInput]
  BY DEF End, Goto
<1>2. TypeOK /\ LocksOK /\ WritersOK
  BY DEF AccountsInv
<1>3. /\ pc'[r] = "done" /\ req'[r].op = "none" /\ Alone(r)
      /\ \A k \in Single : loaded'[r][k] = Clean
      /\ \A k \in Key : dirty'[r][k] = Clean
  BY <1>1, <1>2 DEF TypeOK, Alone, NoInput
<1>4. RequestOK(r)'
  <2>1. "done" \in Stages("none") /\ Loads("none", "done") = {}
    BY DEF Stages, Loads
  <2>2. StageOK(r)'
    BY <1>3, <2>1 DEF StageOK
  <2>3. KeptOK(r)' /\ MissingOK(r)' /\ EditOK(r)'
    BY <1>3, Names DEF KeptOK, MissingOK, EditOK, Single, Key
  <2>4. ContactOK(r)' /\ PlaceOK(r)'
    BY <1>3, Names DEF ContactOK, PlaceOK
  <2> QED
    BY <2>2, <2>3, <2>4 DEF RequestOK
<1>5. LocksOK'
  BY <1>1, <1>2, <1>3 DEF LocksOK, Alone, Locking
<1>6. WritersOK'
  BY <1>2, <1>3 DEF WritersOK, Alone
<1>7. pc' \in [Request -> Stage] /\ req' \in [Request -> Input]
  <2>1. NoInput \in Input
    BY DEF NoInput, Input, NullOr
  <2> QED
    BY <1>1, <1>2, <2>1 DEF TypeOK, Stage
<1>8. \A q \in Request : /\ DOMAIN loaded'[q] = Single
                         /\ \A k \in Single : loaded'[q][k] \in Table(k) \cup {None, Clean}
  BY <1>1, <1>2 DEF TypeOK
<1>9. \A q \in Request : DOMAIN dirty'[q] = Key /\ RowsOK(dirty'[q], {None, Clean})
  BY <1>1, <1>2 DEF TypeOK, RowsOK
<1>10. /\ holds' \subseteq Request /\ DOMAIN loaded' = Request /\ DOMAIN dirty' = Request
       /\ demote' \in [Request -> NullOr(Writer)]
  BY <1>1, <1>2 DEF TypeOK, NullOr
<1> QED
  BY <1>3, <1>4, <1>5, <1>6, <1>7, <1>8, <1>9, <1>10

LEMMA DiscardStep ==
    ASSUME AccountsInv, NEW r \in Request, Discard(r)
    PROVE  AccountsInv'
<1>1. End(r) /\ UNCHANGED <<rows, forms>>
  BY DEF Discard
<1>2. TypeOK'
  BY <1>1, Ended DEF AccountsInv, TypeOK, RowsOK
<1>3. \A q \in Request : RequestOK(q)'
  BY <1>1, Ended, OthersKept
<1> QED
  BY <1>1, <1>2, <1>3, Ended, SameTables DEF AccountsInv

\* Which rows a commit may change, and how.
LEMMA Committed ==
    ASSUME AccountsInv, NEW r \in Request, Commit(r)
    PROVE  /\ DOMAIN rows' = Key /\ RowsOK(rows', {None})
           /\ \A k \in Key : rows'[k] = IF dirty[r][k] = Clean THEN rows[k] ELSE dirty[r][k]
           /\ \A k \in {"profile", "prefs"} : rows'[k] # None
           /\ \A k \in Writer \ {r} : rows'[k] # rows[k] =>
                 rows[k] # None /\ rows'[k] \in {None, [rows[k] EXCEPT !.primary = FALSE]}
           /\ rows[r] = None
           /\ rows'[r] # None => req[r].op = "contact" /\ rows'[r] = req[r].contact
<1>1. pc[r] = "commit" /\ rows' = [k \in Key |-> Visible(r, k)]
  BY DEF Commit
<1>2. TypeOK /\ RequestOK(r) /\ (Known => rows["prefs"] # None)
  BY DEF AccountsInv
<1>3. \A k \in Key : rows'[k] = IF dirty[r][k] = Clean THEN rows[k] ELSE dirty[r][k]
  BY <1>1 DEF Visible
<1>4. DOMAIN rows' = Key /\ RowsOK(rows', {None})
  BY <1>1, <1>2, RowType DEF RowsOK
<1>5. \A k \in {"profile", "prefs"} : rows'[k] # None
  <2>1. /\ "profile" \in Key /\ "prefs" \in Key
        /\ \A k \in {"profile", "prefs"} : rows'[k] = Visible(r, k)
    BY <1>1 DEF Key, Single
  <2>2. req[r].op # "none"
    BY <1>1, <1>2 DEF RequestOK, StageOK, Stages
  <2>3. CASE req[r].op = "login"
    BY <1>1, <1>2, <2>1, <2>3 DEF RequestOK, KeptOK
  <2>4. CASE req[r].op # "login"
    BY <1>2, <2>1, <2>2, <2>4 DEF RequestOK, KeptOK, Known, Visible
  <2> QED
    BY <2>3, <2>4
<1>6. rows[r] = None
  BY <1>1, <1>2 DEF RequestOK, ContactOK
<1>7. ASSUME NEW k \in Writer \ {r}, rows'[k] # rows[k]
      PROVE  rows[k] # None /\ rows'[k] \in {None, [rows[k] EXCEPT !.primary = FALSE]}
  BY <1>2, <1>3, <1>7, Names DEF RequestOK, ContactOK
<1>8. rows'[r] # None => req[r].op = "contact" /\ rows'[r] = req[r].contact
  BY <1>2, <1>3, <1>6, Names DEF RequestOK, ContactOK
<1> QED
  BY <1>3, <1>4, <1>5, <1>6, <1>7, <1>8

\* What r commits leaves to every other request what that request relies on.
LEMMA CommitOthers ==
    ASSUME AccountsInv, NEW r \in Request, Commit(r), NEW q \in Request \ {r}
    PROVE  RequestOK(q)'
<1>1. TypeOK /\ RequestOK(r) /\ RequestOK(q) /\ LocksOK /\ WritersOK
  BY DEF AccountsInv
<1>2. /\ pc[r] = "commit" /\ pc'[q] = pc[q] /\ req'[q] = req[q] /\ loaded'[q] = loaded[q]
      /\ demote'[q] = demote[q] /\ dirty'[q] = dirty[q]
  BY Ended DEF Commit, Alone
<1>3. /\ \A k \in Key : rows'[k] = IF dirty[r][k] = Clean THEN rows[k] ELSE dirty[r][k]
      /\ \A k \in {"profile", "prefs"} : rows'[k] # None
      /\ \A k \in Writer \ {r} : rows'[k] # rows[k] =>
            rows[k] # None /\ rows'[k] \in {None, [rows[k] EXCEPT !.primary = FALSE]}
      /\ rows'[r] # None => req[r].op = "contact"
      /\ rows[r] = None
  BY Committed
<1>4. \A k \in Key : dirty[q][k] # Clean => rows'[k] = rows[k]
  BY <1>1, <1>3 DEF WritersOK
<1>5. "profile" \in Key /\ "prefs" \in Key /\ Single \subseteq Key
  BY Names DEF Single
\* The lock of a route keeps its requests apart.
<1>6. req[q].op = req[r].op /\ req[r].op \in Locking => pc[q] = "lock"
  BY <1>1, <1>2 DEF LocksOK
<1>7. StageOK(q)'
  BY <1>1, <1>2 DEF RequestOK, StageOK
<1>8. KeptOK(q)'
  <2>1. \A k \in {"profile", "prefs"} : Visible(q, k)' # None
    BY <1>1, <1>2, <1>3, <1>5 DEF RequestOK, KeptOK, Visible
  <2> QED
    BY <1>1, <1>2, <1>3, <2>1 DEF RequestOK, KeptOK, Known
<1>9. MissingOK(q)'
  <2>1. ASSUME NEW k \in Single, loaded[q][k] = None
        PROVE  rows'[k] = None /\ req[q].op = Inserter(k)
    <3>1. rows[k] = None /\ req[q].op = Inserter(k)
      BY <1>1, <2>1 DEF RequestOK, MissingOK
    <3>2. pc[q] # "lock"
      BY <1>1, <2>1, Names DEF RequestOK, StageOK
    <3>3. Inserter(k) \in Locking
      BY DEF Inserter, Locking
    <3>4. req[r].op # Inserter(k)
      BY <1>6, <3>1, <3>2, <3>3
    <3>5. dirty[r][k] = Clean
      BY <1>1, <3>1, <3>4 DEF RequestOK, MissingOK
    <3> QED
      BY <1>3, <1>5, <3>1, <3>5
  <2>2. ASSUME NEW k \in Single, dirty[q][k] # Clean, rows'[k] = None
        PROVE  req[q].op = Inserter(k)
    BY <1>1, <1>4, <1>5, <2>2 DEF RequestOK, MissingOK
  <2> QED
    BY <1>2, <2>1, <2>2 DEF MissingOK
<1>10. EditOK(q)'
  <2>1. rows["profile"] # Clean
    BY <1>1, <1>5, RowType
  <2> QED
    BY <1>1, <1>2, <1>4, <1>5, <2>1 DEF RequestOK, EditOK
\* A contact request that has counted is the only one.
<1>11. req[q].op = "contact" /\ pc[q] # "lock" => req[r].op # "contact"
  BY <1>6 DEF Locking
<1>12. req[r].op # "contact" =>
         \A k \in Writer : rows'[k] # rows[k] =>
            rows[k] # None /\ rows'[k] \in {None, [rows[k] EXCEPT !.primary = FALSE]}
  BY <1>3
<1>13. ContactOK(q)'
  <2>1. rows'[q] # None => rows[q] # None
    BY <1>3, Names
  <2>2. ASSUME req[q].op = "contact", pc[q] \notin {"lock", "read"}
        PROVE  Cardinality(Stored') < Limit
    <3>1. Stored' \subseteq Stored
      BY <1>11, <1>12, <2>2 DEF Stored
    <3>2. Cardinality(Stored') <= Cardinality(Stored)
      BY <3>1, StoredFinite, FS_Subset
    <3>3. Cardinality(Stored) < Limit
      BY <1>1, <2>2 DEF RequestOK, ContactOK
    <3>4. Cardinality(Stored) \in Nat /\ Cardinality(Stored') \in Nat
      BY <3>1, StoredFinite, FS_Subset, FS_CardinalityType
    <3> QED
      BY <3>2, <3>3, <3>4, LimitAssumption
  <2> QED
    BY <1>1, <1>2, <1>4, <2>1, <2>2, Names DEF RequestOK, ContactOK
<1>14. PlaceOK(q)'
  <2> SUFFICES ASSUME req[q].op = "contact", req[q].contact.primary, NEW k \in Writer
               PROVE  /\ pc[q] = "flush" /\ rows'[k] # None /\ rows'[k].primary
                            /\ rows'[k].kind = req[q].contact.kind => k = demote[q]
                      /\ pc[q] \in {"flush2", "commit"} /\ k # q /\ Visible(q, k)' # None
                            /\ Visible(q, k)'.kind = req[q].contact.kind
                            => ~Visible(q, k)'.primary
    BY <1>2 DEF PlaceOK
  <2>1. k \in Key
    BY Names
  <2>2. pc[q] # "lock" /\ rows'[k] # None =>
           /\ rows[k] # None /\ rows'[k].kind = rows[k].kind
           /\ rows'[k] = rows[k] \/ ~rows'[k].primary
    <3>1. rows[k] # None => rows[k] \in Contact
      BY <1>1, <2>1, RowType, Tables
    <3> QED
      BY <1>11, <1>12, <3>1 DEF Contact
  <2>3. CASE pc[q] = "flush"
    BY <1>1, <2>2, <2>3 DEF RequestOK, PlaceOK
  <2>4. CASE pc[q] \in {"flush2", "commit"} /\ dirty[q][k] # Clean
    BY <1>1, <1>2, <2>4 DEF RequestOK, PlaceOK, Visible
  <2>5. CASE pc[q] \in {"flush2", "commit"} /\ dirty[q][k] = Clean
    <3>1. Visible(q, k) = rows[k] /\ Visible(q, k)' = rows'[k]
      BY <1>2, <2>5 DEF Visible
    <3> QED
      BY <1>1, <2>2, <2>5, <3>1 DEF RequestOK, PlaceOK
  <2> QED
    BY <2>3, <2>4, <2>5
<1> QED
  BY <1>7, <1>8, <1>9, <1>10, <1>13, <1>14 DEF RequestOK

LEMMA CommitStep ==
    ASSUME AccountsInv, NEW r \in Request, Commit(r)
    PROVE  AccountsInv'
<1>1. /\ pc[r] = "commit" /\ End(r)
      /\ forms' = forms \cup {FormOf(Visible(r, "profile"))}
  BY DEF Commit
<1>2. TypeOK /\ RequestOK(r) /\ OnePrimary /\ ContactLimit
  BY DEF AccountsInv
<1>3. /\ DOMAIN rows' = Key /\ RowsOK(rows', {None})
      /\ \A k \in Key : rows'[k] = IF dirty[r][k] = Clean THEN rows[k] ELSE dirty[r][k]
      /\ \A k \in {"profile", "prefs"} : rows'[k] # None
      /\ \A k \in Writer \ {r} : rows'[k] # rows[k] =>
            rows[k] # None /\ rows'[k] \in {None, [rows[k] EXCEPT !.primary = FALSE]}
      /\ rows[r] = None
      /\ rows'[r] # None => req[r].op = "contact" /\ rows'[r] = req[r].contact
  BY Committed
<1>4. TypeOK'
  <2>1. "profile" \in Key
    BY DEF Key, Single
  <2>2. rows'["profile"] \in Profile /\ Visible(r, "profile") = rows'["profile"]
    BY <1>3, <2>1, Tables DEF RowsOK, Visible
  <2>3. forms' \subseteq Form
    BY <1>1, <1>2, <2>2 DEF TypeOK, FormOf, Form, Profile
  <2> QED
    BY <1>1, <1>3, <2>3, Ended DEF TypeOK
<1>5. (Known => rows["prefs"] # None)'
  BY <1>3
<1>6. ContactLimit'
  <2>1. Cardinality(Stored) \in Nat /\ Cardinality(Stored') \in Nat /\ IsFiniteSet(Stored)
    <3>1. Stored' \subseteq Writer
      BY DEF Stored
    <3> QED
      BY <3>1, StoredFinite, FS_Subset, FS_CardinalityType
  <2>2. CASE req[r].op = "contact"
    <3>1. Stored' \subseteq Stored \cup {r}
      BY <1>3 DEF Stored
    <3>2. r \notin Stored /\ Cardinality(Stored) < Limit
      BY <1>1, <1>2, <1>3, <2>2 DEF Stored, RequestOK, ContactOK
    <3>3. /\ IsFiniteSet(Stored \cup {r})
          /\ Cardinality(Stored \cup {r}) = Cardinality(Stored) + 1
      BY <2>1, <3>2, FS_AddElement
    <3>4. Cardinality(Stored') <= Cardinality(Stored \cup {r})
      BY <3>1, <3>3, FS_Subset
    <3> QED
      BY <2>1, <3>2, <3>3, <3>4, LimitAssumption DEF ContactLimit
  <2>3. CASE req[r].op # "contact"
    <3>1. Stored' \subseteq Stored
      BY <1>3, <2>3 DEF Stored
    <3>2. Cardinality(Stored') <= Cardinality(Stored)
      BY <2>1, <3>1, FS_Subset
    <3> QED
      BY <1>2, <2>1, <3>2, LimitAssumption DEF ContactLimit
  <2> QED
    BY <2>2, <2>3
<1>7. OnePrimary'
  <2>1. ASSUME NEW k \in Writer \ {r}, rows'[k] # None
        PROVE  /\ rows[k] # None
               /\ rows'[k].primary => rows'[k] = rows[k]
    <3>1. rows[k] # None
      BY <1>3, <2>1
    <3>2. rows[k] \in Contact
      BY <1>2, <3>1, RowType, Names, Tables
    <3> QED
      BY <1>3, <2>1, <3>1, <3>2 DEF Contact
  \* The contact that r adds meets no other primary one of its type.
  <2>2. ASSUME NEW k \in Writer \ {r}, rows'[k] # None, rows'[r] # None,
               rows'[k].primary, rows'[r].primary, rows'[k].kind = rows'[r].kind
        PROVE  FALSE
    <3>1. Visible(r, k) = rows'[k]
      BY <1>3, Names DEF Visible
    <3> QED
      BY <1>1, <1>2, <1>3, <2>2, <3>1 DEF RequestOK, PlaceOK
  <2> SUFFICES ASSUME NEW j \in Writer, NEW k \in Writer, rows'[j] # None, rows'[k] # None,
                      rows'[j].primary, rows'[k].primary, rows'[j].kind = rows'[k].kind
               PROVE  j = k
    BY DEF OnePrimary
  <2>3. CASE j = r \/ k = r
    BY <2>2, <2>3
  <2>4. CASE j # r /\ k # r
    BY <1>2, <2>1, <2>4 DEF OnePrimary
  <2> QED
    BY <2>3, <2>4
<1>8. \A q \in Request : RequestOK(q)'
  BY <1>1, Ended, CommitOthers
<1> QED
  BY <1>1, <1>4, <1>5, <1>6, <1>7, <1>8, Ended DEF AccountsInv

-----------------------------------------------------------------------------
(* The invariant and what follows from it. *)

\* The rows before the first request.
LEMMA InitRows ==
    ASSUME Init
    PROVE  /\ DOMAIN rows = Key /\ RowsOK(rows, {None})
           /\ Known => rows["prefs"] # None
           /\ \A k \in Request : rows[k] = None
           /\ Stored = {} \/ (Stored = {Before} /\ Limit > 0)
           /\ PhotoAgrees
<1> DEFINE Table0(old, c) == [k \in Key |->
                 CASE k = "profile" -> [name |-> Before, rest |-> Before,
                                        avatar |-> old, stamp |-> Before]
                   [] k = "prefs"   -> [theme |-> Before, rest |-> Before]
                   [] k = "photo"   -> IF old = None THEN None
                                       ELSE [id |-> Before, key |-> old]
                   [] k = "link"    -> IF old = None THEN None
                                       ELSE [id |-> Before, url |-> old]
                   [] k = Before    -> c
                   [] OTHER         -> None]
<1>1. CASE rows = [k \in Key |-> None]
  <2>1. \A k \in Key : rows[k] = None
    BY <1>1
  <2>2. "profile" \in Key /\ "photo" \in Key
    BY DEF Key, Single
  <2> QED
    BY <1>1, <2>1, <2>2, Names DEF RowsOK, Known, Stored, PhotoAgrees
<1>2. CASE \E old \in {None, Before},
              c \in NullOr([kind : Kind, value : {Before}, primary : BOOLEAN]) :
             (c # None => Limit > 0) /\ rows = Table0(old, c)
  <2>1. PICK old \in {None, Before},
             c \in NullOr([kind : Kind, value : {Before}, primary : BOOLEAN]) :
                (c # None => Limit > 0) /\ rows = Table0(old, c)
    BY <1>2
  <2>2. Before \in Writer /\ Before \notin Single /\ Before \in Key
    BY Tables, Names DEF Writer
  <2>3. \A k \in Writer : k \notin Single /\ k \in Key
    BY Tables, Names
  <2>4. /\ rows["profile"] = [name |-> Before, rest |-> Before,
                              avatar |-> old, stamp |-> Before]
        /\ rows["prefs"] = [theme |-> Before, rest |-> Before]
        /\ rows["photo"] = IF old = None THEN None ELSE [id |-> Before, key |-> old]
        /\ rows["link"] = IF old = None THEN None ELSE [id |-> Before, url |-> old]
    BY <2>1, <2>2 DEF Key, Single
  <2>5. rows[Before] = c /\ \A k \in Request : rows[k] = None
    <3>1. rows[Before] = c
      BY <2>1, <2>2 DEF Single
    <3>2. ASSUME NEW k \in Request
          PROVE  rows[k] = None
      <4>1. k \in Key /\ k \notin Single /\ k # Before
        BY <2>3, Names, NameAssumption
      <4> QED
        BY <2>1, <4>1 DEF Single
    <3> QED
      BY <3>1, <3>2
  <2>6. /\ rows["profile"] \in Profile /\ rows["prefs"] \in Prefs
        /\ rows["photo"] \in Photo \cup {None} /\ rows["link"] \in Link \cup {None}
    BY <2>2, <2>4 DEF Profile, Prefs, Photo, Link, NullOr
  <2>7. c \in Contact \cup {None}
    BY <2>2 DEF Contact, NullOr
  <2>8. DOMAIN rows = Key
    BY <2>1
  <2> HIDE DEF Table0
  <2>9. RowsOK(rows, {None})
    <3>1. \A k \in Single : rows[k] \in Table(k) \cup {None}
      BY <2>6, Tables DEF Single
    <3>2. \A k \in Writer : rows[k] \in Table(k) \cup {None}
      BY <2>5, <2>7, Tables DEF Writer
    <3> QED
      BY <3>1, <3>2 DEF RowsOK, Key
  <2>10. rows["prefs"] # None
    BY <2>6, Names, Tables DEF Key, Single
  <2>11. Stored = {} \/ (Stored = {Before} /\ Limit > 0)
    BY <2>1, <2>5 DEF Stored, Writer
  <2>12. PhotoAgrees
    BY <2>4 DEF PhotoAgrees
  <2> QED
    BY <2>5, <2>8, <2>9, <2>10, <2>11, <2>12
<1> QED
  BY <1>1, <1>2 DEF Init

LEMMA InvInit == Init => AccountsInv
<1> SUFFICES ASSUME Init PROVE AccountsInv
  OBVIOUS
<1>1. /\ DOMAIN rows = Key /\ RowsOK(rows, {None})
      /\ Known => rows["prefs"] # None
      /\ \A k \in Request : rows[k] = None
      /\ Stored = {} \/ (Stored = {Before} /\ Limit > 0)
  BY InitRows
<1>2. /\ pc = [r \in Request |-> "waiting"] /\ req = [r \in Request |-> NoInput]
      /\ holds = {} /\ demote = [r \in Request |-> None]
      /\ loaded = [r \in Request |-> [k \in Single |-> Clean]]
      /\ dirty = [r \in Request |-> [k \in Key |-> Clean]]
      /\ forms = IF rows["profile"] = None THEN {} ELSE {FormOf(rows["profile"])}
  BY DEF Init
<1>3. TypeOK
  <2>1. "profile" \in Key
    BY DEF Key, Single
  <2>2. rows["profile"] # None => rows["profile"] \in Profile
    BY <1>1, <2>1, Tables DEF RowsOK
  <2>3. forms \subseteq Form
    BY <1>2, <2>2 DEF FormOf, Form, Profile
  <2>4. NoInput \in Input
    BY DEF NoInput, Input, NullOr
  <2> QED
    BY <1>1, <1>2, <2>3, <2>4 DEF TypeOK, RowsOK, Stage, NullOr
<1>4. \A r \in Request : req[r].op = "none" /\ pc[r] = "waiting"
  BY <1>2 DEF NoInput
<1>5. LocksOK /\ WritersOK
  BY <1>2, <1>4 DEF LocksOK, WritersOK, Locking
<1>6. ContactLimit
  <2>1. Cardinality({}) = 0 /\ Cardinality({Before}) = 1
    BY FS_EmptySet, FS_Singleton
  <2> QED
    BY <1>1, <2>1, LimitAssumption DEF ContactLimit
<1>7. OnePrimary
  <2>1. \A k \in Writer : rows[k] # None => k \in Stored
    BY DEF Stored
  <2> QED
    BY <1>1, <2>1 DEF OnePrimary
<1>8. ASSUME NEW r \in Request
      PROVE  RequestOK(r)
  <2>1. "waiting" \in Stages("none") /\ Loads("none", "waiting") = {}
    BY DEF Stages, Loads
  <2>2. /\ \A k \in Single : loaded[r][k] = Clean
        /\ \A k \in Key : dirty[r][k] = Clean
    BY <1>2
  <2>3. StageOK(r)
    BY <1>4, <2>1, <2>2 DEF StageOK
  <2>4. KeptOK(r) /\ MissingOK(r) /\ EditOK(r)
    BY <1>4, <2>2, Names DEF KeptOK, MissingOK, EditOK, Single, Key
  <2>5. ContactOK(r) /\ PlaceOK(r)
    BY <1>1, <1>4, <2>2, Names DEF ContactOK, PlaceOK
  <2> QED
    BY <2>3, <2>4, <2>5 DEF RequestOK
<1> QED
  BY <1>1, <1>3, <1>5, <1>6, <1>7, <1>8 DEF AccountsInv

LEMMA InvStep == AccountsInv /\ [Next]_vars => AccountsInv'
<1> SUFFICES ASSUME AccountsInv, [Next]_vars PROVE AccountsInv'
  OBVIOUS
<1>1. CASE UNCHANGED vars
  <2>1. TypeOK' /\ LocksOK' /\ WritersOK'
    BY <1>1 DEF vars, AccountsInv, TypeOK, RowsOK, LocksOK, WritersOK
  <2>2. (Known => rows["prefs"] # None)' /\ ContactLimit' /\ OnePrimary'
    BY <1>1, SameTables DEF vars
  <2>3. ASSUME NEW r \in Request
        PROVE  RequestOK(r)'
    <3>1. RequestOK(r)
      BY DEF AccountsInv
    <3>2. StageOK(r)' /\ KeptOK(r)' /\ MissingOK(r)'
      BY <1>1, <3>1 DEF vars, RequestOK, StageOK, KeptOK, MissingOK, Known, Visible
    <3>3. EditOK(r)' /\ ContactOK(r)' /\ PlaceOK(r)'
      BY <1>1, <3>1 DEF vars, RequestOK, EditOK, ContactOK, PlaceOK, Visible, Stored
    <3> QED
      BY <3>2, <3>3 DEF RequestOK
  <2> QED
    BY <2>1, <2>2, <2>3 DEF AccountsInv
<1>2. CASE Rest
  BY <1>1, <1>2 DEF Rest
<1>3. ASSUME NEW r \in Request, Arrive(r)
      PROVE  AccountsInv'
  BY <1>3, ArriveStep
<1>4. ASSUME NEW r \in Request, Fail(r)
      PROVE  AccountsInv'
  BY <1>4, DiscardStep DEF Fail
<1>5. ASSUME NEW r \in Request, Run(r)
      PROVE  AccountsInv'
  <2>1. CASE RefuseContact(r) \/ Collide(r) \/ LoseRow(r) \/ NotFound(r) \/ AbortVictim(r)
    BY <2>1, DiscardStep DEF RefuseContact, Collide, LoseRow, NotFound, AbortVictim
  <2>2. CASE AcquireLock(r) \/ Read(r) \/ SelectProfile(r) \/ CountContacts(r) \/ FindPrimary(r)
    BY <2>2, LockStep, ReadStep, SelectStep, CountStep, FindStep
  <2>3. CASE Flush(r) \/ DemotePrimary(r) \/ InsertContact(r) \/ Delete(r) \/ Commit(r)
    BY <2>3, FlushStep, DemoteStep, InsertStep, DeleteStep, CommitStep
  <2> QED
    BY <1>5, <2>1, <2>2, <2>3 DEF Run
<1> QED
  BY <1>1, <1>2, <1>3, <1>4, <1>5 DEF Next

\* Every number of overlapping requests leaves one writer per row, one holder per lock,
\* no row inserted twice and one primary contact per type (AccountRepository,
\* PreferencesRepository, under the locks that the routes take).
THEOREM AccountsInvariant == Spec => []AccountsInv
BY InvInit, InvStep, PTL DEF Spec

\* However many requests add contacts at once, the user never has more than
\* PROFILE_CONTACT_LIMIT, although add_contact counts before it inserts.
THEOREM ContactsLimited == Spec => []ContactLimit
<1>1. AccountsInv => ContactLimit
  BY DEF AccountsInv
<1> QED
  BY <1>1, AccountsInvariant, PTL

LEMMA StepAlone ==
    ASSUME TypeOK, NEW r \in Request, Arrive(r) \/ Run(r) \/ Fail(r)
    PROVE  Alone(r)
<1>1. ASSUME NEW k, NEW row, Write(r, k, row)
      PROVE  \A q \in Request \ {r} : dirty'[q] = dirty[q]
  BY <1>1 DEF Write, TypeOK
<1>2. ASSUME NEW stage, Goto(r, stage)
      PROVE  \A q \in Request \ {r} : pc'[q] = pc[q]
  BY <1>2 DEF Goto, TypeOK
<1>3. ASSUME End(r)
      PROVE  Alone(r)
  BY <1>3 DEF End, Goto, TypeOK, Alone
<1>4. CASE Arrive(r)
  <2>1. PICK q : Start(r, q)
    BY <1>4 DEF Arrive, StartLogin, StartProfile, StartPhoto, StartContact, StartLink,
                StartDelete, StartPreferences, StartTheme
  <2> QED
    BY <1>2, <2>1 DEF Start, TypeOK, Alone
<1>5. CASE AcquireLock(r) \/ CountContacts(r) \/ FindPrimary(r)
  BY <1>5 DEF AcquireLock, CountContacts, FindPrimary, Goto, TypeOK, Alone
<1>6. CASE Read(r) \/ SelectProfile(r)
  BY <1>1, <1>6 DEF Read, SelectProfile, LockProfile, Goto, TypeOK, Alone
<1>7. CASE Flush(r)
  BY <1>1, <1>2, <1>7 DEF Flush, Alone
<1>8. CASE DemotePrimary(r) \/ InsertContact(r) \/ Delete(r)
  BY <1>1, <1>2, <1>8 DEF DemotePrimary, InsertContact, Delete, Alone
<1>9. CASE /\ Run(r) \/ Fail(r)
           /\ ~(AcquireLock(r) \/ CountContacts(r) \/ FindPrimary(r) \/ Read(r)
                 \/ SelectProfile(r) \/ Flush(r) \/ DemotePrimary(r) \/ InsertContact(r)
                 \/ Delete(r))
  BY <1>3, <1>9 DEF Run, Fail, Commit, RefuseContact, Collide, LoseRow, NotFound,
                    AbortVictim, Discard
<1> QED
  BY <1>4, <1>5, <1>6, <1>7, <1>8, <1>9

\* The committed rows change by a commit only.
LEMMA StepRows ==
    ASSUME NEW r \in Request, Arrive(r) \/ Run(r) \/ Fail(r)
    PROVE  Commit(r) \/ UNCHANGED rows
BY DEF Arrive, StartLogin, StartProfile, StartPhoto, StartContact, StartLink, StartDelete,
       StartPreferences, StartTheme, Start, Run, AcquireLock, Read, SelectProfile,
       CountContacts, FindPrimary, Flush, DemotePrimary, InsertContact, Delete, RefuseContact,
       Collide, LoseRow, NotFound, AbortVictim, Fail, Discard

\* A request that goes from its commit to its end has committed, or failed there.
LEMMA Ending ==
    ASSUME AccountsInv, [Next]_vars, NEW r \in Request, Commits(r)
    PROVE  Commit(r) \/ UNCHANGED rows
<1>1. CASE UNCHANGED vars \/ Rest
  BY <1>1 DEF Rest, vars
<1>2. ASSUME NEW q \in Request, Arrive(q) \/ Run(q) \/ Fail(q)
      PROVE  Commit(r) \/ UNCHANGED rows
  <2>1. q = r
    BY <1>2, StepAlone DEF AccountsInv, Alone, Commits
  <2> QED
    BY <1>2, <2>1, StepRows
<1> QED
  BY <1>1, <1>2 DEF Next

\* No committed edit of the profile is lost: a saved form replaces the version that it
\* was made from, and a photo request leaves the other fields alone (update_profile).
THEOREM NoEditLost == Spec => EditsKept
<1> DEFINE Kept(r) ==
       LET old == rows["profile"] new == rows'["profile"] IN
       Commits(r) /\ old # None /\ new # old =>
          IF req[r].op = "profile" THEN old.stamp = req[r].form.stamp /\ new.avatar = old.avatar
          ELSE new.name = old.name /\ new.rest = old.rest
<1>1. ASSUME AccountsInv, [Next]_vars, NEW r \in Request
      PROVE  Kept(r)
  <2>1. CASE Commits(r) /\ Commit(r)
    <3>1. EditOK(r) /\ "profile" \in Key
      BY <1>1 DEF AccountsInv, RequestOK, Key, Single
    <3>2. rows'["profile"] = IF dirty[r]["profile"] = Clean THEN rows["profile"]
                             ELSE dirty[r]["profile"]
      BY <1>1, <2>1, <3>1, Committed
    <3> QED
      BY <3>1, <3>2 DEF EditOK
  <2>2. CASE UNCHANGED rows
    BY <2>2
  <2> QED
    BY <1>1, <2>1, <2>2, Ending
<1>2. AccountsInv /\ [Next]_vars => [\A r \in Request : Kept(r)]_vars
  BY <1>1
<1> QED
  BY <1>2, AccountsInvariant, PTL DEF Spec, EditsKept

\* A committed theme change leaves the other preferences as they are, also while the
\* preferences page is being saved (quick_theme_update).
THEOREM ThemeAlone == Spec => ThemeOnly
<1> DEFINE Same(r) ==
       Commits(r) /\ req[r].op = "theme" => rows'["prefs"].rest = rows["prefs"].rest
<1>1. ASSUME AccountsInv, [Next]_vars, NEW r \in Request
      PROVE  Same(r)
  <2>1. CASE Commits(r) /\ Commit(r)
    <3>1. EditOK(r) /\ "prefs" \in Key
      BY <1>1 DEF AccountsInv, RequestOK, Key, Single
    <3>2. rows'["prefs"] = IF dirty[r]["prefs"] = Clean THEN rows["prefs"]
                           ELSE dirty[r]["prefs"]
      BY <1>1, <2>1, <3>1, Committed
    <3> QED
      BY <3>1, <3>2 DEF EditOK
  <2>2. CASE UNCHANGED rows
    BY <2>2
  <2> QED
    BY <1>1, <2>1, <2>2, Ending
<1>2. AccountsInv /\ [Next]_vars => [\A r \in Request : Same(r)]_vars
  BY <1>1
<1> QED
  BY <1>2, AccountsInvariant, PTL DEF Spec, ThemeOnly

-----------------------------------------------------------------------------
(* The profile and its photo. *)

\* What a request may have done to the photo and to the profile's name for it.
PhotoOK(r) ==
    /\ dirty[r]["photo"] # Clean => req[r].op \in {"upload", "unphoto"}
    /\ req[r].op = "unphoto" => dirty[r]["photo"] \in {Clean, None}
    /\ req[r].op \in {"login", "unphoto"} /\ dirty[r]["profile"] # Clean =>
          dirty[r]["profile"].avatar = None
    /\ req[r].op = "upload" /\ pc[r] \in {"flush2", "commit"} =>
          dirty[r]["profile"] # Clean /\ dirty[r]["profile"].avatar = r
    /\ req[r].op = "upload" /\ pc[r] = "commit" =>
          dirty[r]["photo"] # Clean /\ dirty[r]["photo"].key = r

\* Who does not touch them, and is not at the end of an upload, keeps that.
LEMMA PhotoKept ==
    ASSUME NEW r \in Request, PhotoOK(r),
           dirty'[r]["photo"] = dirty[r]["photo"], dirty'[r]["profile"] = dirty[r]["profile"],
           req'[r] = req[r],
           req[r].op = "upload" => pc'[r] \notin {"flush2", "commit"}
    PROVE  PhotoOK(r)'
BY DEF PhotoOK

LEMMA PhotoFlush ==
    ASSUME AccountsInv, NEW r \in Request, PhotoOK(r), Flush(r)
    PROVE  PhotoOK(r)'
<1> DEFINE op == req[r].op
           k  == FlushKey(r)
           v  == Visible(r, k)
           st == IF pc[r] = "flush" /\ op \in {"login", "upload"} THEN "flush2" ELSE "commit"
<1>1. /\ pc[r] \in {"flush", "flush2"} /\ op # "contact"
      /\ pc' = [pc EXCEPT ![r] = st] /\ req' = req
  BY DEF Flush, Goto
<1>2. /\ \/ op = "login" /\ pc[r] = "flush" /\ k = "prefs" /\ st = "flush2"
         \/ op = "login" /\ pc[r] = "flush2" /\ k = "profile" /\ st = "commit"
         \/ op = "upload" /\ pc[r] = "flush" /\ k = "profile" /\ st = "flush2"
         \/ op = "upload" /\ pc[r] = "flush2" /\ k = "photo" /\ st = "commit"
         \/ op \in {"profile", "unphoto"} /\ pc[r] = "flush" /\ k = "profile" /\ st = "commit"
         \/ op = "link" /\ pc[r] = "flush" /\ k = "link" /\ st = "commit"
         \/ op \in {"preferences", "theme"} /\ pc[r] = "flush" /\ k = "prefs" /\ st = "commit"
      /\ k \in Single /\ k \in Key
      /\ loaded[r][k] \in Table(k) \cup {None}
  BY <1>1, Flushing
<1>3. TypeOK /\ MissingOK(r) /\ "profile" \in Key /\ "photo" \in Key
  BY DEF AccountsInv, RequestOK, Key, Single
<1>4. pc'[r] = st
  BY <1>1, <1>3 DEF TypeOK
<1>5. CASE Unchanged(r, k) /\ UNCHANGED dirty
  <2>1. op \in {"login", "unphoto"}
    BY <1>5 DEF Unchanged
  <2> HIDE DEF k, st
  <2> QED
    BY <1>1, <1>4, <1>5, <2>1, PhotoKept
<1>6. CASE ~Unchanged(r, k) /\ loaded[r][k] = None /\ v = None /\ Write(r, k, Inserted(r, k))
  <2>1. op = Inserter(k)
    BY <1>2, <1>3, <1>6 DEF MissingOK
  <2>2. \A x \in Key : dirty'[r][x] = IF x = k THEN Inserted(r, k) ELSE dirty[r][x]
    BY <1>2, <1>3, <1>6, WriteIs
  <2>3. /\ Inserted(r, "profile").avatar = None
        /\ Inserted(r, "photo").key = r /\ Inserted(r, "photo") # Clean
    <3>1. Inserted(r, "photo") \in Photo
      BY InsertedType, Tables DEF Single
    <3> QED
      BY <1>3, <3>1, Names, Tables DEF Inserted
  <2>4. /\ op = "upload" => k = "photo" /\ pc[r] = "flush2"
        /\ op \in {"login", "upload", "link"} /\ (k = "photo" => op = "upload")
    BY <1>2, <2>1 DEF Inserter
  <2> HIDE DEF k, st
  <2> QED
    BY <1>1, <1>2, <1>3, <1>4, <2>2, <2>3, <2>4 DEF PhotoOK
<1>7. CASE /\ ~Unchanged(r, k) /\ loaded[r][k] # None
           /\ StillThere(r, k) /\ Write(r, k, Updated(r, k, v))
  <2>1. v \in Table(k)
    BY <1>2, <1>3, <1>7, RowType DEF StillThere
  <2>2. op # "login"
    BY <1>7 DEF Unchanged
  <2>3. \A x \in Key : dirty'[r][x] = IF x = k THEN Updated(r, k, v) ELSE dirty[r][x]
    BY <1>2, <1>3, <1>7, WriteIs
  <2>4. Updated(r, k, v) \in Table(k) /\ Updated(r, k, v) # Clean
    BY <1>1, <1>2, <1>7, <2>1, UpdatedRow, Names
  <2> HIDE DEF k, st, v
  <2>5. ASSUME op = "upload", k = "profile"
        PROVE  Updated(r, k, v).avatar = r
    <3>1. Updated(r, k, v) = [v EXCEPT !.avatar = r, !.stamp = r]
      BY <2>5 DEF Updated
    <3>2. v \in Profile
      BY <2>1, <2>5, Tables
    <3> QED
      BY <3>1, <3>2 DEF Profile
  <2>6. ASSUME op = "unphoto", k = "profile"
        PROVE  Updated(r, k, v).avatar = None
    <3>1. Updated(r, k, v) = [v EXCEPT !.avatar = None, !.stamp = r]
      BY <2>6 DEF Updated
    <3>2. v \in Profile
      BY <2>1, <2>6, Tables
    <3> QED
      BY <3>1, <3>2 DEF Profile
  <2>7. ASSUME op = "upload", k = "photo"
        PROVE  Updated(r, k, v).key = r
    <3>1. Updated(r, k, v) = [v EXCEPT !.key = r]
      BY <2>7 DEF Updated
    <3>2. v \in Photo
      BY <2>1, <2>7, Tables
    <3> QED
      BY <3>1, <3>2 DEF Photo
  <2> QED
    BY <1>1, <1>2, <1>3, <1>4, <2>2, <2>3, <2>4, <2>5, <2>6, <2>7 DEF PhotoOK
<1> QED
  BY <1>5, <1>6, <1>7 DEF Flush

LEMMA PhotoStep ==
    ASSUME AccountsInv, NEW r \in Request, PhotoOK(r), Arrive(r) \/ Run(r) \/ Fail(r)
    PROVE  PhotoOK(r)'
<1>1. TypeOK /\ RequestOK(r) /\ "profile" \in Key /\ "photo" \in Key
  BY DEF AccountsInv, Key, Single
\* Who has not written owes the photo nothing.
<1>2. ASSUME \A k \in Key : dirty'[r][k] = Clean, pc'[r] \notin {"flush2", "commit"}
      PROVE  PhotoOK(r)'
  BY <1>1, <1>2 DEF PhotoOK
<1>3. CASE Arrive(r)
  <2>1. PICK q : Start(r, q)
    BY <1>3 DEF Arrive, StartLogin, StartProfile, StartPhoto, StartContact, StartLink,
                StartDelete, StartPreferences, StartTheme
  <2>2. \A k \in Key : dirty'[r][k] = Clean
    BY <2>1, AtRest DEF Start
  <2>3. pc'[r] \in {"lock", "delete", "read"}
    BY <1>1, <2>1 DEF Start, Goto, TypeOK
  <2> QED
    BY <1>2, <2>2, <2>3
<1>4. ASSUME Discard(r)
      PROVE  PhotoOK(r)'
  BY <1>2, <1>4, Ended DEF Discard
<1>5. CASE Commit(r)
  BY <1>2, <1>5, Ended DEF Commit
<1>6. CASE AcquireLock(r)
  BY <1>1, <1>6, PhotoKept DEF AcquireLock, Goto, TypeOK
<1>7. CASE Read(r)
  BY <1>1, <1>7, Reading, PhotoKept DEF TypeOK
<1>8. CASE SelectProfile(r)
  <2>1. /\ pc[r] = "read" /\ req[r].op = "profile" /\ req' = req
        /\ Write(r, "profile", rows["profile"])
    BY <1>8 DEF SelectProfile, LockProfile
  <2>2. dirty'[r]["photo"] = Clean
    BY <1>1, <2>1, WriteIs DEF RequestOK, StageOK
  <2> QED
    BY <1>1, <2>1, <2>2 DEF PhotoOK
<1>9. CASE CountContacts(r) \/ FindPrimary(r)
  BY <1>9, PhotoKept DEF CountContacts, FindPrimary
<1>10. CASE DemotePrimary(r) \/ InsertContact(r)
  <2>1. PICK k \in Writer : \E row : Write(r, k, row)
    <3>1. CASE DemotePrimary(r)
      BY <1>1, <3>1 DEF DemotePrimary, RequestOK, StageOK
    <3>2. CASE InsertContact(r)
      BY <3>2, Names DEF InsertContact
    <3> QED
      BY <1>10, <3>1, <3>2
  <2>2. k \in Key /\ k # "profile" /\ k # "photo"
    BY Names, Tables DEF Single
  <2>3. dirty'[r]["photo"] = dirty[r]["photo"] /\ dirty'[r]["profile"] = dirty[r]["profile"]
    BY <1>1, <2>1, <2>2, WriteIs
  <2> QED
    BY <1>10, <2>3, PhotoKept DEF DemotePrimary, InsertContact
<1>11. CASE Delete(r)
  <2>1. /\ pc[r] = "delete" /\ req' = req
        /\ Write(r, DeleteKey(r), None) \/ dirty' = dirty
        /\ req[r].op # "upload"
    BY <1>1, <1>11 DEF Delete, RequestOK, StageOK, Stages
  <2>2. /\ DeleteKey(r) \in Key /\ DeleteKey(r) # "profile"
        /\ DeleteKey(r) = "photo" => req[r].op = "unphoto"
    <3>1. req[r].op \in {"unphoto", "uncontact", "unlink"}
      <4>1. req[r].op \in Routes \cup {"none"} /\ "delete" \in Stages(req[r].op)
        BY <1>1, <2>1 DEF TypeOK, Input, RequestOK, StageOK
      <4> QED
        BY <4>1 DEF Routes, Locking, Stages
    <3>2. req[r].op = "uncontact" => DeleteKey(r) \in Writer
      BY <1>1 DEF RequestOK, StageOK, DeleteKey
    <3>3. /\ req[r].op = "unphoto" => DeleteKey(r) = "photo"
          /\ req[r].op = "unlink" => DeleteKey(r) = "link"
      BY DEF DeleteKey
    <3> QED
      BY <3>1, <3>2, <3>3, Names, Tables DEF Single
  <2>3. /\ dirty'[r]["profile"] = dirty[r]["profile"]
        /\ \/ dirty'[r]["photo"] = dirty[r]["photo"]
           \/ dirty'[r]["photo"] = None /\ req[r].op = "unphoto"
    BY <1>1, <2>1, <2>2, WriteIs
  <2> QED
    BY <1>1, <2>1, <2>3 DEF PhotoOK
<1>12. CASE Run(r)
  BY <1>4, <1>5, <1>6, <1>7, <1>8, <1>9, <1>10, <1>11, <1>12, PhotoFlush
     DEF Run, RefuseContact, Collide, LoseRow, NotFound, AbortVictim
<1> QED
  BY <1>3, <1>4, <1>12 DEF Fail

\* A commit leaves the profile and the photo in agreement.
LEMMA PhotoCommit ==
    ASSUME AccountsInv, PhotoAgrees, NEW r \in Request, PhotoOK(r), Commit(r)
    PROVE  PhotoAgrees'
<1> DEFINE op == req[r].op
<1>1. /\ pc[r] = "commit" /\ EditOK(r) /\ "profile" \in Key /\ "photo" \in Key
  BY DEF Commit, AccountsInv, RequestOK, Key, Single
<1>2. /\ rows'["profile"] = IF dirty[r]["profile"] = Clean THEN rows["profile"]
                            ELSE dirty[r]["profile"]
      /\ rows'["photo"] = IF dirty[r]["photo"] = Clean THEN rows["photo"]
                          ELSE dirty[r]["photo"]
      /\ rows'["profile"] # None
  BY <1>1, Committed
<1>3. CASE op = "upload"
  BY <1>1, <1>2, <1>3 DEF PhotoOK, PhotoAgrees
<1>4. CASE op \in {"login", "unphoto"}
  BY <1>2, <1>4 DEF PhotoOK, PhotoAgrees
<1>5. CASE op \notin {"upload", "login", "unphoto"}
  BY <1>1, <1>2, <1>5 DEF PhotoOK, PhotoAgrees, EditOK
<1> QED
  BY <1>3, <1>4, <1>5

\* When the profile names a photo and one is stored, it is that one, however uploads,
\* removals and profile edits overlap (upsert_profile_photo, delete_profile_photo).
THEOREM PhotoMatches == Spec => []PhotoAgrees
<1> DEFINE Inv == AccountsInv /\ PhotoAgrees /\ \A r \in Request : PhotoOK(r)
<1>1. Init => Inv
  <2> SUFFICES ASSUME Init PROVE Inv
    OBVIOUS
  <2>1. PhotoAgrees /\ AccountsInv
    BY InitRows, InvInit
  <2>2. \A r \in Request : req[r].op = "none" /\ \A k \in Key : dirty[r][k] = Clean
    BY DEF Init, NoInput
  <2>3. \A r \in Request : PhotoOK(r)
    BY <2>2 DEF PhotoOK, Key, Single
  <2> QED
    BY <2>1, <2>3
<1>2. Inv /\ [Next]_vars => Inv'
  <2> SUFFICES ASSUME Inv, [Next]_vars PROVE Inv'
    OBVIOUS
  <2>1. AccountsInv'
    BY InvStep
  <2>2. CASE UNCHANGED vars \/ Rest
    BY <2>1, <2>2 DEF vars, Rest, PhotoAgrees, PhotoOK
  <2>3. ASSUME NEW r \in Request, Arrive(r) \/ Run(r) \/ Fail(r)
        PROVE  Inv'
    <3>1. PhotoOK(r)'
      BY <2>3, PhotoStep
    <3>2. Alone(r)
      BY <2>3, StepAlone DEF AccountsInv
    <3>3. \A q \in Request : PhotoOK(q)'
      BY <3>1, <3>2 DEF Alone, PhotoOK
    <3>4. Commit(r) \/ UNCHANGED rows
      BY <2>3, StepRows
    <3>5. PhotoAgrees'
      BY <3>4, PhotoCommit DEF PhotoAgrees
    <3> QED
      BY <2>1, <3>3, <3>5
  <2> QED
    BY <2>2, <2>3 DEF Next
<1>3. Inv => PhotoAgrees
  OBVIOUS
<1> QED
  BY <1>1, <1>2, <1>3, PTL DEF Spec

=============================================================================
