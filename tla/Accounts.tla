------------------------------- MODULE Accounts -------------------------------
(***************************************************************************)
(* Accounts and sessions: the authenticator of Network.h and the handlers  *)
(* of Auth.h and User.h that log in and out and add, change and delete     *)
(* accounts, over the table USERS, the map of sessions in memory, and the  *)
(* cookie each browser holds.                                              *)
(*                                                                         *)
(* A session records the account's ID and level at log-in; it stays in the *)
(* map until the browser that holds its cookie logs out or logs in again,  *)
(* or the process ends.                                                    *)
(***************************************************************************)
EXTENDS ServerData

CONSTANTS
  Browsers,          \* clients of the server
  Sids,              \* numbers a session may get
  NoCookie,
  AdminWord,         \* the word ADMIN
  NameFields,        \* what a body may hold in its fields, Absent and Empty
  PasswordFields,    \*   included: "username"; "password"; "permission";
  PermissionFields,  \*   "permissions"; "ID" (a number or other text)
  PermissionsFields,
  IDFields,
  ColumnOf,          \* the texts that happen to be the name of a column
  Deliveries,        \* whether an answer reaches the browser: in BOOLEAN
  Faults,            \* the statement of a handler that does not complete, or 0
  LevelLimit,        \* values of the signed type of authLevel: 2^31
  MaxUsers           \* bound on the IDs of USERS

VARIABLES
  users,             \* USERS: rows by ID
  sessions,          \* authenticator::sessions
  cookie             \* the "auth" cookie each browser sends

vars == <<up, reply, users, sessions, cookie>>

-----------------------------------------------------------------------------
(* A text is a word, or the word with every bit of every character flipped, *)
(* which is all that hash does.                                             *)
Texts == [word : STRING, flipped : BOOLEAN]

hash(text) == [text EXCEPT !.flipped = ~@]

(* The text of a permission is read by std::from_chars when it arrives and, *)
(* in the form in which SQLite gives it back, every time it is used.        *)
NotANumber == -1

Readings == 0..(2 * LevelLimit - 1) \cup {NotANumber}

(* static_cast<authLevel> from unsigned int: the upper half of the range    *)
(* becomes negative.                                                        *)
asLevel(n) == IF n < LevelLimit THEN n ELSE n - 2 * LevelLimit

UserColumns == {"name", "password"}

UserRows == [name : Texts, password : Texts, perm : Readings]

Admin == [word |-> AdminWord, flipped |-> FALSE]

AdminRow == [name |-> Admin, password |-> hash(Admin), perm |-> superuser]

ASSUME AccountsAssumption ==
  /\ {0, NoCookie} \cap Sids = {}
  /\ AdminWord \in STRING
  /\ NameFields \subseteq Texts \cup {Absent, Empty}
  /\ PasswordFields \subseteq Texts \cup {Absent, Empty}
  /\ {Absent, Empty} \cap Texts = {}
  /\ PermissionFields \subseteq [chars : Readings, sql : Readings] \cup {Absent, Empty}
  /\ PermissionsFields \subseteq Readings \cup {Absent, Empty}
  /\ ColumnOf \in [DOMAIN ColumnOf -> UserColumns]
  /\ Deliveries \subseteq BOOLEAN
  /\ Faults \subseteq Nat
  /\ LevelLimit \in Nat \ 0..superuser
  /\ MaxUsers \in Nat

-----------------------------------------------------------------------------
(* Mutated form: USERNAME without UNIQUE. *)
nameTaken_Never(t, name) == FALSE

(* USERNAME is UNIQUE. *)
nameTaken(t, name) == \E id \in DOMAIN t : t[id].name = name

(* main: a database without an account 0 or a name ADMIN gets both. *)
withAdmin(t) ==
  IF 0 \in DOMAIN t \/ nameTaken(t, Admin)
    THEN t
    ELSE [id \in DOMAIN t \cup {0} |-> IF id = 0 THEN AdminRow ELSE t[id]]

NoSessions == [sid \in {} |-> AdminRow]

Init ==
  /\ up = TRUE /\ reply = NoReply
  /\ users = withAdmin([id \in {} |-> AdminRow])
  /\ sessions = NoSessions
  /\ cookie = [k \in Browsers |-> NoCookie]

(* hasSession and getSessionID look at the cookie only, everything else at  *)
(* the session the cookie names, if there is one.                           *)
hasSession(k) == cookie[k] # NoCookie

caller(k) == IF cookie[k] \in DOMAIN sessions THEN sessions[cookie[k]] ELSE NoSession

(* A browser that hears an answer keeps the cookie the answer sets. *)
Hear(k, heard, c) == cookie' = IF heard THEN [cookie EXCEPT ![k] = c] ELSE cookie

(* The process ends and the sessions with it. *)
Crash == Die /\ sessions' = NoSessions /\ UNCHANGED cookie

(* A handler that answers and leaves the sessions alone, or cannot. *)
Reply(code) == Answer(code) /\ UNCHANGED <<sessions, cookie>>

Fail == Reply(INTERNALERROR) \/ Crash

-----------------------------------------------------------------------------
(* authenticator::request and ::release, for the accounts t.                *)
(* A browser with a cookie loses the session before the password is looked  *)
(* at.  The header that clears its cookie makes uWebSockets send the status *)
(* line, 200 unless the handler has written another, and a later            *)
(* writeStatus has no effect.                                               *)
matches(t, b) ==
  {id \in DOMAIN t : t[id].name = b.username /\ t[id].password = hash(b.password)}

(* Mutated forms: the cookie is cleared and the session kept; all sessions  *)
(* of the account are erased.                                               *)
released_Kept(k) == sessions

released_Account(k) ==
  [sid \in {s \in DOMAIN sessions : caller(k) = NoSession \/ sessions[s].user # caller(k).user}
     |-> sessions[sid]]

released(k) == deleteRow(sessions, cookie[k])

statusSent(k, written, code) ==
  IF written # NoReply THEN written ELSE IF hasSession(k) THEN OK ELSE code

loginFails(t, k, b, fault, written, heard) ==
  /\ \/ fault = 2
     \/ matches(t, b) = {}
     \/ \E id \in matches(t, b) : t[id].perm = NotANumber
  /\ Answer(statusSent(k, written, UNAUTHORISED))
  /\ sessions' = released(k)
  /\ Hear(k, heard, NoCookie)

loginSucceeds(t, k, b, fault, written, heard) ==
  /\ fault # 2
  /\ \E id \in matches(t, b), sid \in Sids \ DOMAIN released(k) :
       /\ t[id].perm # NotANumber
       /\ sessions' = [s \in DOMAIN released(k) \cup {sid} |->
                         IF s = sid THEN [level |-> asLevel(t[id].perm), user |-> id]
                                    ELSE released(k)[s]]
       /\ Hear(k, heard, sid)
  /\ Answer(statusSent(k, written, OK))

request(t, k, b, fault, written, heard) ==
  \/ loginFails(t, k, b, fault, written, heard)
  \/ loginSucceeds(t, k, b, fault, written, heard)
  \/ fault = 2 /\ Crash

authenticate(k, b, fault, heard) ==
  /\ up
  /\ \/ ~containsAll({b.username, b.password}) /\ Reply(BADREQUEST)
     \/ /\ containsAll({b.username, b.password})
        /\ request(users, k, b, fault, NoReply, heard)
  /\ UNCHANGED users

(* registerUser.  The password is stored as it is typed.  A name that is    *)
(* taken fails the INSERT, and the log-in is tried all the same.            *)
newUser(b, perm) == [name |-> b.username, password |-> b.password, perm |-> perm]

registerUser(k, b, fault, heard) ==
  /\ up
  /\ \/ /\ ~containsAll({b.username, b.password})
        /\ Reply(BADREQUEST) /\ UNCHANGED users
     \/ /\ containsAll({b.username, b.password})
        /\ \/ fault = 1 /\ Crash /\ UNCHANGED users
           \/ /\ fault = 1 \/ nameTaken(users, b.username)
              /\ request(users, k, b, fault, INTERNALERROR, heard)
              /\ UNCHANGED users
           \/ /\ fault # 1 /\ ~nameTaken(users, b.username)
              /\ NextRowId(users) <= MaxUsers
              /\ users' = insertRow(users, newUser(b, employee))
              /\ request(users', k, b, fault, NoReply, heard)

(* Mutated form: the cookie is set to 0 to clear it. *)
deauthenticate_Zero(k, heard) ==
  /\ up /\ hasSession(k) /\ Answer(OK)
  /\ sessions' = released(k)
  /\ Hear(k, heard, 0)
  /\ UNCHANGED users

deauthenticate(k, heard) ==
  /\ up
  /\ \/ ~hasSession(k) /\ Reply(CONFLICT)
     \/ /\ hasSession(k) /\ Answer(OK)
        /\ sessions' = released(k)
        /\ Hear(k, heard, NoCookie)
  /\ UNCHANGED users

(* checkSession.  The level of a session that is not there is an empty      *)
(* optional: taking its value throws, and the process ends.                 *)
checkSession(k) ==
  /\ up
  /\ \/ ~hasSession(k) /\ Reply(UNAUTHORISED)
     \/ hasSession(k) /\ caller(k) # NoSession /\ Reply(OK)
     \/ hasSession(k) /\ caller(k) = NoSession /\ Crash
  /\ UNCHANGED users

-----------------------------------------------------------------------------
(* createUser.  The level asked for is what from_chars reads. *)
createRefused(c, b) ==
  \/ ~containsAll({b.username, b.password, b.permission}) /\ Reply(BADREQUEST)
  \/ /\ containsAll({b.username, b.password, b.permission})
     /\ \/ b.permission.chars = NotANumber /\ Reply(BADREQUEST)
        \/ /\ b.permission.chars # NotANumber
           /\ ~(verify(c, employee) /\ verify(c, asLevel(b.permission.chars)))
           /\ Reply(FORBIDDEN)

(* Mutated form: any employee may ask for any level. *)
mayCreate_AnyLevel(c, b) ==
  /\ containsAll({b.username, b.password, b.permission})
  /\ b.permission.chars # NotANumber
  /\ verify(c, employee)

mayCreate(c, b) ==
  /\ containsAll({b.username, b.password, b.permission})
  /\ b.permission.chars # NotANumber
  /\ verify(c, employee) /\ verify(c, asLevel(b.permission.chars))

createUser(k, b, fault) ==
  /\ up
  /\ \/ createRefused(caller(k), b) /\ UNCHANGED users
     \/ /\ mayCreate(caller(k), b)
        /\ \/ fault = 1 /\ Fail /\ UNCHANGED users
           \/ /\ fault # 1 /\ nameTaken(users, b.username)
              /\ Reply(INTERNALERROR) /\ UNCHANGED users
           \/ /\ fault # 1 /\ ~nameTaken(users, b.username)
              /\ NextRowId(users) <= MaxUsers
              /\ users' = insertRow(users, newUser(b, b.permission.sql))
              /\ Reply(OK)

(* getLocalUserData.  The account of a session is read from row 0 of the    *)
(* answer; without the row that is a read through a null pointer.           *)
getLocalUserData(k, fault) ==
  /\ up
  /\ \/ caller(k) = NoSession /\ Reply(UNAUTHORISED)
     \/ /\ caller(k) # NoSession
        /\ \/ fault \in {1, 2} /\ Fail
           \/ /\ fault \notin {1, 2}
              /\ \/ caller(k).user \in DOMAIN users /\ Reply(OK)
                 \/ caller(k).user \notin DOMAIN users /\ Crash
  /\ UNCHANGED users

(* Mutated form: the level of the account is not looked at. *)
mayChange_AnyLevel(c, id) == verify(c, employee)

mayChange(c, id) ==
  /\ verify(c, employee)
  /\ users[id].perm # NotANumber /\ verify(c, asLevel(users[id].perm))

(* deleteUser.  The sessions of the account are left alone. *)
deleteUser(k, b, fault) ==
  /\ up
  /\ \/ /\ \/ ~hasElement(b.ID) /\ Reply(BADREQUEST)
           \/ hasElement(b.ID) /\ ~verify(caller(k), employee) /\ Reply(FORBIDDEN)
           \/ /\ hasElement(b.ID) /\ verify(caller(k), employee)
              /\ \/ fault = 1 /\ Fail
                 \/ fault # 1 /\ b.ID \notin DOMAIN users /\ Reply(OK)
                 \/ /\ fault # 1 /\ b.ID \in DOMAIN users
                    /\ \/ users[b.ID].perm = NotANumber /\ Reply(INTERNALERROR)
                       \/ /\ users[b.ID].perm # NotANumber
                          /\ ~verify(caller(k), asLevel(users[b.ID].perm))
                          /\ Reply(FORBIDDEN)
                 \/ fault = 2 /\ b.ID \in DOMAIN users /\ mayChange(caller(k), b.ID) /\ Fail
        /\ UNCHANGED users
     \/ /\ hasElement(b.ID) /\ fault \notin {1, 2} /\ b.ID \in DOMAIN users
        /\ mayChange(caller(k), b.ID)
        /\ users' = deleteRow(users, b.ID)
        /\ Reply(OK)

permissionPasses(c, b) ==
  hasElement(b.permission) =>
    b.permission.chars # NotANumber /\ verify(c, asLevel(b.permission.chars))

(* updateUser.  The level is checked under "permission" and stored from     *)
(* "permissions".                                                           *)
updateRefused(c, b, fault) ==
  \/ ~hasElement(b.ID) /\ Reply(BADREQUEST)
  \/ hasElement(b.ID) /\ ~verify(c, employee) /\ Reply(FORBIDDEN)
  \/ /\ hasElement(b.ID) /\ verify(c, employee) /\ hasElement(b.permission)
     /\ \/ b.permission.chars = NotANumber /\ Reply(BADREQUEST)
        \/ /\ b.permission.chars # NotANumber
           /\ ~verify(c, asLevel(b.permission.chars)) /\ Reply(FORBIDDEN)
  \/ /\ hasElement(b.ID) /\ verify(c, employee) /\ permissionPasses(c, b)
     /\ \/ fault = 1 /\ Fail
        \/ fault # 1 /\ b.ID \notin DOMAIN users /\ Reply(BADREQUEST)
        \/ /\ fault # 1 /\ b.ID \in DOMAIN users
           /\ \/ users[b.ID].perm = NotANumber /\ Reply(INTERNALERROR)
              \/ /\ users[b.ID].perm # NotANumber
                 /\ ~verify(c, asLevel(users[b.ID].perm)) /\ Reply(FORBIDDEN)

updatedUser(row, b) ==
  [name     |-> IF hasElement(b.username) THEN sqlValue(ColumnOf, row, b.username) ELSE row.name,
   password |-> IF hasElement(b.password) THEN sqlValue(ColumnOf, row, b.password) ELSE row.password,
   perm     |-> IF hasElement(b.permissions) THEN b.permissions ELSE row.perm]

updateStores(c, b, fault) ==
  /\ hasElement(b.ID) /\ verify(c, employee) /\ permissionPasses(c, b)
  /\ fault # 1 /\ b.ID \in DOMAIN users /\ mayChange(c, b.ID)
  /\ \/ /\ nothingToUpdate({b.username, b.password}) /\ ~hasElement(b.permissions)
        /\ Reply(OK) /\ UNCHANGED users
     \/ /\ ~nothingToUpdate({b.username, b.password}) \/ hasElement(b.permissions)
        /\ \/ fault = 2 /\ Fail /\ UNCHANGED users
           \/ /\ fault # 2
              /\ nameTaken(deleteRow(users, b.ID), updatedUser(users[b.ID], b).name)
              /\ Reply(INTERNALERROR) /\ UNCHANGED users
           \/ /\ fault # 2
              /\ ~nameTaken(deleteRow(users, b.ID), updatedUser(users[b.ID], b).name)
              /\ users' = [users EXCEPT ![b.ID] = updatedUser(@, b)]
              /\ Reply(OK)

updateUser(k, b, fault) ==
  /\ up
  /\ \/ updateRefused(caller(k), b, fault) /\ UNCHANGED users
     \/ updateStores(caller(k), b, fault)

(* searchUsers and selectUser.  For the accounts found a second statement   *)
(* looks up the vehicles.  A name matches the term it is, or an empty one.  *)
showsUsers(k, present, found, fault) ==
  /\ up
  /\ \/ ~present /\ Reply(BADREQUEST)
     \/ present /\ ~verify(caller(k), employee) /\ Reply(FORBIDDEN)
     \/ /\ present /\ verify(caller(k), employee)
        /\ \/ (fault = 1 \/ (fault = 2 /\ found)) /\ Fail
           \/ fault # 1 /\ ~found /\ Reply(NOTFOUND)
           \/ fault \notin {1, 2} /\ found /\ Reply(OK)
  /\ UNCHANGED users

searchUsers(k, term, fault) ==
  showsUsers(k, term # Absent, \E id \in DOMAIN users : term \in {Empty, users[id].name}, fault)

selectUser(k, id, fault) == showsUsers(k, hasElement(id), id \in DOMAIN users, fault)

-----------------------------------------------------------------------------
(* The process is started again on the same database file. *)
Restart ==
  /\ ~up /\ up' = TRUE /\ reply' = NoReply
  /\ users' = withAdmin(users)
  /\ UNCHANGED <<sessions, cookie>>

LoginBodies  == [username : NameFields, password : PasswordFields]
CreateBodies == [username : NameFields, password : PasswordFields,
                 permission : PermissionFields]
DeleteBodies == [ID : IDFields]
UpdateBodies == [ID : IDFields, username : NameFields, password : PasswordFields,
                 permission : PermissionFields, permissions : PermissionsFields]

Next ==
  \/ \E k \in Browsers :
       \/ \E fault \in Faults, heard \in Deliveries, b \in LoginBodies :
            \/ authenticate(k, b, fault, heard)
            \/ registerUser(k, b, fault, heard)
       \/ \E heard \in Deliveries : deauthenticate(k, heard)
       \/ checkSession(k)
       \/ \E fault \in Faults :
            \/ getLocalUserData(k, fault)
            \/ \E b \in CreateBodies : createUser(k, b, fault)
            \/ \E b \in DeleteBodies : deleteUser(k, b, fault)
            \/ \E b \in UpdateBodies : updateUser(k, b, fault)
            \/ \E term \in NameFields : searchUsers(k, term, fault)
            \/ \E id \in IDFields : selectUser(k, id, fault)
  \/ Restart

Spec == Init /\ [][Next]_vars

-----------------------------------------------------------------------------
(***************************************************************************)
(* Properties.                                                             *)
(***************************************************************************)
(* Tables, sessions and cookies have their declared shapes. *)
TypeOK ==
  /\ up \in BOOLEAN
  /\ reply \in HTTPCodes \cup {NoReply}
  /\ \E S \in SUBSET (0..MaxUsers) : users \in [S -> UserRows]
  /\ \E S \in SUBSET Sids : sessions \in [S -> Sessions]
  /\ cookie \in [Browsers -> Sids \cup {NoCookie}]

(* request asserts that a name and a password fit one account (the assert   *)
(* of Network.h:230): no sequence of registrations, additions, renamings,   *)
(* deletions and restarts gives two accounts one name.                      *)
NamesUnique ==
  \A i, j \in DOMAIN users : users[i].name = users[j].name => i = j

(* Every answer reaches its browser. *)
AllDelivered == Deliveries \subseteq {TRUE}

(* Sessions do not pile up although nothing expires them: as long as no     *)
(* answer is lost, every session is one that some browser holds the cookie  *)
(* of, whatever it logged in as before.                                     *)
NoOrphanSessions ==
  \A sid \in DOMAIN sessions : \E k \in Browsers : cookie[k] = sid

(* An account is changed or removed only while a session of at least its    *)
(* level, and at least an employee's, exists; and never again once its      *)
(* PERMISSIONS is no number.                                                *)
ChangedByItsLevel ==
  \A id \in DOMAIN users :
    \/ id \in DOMAIN users' /\ users'[id] = users[id]
    \/ /\ users[id].perm # NotANumber
       /\ \E sid \in DOMAIN sessions :
            /\ sessions[sid].level >= employee
            /\ sessions[sid].level >= asLevel(users[id].perm)

AccountsProtected == [][ChangedByItsLevel]_vars

(* The levels that get into USERS without a test of them: what updateUser   *)
(* finds in "permissions", the field ModifyUser.htmt:19 posts, and what     *)
(* SQLite makes of a text of which from_chars reads another number ("1e1"). *)
UncheckedLevels ==
  {asLevel(n) : n \in PermissionsFields \ {Absent, Empty}} \cup
  {asLevel(p.sql) : p \in {q \in PermissionFields \ {Absent, Empty} : q.sql # q.chars}}

accountedFor(n) == n <= superuser \/ \E m \in UncheckedLevels : n <= m

(* AddUser.htmt:4, "The server prevents users being added with higher       *)
(* permissions than the user adding them": no chain of accounts that add or *)
(* change accounts, log in and go on, also while earlier sessions keep the  *)
(* level they began with, gets above the administrator the database began   *)
(* with, except as far as a level that was stored without a test.           *)
LevelsAccountedFor ==
  /\ \A id \in DOMAIN users : accountedFor(asLevel(users[id].perm))
  /\ \A sid \in DOMAIN sessions : accountedFor(sessions[sid].level)

(* ModifyUser.htmt:4, "The server prevents users from having their          *)
(* permissions upgraded beyond the level of the person changing the value": *)
(* the new level of an account is no higher than that of a session there    *)
(* is.                                                                      *)
UpgradesWithinLevel ==
  [][\A id \in DOMAIN users \cap DOMAIN users' :
       asLevel(users'[id].perm) > asLevel(users[id].perm) =>
         \E k \in Browsers : verify(caller(k), asLevel(users'[id].perm))]_vars

(* A live session is ended by nobody but the browser that holds it: while   *)
(* the process runs and answers arrive, no log-in, log-out, addition,       *)
(* change or removal of an account by another browser erases it (release    *)
(* erases by the cookie of its caller).  Two browsers have one cookie only  *)
(* when a random number repeats one a browser kept over a restart.          *)
KeepsSessions ==
  up' => \A k \in Browsers :
    /\ caller(k) # NoSession /\ cookie'[k] = cookie[k]
    /\ \A j \in Browsers \ {k} : cookie[j] # cookie[k]
    => cookie[k] \in DOMAIN sessions'

SessionsKept == [][KeepsSessions]_vars
=============================================================================
