---------------------------- MODULE AccountsProofs ----------------------------
(***************************************************************************)
(* Proofs about Accounts, for every number of browsers, accounts and       *)
(* sessions, all body fields and every choice of failures.  The handlers   *)
(* change USERS in five ways and the sessions in four; what the theorems   *)
(* need to know of a handler is which of these it does.                    *)
(***************************************************************************)
EXTENDS Accounts, ServerDataProofs

(* The five ways USERS changes: an account is added by registration or by   *)
(* a session that reaches its level, removed or changed by a session that   *)
(* reaches its level, or the administrator comes back at start-up.          *)
Granted(perm) ==
  \/ perm = employee
  \/ \E k \in Browsers, p \in PermissionFields :
       /\ hasElement(p) /\ p.sql = perm
       /\ p.chars # NotANumber /\ verify(caller(k), asLevel(p.chars))

UserAdded ==
  \E row \in UserRows :
    /\ ~nameTaken(users, row.name) /\ NextRowId(users) <= MaxUsers
    /\ Granted(row.perm)
    /\ users' = insertRow(users, row)

UserRemoved ==
  \E k \in Browsers, id \in DOMAIN users :
    mayChange(caller(k), id) /\ users' = deleteRow(users, id)

UserChanged ==
  \E k \in Browsers, id \in DOMAIN users, b \in UpdateBodies :
    /\ mayChange(caller(k), id)
    /\ ~nameTaken(deleteRow(users, id), updatedUser(users[id], b).name)
    /\ users' = [users EXCEPT ![id] = updatedUser(@, b)]

AdminRestored == users' = withAdmin(users) /\ UNCHANGED <<sessions, cookie>>

(* The four ways sessions and cookies change. *)
NewSession(t, id) == [level |-> asLevel(t[id].perm), user |-> id]

LoggedIn(t) ==
  \E k \in Browsers, heard \in Deliveries, id \in DOMAIN t, sid \in Sids :
    /\ sid \notin DOMAIN released(k) /\ t[id].perm # NotANumber
    /\ sessions' = [s \in DOMAIN released(k) \cup {sid} |->
                      IF s = sid THEN NewSession(t, id) ELSE released(k)[s]]
    /\ Hear(k, heard, sid)

LoggedOut ==
  \E k \in Browsers, heard \in Deliveries :
    sessions' = released(k) /\ Hear(k, heard, NoCookie)

SessionsLost == ~up' /\ sessions' = NoSessions /\ UNCHANGED cookie

SessionStep ==
  \/ UNCHANGED <<sessions, cookie>> \/ SessionsLost \/ LoggedOut
  \/ LoggedIn(users) \/ LoggedIn(users')

UserStep == UNCHANGED users \/ UserAdded \/ UserRemoved \/ UserChanged \/ AdminRestored

(* A log-in, failed or not, is one of the ways sessions change. *)
LEMMA RequestSteps ==
  ASSUME NEW t, NEW k \in Browsers, NEW b, NEW fault, NEW written,
         NEW heard \in Deliveries, request(t, k, b, fault, written, heard)
  PROVE  LoggedOut \/ LoggedIn(t) \/ SessionsLost
<1>1. CASE loginFails(t, k, b, fault, written, heard)
  BY <1>1 DEF loginFails, LoggedOut
<1>2. CASE loginSucceeds(t, k, b, fault, written, heard)
  <2>1. PICK id \in matches(t, b), sid \in Sids \ DOMAIN released(k) :
          /\ t[id].perm # NotANumber
          /\ sessions' = [s \in DOMAIN released(k) \cup {sid} |->
                            IF s = sid THEN [level |-> asLevel(t[id].perm), user |-> id]
                                       ELSE released(k)[s]]
          /\ Hear(k, heard, sid)
    BY <1>2 DEF loginSucceeds
  <2>2. id \in DOMAIN t
    BY DEF matches
  <2> QED
    BY <2>1, <2>2 DEF LoggedIn, NewSession
<1>3. CASE Crash
  BY <1>3 DEF Crash, Die, SessionsLost
<1> QED
  BY <1>1, <1>2, <1>3 DEF request

(* A handler that answers or fails without touching sessions. *)
LEMMA PlainEnds ==
  ASSUME NEW code, Reply(code) \/ Fail \/ Crash
  PROVE  UNCHANGED <<sessions, cookie>> \/ SessionsLost
BY DEF Reply, Fail, Crash, Die, SessionsLost

(* What a registration adds is a row of USERS, with the level of an         *)
(* employee.                                                                *)
LEMMA RegisteredRow ==
  ASSUME NEW b \in LoginBodies, containsAll({b.username, b.password})
  PROVE  newUser(b, employee) \in UserRows
<1>1. b.username \in Texts /\ b.password \in Texts
  BY AccountsAssumption DEF LoginBodies, containsAll, hasElement
<1>2. employee \in Readings
  BY AccountsAssumption DEF Readings, employee, superuser
<1> QED
  BY <1>1, <1>2 DEF newUser, UserRows

(* What createUser adds is a row of USERS, with a level the caller reaches. *)
LEMMA CreatedRow ==
  ASSUME NEW k \in Browsers, NEW b \in CreateBodies, mayCreate(caller(k), b)
  PROVE  /\ newUser(b, b.permission.sql) \in UserRows
         /\ Granted(b.permission.sql)
<1>1. b.username \in Texts /\ b.password \in Texts
  BY AccountsAssumption DEF CreateBodies, mayCreate, containsAll, hasElement
<1>2. /\ b.permission \in PermissionFields /\ hasElement(b.permission)
      /\ b.permission.sql \in Readings
  BY AccountsAssumption DEF CreateBodies, mayCreate, containsAll, hasElement
<1>3. Granted(b.permission.sql)
  BY <1>2 DEF Granted, mayCreate
<1> QED
  BY <1>1, <1>2, <1>3 DEF newUser, UserRows

(* An update leaves a row of USERS, also when a text is taken for a column. *)
LEMMA UpdatedUserTyped ==
  ASSUME NEW row \in UserRows, NEW b \in UpdateBodies
  PROVE  updatedUser(row, b) \in UserRows
<1>1. \A f \in NameFields \cup PasswordFields :
        hasElement(f) => sqlValue(ColumnOf, row, f) \in Texts
  <2> TAKE f \in NameFields \cup PasswordFields
  <2> HAVE hasElement(f)
  <2>1. CASE f \in DOMAIN ColumnOf
    <3>1. ColumnOf[f] \in {"name", "password"}
      BY <2>1, AccountsAssumption DEF UserColumns
    <3>2. row["name"] \in Texts /\ row["password"] \in Texts
      BY DEF UserRows
    <3> QED
      BY <2>1, <3>1, <3>2 DEF sqlValue
  <2>2. CASE f \notin DOMAIN ColumnOf
    BY <2>2, AccountsAssumption DEF sqlValue, hasElement
  <2> QED
    BY <2>1, <2>2
<1>2. hasElement(b.permissions) => b.permissions \in Readings
  BY AccountsAssumption DEF UpdateBodies, hasElement
<1>3. b.username \in NameFields /\ b.password \in PasswordFields
  BY DEF UpdateBodies
<1> QED
  BY <1>1, <1>2, <1>3 DEF updatedUser, UserRows

(* Every step changes USERS in one of the five ways and the sessions in one *)
(* of the four.                                                             *)
LEMMA StepsOfNext ==
  ASSUME Next
  PROVE  UserStep /\ SessionStep
<1>1. ASSUME NEW k \in Browsers, NEW fault \in Faults, NEW heard \in Deliveries,
             NEW b \in LoginBodies, authenticate(k, b, fault, heard)
      PROVE  UserStep /\ SessionStep
  BY <1>1, RequestSteps, PlainEnds DEF authenticate, UserStep, SessionStep
<1>2. ASSUME NEW k \in Browsers, NEW fault \in Faults, NEW heard \in Deliveries,
             NEW b \in LoginBodies, registerUser(k, b, fault, heard)
      PROVE  UserStep /\ SessionStep
  <2>1. SessionStep
    BY <1>2, RequestSteps, PlainEnds DEF registerUser, SessionStep
  <2>2. CASE UNCHANGED users
    BY <2>1, <2>2 DEF UserStep
  <2>3. CASE /\ containsAll({b.username, b.password})
             /\ ~nameTaken(users, b.username) /\ NextRowId(users) <= MaxUsers
             /\ users' = insertRow(users, newUser(b, employee))
    <3>1. newUser(b, employee) \in UserRows
      BY <2>3, RegisteredRow
    <3>2. newUser(b, employee).name = b.username /\ newUser(b, employee).perm = employee
      BY DEF newUser
    <3>3. UserAdded
      BY <2>3, <3>1, <3>2 DEF UserAdded, Granted
    <3> QED
      BY <2>1, <3>3 DEF UserStep
  <2>4. UserStep
    BY <1>2, <2>2, <2>3 DEF registerUser
  <2> QED
    BY <2>1, <2>4
<1>3. ASSUME NEW k \in Browsers, NEW heard \in Deliveries, deauthenticate(k, heard)
      PROVE  UserStep /\ SessionStep
  BY <1>3, PlainEnds DEF deauthenticate, UserStep, SessionStep, LoggedOut
<1>4. ASSUME NEW k \in Browsers, checkSession(k)
      PROVE  UserStep /\ SessionStep
  BY <1>4, PlainEnds DEF checkSession, UserStep, SessionStep
<1>5. ASSUME NEW k \in Browsers, NEW fault \in Faults, getLocalUserData(k, fault)
      PROVE  UserStep /\ SessionStep
  BY <1>5, PlainEnds DEF getLocalUserData, UserStep, SessionStep
<1>6. ASSUME NEW k \in Browsers, NEW fault \in Faults, NEW b \in CreateBodies,
             createUser(k, b, fault)
      PROVE  UserStep /\ SessionStep
  <2>1. SessionStep
    BY <1>6, PlainEnds DEF createUser, createRefused, SessionStep
  <2>2. CASE UNCHANGED users
    BY <2>1, <2>2 DEF UserStep
  <2>3. CASE /\ mayCreate(caller(k), b)
             /\ ~nameTaken(users, b.username) /\ NextRowId(users) <= MaxUsers
             /\ users' = insertRow(users, newUser(b, b.permission.sql))
    <3>1. newUser(b, b.permission.sql) \in UserRows /\ Granted(b.permission.sql)
      BY <2>3, CreatedRow
    <3>2. /\ newUser(b, b.permission.sql).name = b.username
          /\ newUser(b, b.permission.sql).perm = b.permission.sql
      BY DEF newUser
    <3>3. UserAdded
      BY <2>3, <3>1, <3>2 DEF UserAdded
    <3> QED
      BY <2>1, <3>3 DEF UserStep
  <2>4. UserStep
    BY <1>6, <2>2, <2>3 DEF createUser
  <2> QED
    BY <2>1, <2>4
<1>7. ASSUME NEW k \in Browsers, NEW fault \in Faults, NEW b \in DeleteBodies,
             deleteUser(k, b, fault)
      PROVE  UserStep /\ SessionStep
  <2>1. SessionStep
    BY <1>7, PlainEnds DEF deleteUser, SessionStep
  <2>2. UserStep
    BY <1>7 DEF deleteUser, UserStep, UserRemoved
  <2> QED
    BY <2>1, <2>2
<1>8. ASSUME NEW k \in Browsers, NEW fault \in Faults, NEW b \in UpdateBodies,
             updateUser(k, b, fault)
      PROVE  UserStep /\ SessionStep
  <2>1. SessionStep
    BY <1>8, PlainEnds DEF updateUser, updateRefused, updateStores, SessionStep
  <2>2. UserStep
    BY <1>8 DEF updateUser, updateStores, UserStep, UserChanged
  <2> QED
    BY <2>1, <2>2
<1>9. ASSUME NEW k \in Browsers, NEW present, NEW found, NEW fault,
             showsUsers(k, present, found, fault)
      PROVE  UserStep /\ SessionStep
  BY <1>9, PlainEnds DEF showsUsers, UserStep, SessionStep
<1>10. ASSUME NEW k \in Browsers, NEW fault, NEW term, NEW id,
              searchUsers(k, term, fault) \/ selectUser(k, id, fault)
       PROVE  UserStep /\ SessionStep
  BY <1>9, <1>10 DEF searchUsers, selectUser
<1>11. CASE Restart
  BY <1>11 DEF Restart, UserStep, SessionStep, AdminRestored
<1> QED
  BY <1>1, <1>2, <1>3, <1>4, <1>5, <1>6, <1>7, <1>8, <1>10, <1>11 DEF Next

-----------------------------------------------------------------------------
(* Type correctness. *)
UsersTyped(t) == \E S \in SUBSET (0..MaxUsers) : t \in [S -> UserRows]

SessionsTyped(t) == \E S \in SUBSET Sids : t \in [S -> Sessions]

(* The row main adds is a row of USERS. *)
LEMMA AdminRowTyped == AdminRow \in UserRows
<1>1. superuser \in Readings
  BY AccountsAssumption DEF Readings, superuser
<1>2. Admin \in Texts /\ hash(Admin) \in Texts
  BY AccountsAssumption DEF Admin, Texts, hash
<1> QED
  BY <1>1, <1>2 DEF AdminRow, UserRows

(* main adds at most account 0, which the bound allows. *)
LEMMA WithAdminTyped ==
  ASSUME NEW t, UsersTyped(t)
  PROVE  UsersTyped(withAdmin(t))
<1>1. PICK S \in SUBSET (0..MaxUsers) : t \in [S -> UserRows]
  BY DEF UsersTyped
<1>2. CASE withAdmin(t) = t
  BY <1>2
<1>3. CASE withAdmin(t) = [id \in DOMAIN t \cup {0} |-> IF id = 0 THEN AdminRow ELSE t[id]]
  <2>1. withAdmin(t) \in [S \cup {0} -> UserRows]
    BY <1>1, <1>3, AdminRowTyped
  <2>2. S \cup {0} \in SUBSET (0..MaxUsers)
    BY AccountsAssumption
  <2> QED
    BY <2>1, <2>2 DEF UsersTyped
<1> QED
  BY <1>2, <1>3 DEF withAdmin

(* The ID of a new account is a fresh one of the range. *)
LEMMA FreshUser ==
  ASSUME UsersTyped(users), NextRowId(users) <= MaxUsers
  PROVE  NextRowId(users) \in 1..MaxUsers /\ NextRowId(users) \notin DOMAIN users
<1>1. MaxUsers \in Nat /\ DOMAIN users \subseteq 0..MaxUsers
  BY AccountsAssumption DEF UsersTyped
<1>2. NextRowId(users) \in Nat \ {0} /\ NextRowId(users) \notin DOMAIN users
  BY <1>1, NextRowIdIsNext
<1> QED
  BY <1>1, <1>2

(* USERS keeps its columns in every step. *)
LEMMA UserStepTyped ==
  ASSUME UsersTyped(users), UserStep
  PROVE  UsersTyped(users')
<1>1. PICK S \in SUBSET (0..MaxUsers) : users \in [S -> UserRows]
  BY DEF UsersTyped
<1>2. CASE UserAdded
  <2>1. PICK row \in UserRows : /\ NextRowId(users) <= MaxUsers
                                /\ users' = insertRow(users, row)
    BY <1>2 DEF UserAdded
  <2>2. PICK n : n = NextRowId(users)
    OBVIOUS
  <2>3. n \in 0..MaxUsers
    BY <2>1, <2>2, FreshUser
  <2>4. users' \in [S \cup {n} -> UserRows]
    BY <1>1, <2>1, <2>2 DEF insertRow
  <2> QED
    BY <2>3, <2>4 DEF UsersTyped
<1>3. CASE UserRemoved
  <2>1. PICK id : users' = deleteRow(users, id)
    BY <1>3 DEF UserRemoved
  <2>2. users' \in [S \ {id} -> UserRows]
    BY <1>1, <2>1 DEF deleteRow
  <2> QED
    BY <2>2 DEF UsersTyped
<1>4. CASE UserChanged
  <2>1. PICK id \in DOMAIN users, b \in UpdateBodies :
          users' = [users EXCEPT ![id] = updatedUser(users[id], b)]
    BY <1>4 DEF UserChanged
  <2>2. updatedUser(users[id], b) \in UserRows
    BY <1>1, UpdatedUserTyped
  <2>3. users' \in [S -> UserRows]
    BY <1>1, <2>1, <2>2
  <2> QED
    BY <2>3 DEF UsersTyped
<1>5. CASE UNCHANGED users
  BY <1>5
<1>6. CASE AdminRestored
  BY <1>6, WithAdminTyped DEF AdminRestored
<1> QED
  BY <1>2, <1>3, <1>4, <1>5, <1>6 DEF UserStep

(* A level is a number, whatever half of the range its reading lies in. *)
LEMMA LevelTyped ==
  ASSUME NEW n \in Readings, n # NotANumber
  PROVE  asLevel(n) \in Int
BY AccountsAssumption DEF asLevel, Readings, NotANumber

(* A session made for an account of a typed table is typed. *)
LEMMA NewSessionTyped ==
  ASSUME NEW t, UsersTyped(t), NEW id \in DOMAIN t, t[id].perm # NotANumber
  PROVE  NewSession(t, id) \in Sessions
<1>1. t[id].perm \in Readings /\ id \in Nat
  BY AccountsAssumption DEF UsersTyped, UserRows
<1> QED
  BY <1>1, LevelTyped DEF NewSession, Sessions

(* Releasing a session leaves sessions. *)
LEMMA ReleasedTyped ==
  ASSUME SessionsTyped(sessions), NEW k
  PROVE  SessionsTyped(released(k))
BY DEF SessionsTyped, released, deleteRow

(* What a browser hears is a session number or no cookie. *)
LEMMA HearTyped ==
  ASSUME cookie \in [Browsers -> Sids \cup {NoCookie}], NEW k \in Browsers,
         NEW heard, NEW c \in Sids \cup {NoCookie}, Hear(k, heard, c)
  PROVE  cookie' \in [Browsers -> Sids \cup {NoCookie}]
BY DEF Hear

(* Log-ins keep sessions and cookies typed. *)
LEMMA LoggedInTyped ==
  ASSUME SessionsTyped(sessions), cookie \in [Browsers -> Sids \cup {NoCookie}],
         NEW t, UsersTyped(t), LoggedIn(t)
  PROVE  SessionsTyped(sessions') /\ cookie' \in [Browsers -> Sids \cup {NoCookie}]
<1>1. PICK k \in Browsers, heard \in Deliveries, id \in DOMAIN t, sid \in Sids :
        /\ t[id].perm # NotANumber
        /\ sessions' = [s \in DOMAIN released(k) \cup {sid} |->
                          IF s = sid THEN NewSession(t, id) ELSE released(k)[s]]
        /\ Hear(k, heard, sid)
  BY DEF LoggedIn
<1>2. PICK S \in SUBSET Sids : released(k) \in [S -> Sessions]
  BY ReleasedTyped DEF SessionsTyped
<1>3. NewSession(t, id) \in Sessions
  BY <1>1, NewSessionTyped
<1>4. sessions' \in [S \cup {sid} -> Sessions]
  BY <1>1, <1>2, <1>3
<1>5. SessionsTyped(sessions')
  BY <1>4 DEF SessionsTyped
<1> QED
  BY <1>1, <1>5, HearTyped

(* Every step keeps sessions and cookies typed. *)
LEMMA SessionStepTyped ==
  ASSUME UsersTyped(users), UsersTyped(users'), SessionsTyped(sessions),
         cookie \in [Browsers -> Sids \cup {NoCookie}], SessionStep
  PROVE  SessionsTyped(sessions') /\ cookie' \in [Browsers -> Sids \cup {NoCookie}]
<1>1. CASE SessionsLost
  <2>1. NoSessions \in [{} -> Sessions]
    BY DEF NoSessions
  <2> QED
    BY <1>1, <2>1 DEF SessionsLost, SessionsTyped
<1>2. CASE LoggedOut
  BY <1>2, ReleasedTyped, HearTyped DEF LoggedOut
<1>3. CASE UNCHANGED <<sessions, cookie>>
  BY <1>3
<1> QED
  BY <1>1, <1>2, <1>3, LoggedInTyped DEF SessionStep

(* How a handler ends is an HTTP code or a dropped connection. *)
Ended == up' \in BOOLEAN /\ reply' \in HTTPCodes \cup {NoReply}

(* Answers, failures and crashes end a handler. *)
LEMMA EndsTyped ==
  ASSUME up \in BOOLEAN, NEW code \in HTTPCodes,
         Answer(code) \/ Reply(code) \/ Fail \/ Crash
  PROVE  Ended
<1>1. CASE Answer(code)
  BY <1>1 DEF Answer, Ended
<1>2. CASE Answer(INTERNALERROR)
  BY <1>2 DEF Answer, Ended, HTTPCodes
<1>3. CASE Die
  BY <1>3 DEF Die, Ended
<1> QED
  BY <1>1, <1>2, <1>3 DEF Reply, Fail, Crash

(* So does a log-in, whatever status was written before it. *)
LEMMA RequestEnds ==
  ASSUME up \in BOOLEAN, NEW t, NEW k, NEW b, NEW fault, NEW heard,
         NEW written \in {NoReply, INTERNALERROR},
         request(t, k, b, fault, written, heard)
  PROVE  Ended
<1>1. \A code \in {OK, UNAUTHORISED} : statusSent(k, written, code) \in HTTPCodes
  BY DEF statusSent, HTTPCodes
<1>2. CASE Crash
  BY <1>2, EndsTyped DEF HTTPCodes
<1>3. CASE loginFails(t, k, b, fault, written, heard)
  BY <1>1, <1>3, EndsTyped DEF loginFails
<1>4. CASE loginSucceeds(t, k, b, fault, written, heard)
  BY <1>1, <1>4, EndsTyped DEF loginSucceeds
<1> QED
  BY <1>2, <1>3, <1>4 DEF request

(* Every step ends so. *)
LEMMA NextEnds ==
  ASSUME up \in BOOLEAN, Next
  PROVE  Ended
<1>1. ASSUME NEW k, NEW b, NEW fault, NEW heard, authenticate(k, b, fault, heard)
      PROVE  Ended
  BY <1>1, RequestEnds, EndsTyped DEF authenticate, HTTPCodes
<1>2. ASSUME NEW k, NEW b, NEW fault, NEW heard, registerUser(k, b, fault, heard)
      PROVE  Ended
  BY <1>2, RequestEnds, EndsTyped DEF registerUser, HTTPCodes
<1>3. ASSUME NEW k, NEW heard, deauthenticate(k, heard) \/ checkSession(k)
      PROVE  Ended
  BY <1>3, EndsTyped DEF deauthenticate, checkSession, HTTPCodes
<1>4. ASSUME NEW k, NEW b, NEW fault,
             createUser(k, b, fault) \/ deleteUser(k, b, fault) \/ getLocalUserData(k, fault)
      PROVE  Ended
  BY <1>4, EndsTyped DEF createUser, createRefused, deleteUser, getLocalUserData, HTTPCodes
<1>5. ASSUME NEW k, NEW b, NEW fault, updateUser(k, b, fault)
      PROVE  Ended
  BY <1>5, EndsTyped DEF updateUser, updateRefused, updateStores, HTTPCodes
<1>6. ASSUME NEW k, NEW present, NEW found, NEW fault, showsUsers(k, present, found, fault)
      PROVE  Ended
  BY <1>6, EndsTyped DEF showsUsers, HTTPCodes
<1>7. ASSUME NEW k, NEW fault, NEW term, NEW id,
             searchUsers(k, term, fault) \/ selectUser(k, id, fault)
      PROVE  Ended
  BY <1>6, <1>7 DEF searchUsers, selectUser
<1>8. CASE Restart
  BY <1>8 DEF Restart, Ended
<1> QED
  BY <1>1, <1>2, <1>3, <1>4, <1>5, <1>7, <1>8 DEF Next

(* The type invariant, in the terms of the lemmas above. *)
LEMMA TypeParts ==
  TypeOK <=> /\ up \in BOOLEAN /\ reply \in HTTPCodes \cup {NoReply}
             /\ UsersTyped(users) /\ SessionsTyped(sessions)
             /\ cookie \in [Browsers -> Sids \cup {NoCookie}]
BY DEF TypeOK, UsersTyped, SessionsTyped

(* A fresh database with nobody logged in is well typed. *)
LEMMA InitTyped == Init => TypeOK
<1> SUFFICES ASSUME Init PROVE TypeOK
  OBVIOUS
<1> DEFINE none == [id \in {} |-> AdminRow]
<1>1. none \in [{} -> UserRows]
  OBVIOUS
<1>2. UsersTyped(none)
  BY <1>1 DEF UsersTyped
<1>3. NoSessions \in [{} -> Sessions]
  BY DEF NoSessions
<1>4. SessionsTyped(sessions)
  BY <1>3 DEF SessionsTyped, Init
<1>5. UsersTyped(users)
  BY <1>2, WithAdminTyped DEF Init
<1> QED
  BY <1>4, <1>5, TypeParts DEF Init

(* Every step keeps the state well typed. *)
LEMMA NextTyped == TypeOK /\ [Next]_vars => TypeOK'
<1> SUFFICES ASSUME TypeOK, [Next]_vars PROVE TypeOK'
  OBVIOUS
<1>1. CASE UNCHANGED vars
  BY <1>1 DEF vars, TypeOK
<1>2. CASE Next
  <2>1. Ended
    BY <1>2, NextEnds, TypeParts
  <2>2. UserStep /\ SessionStep
    BY <1>2, StepsOfNext
  <2>3. UsersTyped(users')
    BY <2>2, UserStepTyped, TypeParts
  <2>4. SessionsTyped(sessions') /\ cookie' \in [Browsers -> Sids \cup {NoCookie}]
    BY <2>2, <2>3, SessionStepTyped, TypeParts
  <2> QED
    BY <2>1, <2>3, <2>4 DEF Ended, TypeOK, UsersTyped, SessionsTyped
<1> QED
  BY <1>1, <1>2

(* Accounts, sessions and cookies keep their declared shapes in every       *)
(* reachable state: IDs in range, levels numbers, cookies session numbers.  *)
THEOREM TypeCorrect == Spec => []TypeOK
<1>1. Init => TypeOK
  BY InitTyped
<1>2. TypeOK /\ [Next]_vars => TypeOK'
  BY NextTyped
<1> QED
  BY <1>1, <1>2, PTL DEF Spec

-----------------------------------------------------------------------------
(* Names.  The column is UNIQUE, and every way in which an account gets a   *)
(* name asks for it.                                                        *)
LEMMA StepKeepsNames ==
  ASSUME TypeOK, NamesUnique, UserStep
  PROVE  NamesUnique'
<1>0. UsersTyped(users)
  BY TypeParts
<1>1. CASE UserAdded
  <2>1. PICK row \in UserRows :
          /\ ~nameTaken(users, row.name) /\ NextRowId(users) <= MaxUsers
          /\ users' = insertRow(users, row)
    BY <1>1 DEF UserAdded
  <2>2. PICK n : n = NextRowId(users)
    OBVIOUS
  <2>3. n \notin DOMAIN users
    BY <1>0, <2>1, <2>2, FreshUser
  <2>4. /\ DOMAIN users' = DOMAIN users \cup {n}
        /\ users'[n] = row
        /\ \A id \in DOMAIN users : users'[id] = users[id]
    BY <2>1, <2>2, <2>3 DEF insertRow
  <2>5. \A id \in DOMAIN users : users[id].name # row.name
    BY <2>1 DEF nameTaken
  <2> QED
    BY <2>4, <2>5 DEF NamesUnique
<1>2. CASE UserRemoved
  <2>1. PICK id : users' = deleteRow(users, id)
    BY <1>2 DEF UserRemoved
  <2> QED
    BY <2>1 DEF NamesUnique, deleteRow
<1>3. CASE UserChanged
  <2>1. PICK id \in DOMAIN users, b \in UpdateBodies :
          /\ ~nameTaken(deleteRow(users, id), updatedUser(users[id], b).name)
          /\ users' = [users EXCEPT ![id] = updatedUser(users[id], b)]
    BY <1>3 DEF UserChanged
  <2>2. \A j \in DOMAIN users \ {id} : users[j].name # updatedUser(users[id], b).name
    BY <2>1 DEF nameTaken, deleteRow
  <2>3. /\ DOMAIN users' = DOMAIN users
        /\ users'[id] = updatedUser(users[id], b)
        /\ \A j \in DOMAIN users \ {id} : users'[j] = users[j]
    BY <1>0, <2>1 DEF UsersTyped
  <2> QED
    BY <2>2, <2>3 DEF NamesUnique
<1>4. CASE AdminRestored
  <2>1. CASE users' = users
    BY <2>1 DEF NamesUnique
  <2>2. CASE /\ 0 \notin DOMAIN users /\ ~nameTaken(users, Admin)
             /\ users' = [id \in DOMAIN users \cup {0} |->
                            IF id = 0 THEN AdminRow ELSE users[id]]
    <3>1. \A id \in DOMAIN users : users[id].name # Admin
      BY <2>2 DEF nameTaken
    <3>2. AdminRow.name = Admin
      BY DEF AdminRow
    <3>3. /\ DOMAIN users' = DOMAIN users \cup {0}
          /\ users'[0] = AdminRow
          /\ \A id \in DOMAIN users : users'[id] = users[id]
      BY <2>2
    <3> QED
      BY <3>1, <3>2, <3>3 DEF NamesUnique
  <2> QED
    BY <1>4, <2>1, <2>2 DEF AdminRestored, withAdmin
<1>5. CASE UNCHANGED users
  BY <1>5 DEF NamesUnique
<1> QED
  BY <1>1, <1>2, <1>3, <1>4, <1>5 DEF UserStep

(* The assertion of authenticator::request that one account at most fits a  *)
(* name and a password: names are unique in every reachable state, also     *)
(* across deleted IDs, texts read as columns, and restarts.                 *)
THEOREM NamesCorrect == Spec => []NamesUnique
<1>1. Init => NamesUnique
  BY DEF Init, NamesUnique, withAdmin, nameTaken
<1>2. TypeOK /\ NamesUnique /\ [Next]_vars => NamesUnique'
  <2> SUFFICES ASSUME TypeOK, NamesUnique, [Next]_vars PROVE NamesUnique'
    OBVIOUS
  <2>1. CASE UNCHANGED vars
    BY <2>1 DEF vars, NamesUnique
  <2>2. CASE Next
    BY <2>2, StepsOfNext, StepKeepsNames
  <2> QED
    BY <2>1, <2>2
<1> QED
  BY <1>1, <1>2, TypeCorrect, PTL DEF Spec

-----------------------------------------------------------------------------
(* Sessions.  While every answer is heard, whoever leaves a session behind  *)
(* has it released, since its number is the cookie the browser sends.       *)
LEMMA StepKeepsHeld ==
  ASSUME AllDelivered, TypeOK, NoOrphanSessions, SessionStep
  PROVE  NoOrphanSessions'
<1>1. cookie \in [Browsers -> Sids \cup {NoCookie}]
  BY DEF TypeOK
<1>2. \A heard \in Deliveries : heard = TRUE
  BY DEF AllDelivered
<1>3. ASSUME NEW k \in Browsers, NEW c, cookie' = [cookie EXCEPT ![k] = c],
             NEW sid \in DOMAIN released(k)
      PROVE  \E j \in Browsers : cookie'[j] = sid
  <2>1. sid \in DOMAIN sessions /\ sid # cookie[k]
    BY DEF released, deleteRow
  <2>2. PICK j \in Browsers : cookie[j] = sid
    BY <2>1 DEF NoOrphanSessions
  <2> QED
    BY <1>1, <1>3, <2>1, <2>2
<1>4. CASE SessionsLost
  BY <1>4 DEF SessionsLost, NoSessions, NoOrphanSessions
<1>5. CASE LoggedOut
  <2>1. PICK k \in Browsers : /\ sessions' = released(k)
                              /\ cookie' = [cookie EXCEPT ![k] = NoCookie]
    BY <1>2, <1>5 DEF LoggedOut, Hear
  <2> QED
    BY <1>3, <2>1 DEF NoOrphanSessions
<1>6. ASSUME NEW t, LoggedIn(t)
      PROVE  NoOrphanSessions'
  <2>1. PICK k \in Browsers, sid \in Sids :
          /\ DOMAIN sessions' = DOMAIN released(k) \cup {sid}
          /\ cookie' = [cookie EXCEPT ![k] = sid]
    BY <1>2, <1>6 DEF LoggedIn, Hear
  <2>2. cookie'[k] = sid
    BY <1>1, <2>1
  <2> QED
    BY <1>3, <2>1, <2>2 DEF NoOrphanSessions
<1>7. CASE UNCHANGED <<sessions, cookie>>
  BY <1>7 DEF NoOrphanSessions
<1> QED
  BY <1>4, <1>5, <1>6, <1>7 DEF SessionStep

(* Without lost answers sessions do not pile up: each is held by a browser. *)
THEOREM SessionsHeld == AllDelivered /\ Spec => []NoOrphanSessions
<1>1. Init => NoOrphanSessions
  BY DEF Init, NoOrphanSessions, NoSessions
<1>2. AllDelivered /\ TypeOK /\ NoOrphanSessions /\ [Next]_vars => NoOrphanSessions'
  <2> SUFFICES ASSUME AllDelivered, TypeOK, NoOrphanSessions, [Next]_vars
               PROVE  NoOrphanSessions'
    OBVIOUS
  <2>1. CASE UNCHANGED vars
    BY <2>1 DEF vars, NoOrphanSessions
  <2>2. CASE Next
    BY <2>2, StepsOfNext, StepKeepsHeld
  <2> QED
    BY <2>1, <2>2
<1>3. CASE AllDelivered
  BY <1>1, <1>2, <1>3, TypeCorrect, PTL DEF Spec
<1> QED
  BY <1>3

-----------------------------------------------------------------------------
(* Levels.  An account is given a level by a session, and a session has the *)
(* level of an account: neither bound is inductive without the other.       *)
Within(t) == \A id \in DOMAIN t : accountedFor(asLevel(t[id].perm))

(* Readings are integers, and so are the levels they stand for. *)
LEMMA LevelIsInteger ==
  /\ \A n \in Readings : asLevel(n) \in Int
  /\ UncheckedLevels \subseteq Int
<1>1. \A n \in Readings : asLevel(n) \in Int
  BY AccountsAssumption DEF asLevel, Readings, NotANumber
<1>2. \A n \in PermissionsFields \ {Absent, Empty} : n \in Readings
  BY AccountsAssumption
<1>3. \A q \in PermissionFields \ {Absent, Empty} : q.sql \in Readings
  BY AccountsAssumption
<1> QED
  BY <1>1, <1>2, <1>3 DEF UncheckedLevels

(* An unchecked level is accounted for by itself. *)
LEMMA UncheckedIsAccountedFor == \A u \in UncheckedLevels : accountedFor(u)
<1> SUFFICES ASSUME NEW u \in UncheckedLevels PROVE accountedFor(u)
  OBVIOUS
<1>1. u \in Int
  BY LevelIsInteger
<1>2. u <= u
  BY <1>1
<1> QED
  BY <1>2 DEF accountedFor

(* What is below a level that is accounted for is so too. *)
LEMMA LowerIsAccountedFor ==
  ASSUME NEW n \in Int, NEW m \in Int, n <= m, accountedFor(m)
  PROVE  accountedFor(n)
<1>1. CASE m <= superuser
  BY <1>1 DEF accountedFor, superuser
<1>2. ASSUME NEW u \in UncheckedLevels, m <= u
      PROVE  accountedFor(n)
  <2>1. u \in Int
    BY LevelIsInteger
  <2>2. n <= u
    BY <1>2, <2>1
  <2> QED
    BY <2>2 DEF accountedFor
<1> QED
  BY <1>1, <1>2 DEF accountedFor

(* A level that a session grants is the session's own at most, or one that  *)
(* the two readers disagree on.                                             *)
LEMMA GrantedWithin ==
  ASSUME TypeOK, LevelsAccountedFor, NEW perm, Granted(perm)
  PROVE  accountedFor(asLevel(perm))
<1>1. CASE perm = employee
  <2>1. asLevel(perm) = employee /\ employee <= superuser
    BY <1>1, AccountsAssumption DEF asLevel, employee, superuser
  <2> QED
    BY <2>1 DEF accountedFor
<1>2. ASSUME NEW k \in Browsers, NEW p \in PermissionFields,
             hasElement(p), p.sql = perm, p.chars # NotANumber,
             verify(caller(k), asLevel(p.chars))
      PROVE  accountedFor(asLevel(perm))
  <2>1. p \in PermissionFields \ {Absent, Empty}
    BY <1>2 DEF hasElement
  <2>2. p.chars \in Readings
    BY <2>1, AccountsAssumption
  <2>3. CASE p.sql # p.chars
    <3>1. asLevel(p.sql) \in UncheckedLevels
      BY <2>1, <2>3 DEF UncheckedLevels
    <3> QED
      BY <1>2, <3>1, UncheckedIsAccountedFor
  <2>4. CASE p.sql = p.chars
    <3>1. caller(k) # NoSession /\ caller(k).level >= asLevel(p.chars)
      BY <1>2 DEF verify
    <3>2. caller(k).level \in Int /\ accountedFor(caller(k).level)
      BY <3>1 DEF caller, LevelsAccountedFor, TypeOK, Sessions
    <3>3. asLevel(p.chars) \in Int
      BY <2>2, LevelIsInteger
    <3>4. asLevel(p.chars) <= caller(k).level
      BY <3>1, <3>2, <3>3
    <3> QED
      BY <1>2, <2>4, <3>2, <3>3, <3>4, LowerIsAccountedFor
  <2> QED
    BY <2>3, <2>4
<1> QED
  BY <1>1, <1>2 DEF Granted

(* What an update stores is what the row had, or an unchecked level. *)
LEMMA UpdatedWithin ==
  ASSUME NEW row, accountedFor(asLevel(row.perm)), NEW b \in UpdateBodies
  PROVE  accountedFor(asLevel(updatedUser(row, b).perm))
<1>1. CASE ~hasElement(b.permissions)
  BY <1>1 DEF updatedUser
<1>2. CASE hasElement(b.permissions)
  <2>1. b.permissions \in PermissionsFields \ {Absent, Empty}
    BY <1>2 DEF UpdateBodies, hasElement
  <2>2. asLevel(b.permissions) \in UncheckedLevels
    BY <2>1 DEF UncheckedLevels
  <2>3. updatedUser(row, b).perm = b.permissions
    BY <1>2 DEF updatedUser
  <2> QED
    BY <2>2, <2>3, UncheckedIsAccountedFor
<1> QED
  BY <1>1, <1>2

(* The administrator main inserts is accounted for. *)
LEMMA AdminWithin == accountedFor(asLevel(AdminRow.perm))
<1>1. AdminRow.perm = 3 /\ superuser = 3
  BY DEF AdminRow, superuser
<1>2. asLevel(3) = 3
  BY AccountsAssumption DEF asLevel, superuser
<1> QED
  BY <1>1, <1>2 DEF accountedFor

(* Every level in USERS stays accounted for. *)
LEMMA StepKeepsUsersWithin ==
  ASSUME TypeOK, LevelsAccountedFor, UserStep
  PROVE  Within(users')
<1>0. UsersTyped(users) /\ Within(users)
  BY TypeParts DEF LevelsAccountedFor, Within
<1>1. CASE UserAdded
  <2>1. PICK row \in UserRows : Granted(row.perm) /\ users' = insertRow(users, row)
    BY <1>1 DEF UserAdded
  <2>2. accountedFor(asLevel(row.perm))
    BY <2>1, GrantedWithin
  <2> QED
    BY <1>0, <2>1, <2>2 DEF Within, insertRow
<1>2. CASE UserRemoved
  BY <1>0, <1>2 DEF UserRemoved, Within, deleteRow
<1>3. CASE UserChanged
  <2>1. PICK id \in DOMAIN users, b \in UpdateBodies :
          users' = [users EXCEPT ![id] = updatedUser(users[id], b)]
    BY <1>3 DEF UserChanged
  <2>2. accountedFor(asLevel(updatedUser(users[id], b).perm))
    BY <1>0, UpdatedWithin DEF Within
  <2> QED
    BY <1>0, <2>1, <2>2 DEF Within, UsersTyped
<1>4. CASE AdminRestored
  BY <1>0, <1>4, AdminWithin DEF AdminRestored, withAdmin, Within
<1>5. CASE UNCHANGED users
  BY <1>0, <1>5
<1> QED
  BY <1>1, <1>2, <1>3, <1>4, <1>5 DEF UserStep

(* So do the sessions, whose levels come from USERS. *)
LEMMA StepKeepsSessionsWithin ==
  ASSUME TypeOK, LevelsAccountedFor, Within(users'), SessionStep
  PROVE  \A sid \in DOMAIN sessions' : accountedFor(sessions'[sid].level)
<1>1. \A k : \A sid \in DOMAIN released(k) : accountedFor(released(k)[sid].level)
  BY DEF released, deleteRow, LevelsAccountedFor
<1>2. ASSUME NEW t, Within(t), LoggedIn(t)
      PROVE  \A sid \in DOMAIN sessions' : accountedFor(sessions'[sid].level)
  <2>1. PICK k \in Browsers, id \in DOMAIN t, new \in Sids :
          sessions' = [s \in DOMAIN released(k) \cup {new} |->
                         IF s = new THEN NewSession(t, id) ELSE released(k)[s]]
    BY <1>2 DEF LoggedIn
  <2>2. accountedFor(NewSession(t, id).level)
    BY <1>2 DEF NewSession, Within
  <2> QED
    BY <1>1, <2>1, <2>2
<1>3. Within(users)
  BY DEF LevelsAccountedFor, Within
<1>4. CASE SessionsLost
  BY <1>4 DEF SessionsLost, NoSessions
<1>5. CASE LoggedOut
  BY <1>1, <1>5 DEF LoggedOut
<1>6. CASE UNCHANGED <<sessions, cookie>>
  BY <1>6 DEF LevelsAccountedFor
<1> QED
  BY <1>2, <1>3, <1>4, <1>5, <1>6 DEF SessionStep

(* So no step stores a level that is not. *)
LEMMA StepKeepsWithin ==
  ASSUME TypeOK, LevelsAccountedFor, Next
  PROVE  LevelsAccountedFor'
<1>1. Within(users')
  BY StepsOfNext, StepKeepsUsersWithin
<1>2. \A sid \in DOMAIN sessions' : accountedFor(sessions'[sid].level)
  BY <1>1, StepsOfNext, StepKeepsSessionsWithin
<1> QED
  BY <1>1, <1>2 DEF LevelsAccountedFor, Within

(* At first there is the administrator and no session. *)
LEMMA InitWithin ==
  ASSUME Init
  PROVE  LevelsAccountedFor
BY AdminWithin DEF Init, LevelsAccountedFor, withAdmin, nameTaken, NoSessions

(* For every field an update or an addition may carry: no chain of accounts *)
(* that add and change accounts gets above the administrator the database   *)
(* began with, except as far as a level that was stored without a test.     *)
THEOREM LevelsCorrect == Spec => []LevelsAccountedFor
<1>1. Init => LevelsAccountedFor
  BY InitWithin
<1>2. TypeOK /\ LevelsAccountedFor /\ [Next]_vars => LevelsAccountedFor'
  <2>1. ASSUME LevelsAccountedFor, UNCHANGED vars PROVE LevelsAccountedFor'
    BY <2>1 DEF vars, LevelsAccountedFor
  <2> QED
    BY <2>1, StepKeepsWithin
<1> QED
  BY <1>1, <1>2, TypeCorrect, PTL DEF Spec

-----------------------------------------------------------------------------
(* A step changes an account only in a session that reaches its level. *)
LEMMA StepProtects == TypeOK /\ [Next]_vars => [ChangedByItsLevel]_vars
<1> SUFFICES ASSUME TypeOK, Next PROVE ChangedByItsLevel
  BY DEF vars
<1>0. UserStep /\ UsersTyped(users)
  BY StepsOfNext, TypeParts
<1>1. ASSUME NEW k \in Browsers, NEW id \in DOMAIN users, mayChange(caller(k), id)
      PROVE  /\ users[id].perm # NotANumber
             /\ \E sid \in DOMAIN sessions :
                  /\ sessions[sid].level >= employee
                  /\ sessions[sid].level >= asLevel(users[id].perm)
  BY <1>1 DEF mayChange, verify, caller
<1>2. CASE UserAdded
  <2>1. PICK row \in UserRows : /\ NextRowId(users) <= MaxUsers
                                /\ users' = insertRow(users, row)
    BY <1>2 DEF UserAdded
  <2>2. NextRowId(users) \notin DOMAIN users
    BY <1>0, <2>1, FreshUser
  <2> QED
    BY <2>1, <2>2 DEF ChangedByItsLevel, insertRow
<1>3. CASE UserRemoved
  <2>1. PICK k \in Browsers, id \in DOMAIN users :
          mayChange(caller(k), id) /\ users' = deleteRow(users, id)
    BY <1>3 DEF UserRemoved
  <2>2. \A j \in DOMAIN users \ {id} : j \in DOMAIN users' /\ users'[j] = users[j]
    BY <2>1 DEF deleteRow
  <2> QED
    BY <1>1, <2>1, <2>2 DEF ChangedByItsLevel
<1>4. CASE UserChanged
  <2>1. PICK k \in Browsers, id \in DOMAIN users, b \in UpdateBodies :
          /\ mayChange(caller(k), id)
          /\ users' = [users EXCEPT ![id] = updatedUser(users[id], b)]
    BY <1>4 DEF UserChanged
  <2>2. \A j \in DOMAIN users \ {id} : j \in DOMAIN users' /\ users'[j] = users[j]
    BY <1>0, <2>1 DEF UsersTyped
  <2> QED
    BY <1>1, <2>1, <2>2 DEF ChangedByItsLevel
<1>5. CASE AdminRestored
  BY <1>5 DEF AdminRestored, withAdmin, ChangedByItsLevel
<1>6. CASE UNCHANGED users
  BY <1>6 DEF ChangedByItsLevel
<1> QED
  BY <1>0, <1>2, <1>3, <1>4, <1>5, <1>6 DEF UserStep

(* No account is changed or removed unless a session of at least its level  *)
(* exists; one whose permission is no number is never changed again.        *)
THEOREM ProtectionCorrect == Spec => AccountsProtected
<1>1. TypeOK /\ [Next]_vars => [ChangedByItsLevel]_vars
  BY StepProtects
<1> QED
  BY <1>1, TypeCorrect, PTL DEF Spec, AccountsProtected

-----------------------------------------------------------------------------
(* A browser's session is erased by a step of that browser only: release    *)
(* erases the number in the cookie of its caller, and a log-in adds one.    *)
LEMMA StepKeepsSessions ==
  ASSUME AllDelivered, TypeOK, Next
  PROVE  KeepsSessions
<1> SUFFICES ASSUME up', NEW k \in Browsers, caller(k) # NoSession, cookie'[k] = cookie[k],
                    \A j \in Browsers \ {k} : cookie[j] # cookie[k]
             PROVE  cookie[k] \in DOMAIN sessions'
  BY DEF KeepsSessions
<1>1. cookie \in [Browsers -> Sids \cup {NoCookie}]
  BY DEF TypeOK
<1>2. \A heard \in Deliveries : heard = TRUE
  BY DEF AllDelivered
<1>3. cookie[k] \in DOMAIN sessions
  BY DEF caller
<1>4. cookie[k] # NoCookie
  BY <1>3, AccountsAssumption DEF TypeOK
<1>5. \A j \in Browsers \ {k} : cookie[k] \in DOMAIN released(j)
  BY <1>3 DEF released, deleteRow
<1>6. CASE LoggedOut
  <2>1. PICK j \in Browsers : /\ sessions' = released(j)
                              /\ cookie' = [cookie EXCEPT ![j] = NoCookie]
    BY <1>2, <1>6 DEF LoggedOut, Hear
  <2> QED
    BY <1>1, <1>4, <1>5, <2>1
<1>7. ASSUME NEW t, LoggedIn(t)
      PROVE  cookie[k] \in DOMAIN sessions'
  <2>1. PICK j \in Browsers, sid \in Sids :
          /\ DOMAIN sessions' = DOMAIN released(j) \cup {sid}
          /\ cookie' = [cookie EXCEPT ![j] = sid]
    BY <1>2, <1>7 DEF LoggedIn, Hear
  <2> QED
    BY <1>1, <1>5, <2>1
<1>8. CASE UNCHANGED <<sessions, cookie>>
  BY <1>3, <1>8
<1>9. ~SessionsLost
  BY DEF SessionsLost
<1> QED
  BY <1>6, <1>7, <1>8, <1>9, StepsOfNext DEF SessionStep

(* Nobody but the browser that holds it ends a live session. *)
THEOREM SessionsStay == AllDelivered /\ Spec => SessionsKept
<1>1. AllDelivered /\ TypeOK /\ [Next]_vars => [KeepsSessions]_vars
  BY StepKeepsSessions DEF vars
<1>2. CASE AllDelivered
  BY <1>1, <1>2, TypeCorrect, PTL DEF Spec, SessionsKept
<1> QED
  BY <1>2
=============================================================================
