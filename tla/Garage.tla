-------------------------------- MODULE Garage --------------------------------
(***************************************************************************)
(* The server as one system: accounts and sessions, vehicles and the       *)
(* service book over one database and one process.  A handler's caller is  *)
(* the session of the browser that calls it; the owner createRequest reads *)
(* is the one in VEHICLES; a handler that ends the process ends all        *)
(* sessions.  On top of the three stand the handlers of Services.h that    *)
(* show services: they join the tables of all three.                       *)
(*                                                                         *)
(* Nothing enforces the references between the tables, and the handlers    *)
(* that delete accounts and vehicles look at no other table.               *)
(***************************************************************************)
EXTENDS ServerData, Sequences

CONSTANTS
  Browsers, Sids, NoCookie, AdminWord, NoRow,
  Names,          \* names of further accounts
  Levels,         \* and their levels
  Passwords,      \* what may be registered with
  NewNames, PermissionsFields, \* what updateUser may store, Absent included
  PlateFields, OwnerFields, ModelFields, Words, VIDs,
  PartNumbers, Unpriceable,  \* parts, and those whose PRICE is no number
  UIDFields,      \* what the handlers that show services get as "UID"
  Lists,          \* what searchServices is asked for, sets of lists
  Faults,         \* 1 when a statement of a handler that shows services fails
  LevelLimit, MaxInteger, LeadingDigit(_),  \* as in Accounts and Services
  MaxUsers, MaxVehicles, MaxServices, MaxEntries, MaxQuantity, MaxDeletions

VARIABLES
  users, sessions, cookie,                                  \* Accounts
  models, vehicles,                                         \* Vehicles
  shared, unauthorised, active, open, closed, parts, told,  \* Services
  loggedAs,       \* the name each session was given for (history)
  placed,         \* who placed each service, and for whom (history)
  deletions       \* of accounts and vehicles, and renamings of accounts, so
                  \*   far (history)

accountVars == <<users, sessions, cookie>>
vehicleVars == <<models, vehicles>>
bookVars    == <<shared, unauthorised, active, open, closed, parts, told>>
history     == <<loggedAs, placed, deletions>>
vars        == <<up, reply, accountVars, vehicleVars, bookVars, history>>

Numbers == {0} \cup 1..MaxUsers
Ids     == 1..MaxServices
OneOnly == [chars |-> 1, sql |-> 1]

(* What the handlers are called with here, and by whom: every field that    *)
(* must be there has a text, every session and every owner is possible, and *)
(* no statement of a handler that changes the database fails.               *)
A == INSTANCE Accounts WITH
       NameFields <- [word : Names \cup {AdminWord}, flipped : {FALSE}] \cup {Absent},
       PasswordFields <- [word : {AdminWord}, flipped : BOOLEAN] \cup {Absent},
       PermissionFields <- {[chars |-> level, sql |-> level] : level \in Levels} \cup {Absent},
       IDFields <- Numbers,
       ColumnOf <- [t \in {} |-> "name"], Deliveries <- {TRUE}, Faults <- {0}

V == INSTANCE Vehicles WITH
       Callers <- Sessions \cup {NoSession}, YearFields <- {Words}, ColourFields <- {Words},
       IDFields <- VIDs, ColumnOf <- [t \in {} |-> "plate"], Faults <- {0},
       MaxModels <- MaxVehicles

S == INSTANCE Services WITH
       Callers <- Sessions \cup {NoSession}, OwnerAnswers <- Nat \cup {NoRow},
       VIDFields <- VIDs, TextFields <- {Words}, NoteFields <- {Absent, Words},
       IDFields <- Ids, ServiceFields <- Ids, PartFields <- PartNumbers,
       EntryFields <- 1..MaxEntries, QuantityFields <- {OneOnly},
       ColumnOf <- [t \in {} |-> "notes"], Faults <- {0}

ASSUME GarageAssumption ==
  /\ {0, NoCookie} \cap Sids = {}
  /\ Names \cup {AdminWord} \subseteq STRING
  /\ Levels \subseteq A!Readings
  /\ Passwords \subseteq [word : {AdminWord}, flipped : BOOLEAN]
  /\ NewNames \subseteq Names \cup {Absent}
  /\ PermissionsFields \subseteq A!Readings \cup {Absent}
  /\ OwnerFields \subseteq Nat \cup {Absent, Empty}
  /\ Words \notin {Absent, Empty}
  /\ {Absent, Empty} \cap (A!Texts \cup S!QuantityReadings) = {}
  /\ NoRow \notin Nat
  /\ LevelLimit \in Nat \ 0..superuser
  /\ {MaxUsers, MaxVehicles, MaxServices, MaxEntries, MaxDeletions, MaxQuantity} \subseteq Nat
  /\ MaxInteger \in Nat \ 0..8
  /\ \A n \in 1..MaxQuantity : LeadingDigit(n) \in 1..9

Init ==
  /\ A!Init /\ V!Init /\ S!Init
  /\ loggedAs = [sid \in {} |-> AdminWord]
  /\ placed = <<>> /\ deletions = 0

-----------------------------------------------------------------------------
(* Accounts.  The flipped text is what has to be stored for a password.     *)
text(w) == [word |-> w, flipped |-> FALSE]

(* The session a log-in of browser k begins is one under the name given. *)
nameSession(k, name) ==
  loggedAs' = [sid \in DOMAIN sessions' |->
                 IF sid \in DOMAIN sessions /\ sessions'[sid] = sessions[sid] /\ sid # cookie'[k]
                 THEN loggedAs[sid] ELSE name]

keepNames == loggedAs' = [sid \in DOMAIN sessions' |-> loggedAs[sid]]

authenticate(k, name) ==
  /\ A!authenticate(k, [username |-> text(name), password |-> A!Admin], 0, TRUE)
  /\ nameSession(k, name)
  /\ UNCHANGED <<vehicleVars, bookVars, placed, deletions>>

registerUser(k, name, password) ==
  /\ A!registerUser(k, [username |-> text(name), password |-> password], 0, TRUE)
  /\ nameSession(k, name)
  /\ UNCHANGED <<vehicleVars, bookVars, placed, deletions>>

deauthenticate(k) ==
  /\ A!deauthenticate(k, TRUE)
  /\ keepNames /\ UNCHANGED <<vehicleVars, bookVars, placed, deletions>>

checkSession(k) ==
  /\ A!checkSession(k)
  /\ keepNames /\ UNCHANGED <<vehicleVars, bookVars, placed, deletions>>

getLocalUserData(k) ==
  /\ A!getLocalUserData(k, 0)
  /\ keepNames /\ UNCHANGED <<vehicleVars, bookVars, placed, deletions>>

createUser(k, name, level) ==
  /\ A!createUser(k, [username |-> text(name), password |-> A!hash(A!Admin),
                      permission |-> [chars |-> level, sql |-> level]], 0)
  /\ UNCHANGED <<vehicleVars, bookVars, history>>

(* Counts the step when it takes a name away from a number. *)
countDeletion(removed) ==
  /\ deletions' = IF removed THEN deletions + 1 ELSE deletions
  /\ deletions' <= MaxDeletions

deleteUser(k, id) ==
  /\ A!deleteUser(k, [ID |-> id], 0)
  /\ countDeletion(users' # users)
  /\ UNCHANGED <<vehicleVars, bookVars, loggedAs, placed>>

(* updateUser, as ModifyUser.htmt calls it. *)
updateUser(k, id, name, permissions) ==
  /\ A!updateUser(k, [ID |-> id, username |-> IF name = Absent THEN Absent ELSE text(name),
                      password |-> Absent, permission |-> Absent,
                      permissions |-> permissions], 0)
  /\ countDeletion(\E i \in DOMAIN users : users'[i].name # users[i].name)
  /\ UNCHANGED <<vehicleVars, bookVars, loggedAs, placed>>

(* The sessions are in the memory of the process. *)
KeepSessions ==
  /\ sessions' = IF up' THEN sessions ELSE A!NoSessions
  /\ keepNames
  /\ UNCHANGED <<users, cookie>>

-----------------------------------------------------------------------------
createVehicle(k, b) ==
  /\ V!createVehicle(A!caller(k), b, 0)
  /\ KeepSessions /\ UNCHANGED <<bookVars, placed, deletions>>

deleteVehicle(k, id) ==
  /\ V!deleteVehicle(A!caller(k), [ID |-> id], 0)
  /\ countDeletion(vehicles' # vehicles)
  /\ KeepSessions /\ UNCHANGED <<bookVars, placed>>

updateVehicle(k, id, plate) ==
  /\ V!updateVehicle(A!caller(k), [ID |-> id, plate |-> plate, colour |-> Words], 0)
  /\ KeepSessions /\ UNCHANGED <<bookVars, placed, deletions>>

selectVehicle(k, id) ==
  /\ V!selectVehicle(A!caller(k), [ID |-> id], 0)
  /\ KeepSessions /\ UNCHANGED <<bookVars, placed, deletions>>

ownerAnswer(vid) == IF vid \in DOMAIN vehicles THEN vehicles[vid].owner ELSE NoRow

(* Who placed a service: the name behind the session, whether it was a      *)
(* manager, and the name of the account that owned the vehicle, if any.     *)
placing(k, vid) ==
  [by      |-> loggedAs[cookie[k]],
   manager |-> A!caller(k).level >= manager,
   owner   |-> IF vid \in DOMAIN vehicles /\ vehicles[vid].owner \in DOMAIN users
               THEN users[vehicles[vid].owner].name.word ELSE NoRow]

createRequest(k, vid) ==
  /\ S!createRequest(A!caller(k), [VID |-> vid, request |-> Words], ownerAnswer(vid), 0)
  /\ placed' = IF shared' = shared THEN placed ELSE Append(placed, placing(k, vid))
  /\ KeepSessions /\ UNCHANGED <<vehicleVars, deletions>>

authoriseRequest(k, id) ==
  /\ S!authoriseRequest(A!caller(k), [ID |-> id, quote |-> Words, notes |-> Absent], 0)
  /\ KeepSessions /\ UNCHANGED <<vehicleVars, placed, deletions>>

updateService(k, id) ==
  /\ S!updateService(A!caller(k), [ID |-> id, notes |-> Absent, hours |-> Words], 0)
  /\ KeepSessions /\ UNCHANGED <<vehicleVars, placed, deletions>>

closeService(k, id) ==
  /\ S!closeService(A!caller(k), [ID |-> id, paid |-> Words], 0)
  /\ KeepSessions /\ UNCHANGED <<vehicleVars, placed, deletions>>

addPartToService(k, id, part) ==
  /\ S!addPartToService(A!caller(k), [serviceID |-> id, partID |-> part, quantity |-> OneOnly], 0)
  /\ KeepSessions /\ UNCHANGED <<vehicleVars, placed, deletions>>

removePartFromService(k, entry) ==
  /\ S!removePartFromService(A!caller(k), [entry |-> entry, quantity |-> OneOnly], 0)
  /\ KeepSessions /\ UNCHANGED <<vehicleVars, placed, deletions>>

-----------------------------------------------------------------------------
(* What the joins find.  Every list joins the vehicle of a service and its  *)
(* owner; the open one joins the authoriser as well.                        *)
joined(s) ==
  /\ s \in DOMAIN shared
  /\ shared[s] \in DOMAIN vehicles
  /\ vehicles[shared[s]].owner \in DOMAIN users

ownerOf(s) == vehicles[shared[s]].owner

(* Mutated form: OPENSERVICES.SERVICE is joined with the request's number. *)
rowsOf_OtherNumber(list) ==
  CASE list = "unauthorised" -> {s \in unauthorised : joined(s)}
    [] list = "open"         -> {s \in open : joined(s) /\ S!ActiveOf(s) # {}}
    [] list = "closed"       -> {s \in closed : joined(s) /\ S!ActiveOf(s) # {}}

rowsOf(list) ==
  CASE list = "unauthorised" -> {s \in unauthorised : joined(s)}
    [] list = "open"   -> {active[i].service : i \in {i \in open \cap DOMAIN active :
                             joined(active[i].service) /\ active[i].authoriser \in DOMAIN users}}
    [] list = "closed" -> {active[i].service : i \in {i \in closed \cap DOMAIN active :
                             joined(active[i].service)}}

listed(list, UID) == {s \in rowsOf(list) : hasElement(UID) => ownerOf(s) = UID}

(* getPartPrice for each part of a service that is in PARTS. *)
priced(s) == \A e \in DOMAIN parts :
               parts[e].service = s => /\ parts[e].part \notin Unpriceable
                                       /\ S!storedChars(parts[e].quantity) # S!NotANumber

(* A handler that only shows something. *)
Shows ==
  KeepSessions /\ UNCHANGED <<vehicleVars, bookVars, placed, deletions>>

(* searchServices and selectServicePart let employees see everything and    *)
(* others what they ask for under their own number.  Without "UID" looking  *)
(* it up throws.                                                            *)
notOwn(c, UID) ==
  /\ ~verify(c, employee)
  /\ \/ c = NoSession /\ Answer(FORBIDDEN)
     \/ c # NoSession /\ getElementThrows(UID) /\ Die
     \/ c # NoSession /\ ~getElementThrows(UID) /\ c.user # UID /\ Answer(FORBIDDEN)

own(c, UID) == verify(c, employee) \/ (c # NoSession /\ c.user = UID)

searchServices(k, lists, UID, fault) ==
  /\ up
  /\ \/ lists = {} /\ Answer(BADREQUEST)
     \/ lists # {} /\ notOwn(A!caller(k), UID)
     \/ /\ lists # {} /\ own(A!caller(k), UID)
        /\ \/ fault = 1 /\ Broken
           \/ /\ fault # 1
              /\ \/ /\ \A list \in lists \ {"unauthorised"} : \A s \in listed(list, UID) : priced(s)
                    /\ Answer(OK)
                 \/ /\ \E list \in lists \ {"unauthorised"} : \E s \in listed(list, UID) : ~priced(s)
                    /\ Answer(INTERNALERROR)
  /\ Shows

(* What selectService may show of a service: as what, and of a closed one   *)
(* which number in CLOSEDSERVICES the completer, date and payment are of.   *)
Only(label) == {[as |-> label, of |-> NoRow]}

(* Mutated form: the waiting list is not looked at. *)
selectShows_NoWaiting(s) ==
  CASE ~joined(s)                                    -> Only("nothing")
    [] joined(s) /\ (S!ActiveOf(s) = {} \/ ~priced(s)) -> Only("error")
    [] OTHER -> IF s \in open THEN Only("authorised")
                ELSE [as : {"closed"}, of : closed \cap DOMAIN shared]

(* The open list is searched for the request's number, and the closed one   *)
(* for nothing: "WHERE S.ID + :ID" is true of every number in it that some  *)
(* request has, and the first of them is shown.                             *)
selectShows(s) ==
  CASE ~joined(s) -> Only("nothing")
    [] joined(s) /\ s \in unauthorised -> Only("unauthorised")
    [] joined(s) /\ s \notin unauthorised /\ (S!ActiveOf(s) = {} \/ ~priced(s)) -> Only("error")
    [] OTHER -> IF s \in open THEN Only("authorised")
                ELSE IF closed \cap DOMAIN shared = {} THEN Only("error")
                ELSE [as : {"closed"}, of : closed \cap DOMAIN shared]

(* selectService.  The statement that looks up the owner for anybody below  *)
(* an employee does not compile: it names V twice and U never.              *)
selectService(k, id, fault) ==
  /\ up
  /\ \/ id = Absent /\ Answer(BADREQUEST)
     \/ id # Absent /\ ~A!hasSession(k) /\ Answer(UNAUTHORISED)
     \/ /\ id # Absent /\ A!hasSession(k) /\ ~verify(A!caller(k), employee)
        /\ Answer(INTERNALERROR)
     \/ /\ id # Absent /\ verify(A!caller(k), employee)
        /\ \/ fault = 1 /\ Broken
           \/ /\ fault # 1
              /\ \E shown \in selectShows(id) :
                   \/ shown.as = "nothing" /\ Answer(NOTFOUND)
                   \/ shown.as = "error" /\ Answer(INTERNALERROR)
                   \/ shown.as \notin {"nothing", "error"} /\ Answer(OK)
  /\ Shows

selectServicePart(k, entry, UID, fault) ==
  /\ up
  /\ \/ entry = Absent /\ Answer(BADREQUEST)
     \/ entry # Absent /\ notOwn(A!caller(k), UID)
     \/ /\ entry # Absent /\ own(A!caller(k), UID)
        /\ \/ fault = 1 /\ Broken
           \/ fault # 1 /\ entry \in DOMAIN parts /\ Answer(OK)
           \/ fault # 1 /\ entry \notin DOMAIN parts /\ Answer(NOTFOUND)
  /\ Shows

(* The process is started again on the same database file. *)
Restart ==
  /\ A!Restart
  /\ UNCHANGED <<vehicleVars, bookVars, history>>

-----------------------------------------------------------------------------
VehicleBodies == [plate : PlateFields, model : ModelFields, owner : OwnerFields,
                  year : {Words}, colour : {Words}]

Next ==
  \/ \E k \in Browsers :
       \/ \E name \in Names \cup {AdminWord} : authenticate(k, name)
       \/ \E name \in Names \cup {AdminWord}, password \in Passwords :
            registerUser(k, name, password)
       \/ deauthenticate(k)
       \/ checkSession(k)
       \/ getLocalUserData(k)
       \/ \E name \in Names, level \in Levels : createUser(k, name, level)
       \/ \E id \in Numbers : deleteUser(k, id)
       \/ \E id \in Numbers, name \in NewNames, permissions \in PermissionsFields :
            updateUser(k, id, name, permissions)
       \/ \E b \in VehicleBodies : createVehicle(k, b)
       \/ \E id \in VIDs, plate \in PlateFields : updateVehicle(k, id, plate)
       \/ \E id \in VIDs : deleteVehicle(k, id) \/ selectVehicle(k, id) \/ createRequest(k, id)
       \/ \E id \in Ids : authoriseRequest(k, id) \/ updateService(k, id) \/ closeService(k, id)
       \/ \E id \in Ids, part \in PartNumbers : addPartToService(k, id, part)
       \/ \E entry \in 1..MaxEntries : removePartFromService(k, entry)
       \/ \E lists \in Lists, UID \in UIDFields, fault \in Faults :
            searchServices(k, lists, UID, fault)
       \/ \E id \in Ids \cup {Absent}, fault \in Faults : selectService(k, id, fault)
       \/ \E entry \in 1..MaxEntries \cup {Absent}, UID \in UIDFields, fault \in Faults :
            selectServicePart(k, entry, UID, fault)
  \/ Restart

Spec == Init /\ [][Next]_vars

-----------------------------------------------------------------------------
(***************************************************************************)
(* Properties.                                                             *)
(***************************************************************************)
listName(s) == S!statusOf(s)

(* As long as no account and no vehicle has been deleted, a service that    *)
(* was placed for somebody's vehicle is listed to that person under the     *)
(* heading that fits how far it has come, and to no other user under any:   *)
(* the joins of searchServices over four unenforced references lose and mix *)
(* up nothing.                                                              *)
ListedToItsOwner ==
  deletions = 0 =>
    \A s \in DOMAIN placed, u \in DOMAIN users : placed[s].owner # NoRow =>
      IF users[u].name.word = placed[s].owner
        THEN s \in listed(listName(s), u)
        ELSE \A list \in {"unauthorised", "open", "closed"} : s \notin listed(list, u)

(* As long as nothing has been deleted, a request is placed by the person   *)
(* whose vehicle it is for, under the name he logged in with, or by a       *)
(* manager (createRequest, isSessionUserFromID).  After a deletion the      *)
(* number of an account, which is all a session has, can be another's.      *)
PlacedByItsOwner ==
  deletions = 0 => \A s \in DOMAIN placed : placed[s].manager \/ placed[s].by = placed[s].owner

(* When services were authorised in the order they were requested, so that  *)
(* both numberings agree, selectService shows each service under the        *)
(* heading that fits it; and while CLOSEDSERVICES has one number, the       *)
(* completer, date and payment shown of a closed service are its own.  With *)
(* a second number they can be another's, whatever the numberings: the      *)
(* statement of Services.h:858-862 looks for no service in particular.      *)
SelectedAsListed ==
  (\A i \in DOMAIN active : active[i].service = i) =>
    \A s \in DOMAIN shared : joined(s) /\ priced(s) => \A shown \in selectShows(s) :
      /\ shown.as = CASE listName(s) = "unauthorised" -> "unauthorised"
                      [] listName(s) = "open"         -> "authorised"
                      [] listName(s) = "closed"       -> "closed"
                      [] OTHER                        -> "error"
      /\ shown.as = "closed" /\ (\A c, d \in closed : c = d) => shown.of \in S!ActiveOf(s)

(* listUnauthorisedServices.htmt:6, "This page lists all the unauthorised   *)
(* services across all users": every waiting request is listed to staff.    *)
AllWaitingListed == unauthorised \subseteq listed("unauthorised", Absent)
=============================================================================
