----------------------------- MODULE GarageProofs -----------------------------
(***************************************************************************)
(* Proofs about Garage, for every number of browsers, accounts, vehicles   *)
(* and services.  What AccountsProofs, VehiclesProofs and ServicesProofs   *)
(* prove of a step of their component is used here of the composed server: *)
(* a step of it is a step of a component as far as that component's tables *)
(* go, or leaves them alone.                                               *)
(***************************************************************************)
EXTENDS Garage, ServerDataProofs

(* The components with the parameters they have in Garage, and their proofs. *)
AP == INSTANCE AccountsProofs WITH
       NameFields <- [word : Names \cup {AdminWord}, flipped : {FALSE}] \cup {Absent},
       PasswordFields <- [word : {AdminWord}, flipped : BOOLEAN] \cup {Absent},
       PermissionFields <- {[chars |-> level, sql |-> level] : level \in Levels} \cup {Absent},
       IDFields <- Numbers,
       ColumnOf <- [t \in {} |-> "name"], Deliveries <- {TRUE}, Faults <- {0}

VP == INSTANCE VehiclesProofs WITH
       Callers <- Sessions \cup {NoSession}, YearFields <- {Words}, ColourFields <- {Words},
       IDFields <- VIDs, ColumnOf <- [t \in {} |-> "plate"], Faults <- {0},
       MaxModels <- MaxVehicles

SP == INSTANCE ServicesProofs WITH
       Callers <- Sessions \cup {NoSession}, OwnerAnswers <- Nat \cup {NoRow},
       VIDFields <- VIDs, TextFields <- {Words}, NoteFields <- {Absent, Words},
       IDFields <- Ids, ServiceFields <- Ids, PartFields <- PartNumbers,
       EntryFields <- 1..MaxEntries, QuantityFields <- {OneOnly},
       ColumnOf <- [t \in {} |-> "notes"], Faults <- {0}

(* The codes and levels are the same numbers in all of them. *)
USE DEF OK, A!OK, AP!OK, V!OK, VP!OK, S!OK, SP!OK, BADREQUEST, A!BADREQUEST,
        AP!BADREQUEST, V!BADREQUEST, VP!BADREQUEST, S!BADREQUEST, SP!BADREQUEST,
        UNAUTHORISED, A!UNAUTHORISED, AP!UNAUTHORISED, V!UNAUTHORISED,
        VP!UNAUTHORISED, S!UNAUTHORISED, SP!UNAUTHORISED, FORBIDDEN, A!FORBIDDEN,
        AP!FORBIDDEN, V!FORBIDDEN, VP!FORBIDDEN, S!FORBIDDEN, SP!FORBIDDEN,
        NOTFOUND, A!NOTFOUND, AP!NOTFOUND, V!NOTFOUND, VP!NOTFOUND, S!NOTFOUND,
        SP!NOTFOUND, CONFLICT, A!CONFLICT, AP!CONFLICT, V!CONFLICT, VP!CONFLICT,
        S!CONFLICT, SP!CONFLICT, INTERNALERROR, A!INTERNALERROR, AP!INTERNALERROR,
        V!INTERNALERROR, VP!INTERNALERROR, S!INTERNALERROR, SP!INTERNALERROR,
        employee, A!employee, AP!employee, V!employee, VP!employee, S!employee,
        SP!employee, manager, A!manager, AP!manager, V!manager, VP!manager,
        S!manager, SP!manager, superuser, A!superuser, AP!superuser, V!superuser,
        VP!superuser, S!superuser, SP!superuser

-----------------------------------------------------------------------------
(* What the components assume of their parameters holds here. *)

(* The markers differ from the numbers and records they stand beside. *)
LEMMA MarkersAssumed == AP!MarkerAssumption /\ VP!MarkerAssumption /\ SP!MarkerAssumption
BY MarkerAssumption DEF AP!MarkerAssumption, VP!MarkerAssumption, SP!MarkerAssumption,
   HTTPCodes, AP!HTTPCodes, VP!HTTPCodes, SP!HTTPCodes

(* Accounts. *)
LEMMA AccountsAssumed == AP!AccountsAssumption
<1> DEFINE NF == [word : Names \cup {AdminWord}, flipped : {FALSE}]
           PF == [word : {AdminWord}, flipped : BOOLEAN]
           RF == {[chars |-> level, sql |-> level] : level \in Levels}
           CF == [t \in {} |-> "name"]
<1>1. NF \subseteq AP!Texts /\ PF \subseteq AP!Texts /\ {Absent, Empty} \cap AP!Texts = {}
  BY GarageAssumption DEF AP!Texts, A!Texts
<1>2. RF \subseteq [chars : AP!Readings, sql : AP!Readings]
  <2>1. \A level \in Levels : level \in AP!Readings
    BY GarageAssumption DEF AP!Readings, A!Readings, AP!NotANumber, A!NotANumber
  <2> QED
    BY <2>1
<1>3. CF \in [DOMAIN CF -> AP!UserColumns]
  OBVIOUS
<1> HIDE DEF NF, PF, RF, CF
<1>4. /\ NF \cup {Absent} \subseteq AP!Texts \cup {Absent, Empty}
      /\ PF \cup {Absent} \subseteq AP!Texts \cup {Absent, Empty}
      /\ RF \cup {Absent} \subseteq [chars : AP!Readings, sql : AP!Readings] \cup {Absent, Empty}
  BY <1>1, <1>2
<1>5. /\ {0, NoCookie} \cap Sids = {} /\ AdminWord \in STRING
      /\ LevelLimit \in Nat \ 0..superuser /\ MaxUsers \in Nat
  BY GarageAssumption
<1>6. /\ PermissionsFields \subseteq AP!Readings \cup {Absent, Empty}
      /\ {TRUE} \subseteq BOOLEAN /\ {0} \subseteq Nat
  BY GarageAssumption DEF AP!Readings, A!Readings, AP!NotANumber, A!NotANumber
<1> QED
  BY <1>1, <1>3, <1>4, <1>5, <1>6 DEF AP!AccountsAssumption, NF, PF, RF, CF

(* Vehicles. *)
LEMMA VehiclesAssumed == VP!VehiclesAssumption
<1>1. [t \in {} |-> "plate"] \in [DOMAIN [t \in {} |-> "plate"] -> VP!Columns]
  OBVIOUS
<1> QED
  BY <1>1, GarageAssumption DEF VP!VehiclesAssumption, Sessions, VP!Sessions

(* The service book. *)
LEMMA ServicesAssumed == SP!ServicesAssumption
<1>1. OneOnly \in SP!QuantityReadings
  BY DEF OneOnly, SP!QuantityReadings
<1>2. {Absent, Empty} \cap SP!QuantityReadings = {}
  BY GarageAssumption DEF SP!QuantityReadings, S!QuantityReadings, SP!NotANumber, S!NotANumber
<1>3. [t \in {} |-> "notes"] \in [DOMAIN [t \in {} |-> "notes"] -> SP!ActiveColumns]
  OBVIOUS
<1> QED
  BY <1>1, <1>2, <1>3, GarageAssumption DEF SP!ServicesAssumption, Sessions, SP!Sessions

-----------------------------------------------------------------------------
(* The handlers of Garage are the ones the components' proofs are about. *)

(* A log-in. *)
LEMMA SameAuthenticate ==
  ASSUME NEW k, NEW b, A!authenticate(k, b, 0, TRUE)
  PROVE  AP!authenticate(k, b, 0, TRUE)
BY DEF A!authenticate, AP!authenticate, A!containsAll, AP!containsAll, A!hasElement,
       AP!hasElement, A!Reply, AP!Reply, A!Answer, AP!Answer, A!request, AP!request,
       A!loginFails, AP!loginFails, A!matches, AP!matches, A!hash, AP!hash, A!NotANumber,
       AP!NotANumber, A!statusSent, AP!statusSent, A!hasSession, AP!hasSession,
       A!released, AP!released, A!deleteRow, AP!deleteRow, A!Hear, AP!Hear,
       A!loginSucceeds, AP!loginSucceeds, A!asLevel, AP!asLevel, A!Crash, AP!Crash, A!Die,
       AP!Die, A!NoSessions, AP!NoSessions, A!AdminRow, AP!AdminRow, A!Admin, AP!Admin

(* Somebody registers, and is logged in if the password fits. *)
LEMMA SameRegisterUser ==
  ASSUME NEW k, NEW b, A!registerUser(k, b, 0, TRUE)
  PROVE  AP!registerUser(k, b, 0, TRUE)
BY DEF A!registerUser, AP!registerUser, A!containsAll, AP!containsAll, A!hasElement,
       AP!hasElement, A!nameTaken, AP!nameTaken, A!NextRowId, AP!NextRowId, A!IsNextRowId,
       AP!IsNextRowId, A!insertRow, AP!insertRow, A!newUser, AP!newUser, A!request,
       AP!request, A!loginFails, AP!loginFails, A!matches, AP!matches, A!NotANumber,
       AP!NotANumber, A!statusSent, AP!statusSent, A!hasSession, AP!hasSession, A!released,
       AP!released, A!deleteRow, AP!deleteRow, A!Hear, AP!Hear, A!loginSucceeds,
       AP!loginSucceeds, A!asLevel, AP!asLevel, A!Reply, AP!Reply, A!Answer, AP!Answer,
       A!Crash, AP!Crash, A!Die, AP!Die, A!NoSessions, AP!NoSessions, A!AdminRow,
       AP!AdminRow, A!Admin, AP!Admin, A!hash, AP!hash

(* A log-out. *)
LEMMA SameDeauthenticate ==
  ASSUME NEW k, A!deauthenticate(k, TRUE)
  PROVE  AP!deauthenticate(k, TRUE)
BY DEF A!deauthenticate, AP!deauthenticate, A!hasSession, AP!hasSession, A!Reply,
       AP!Reply, A!Answer, AP!Answer, A!released, AP!released, A!deleteRow, AP!deleteRow,
       A!Hear, AP!Hear

(* The session of a browser is looked at. *)
LEMMA SameCheckSession ==
  ASSUME NEW k, A!checkSession(k)
  PROVE  AP!checkSession(k)
BY DEF A!checkSession, AP!checkSession, A!hasSession, AP!hasSession, A!caller, AP!caller,
       A!Reply, AP!Reply, A!Answer, AP!Answer, A!Crash, AP!Crash, A!Die, AP!Die,
       A!NoSessions, AP!NoSessions, A!AdminRow, AP!AdminRow, A!Admin, AP!Admin, A!hash,
       AP!hash

(* So is its account. *)
LEMMA SameGetLocalUserData ==
  ASSUME NEW k, A!getLocalUserData(k, 0)
  PROVE  AP!getLocalUserData(k, 0)
BY DEF A!getLocalUserData, AP!getLocalUserData, A!caller, AP!caller, A!Fail, AP!Fail,
       A!Reply, AP!Reply, A!Answer, AP!Answer, A!Crash, AP!Crash, A!Die, AP!Die,
       A!NoSessions, AP!NoSessions, A!AdminRow, AP!AdminRow, A!Admin, AP!Admin, A!hash,
       AP!hash

(* An account is added. *)
LEMMA SameCreateUser ==
  ASSUME NEW k, NEW b, A!createUser(k, b, 0)
  PROVE  AP!createUser(k, b, 0)
BY DEF A!createUser, AP!createUser, A!createRefused, AP!createRefused, A!containsAll,
       AP!containsAll, A!hasElement, AP!hasElement, A!Reply, AP!Reply, A!Answer,
       AP!Answer, A!NotANumber, AP!NotANumber, A!verify, AP!verify, A!asLevel, AP!asLevel,
       A!caller, AP!caller, A!mayCreate, AP!mayCreate, A!Fail, AP!Fail, A!Crash, AP!Crash,
       A!Die, AP!Die, A!NoSessions, AP!NoSessions, A!AdminRow, AP!AdminRow, A!Admin,
       AP!Admin, A!hash, AP!hash, A!nameTaken, AP!nameTaken, A!NextRowId, AP!NextRowId,
       A!IsNextRowId, AP!IsNextRowId, A!insertRow, AP!insertRow, A!newUser, AP!newUser

(* An account is deleted. *)
LEMMA SameDeleteUser ==
  ASSUME NEW k, NEW b, A!deleteUser(k, b, 0)
  PROVE  AP!deleteUser(k, b, 0)
BY DEF A!deleteUser, AP!deleteUser, A!hasElement, AP!hasElement, A!Reply, AP!Reply,
       A!Answer, AP!Answer, A!verify, AP!verify, A!caller, AP!caller, A!Fail, AP!Fail,
       A!Crash, AP!Crash, A!Die, AP!Die, A!NoSessions, AP!NoSessions, A!AdminRow,
       AP!AdminRow, A!Admin, AP!Admin, A!hash, AP!hash, A!NotANumber, AP!NotANumber,
       A!asLevel, AP!asLevel, A!mayChange, AP!mayChange, A!deleteRow, AP!deleteRow

(* An account is changed. *)
LEMMA SameUpdateUser ==
  ASSUME NEW k, NEW b, A!updateUser(k, b, 0)
  PROVE  AP!updateUser(k, b, 0)
BY DEF A!updateUser, AP!updateUser, A!updateRefused, AP!updateRefused, A!updateStores,
       AP!updateStores, A!hasElement, AP!hasElement, A!nothingToUpdate, AP!nothingToUpdate,
       A!permissionPasses, AP!permissionPasses, A!mayChange, AP!mayChange, A!updatedUser,
       AP!updatedUser, A!sqlValue, AP!sqlValue, A!verify, AP!verify, A!caller, AP!caller,
       A!asLevel, AP!asLevel, A!NotANumber, AP!NotANumber, A!nameTaken, AP!nameTaken,
       A!deleteRow, AP!deleteRow, A!Fail, AP!Fail, A!Reply, AP!Reply, A!Answer, AP!Answer,
       A!Crash, AP!Crash, A!Die, AP!Die, A!NoSessions, AP!NoSessions, A!AdminRow,
       AP!AdminRow, A!Admin, AP!Admin, A!hash, AP!hash

(* A start on the database there is. *)
LEMMA SameRestart ==
  ASSUME A!Restart
  PROVE  AP!Restart
BY DEF A!Restart, AP!Restart, A!withAdmin, AP!withAdmin, A!nameTaken, AP!nameTaken,
       A!Admin, AP!Admin, A!AdminRow, AP!AdminRow, A!hash, AP!hash

(* A vehicle is added. *)
LEMMA SameCreateVehicle ==
  ASSUME NEW c, NEW b, V!createVehicle(c, b, 0)
  PROVE  VP!createVehicle(c, b, 0)
BY DEF V!createVehicle, VP!createVehicle, V!createRefused, VP!createRefused,
       V!containsAll, VP!containsAll, V!hasElement, VP!hasElement, V!Answer, VP!Answer,
       V!verify, VP!verify, V!isSessionUser, VP!isSessionUser, V!createStores,
       VP!createStores, V!Broken, VP!Broken, V!Die, VP!Die, V!withModel, VP!withModel,
       V!plateTaken, VP!plateTaken, V!NextRowId, VP!NextRowId, V!IsNextRowId,
       VP!IsNextRowId, V!insertRow, VP!insertRow, V!modelNumber, VP!modelNumber

(* A vehicle is deleted. *)
LEMMA SameDeleteVehicle ==
  ASSUME NEW c, NEW b, V!deleteVehicle(c, b, 0)
  PROVE  VP!deleteVehicle(c, b, 0)
BY DEF V!deleteVehicle, VP!deleteVehicle, V!handleRefused, VP!handleRefused, V!hasElement,
       VP!hasElement, V!Answer, VP!Answer, V!ownerUnread, VP!ownerUnread, V!Die, VP!Die,
       V!mayHandle, VP!mayHandle, V!isSessionUserFromID, VP!isSessionUserFromID, V!verify,
       VP!verify, V!handleAllowed, VP!handleAllowed, V!Broken, VP!Broken, V!deleteRow,
       VP!deleteRow

(* A vehicle is changed. *)
LEMMA SameUpdateVehicle ==
  ASSUME NEW c, NEW b, V!updateVehicle(c, b, 0)
  PROVE  VP!updateVehicle(c, b, 0)
BY DEF V!updateVehicle, VP!updateVehicle, V!updateStores, VP!updateStores,
       V!nothingToUpdate, VP!nothingToUpdate, V!updatedVehicle, VP!updatedVehicle,
       V!updatedCell, VP!updatedCell, V!sqlValue, VP!sqlValue, V!plateTaken, VP!plateTaken,
       V!handleRefused, VP!handleRefused, V!hasElement, VP!hasElement, V!Answer, VP!Answer,
       V!ownerUnread, VP!ownerUnread, V!Die, VP!Die, V!mayHandle, VP!mayHandle,
       V!isSessionUserFromID, VP!isSessionUserFromID, V!verify, VP!verify, V!handleAllowed,
       VP!handleAllowed, V!Broken, VP!Broken, V!deleteRow, VP!deleteRow

(* A vehicle is shown. *)
LEMMA SameSelectVehicle ==
  ASSUME NEW c, NEW b, V!selectVehicle(c, b, 0)
  PROVE  VP!selectVehicle(c, b, 0)
BY DEF V!selectVehicle, VP!selectVehicle, V!handleRefused, VP!handleRefused, V!hasElement,
       VP!hasElement, V!Answer, VP!Answer, V!ownerUnread, VP!ownerUnread, V!Die, VP!Die,
       V!mayHandle, VP!mayHandle, V!isSessionUserFromID, VP!isSessionUserFromID, V!verify,
       VP!verify, V!handleAllowed, VP!handleAllowed, V!Broken, VP!Broken

(* A service is requested. *)
LEMMA SameCreateRequest ==
  ASSUME NEW c, NEW b, NEW owner, S!createRequest(c, b, owner, 0)
  PROVE  SP!createRequest(c, b, owner, 0)
BY DEF S!createRequest, SP!createRequest, S!createRefused, SP!createRefused,
       S!containsAll, SP!containsAll, S!hasElement, SP!hasElement, S!Answer, SP!Answer,
       S!verify, SP!verify, S!Broken, SP!Broken, S!Die, SP!Die, S!isSessionUserFromID,
       SP!isSessionUserFromID, S!tables, SP!tables, S!lifecycle, SP!lifecycle,
       S!createInserts, SP!createInserts, S!mayRequest, SP!mayRequest, S!tellFailed,
       SP!tellFailed

(* It is authorised. *)
LEMMA SameAuthoriseRequest ==
  ASSUME NEW c, NEW b, S!authoriseRequest(c, b, 0)
  PROVE  SP!authoriseRequest(c, b, 0)
BY DEF S!authoriseRequest, SP!authoriseRequest, S!authoriseRefused, SP!authoriseRefused,
       S!hasElement, SP!hasElement, S!Answer, SP!Answer, S!verify, SP!verify,
       S!getElementThrows, SP!getElementThrows, S!Die, SP!Die, S!Broken, SP!Broken,
       S!tables, SP!tables, S!lifecycle, SP!lifecycle, S!authoriseMoves,
       SP!authoriseMoves, S!tellFailed, SP!tellFailed, S!newActiveRow, SP!newActiveRow,
       S!tellAuthorised, SP!tellAuthorised

(* Its hours are changed. *)
LEMMA SameUpdateService ==
  ASSUME NEW c, NEW b, S!updateService(c, b, 0)
  PROVE  SP!updateService(c, b, 0)
BY DEF S!updateService, SP!updateService, S!hasElement, SP!hasElement, S!Answer, SP!Answer,
       S!verify, SP!verify, S!Broken, SP!Broken, S!Die, SP!Die, S!updatedRow,
       SP!updatedRow, S!updatedCell, SP!updatedCell, S!sqlValue, SP!sqlValue

(* It is closed. *)
LEMMA SameCloseService ==
  ASSUME NEW c, NEW b, S!closeService(c, b, 0)
  PROVE  SP!closeService(c, b, 0)
BY DEF S!closeService, SP!closeService, S!hasElement, SP!hasElement, S!Answer, SP!Answer,
       S!verify, SP!verify, S!getElementThrows, SP!getElementThrows, S!Die, SP!Die,
       S!Broken, SP!Broken

(* A part is added to it. *)
LEMMA SameAddPart ==
  ASSUME NEW c, NEW b, S!addPartToService(c, b, 0)
  PROVE  SP!addPartToService(c, b, 0)
BY DEF S!addPartToService, SP!addPartToService, S!addRefused, SP!addRefused,
       S!containsAll, SP!containsAll, S!hasElement, SP!hasElement, S!Answer, SP!Answer,
       S!verify, SP!verify, S!NotANumber, SP!NotANumber, S!addStores, SP!addStores,
       S!quantityText, SP!quantityText, S!OneText, SP!OneText, S!Broken, SP!Broken, S!Die,
       SP!Die, S!entriesFor, SP!entriesFor, S!NextRowId, SP!NextRowId, S!IsNextRowId,
       SP!IsNextRowId, S!insertRow, SP!insertRow, S!lifecycle, SP!lifecycle

(* A part is removed from it. *)
LEMMA SameRemovePart ==
  ASSUME NEW c, NEW b, S!removePartFromService(c, b, 0)
  PROVE  SP!removePartFromService(c, b, 0)
BY DEF S!removePartFromService, SP!removePartFromService, S!removeRefused,
       SP!removeRefused, S!removeStores, SP!removeStores, S!hasElement, SP!hasElement,
       S!Answer, SP!Answer, S!verify, SP!verify, S!Broken, SP!Broken, S!Die, SP!Die,
       S!NotANumber, SP!NotANumber, S!storedChars, SP!storedChars, S!quantityText,
       SP!quantityText, S!OneText, SP!OneText, S!deleteRow, SP!deleteRow, S!lifecycle,
       SP!lifecycle

-----------------------------------------------------------------------------
(* Every step is a step of one component that leaves the others' tables     *)
(* alone, or a handler that only shows something.                           *)
Ended == up' \in BOOLEAN /\ reply' \in HTTPCodes \cup {NoReply}

AccountStep == AP!Next /\ UNCHANGED <<vehicleVars, bookVars>>
VehicleStep == VP!Next /\ KeepSessions /\ UNCHANGED bookVars
BookStep    == SP!Next /\ KeepSessions /\ UNCHANGED vehicleVars
ShowStep    == Ended /\ KeepSessions /\ UNCHANGED <<vehicleVars, bookVars>>

(* The caller a handler sees is a session or none. *)
LEMMA CallerTyped ==
  ASSUME AP!TypeOK, NEW k \in Browsers
  PROVE  A!caller(k) \in Sessions \cup {NoSession}
BY DEF AP!TypeOK, A!caller, Sessions, AP!Sessions

(* The owner createRequest reads is a number, or there is none. *)
LEMMA OwnerTyped ==
  ASSUME VP!TypeOK, NEW vid
  PROVE  ownerAnswer(vid) \in Nat \cup {NoRow}
BY GarageAssumption DEF VP!TypeOK, VP!VehicleRows, VP!NotBlank, ownerAnswer

(* A handler of Accounts. *)
LEMMA AccountHandlers ==
  ASSUME NEW k \in Browsers,
         \/ \E name \in Names \cup {AdminWord} : authenticate(k, name)
         \/ \E name \in Names \cup {AdminWord}, password \in Passwords :
              registerUser(k, name, password)
         \/ deauthenticate(k)
         \/ checkSession(k)
         \/ getLocalUserData(k)
         \/ \E name \in Names, level \in Levels : createUser(k, name, level)
         \/ \E id \in Numbers : deleteUser(k, id)
         \/ \E id \in Numbers, name \in NewNames, permissions \in PermissionsFields :
              updateUser(k, id, name, permissions)
  PROVE  AccountStep
<1>1. ASSUME NEW name \in Names \cup {AdminWord}, authenticate(k, name)
      PROVE  AccountStep
  <2> DEFINE b == [username |-> text(name), password |-> A!Admin]
  <2>1. b \in AP!LoginBodies
    BY DEF AP!LoginBodies, text, A!Admin
  <2> HIDE DEF b
  <2>2. AP!authenticate(k, b, 0, TRUE)
    BY <1>1, SameAuthenticate DEF authenticate, b
  <2>3. AP!Next
    BY <2>1, <2>2 DEF AP!Next
  <2> QED
    BY <1>1, <2>3 DEF authenticate, AccountStep
<1>2. ASSUME deauthenticate(k)
      PROVE  AccountStep
  <2>1. AP!deauthenticate(k, TRUE)
    BY <1>2, SameDeauthenticate DEF deauthenticate
  <2>2. AP!Next
    BY <2>1 DEF AP!Next
  <2> QED
    BY <1>2, <2>2 DEF deauthenticate, AccountStep
<1>3. ASSUME NEW name \in Names, NEW level \in Levels, createUser(k, name, level)
      PROVE  AccountStep
  <2> DEFINE b == [username |-> text(name), password |-> A!hash(A!Admin),
                   permission |-> [chars |-> level, sql |-> level]]
  <2>1. b \in AP!CreateBodies
    BY DEF AP!CreateBodies, text, A!Admin, A!hash
  <2> HIDE DEF b
  <2>2. AP!createUser(k, b, 0)
    BY <1>3, SameCreateUser DEF createUser, b
  <2>3. AP!Next
    BY <2>1, <2>2 DEF AP!Next
  <2> QED
    BY <1>3, <2>3 DEF createUser, AccountStep
<1>4. ASSUME NEW id \in Numbers, deleteUser(k, id)
      PROVE  AccountStep
  <2>1. [ID |-> id] \in AP!DeleteBodies
    BY DEF AP!DeleteBodies
  <2>2. AP!deleteUser(k, [ID |-> id], 0)
    BY <1>4, SameDeleteUser DEF deleteUser
  <2>3. AP!Next
    BY <2>1, <2>2 DEF AP!Next
  <2> QED
    BY <1>4, <2>3 DEF deleteUser, AccountStep
<1>5. ASSUME NEW name \in Names \cup {AdminWord}, NEW password \in Passwords,
             registerUser(k, name, password)
      PROVE  AccountStep
  <2> DEFINE b == [username |-> text(name), password |-> password]
  <2>1. b \in AP!LoginBodies
    BY GarageAssumption DEF AP!LoginBodies, text
  <2> HIDE DEF b
  <2>2. AP!registerUser(k, b, 0, TRUE)
    BY <1>5, SameRegisterUser DEF registerUser, b
  <2>3. AP!Next
    BY <2>1, <2>2 DEF AP!Next
  <2> QED
    BY <1>5, <2>3 DEF registerUser, AccountStep
<1>6. ASSUME checkSession(k)
      PROVE  AccountStep
  <2>1. AP!Next
    BY <1>6, SameCheckSession DEF checkSession, AP!Next
  <2> QED
    BY <1>6, <2>1 DEF checkSession, AccountStep
<1>7. ASSUME getLocalUserData(k)
      PROVE  AccountStep
  <2>1. AP!getLocalUserData(k, 0)
    BY <1>7, SameGetLocalUserData DEF getLocalUserData
  <2>2. AP!Next
    BY <2>1 DEF AP!Next
  <2> QED
    BY <1>7, <2>2 DEF getLocalUserData, AccountStep
<1>8. ASSUME NEW id \in Numbers, NEW name \in NewNames, NEW permissions \in PermissionsFields,
             updateUser(k, id, name, permissions)
      PROVE  AccountStep
  <2> DEFINE b == [ID |-> id, username |-> IF name = Absent THEN Absent ELSE text(name),
                   password |-> Absent, permission |-> Absent, permissions |-> permissions]
  <2>1. b \in AP!UpdateBodies
    BY GarageAssumption DEF AP!UpdateBodies, text
  <2> HIDE DEF b
  <2>2. AP!updateUser(k, b, 0)
    BY <1>8, SameUpdateUser DEF updateUser, b
  <2>3. AP!Next
    BY <2>1, <2>2 DEF AP!Next
  <2> QED
    BY <1>8, <2>3 DEF updateUser, AccountStep
<1> QED
  BY <1>1, <1>2, <1>3, <1>4, <1>5, <1>6, <1>7, <1>8

(* A handler of Vehicles, called by the session of a browser. *)
LEMMA VehicleHandlers ==
  ASSUME AP!TypeOK, NEW k \in Browsers,
         \/ \E b \in VehicleBodies : createVehicle(k, b)
         \/ \E id \in VIDs, plate \in PlateFields : updateVehicle(k, id, plate)
         \/ \E id \in VIDs : deleteVehicle(k, id) \/ selectVehicle(k, id)
  PROVE  VehicleStep
<1> DEFINE c == A!caller(k)
<1>1. c \in Sessions \cup {NoSession}
  BY CallerTyped
<1>2. ASSUME NEW b \in VehicleBodies, createVehicle(k, b)
      PROVE  VehicleStep
  <2>1. VP!createVehicle(c, b, 0)
    BY <1>2, SameCreateVehicle DEF createVehicle
  <2>2. b \in VP!CreateBodies
    BY DEF VehicleBodies, VP!CreateBodies
  <2>3. VP!Next
    <3> HIDE DEF c
    <3> QED
      BY <1>1, <2>1, <2>2 DEF VP!Next
  <2> QED
    BY <1>2, <2>3 DEF createVehicle, VehicleStep
<1>3. ASSUME NEW id \in VIDs, deleteVehicle(k, id)
      PROVE  VehicleStep
  <2>1. VP!deleteVehicle(c, [ID |-> id], 0)
    BY <1>3, SameDeleteVehicle DEF deleteVehicle
  <2>2. [ID |-> id] \in VP!HandleBodies
    BY DEF VP!HandleBodies
  <2>3. VP!Next
    <3> HIDE DEF c
    <3> QED
      BY <1>1, <2>1, <2>2 DEF VP!Next
  <2> QED
    BY <1>3, <2>3 DEF deleteVehicle, VehicleStep
<1>4. ASSUME NEW id \in VIDs, NEW plate \in PlateFields, updateVehicle(k, id, plate)
      PROVE  VehicleStep
  <2> DEFINE b == [ID |-> id, plate |-> plate, colour |-> Words]
  <2>1. VP!updateVehicle(c, b, 0)
    BY <1>4, SameUpdateVehicle DEF updateVehicle
  <2>2. b \in VP!UpdateBodies
    BY DEF VP!UpdateBodies
  <2>3. VP!Next
    <3> HIDE DEF c, b
    <3> QED
      BY <1>1, <2>1, <2>2 DEF VP!Next
  <2> QED
    BY <1>4, <2>3 DEF updateVehicle, VehicleStep
<1>5. ASSUME NEW id \in VIDs, selectVehicle(k, id)
      PROVE  VehicleStep
  <2>1. VP!selectVehicle(c, [ID |-> id], 0)
    BY <1>5, SameSelectVehicle DEF selectVehicle
  <2>2. [ID |-> id] \in VP!HandleBodies
    BY DEF VP!HandleBodies
  <2>3. VP!Next
    <3> HIDE DEF c
    <3> QED
      BY <1>1, <2>1, <2>2 DEF VP!Next
  <2> QED
    BY <1>5, <2>3 DEF selectVehicle, VehicleStep
<1> QED
  BY <1>2, <1>3, <1>4, <1>5

(* A handler of the service book, called by the session of a browser, with  *)
(* the owner that is in VEHICLES.                                           *)
LEMMA BookHandlers ==
  ASSUME AP!TypeOK, VP!TypeOK, NEW k \in Browsers,
         \/ \E id \in VIDs : createRequest(k, id)
         \/ \E id \in Ids : authoriseRequest(k, id) \/ updateService(k, id) \/ closeService(k, id)
         \/ \E id \in Ids, part \in PartNumbers : addPartToService(k, id, part)
         \/ \E entry \in 1..MaxEntries : removePartFromService(k, entry)
  PROVE  BookStep
<1> DEFINE c == A!caller(k)
<1>1. c \in Sessions \cup {NoSession}
  BY CallerTyped
<1>2. ASSUME NEW id \in VIDs, createRequest(k, id)
      PROVE  BookStep
  <2> DEFINE b == [VID |-> id, request |-> Words]
             o == ownerAnswer(id)
  <2>1. SP!createRequest(c, b, o, 0)
    BY <1>2, SameCreateRequest DEF createRequest
  <2>2. b \in SP!CreateBodies /\ o \in Nat \cup {NoRow}
    BY OwnerTyped DEF SP!CreateBodies
  <2>3. SP!Next
    <3> HIDE DEF c, b, o
    <3> QED
      BY <1>1, <2>1, <2>2 DEF SP!Next
  <2> QED
    BY <1>2, <2>3 DEF createRequest, BookStep
<1>3. ASSUME NEW id \in Ids, authoriseRequest(k, id)
      PROVE  BookStep
  <2> DEFINE b == [ID |-> id, quote |-> Words, notes |-> Absent]
  <2>1. SP!authoriseRequest(c, b, 0)
    BY <1>3, SameAuthoriseRequest DEF authoriseRequest
  <2>2. b \in SP!AuthoriseBodies
    BY DEF SP!AuthoriseBodies
  <2>3. SP!Next
    <3> HIDE DEF c, b
    <3> QED
      BY <1>1, <2>1, <2>2 DEF SP!Next
  <2> QED
    BY <1>3, <2>3 DEF authoriseRequest, BookStep
<1>4. ASSUME NEW id \in Ids, closeService(k, id)
      PROVE  BookStep
  <2> DEFINE b == [ID |-> id, paid |-> Words]
  <2>1. SP!closeService(c, b, 0)
    BY <1>4, SameCloseService DEF closeService
  <2>2. b \in SP!CloseBodies
    BY DEF SP!CloseBodies
  <2>3. SP!Next
    <3> HIDE DEF c, b
    <3> QED
      BY <1>1, <2>1, <2>2 DEF SP!Next
  <2> QED
    BY <1>4, <2>3 DEF closeService, BookStep
<1>5. ASSUME NEW id \in Ids, NEW part \in PartNumbers, addPartToService(k, id, part)
      PROVE  BookStep
  <2> DEFINE b == [serviceID |-> id, partID |-> part, quantity |-> OneOnly]
  <2>1. SP!addPartToService(c, b, 0)
    BY <1>5, SameAddPart DEF addPartToService
  <2>2. b \in SP!AddBodies
    BY DEF SP!AddBodies
  <2>3. SP!Next
    <3> HIDE DEF c, b
    <3> QED
      BY <1>1, <2>1, <2>2 DEF SP!Next
  <2> QED
    BY <1>5, <2>3 DEF addPartToService, BookStep
<1>6. ASSUME NEW id \in Ids, updateService(k, id)
      PROVE  BookStep
  <2> DEFINE b == [ID |-> id, notes |-> Absent, hours |-> Words]
  <2>1. SP!updateService(c, b, 0)
    BY <1>6, SameUpdateService DEF updateService
  <2>2. b \in SP!UpdateBodies
    BY DEF SP!UpdateBodies
  <2>3. SP!Next
    <3> HIDE DEF c, b
    <3> QED
      BY <1>1, <2>1, <2>2 DEF SP!Next
  <2> QED
    BY <1>6, <2>3 DEF updateService, BookStep
<1>7. ASSUME NEW entry \in 1..MaxEntries, removePartFromService(k, entry)
      PROVE  BookStep
  <2> DEFINE b == [entry |-> entry, quantity |-> OneOnly]
  <2>1. SP!removePartFromService(c, b, 0)
    BY <1>7, SameRemovePart DEF removePartFromService
  <2>2. b \in SP!RemoveBodies
    BY DEF SP!RemoveBodies
  <2>3. SP!Next
    <3> HIDE DEF c, b
    <3> QED
      BY <1>1, <2>1, <2>2 DEF SP!Next
  <2> QED
    BY <1>7, <2>3 DEF removePartFromService, BookStep
<1> QED
  BY <1>2, <1>3, <1>4, <1>5, <1>6, <1>7

(* A handler that shows services, in whatever way it ends. *)
LEMMA ShowHandlers ==
  ASSUME up \in BOOLEAN, NEW k, NEW UID, NEW fault,
         \/ \E lists \in Lists : searchServices(k, lists, UID, fault)
         \/ \E id \in Ids \cup {Absent} : selectService(k, id, fault)
         \/ \E entry \in 1..MaxEntries \cup {Absent} : selectServicePart(k, entry, UID, fault)
  PROVE  ShowStep
<1>1. \A code \in HTTPCodes : Answer(code) => Ended
  BY DEF Answer, Ended
<1>2. Die => Ended
  BY DEF Die, Ended
<1>3. Broken => Ended
  BY <1>1, <1>2 DEF Broken, HTTPCodes
<1>4. {OK, BADREQUEST, UNAUTHORISED, FORBIDDEN, NOTFOUND, INTERNALERROR} \subseteq HTTPCodes
  BY DEF HTTPCodes
<1>5. notOwn(A!caller(k), UID) => Ended
  BY <1>1, <1>2, <1>4 DEF notOwn
<1>6. Ended
  <2>1. ASSUME NEW lists, searchServices(k, lists, UID, fault)
        PROVE  Ended
    BY <1>1, <1>3, <1>4, <1>5, <2>1 DEF searchServices
  <2>2. ASSUME NEW id, selectService(k, id, fault)
        PROVE  Ended
    BY <1>1, <1>3, <1>4, <2>2 DEF selectService
  <2>3. ASSUME NEW entry, selectServicePart(k, entry, UID, fault)
        PROVE  Ended
    BY <1>1, <1>3, <1>4, <1>5, <2>3 DEF selectServicePart
  <2> QED
    BY <2>1, <2>2, <2>3
<1>7. Shows
  BY DEF searchServices, selectService, selectServicePart
<1> QED
  BY <1>6, <1>7 DEF Shows, ShowStep

(* So every step is of one of the four kinds. *)
LEMMA StepKinds ==
  ASSUME up \in BOOLEAN, AP!TypeOK, VP!TypeOK, Next
  PROVE  AccountStep \/ VehicleStep \/ BookStep \/ ShowStep
<1>1. CASE Restart
  <2>1. AP!Next
    BY <1>1, SameRestart DEF Restart, AP!Next
  <2> QED
    BY <1>1, <2>1 DEF Restart, AccountStep
<1> QED
  BY <1>1, AccountHandlers, VehicleHandlers, BookHandlers, ShowHandlers DEF Next, Ids

-----------------------------------------------------------------------------
(* What the components' theorems say of every state, for the composed       *)
(* server.                                                                  *)
TablesTyped == AP!TypeOK /\ VP!TypeOK /\ SP!TypeOK

ComponentsInv ==
  /\ TablesTyped
  /\ AP!NamesUnique /\ AP!NoOrphanSessions
  /\ VP!ModelsHold /\ VP!PlatesUnique
  /\ SP!BookInv /\ SP!OneEntryPerPart /\ SP!QuantitiesPositive

(* The components speak of the same answers. *)
LEMMA SameCodes ==
  AP!HTTPCodes = HTTPCodes /\ VP!HTTPCodes = HTTPCodes /\ SP!HTTPCodes = HTTPCodes
BY DEF AP!HTTPCodes, VP!HTTPCodes, SP!HTTPCodes, HTTPCodes

(* What a handler of another component leaves of Accounts is well typed. *)
LEMMA AccountsStay ==
  ASSUME AP!TypeOK, KeepSessions, Ended
  PROVE  AP!TypeOK'
<1>1. A!NoSessions \in [{} -> AP!Sessions]
  BY DEF A!NoSessions
<1>2. sessions' = sessions \/ sessions' = A!NoSessions
  BY DEF KeepSessions
<1>3. \E T \in SUBSET Sids : sessions' \in [T -> AP!Sessions]
  BY <1>1, <1>2 DEF AP!TypeOK
<1> QED
  BY <1>3, SameCodes DEF AP!TypeOK, KeepSessions, Ended

(* Vehicles, when nothing touches them. *)
LEMMA VehiclesStay ==
  ASSUME VP!TypeOK, UNCHANGED vehicleVars, Ended
  PROVE  VP!TypeOK'
BY SameCodes DEF VP!TypeOK, vehicleVars, Ended

(* The service book, when nothing touches it. *)
LEMMA BookStays ==
  ASSUME SP!TypeOK, UNCHANGED bookVars, Ended
  PROVE  SP!TypeOK'
BY SameCodes DEF SP!TypeOK, bookVars, Ended

(* Every step keeps all tables typed. *)
LEMMA StepTyped ==
  ASSUME TablesTyped, AccountStep \/ VehicleStep \/ BookStep \/ ShowStep
  PROVE  TablesTyped'
<1> USE MarkersAssumed
<1>1. CASE AccountStep
  <2>1. AP!TypeOK'
    BY <1>1, AccountsAssumed, AP!NextTyped DEF AccountStep, TablesTyped
  <2>2. Ended
    BY <2>1, SameCodes DEF AP!TypeOK, Ended
  <2> QED
    BY <1>1, <2>1, <2>2, VehiclesStay, BookStays DEF AccountStep, TablesTyped
<1>2. CASE VehicleStep
  <2>1. VP!TypeOK'
    BY <1>2, VehiclesAssumed, VP!NextTyped DEF VehicleStep, TablesTyped
  <2>2. Ended
    BY <2>1, SameCodes DEF VP!TypeOK, Ended
  <2> QED
    BY <1>2, <2>1, <2>2, AccountsStay, BookStays DEF VehicleStep, TablesTyped
<1>3. CASE BookStep
  <2>1. SP!TypeOK'
    BY <1>3, ServicesAssumed, SP!NextTyped DEF BookStep, TablesTyped
  <2>2. Ended
    BY <2>1, SameCodes DEF SP!TypeOK, Ended
  <2> QED
    BY <1>3, <2>1, <2>2, AccountsStay, VehiclesStay DEF BookStep, TablesTyped
<1>4. CASE ShowStep
  BY <1>4, AccountsStay, VehiclesStay, BookStays DEF ShowStep, TablesTyped
<1> QED
  BY <1>1, <1>2, <1>3, <1>4

(* Names stay unique and sessions held, whichever handler runs. *)
LEMMA StepKeepsAccounts ==
  ASSUME TablesTyped, AP!NamesUnique, AP!NoOrphanSessions, AccountStep \/ KeepSessions
  PROVE  AP!NamesUnique' /\ AP!NoOrphanSessions'
<1> USE MarkersAssumed
<1>1. CASE AccountStep
  <2>1. AP!UserStep /\ AP!SessionStep
    BY <1>1, AccountsAssumed, AP!StepsOfNext DEF AccountStep
  <2>2. AP!NamesUnique'
    BY <2>1, AccountsAssumed, AP!StepKeepsNames DEF TablesTyped
  <2>3. AP!AllDelivered
    BY DEF AP!AllDelivered
  <2> QED
    BY <2>1, <2>2, <2>3, AccountsAssumed, AP!StepKeepsHeld DEF TablesTyped
<1>2. CASE KeepSessions
  BY <1>2 DEF KeepSessions, A!NoSessions, AP!NamesUnique, AP!NoOrphanSessions
<1> QED
  BY <1>1, <1>2

(* Models and plates. *)
LEMMA StepKeepsVehicles ==
  ASSUME TablesTyped, VP!ModelsHold, VP!PlatesUnique, VehicleStep \/ UNCHANGED vehicleVars
  PROVE  VP!ModelsHold' /\ VP!PlatesUnique'
<1> USE MarkersAssumed
<1>1. CASE VehicleStep
  <2>1. VP!VehicleStep
    BY <1>1, VehiclesAssumed, VP!StepsOfNext DEF VehicleStep
  <2> QED
    BY <2>1, VehiclesAssumed, VP!StepKeepsModels, VP!StepKeepsPlates DEF TablesTyped
<1>2. CASE UNCHANGED vehicleVars
  BY <1>2 DEF vehicleVars, VP!ModelsHold, VP!PlatesUnique
<1> QED
  BY <1>1, <1>2

(* The four promises of the service book. *)
LEMMA StepKeepsBook ==
  ASSUME TablesTyped, SP!BookInv, BookStep \/ UNCHANGED bookVars
  PROVE  SP!BookInv'
<1> USE MarkersAssumed
<1>1. CASE BookStep
  BY <1>1, ServicesAssumed, SP!NextKeepsBook DEF BookStep, TablesTyped
<1>2. CASE UNCHANGED bookVars
  BY <1>2, ServicesAssumed, SP!BookUnchanged DEF bookVars, SP!lifecycle
<1> QED
  BY <1>1, <1>2

(* The parts of its services. *)
LEMMA StepKeepsParts ==
  ASSUME TablesTyped, SP!OneEntryPerPart, SP!QuantitiesPositive, BookStep \/ UNCHANGED bookVars
  PROVE  SP!OneEntryPerPart' /\ SP!QuantitiesPositive'
<1> USE MarkersAssumed
<1>1. SP!PlainQuantities
  BY DEF SP!PlainQuantities, OneOnly
<1>2. CASE BookStep
  <2>1. [SP!Next]_SP!vars
    BY <1>2 DEF BookStep
  <2> QED
    BY <1>1, <2>1, ServicesAssumed, SP!StepKeepsOneEntry, SP!StepKeepsPositive DEF TablesTyped
<1>3. CASE UNCHANGED bookVars
  BY <1>3 DEF bookVars, SP!OneEntryPerPart, SP!QuantitiesPositive
<1> QED
  BY <1>2, <1>3

(* A step of the server keeps all of it. *)
LEMMA NextKeepsComponents == ComponentsInv /\ [Next]_vars => ComponentsInv'
<1> SUFFICES ASSUME ComponentsInv, [Next]_vars PROVE ComponentsInv'
  OBVIOUS
<1>1. CASE Next
  <2>1. up \in BOOLEAN
    BY DEF ComponentsInv, TablesTyped, AP!TypeOK
  <2>2. AccountStep \/ VehicleStep \/ BookStep \/ ShowStep
    BY <1>1, <2>1, StepKinds DEF ComponentsInv, TablesTyped
  <2>3. /\ AccountStep \/ KeepSessions
        /\ VehicleStep \/ UNCHANGED vehicleVars
        /\ BookStep \/ UNCHANGED bookVars
    BY <2>2 DEF AccountStep, VehicleStep, BookStep, ShowStep
  <2> QED
    BY <2>2, <2>3, StepTyped, StepKeepsAccounts, StepKeepsVehicles, StepKeepsBook,
       StepKeepsParts DEF ComponentsInv
<1>2. CASE UNCHANGED vars
  BY <1>2 DEF vars, accountVars, vehicleVars, bookVars, ComponentsInv, TablesTyped,
              AP!TypeOK, VP!TypeOK, SP!TypeOK, AP!NamesUnique, AP!NoOrphanSessions,
              VP!ModelsHold, VP!PlatesUnique, SP!BookInv, SP!ReferencesHold,
              SP!AuthorisedOnce, SP!NoSilentLoss, SP!AuthorisedIsTracked, SP!Tracked,
              SP!ActiveOf, SP!OneEntryPerPart, SP!QuantitiesPositive
<1> QED
  BY <1>1, <1>2

(* The components start as they do alone. *)
LEMMA SameInit ==
  ASSUME Init
  PROVE  AP!Init /\ VP!Init /\ SP!Init
<1>1. AP!Init
  BY DEF Init, A!Init, AP!Init, A!withAdmin, AP!withAdmin, A!nameTaken, AP!nameTaken, A!Admin,
       AP!Admin, A!AdminRow, AP!AdminRow, A!hash, AP!hash, A!NoSessions, AP!NoSessions
<1>2. VP!Init
  BY DEF Init, V!Init, VP!Init
<1>3. SP!Init
  BY DEF Init, S!Init, SP!Init, S!OneText, SP!OneText
<1> QED
  BY <1>1, <1>2, <1>3

(* A fresh database is fine in every component. *)
LEMMA InitComponents == Init => ComponentsInv
<1> SUFFICES ASSUME Init PROVE ComponentsInv
  OBVIOUS
<1> USE MarkersAssumed
<1>1. AP!Init /\ VP!Init /\ SP!Init
  BY SameInit
<1>2. TablesTyped
  BY <1>1, AccountsAssumed, VehiclesAssumed, ServicesAssumed, AP!InitTyped, VP!InitTyped,
     SP!InitTyped DEF TablesTyped
<1>3. AP!NamesUnique /\ AP!NoOrphanSessions
  BY <1>1 DEF AP!Init, AP!NamesUnique, AP!NoOrphanSessions, AP!NoSessions, AP!withAdmin,
              AP!nameTaken
<1>4. VP!ModelsHold /\ VP!PlatesUnique
  BY <1>1 DEF VP!Init, VP!ModelsHold, VP!PlatesUnique
<1>5. SP!BookInv /\ SP!OneEntryPerPart /\ SP!QuantitiesPositive
  BY <1>1 DEF SP!Init, SP!OneEntryPerPart, SP!QuantitiesPositive, SP!BookInv, SP!ReferencesHold, SP!AuthorisedOnce, SP!NoSilentLoss,
              SP!AuthorisedIsTracked, SP!Tracked, SP!ActiveOf
<1> QED
  BY <1>2, <1>3, <1>4, <1>5 DEF ComponentsInv

(* The invariant of the components holds in every state of the server. *)
LEMMA ComponentsAlways == Spec => []ComponentsInv
<1>1. Init => ComponentsInv
  BY InitComponents
<1>2. ComponentsInv /\ [Next]_vars => ComponentsInv'
  BY NextKeepsComponents
<1> QED
  BY <1>1, <1>2, PTL DEF Spec

(* Accounts and sessions, vehicles and the service book keep, running as    *)
(* one server over one database, what each promises alone: typed tables,    *)
(* one account for a name, sessions that some browser holds, one vehicle    *)
(* for a plate with a model that exists, and of the service book that       *)
(* references hold, a request is authorised once, what was answered is so,  *)
(* and a part has one entry in a service, with a positive quantity.  That   *)
(* the callers are the sessions there are and the owners the ones in        *)
(* VEHICLES is what the components assumed of their inputs.                 *)
THEOREM ComponentsCorrect ==
  Spec => [](/\ A!TypeOK /\ A!NamesUnique /\ A!NoOrphanSessions
             /\ V!TypeOK /\ V!ModelsHold /\ V!PlatesUnique
             /\ S!TypeOK /\ S!ReferencesHold /\ S!AuthorisedOnce
             /\ S!NoSilentLoss /\ S!AuthorisedIsTracked
             /\ S!OneEntryPerPart /\ S!QuantitiesPositive)
<1>1. ComponentsInv => A!TypeOK /\ A!NamesUnique /\ A!NoOrphanSessions
  BY DEF ComponentsInv, TablesTyped, A!TypeOK, AP!TypeOK, A!HTTPCodes, AP!HTTPCodes,
       A!UserRows, AP!UserRows, A!Texts, AP!Texts, A!Readings, AP!Readings, A!NotANumber, AP!NotANumber, A!Sessions,
       AP!Sessions, A!NamesUnique, AP!NamesUnique, A!NoOrphanSessions, AP!NoOrphanSessions
<1>2. ComponentsInv => V!TypeOK /\ V!ModelsHold /\ V!PlatesUnique
  BY DEF ComponentsInv, TablesTyped, V!TypeOK, VP!TypeOK, V!HTTPCodes, VP!HTTPCodes,
       V!NotBlank, VP!NotBlank, V!VehicleRows, VP!VehicleRows, V!Cells, VP!Cells, V!ModelsHold, VP!ModelsHold,
       V!PlatesUnique, VP!PlatesUnique
<1>3. ComponentsInv => S!TypeOK
  BY DEF ComponentsInv, TablesTyped, S!TypeOK, SP!TypeOK, S!HTTPCodes, SP!HTTPCodes,
       S!ActiveRows, SP!ActiveRows, S!Cells, SP!Cells, S!PartRows, SP!PartRows, S!Quantities, SP!Quantities
<1>4. ComponentsInv => /\ S!ReferencesHold /\ S!AuthorisedOnce
                       /\ S!NoSilentLoss /\ S!AuthorisedIsTracked
  BY DEF ComponentsInv, SP!BookInv, S!ReferencesHold, SP!ReferencesHold, S!AuthorisedOnce,
         SP!AuthorisedOnce, S!NoSilentLoss, SP!NoSilentLoss, S!Tracked, SP!Tracked, S!ActiveOf,
         SP!ActiveOf, S!AuthorisedIsTracked, SP!AuthorisedIsTracked
<1>5. ComponentsInv => S!OneEntryPerPart /\ S!QuantitiesPositive
  BY DEF ComponentsInv, S!OneEntryPerPart, SP!OneEntryPerPart, S!QuantitiesPositive,
         SP!QuantitiesPositive
<1> QED
  BY <1>1, <1>2, <1>3, <1>4, <1>5, ComponentsAlways, PTL

(* No account and no session of the composed server gets above the          *)
(* administrator the database began with, except as far as a level that     *)
(* updateUser stored from "permissions" without a test: the handlers of the *)
(* other components, which end sessions with the process, give no level to  *)
(* anybody.                                                                 *)
THEOREM LevelsBounded == Spec => []A!LevelsAccountedFor
<1> USE MarkersAssumed
<1>1. Init => AP!LevelsAccountedFor
  BY SameInit, AccountsAssumed, AP!InitWithin
<1>2. ComponentsInv /\ AP!LevelsAccountedFor /\ [Next]_vars => AP!LevelsAccountedFor'
  <2> SUFFICES ASSUME ComponentsInv, AP!LevelsAccountedFor, [Next]_vars
               PROVE  AP!LevelsAccountedFor'
    OBVIOUS
  <2>1. CASE UNCHANGED vars
    BY <2>1 DEF vars, accountVars, AP!LevelsAccountedFor
  <2>2. CASE AccountStep
    BY <2>2, AccountsAssumed, AP!StepKeepsWithin DEF AccountStep, ComponentsInv, TablesTyped
  <2>3. CASE KeepSessions
    BY <2>3 DEF KeepSessions, A!NoSessions, AP!LevelsAccountedFor
  <2>4. CASE Next
    <3>1. up \in BOOLEAN
      BY DEF ComponentsInv, TablesTyped, AP!TypeOK
    <3> QED
      BY <2>2, <2>3, <2>4, <3>1, StepKinds
         DEF ComponentsInv, TablesTyped, VehicleStep, BookStep, ShowStep
  <2> QED
    BY <2>1, <2>4
<1>3. AP!LevelsAccountedFor <=> A!LevelsAccountedFor
  BY DEF AP!LevelsAccountedFor, A!LevelsAccountedFor, AP!accountedFor, A!accountedFor,
         AP!UncheckedLevels, A!UncheckedLevels, AP!asLevel, A!asLevel
<1> QED
  BY <1>1, <1>2, <1>3, ComponentsAlways, PTL DEF Spec

-----------------------------------------------------------------------------
(* What the components' theorems say of every step. *)

(* The kinds of a step, as each component sees it. *)
LEMMA StepViews ==
  ASSUME ComponentsInv, Next
  PROVE  /\ AccountStep \/ KeepSessions
         /\ VehicleStep \/ UNCHANGED vehicleVars
         /\ BookStep \/ UNCHANGED bookVars
<1>1. up \in BOOLEAN
  BY DEF ComponentsInv, TablesTyped, AP!TypeOK
<1>2. AccountStep \/ VehicleStep \/ BookStep \/ ShowStep
  BY <1>1, StepKinds DEF ComponentsInv, TablesTyped
<1> QED
  BY <1>2 DEF AccountStep, VehicleStep, BookStep, ShowStep

(* Accounts change only under a session of their level, and a session ends  *)
(* only with its browser or the process.                                    *)
LEMMA StepProtectsAccounts ==
  ASSUME ComponentsInv, Next
  PROVE  A!ChangedByItsLevel /\ A!KeepsSessions
<1> USE MarkersAssumed
<1>1. AP!ChangedByItsLevel /\ AP!KeepsSessions
  <2>1. CASE AccountStep
    <3>1. AP!AllDelivered
      BY DEF AP!AllDelivered
    <3>2. AP!KeepsSessions
      BY <2>1, <3>1, AccountsAssumed, AP!StepKeepsSessions DEF AccountStep, ComponentsInv, TablesTyped
    <3>3. AP!ChangedByItsLevel \/ UNCHANGED AP!vars
      BY <2>1, AccountsAssumed, AP!StepProtects DEF AccountStep, ComponentsInv, TablesTyped
    <3>4. UNCHANGED AP!vars => AP!ChangedByItsLevel
      BY DEF AP!vars, AP!ChangedByItsLevel
    <3> QED
      BY <3>2, <3>3, <3>4
  <2>2. CASE KeepSessions
    BY <2>2 DEF KeepSessions, AP!ChangedByItsLevel, AP!KeepsSessions, AP!caller
  <2> QED
    BY <2>1, <2>2, StepViews
<1> QED
  BY <1>1 DEF A!ChangedByItsLevel, AP!ChangedByItsLevel, A!NotANumber, AP!NotANumber, A!asLevel,
       AP!asLevel, A!KeepsSessions, AP!KeepsSessions, A!caller, AP!caller

(* A vehicle keeps its owner, year, make and model. *)
LEMMA StepFixesDetails ==
  ASSUME ComponentsInv, Next
  PROVE  V!KeepsDetails
<1> USE MarkersAssumed
<1>1. VP!KeepsDetails
  <2>1. CASE VehicleStep
    <3>1. VP!VehicleStep
      BY <2>1, VehiclesAssumed, VP!StepsOfNext DEF VehicleStep
    <3> QED
      BY <3>1, VehiclesAssumed, VP!StepKeepsDetails DEF ComponentsInv, TablesTyped
  <2>2. CASE UNCHANGED vehicleVars
    BY <2>2 DEF vehicleVars, VP!KeepsDetails
  <2> QED
    BY <2>1, <2>2, StepViews
<1> QED
  BY <1>1 DEF V!KeepsDetails, VP!KeepsDetails

(* Requests and authorisations stay as they were made. *)
LEMMA StepKeepsHistory ==
  ASSUME ComponentsInv, Next
  PROVE  S!KeepsHistory
<1> USE MarkersAssumed
<1>1. SP!KeepsHistory
  <2>1. UNCHANGED bookVars => SP!KeepsHistory
    BY DEF bookVars, SP!KeepsHistory
  <2>2. CASE BookStep
    <3>1. SP!KeepsHistory \/ UNCHANGED SP!vars
      BY <2>2, ServicesAssumed, SP!StepHistory DEF BookStep, ComponentsInv, TablesTyped
    <3>2. UNCHANGED SP!vars => UNCHANGED bookVars
      BY DEF SP!vars, SP!tables, SP!lifecycle, bookVars
    <3> QED
      BY <2>1, <3>1, <3>2
  <2> QED
    BY <2>1, <2>2, StepViews
<1> QED
  BY <1>1 DEF S!KeepsHistory, SP!KeepsHistory

(* A refusal, by whichever handler, leaves the service book as it was. *)
LEMMA StepRefuses ==
  ASSUME ComponentsInv, Next
  PROVE  S!RefusedUnchanged
<1> USE MarkersAssumed
<1>1. SP!RefusedUnchanged
  <2>1. UNCHANGED bookVars => SP!RefusedUnchanged
    BY DEF bookVars, SP!RefusedUnchanged, SP!tables, SP!lifecycle
  <2>2. CASE BookStep
    <3>1. SP!RefusedUnchanged \/ UNCHANGED SP!vars
      BY <2>2, ServicesAssumed, SP!StepRefusal DEF BookStep
    <3>2. UNCHANGED SP!vars => UNCHANGED bookVars
      BY DEF SP!vars, SP!tables, SP!lifecycle, bookVars
    <3> QED
      BY <2>1, <3>1, <3>2
  <2> QED
    BY <2>1, <2>2, StepViews
<1> QED
  BY <1>1 DEF S!RefusedUnchanged, SP!RefusedUnchanged, S!tables, SP!tables, S!lifecycle,
              SP!lifecycle

(* No step of the composed server, of whichever component, changes or       *)
(* removes an account without a session of its level, ends another          *)
(* browser's session, transfers a vehicle, rewrites a request or an         *)
(* authorisation, or changes the service book and answers 400, 403 or 404;  *)
(* updateUser, updateVehicle and updateService, which rewrite rows in       *)
(* place, are among the steps.                                              *)
THEOREM ChangesCorrect ==
  Spec => [][/\ A!ChangedByItsLevel /\ A!KeepsSessions
             /\ V!KeepsDetails
             /\ S!KeepsHistory /\ S!RefusedUnchanged]_vars
<1>1. ComponentsInv /\ [Next]_vars
        => [/\ A!ChangedByItsLevel /\ A!KeepsSessions
            /\ V!KeepsDetails
            /\ S!KeepsHistory /\ S!RefusedUnchanged]_vars
  BY StepProtectsAccounts, StepFixesDetails, StepKeepsHistory, StepRefuses
<1> QED
  BY <1>1, ComponentsAlways, PTL DEF Spec

-----------------------------------------------------------------------------
(* The composed server implements ServiceLifecycle: handlers of the other   *)
(* components, also one that ends the process, are stutters of it.          *)

(* A service has the same status for both instances. *)
LEMMA SameStatusOf ==
  ASSUME NEW s
  PROVE  S!statusOf(s) = SP!statusOf(s)
BY DEF S!statusOf, SP!statusOf, S!ActiveOf, SP!ActiveOf

(* The status of all services. *)
Status == [s \in 1..MaxServices |-> S!statusOf(s)]

(* What is a move for the service book alone is the same move here. *)
LEMMA SameMoves ==
  ASSUME SP!Lifecycle!Next \/ SP!Status' = SP!Status
  PROVE  [S!Lifecycle!Next]_Status
<1>1. SP!Status = Status /\ SP!Status' = Status'
  BY DEF S!statusOf, SP!statusOf, S!ActiveOf, SP!ActiveOf, SP!Status, Status
<1>2. CASE SP!Status' = SP!Status
  BY <1>1, <1>2
<1>3. ASSUME NEW s, NEW from, NEW to, SP!Lifecycle!move(s, from, to)
      PROVE  S!Lifecycle!move(s, from, to)
  <2>1. SP!Status[s] \in from /\ SP!Status' = [SP!Status EXCEPT ![s] = to]
    BY <1>3 DEF SP!Lifecycle!move, SP!Status
  <2>2. Status[s] \in from /\ Status' = [Status EXCEPT ![s] = to]
    BY <1>1, <2>1
  <2> QED
    BY <2>2 DEF S!Lifecycle!move, Status
<1>4. CASE SP!Lifecycle!Next
  BY <1>3, <1>4 DEF S!Lifecycle!Next, S!Lifecycle!Request, S!Lifecycle!Authorise,
     S!Lifecycle!Close, S!Lifecycle!Lose, S!Lifecycle!Skip,
     SP!Lifecycle!Next, SP!Lifecycle!Request, SP!Lifecycle!Authorise,
     SP!Lifecycle!Close, SP!Lifecycle!Lose, SP!Lifecycle!Skip
<1> QED
  BY <1>2, <1>4

(* Whatever handlers of the server run, in whatever order and with whatever *)
(* restarts between them, a service only moves forward from requested to    *)
(* open to closed, one service at a time.                                   *)
THEOREM ServerImplementsLifecycle == Spec => S!ImplementsLifecycle
<1>1. Init => S!Lifecycle!Init
  <2> SUFFICES ASSUME Init PROVE S!Lifecycle!Init
    OBVIOUS
  <2>1. \A s \in 1..MaxServices : S!statusOf(s) = "none"
    BY DEF Init, S!Init, S!statusOf
  <2> QED
    BY <2>1 DEF S!Lifecycle!Init
<1>2. ComponentsInv /\ [Next]_vars => [S!Lifecycle!Next]_Status
  <2> SUFFICES ASSUME ComponentsInv, [Next]_vars PROVE [S!Lifecycle!Next]_Status
    OBVIOUS
  <2>1. ASSUME UNCHANGED bookVars PROVE SP!Status' = SP!Status
    BY <2>1, MarkersAssumed, ServicesAssumed, SP!ListsUnchanged DEF bookVars, SP!lifecycle
  <2>2. CASE BookStep
    BY <2>2, MarkersAssumed, ServicesAssumed, SP!StepMoves, SameMoves
       DEF BookStep, ComponentsInv, TablesTyped
  <2> QED
    BY <2>1, <2>2, StepViews, SameMoves DEF vars
<1>3. [S!Lifecycle!Next]_Status <=> [S!Lifecycle!Next]_[s \in 1..MaxServices |-> S!statusOf(s)]
  BY DEF Status
<1> QED
  BY <1>1, <1>2, <1>3, ComponentsAlways, PTL
     DEF Spec, S!ImplementsLifecycle, S!Lifecycle!Spec

-----------------------------------------------------------------------------
(* Who is behind a session, a vehicle and a service.  A session, a vehicle  *)
(* and an active service name an account by its number only.  As long as    *)
(* nothing was deleted, rows are added and never change, so a number means  *)
(* the person it meant when it was written down.                            *)
PlacedRows == [by : STRING, manager : BOOLEAN, owner : STRING \cup {NoRow}]

HistoryTyped ==
  /\ loggedAs \in [DOMAIN sessions -> STRING]
  /\ placed \in Seq(PlacedRows) /\ Len(placed) = Len(shared)
  /\ deletions \in Nat

(* Every account has a plain name, so two names of one word are one name. *)
NamesPlain == \A id \in DOMAIN users : users[id].name.flipped = FALSE

(* No handler that changes the database stopped half-way. *)
NothingLost == told.failed = {}

SessionsNamed ==
  \A sid \in DOMAIN sessions :
    /\ sessions[sid].user \in DOMAIN users
    /\ users[sessions[sid].user].name.word = loggedAs[sid]

AuthorisersKnown == \A i \in DOMAIN active : active[i].authoriser \in DOMAIN users

OwnersKnown ==
  \A s \in DOMAIN placed : placed[s].owner # NoRow =>
    /\ shared[s] \in DOMAIN vehicles
    /\ vehicles[shared[s]].owner \in DOMAIN users
    /\ users[vehicles[shared[s]].owner].name.word = placed[s].owner

GarageInv ==
  /\ ComponentsInv /\ HistoryTyped /\ NamesPlain /\ NothingLost
  /\ deletions = 0 => SessionsNamed /\ AuthorisersKnown /\ OwnersKnown
  /\ PlacedByItsOwner

(* What a step does to the rows of a table and to the sessions. *)
UsersKept == \A id \in DOMAIN users : id \in DOMAIN users' /\ users'[id].name = users[id].name

VehiclesKept ==
  \A id \in DOMAIN vehicles :
    id \in DOMAIN vehicles' /\ vehicles'[id].owner = vehicles[id].owner

SessionsTraced ==
  \A sid \in DOMAIN sessions' :
    \/ /\ sid \in DOMAIN sessions
       /\ sessions'[sid] = sessions[sid] /\ loggedAs'[sid] = loggedAs[sid]
    \/ /\ sessions'[sid].user \in DOMAIN users'
       /\ users'[sessions'[sid].user].name.word = loggedAs'[sid]

Placed(k, vid) ==
  /\ A!caller(k) # NoSession
  /\ \/ A!caller(k).level >= manager
     \/ vid \in DOMAIN vehicles /\ A!caller(k).user = vehicles[vid].owner
  /\ shared' = Append(shared, vid)
  /\ placed' = Append(placed, placing(k, vid))

Authorised(k) ==
  /\ A!caller(k) # NoSession
  /\ \E row \in SP!ActiveRows :
       row.authoriser = A!caller(k).user /\ active' = Append(active, row)

AuthorisersSame ==
  /\ DOMAIN active' = DOMAIN active
  /\ \A i \in DOMAIN active : active'[i].authoriser = active[i].authoriser

(* A handler of the service book but for the one that adds a part. *)
BookHandler(k, id) ==
  \/ createRequest(k, id) \/ authoriseRequest(k, id) \/ updateService(k, id)
  \/ closeService(k, id) \/ removePartFromService(k, id)

(* The deletions are counted. *)
LEMMA DeletionsCounted ==
  ASSUME HistoryTyped, Next
  PROVE  /\ deletions' \in Nat /\ deletions' >= deletions
         /\ deletions' = deletions \/ deletions' = deletions + 1
<1>1. ASSUME NEW k, \/ \E name : authenticate(k, name)
                    \/ \E name, password : registerUser(k, name, password)
                    \/ deauthenticate(k) \/ checkSession(k) \/ getLocalUserData(k)
                    \/ \E name, level : createUser(k, name, level)
      PROVE  UNCHANGED deletions
  BY <1>1 DEF authenticate, registerUser, deauthenticate, checkSession, getLocalUserData,
              createUser, history
<1>2. ASSUME NEW k, \/ \E b : createVehicle(k, b)
                    \/ \E id, plate : updateVehicle(k, id, plate)
                    \/ \E id : selectVehicle(k, id)
                    \/ \E id : BookHandler(k, id)
                    \/ \E id, part : addPartToService(k, id, part)
      PROVE  UNCHANGED deletions
  BY <1>2 DEF createVehicle, updateVehicle, selectVehicle, createRequest, authoriseRequest,
              updateService, closeService, addPartToService, removePartFromService, BookHandler
<1>3. ASSUME NEW k, \/ \E lists, UID, fault : searchServices(k, lists, UID, fault)
                    \/ \E id, fault : selectService(k, id, fault)
                    \/ \E entry, UID, fault : selectServicePart(k, entry, UID, fault)
      PROVE  UNCHANGED deletions
  BY <1>3 DEF searchServices, selectService, selectServicePart, Shows
<1>4. ASSUME NEW k, NEW id,
             \/ deleteUser(k, id) \/ deleteVehicle(k, id)
             \/ \E name, permissions : updateUser(k, id, name, permissions)
      PROVE  deletions' = deletions \/ deletions' = deletions + 1
  BY <1>4 DEF deleteUser, deleteVehicle, updateUser, countDeletion
<1>5. Restart => UNCHANGED deletions
  BY DEF Restart, history
<1>6. deletions' = deletions \/ deletions' = deletions + 1
  BY <1>1, <1>2, <1>3, <1>4, <1>5 DEF Next, BookHandler
<1> QED
  BY <1>6 DEF HistoryTyped

(* A row with a plain name is added under a free number. *)
LEMMA AddedRowKeeps ==
  ASSUME ComponentsInv, NamesPlain, NEW row, row.name.flipped = FALSE,
         AP!NextRowId(users) <= MaxUsers, users' = AP!insertRow(users, row)
  PROVE  NamesPlain' /\ UsersKept
<1>1. AP!UsersTyped(users)
  BY DEF ComponentsInv, TablesTyped, AP!TypeOK, AP!UsersTyped
<1>2. AP!NextRowId(users) \notin DOMAIN users
  BY <1>1, MarkersAssumed, AccountsAssumed, AP!FreshUser
<1> QED
  BY <1>2 DEF AP!insertRow, NamesPlain, UsersKept

(* createUser adds such a row or leaves the table as it is. *)
LEMMA CreateUserKeeps ==
  ASSUME ComponentsInv, NamesPlain, NEW k \in Browsers, NEW name \in Names, NEW level \in Levels,
         createUser(k, name, level)
  PROVE  NamesPlain' /\ UsersKept
<1> DEFINE b == [username |-> text(name), password |-> A!hash(A!Admin),
                 permission |-> [chars |-> level, sql |-> level]]
           row == AP!newUser(b, b.permission.sql)
<1>1. AP!createUser(k, b, 0)
  BY SameCreateUser DEF createUser
<1>2. row.name.flipped = FALSE
  BY DEF AP!newUser, text
<1> HIDE DEF b
<1>3. CASE UNCHANGED users
  BY <1>3 DEF NamesPlain, UsersKept
<1>4. CASE AP!NextRowId(users) <= MaxUsers /\ users' = AP!insertRow(users, row)
  BY <1>2, <1>4, AddedRowKeeps
<1> QED
  BY <1>1, <1>3, <1>4 DEF AP!createUser, AP!createRefused

(* So does registerUser. *)
LEMMA RegisterUserKeeps ==
  ASSUME ComponentsInv, NamesPlain, NEW k, NEW name, NEW password, registerUser(k, name, password)
  PROVE  NamesPlain' /\ UsersKept
<1> DEFINE b == [username |-> text(name), password |-> password]
           row == AP!newUser(b, AP!employee)
<1>1. AP!registerUser(k, b, 0, TRUE)
  BY SameRegisterUser DEF registerUser
<1>2. row.name.flipped = FALSE
  BY DEF AP!newUser, text
<1> HIDE DEF b
<1>3. CASE UNCHANGED users
  BY <1>3 DEF NamesPlain, UsersKept
<1>4. CASE AP!NextRowId(users) <= MaxUsers /\ users' = AP!insertRow(users, row)
  BY <1>2, <1>4, AddedRowKeeps
<1> QED
  BY <1>1, <1>3, <1>4 DEF AP!registerUser

(* deleteUser takes a row out or leaves the table as it is. *)
LEMMA DeleteUserKeeps ==
  ASSUME HistoryTyped, NamesPlain, NEW k \in Browsers, NEW id \in Numbers, deleteUser(k, id)
  PROVE  NamesPlain' /\ (deletions' = 0 => UsersKept)
<1>1. AP!deleteUser(k, [ID |-> id], 0)
  BY SameDeleteUser DEF deleteUser
<1>2. UNCHANGED users \/ users' = AP!deleteRow(users, id)
  BY <1>1 DEF AP!deleteUser
<1>3. NamesPlain'
  BY <1>2 DEF NamesPlain, AP!deleteRow
<1>4. deletions' = 0 => UNCHANGED users
  BY DEF deleteUser, countDeletion, HistoryTyped
<1> QED
  BY <1>3, <1>4 DEF UsersKept

(* updateUser changes a row, counted when that is its name. *)
LEMMA UpdateUserKeeps ==
  ASSUME HistoryTyped, NamesPlain, NEW k \in Browsers, NEW id \in Numbers, NEW name \in NewNames,
         NEW permissions, updateUser(k, id, name, permissions)
  PROVE  NamesPlain' /\ (deletions' = 0 => UsersKept)
<1> DEFINE b == [ID |-> id, username |-> IF name = Absent THEN Absent ELSE text(name),
                 password |-> Absent, permission |-> Absent, permissions |-> permissions]
           row == AP!updatedUser(users[id], b)
<1>1. AP!updateUser(k, b, 0)
  BY SameUpdateUser DEF updateUser
<1>2. b.ID = id
  OBVIOUS
<1>3. id \in DOMAIN users => row.name.flipped = FALSE
  <2>1. row.name = users[id].name \/ (name # Absent /\ row.name = text(name))
    BY DEF AP!updatedUser, AP!hasElement, AP!sqlValue
  <2>2. text(name).flipped = FALSE
    BY DEF text
  <2> HIDE DEF row
  <2> QED
    BY <2>1, <2>2 DEF NamesPlain
<1> HIDE DEF b
<1>4. \/ UNCHANGED users
      \/ id \in DOMAIN users /\ users' = [users EXCEPT ![id] = row]
  BY <1>1, <1>2 DEF AP!updateUser, AP!updateRefused, AP!updateStores
<1> HIDE DEF row
<1>5. NamesPlain' /\ DOMAIN users' = DOMAIN users
  BY <1>3, <1>4 DEF NamesPlain
<1>6. deletions' = 0 => \A i \in DOMAIN users : users'[i].name = users[i].name
  BY DEF updateUser, countDeletion, HistoryTyped
<1> QED
  BY <1>5, <1>6 DEF UsersKept

(* A start adds the administrator at most. *)
LEMMA RestartKeeps ==
  ASSUME NamesPlain, Restart
  PROVE  NamesPlain' /\ UsersKept
<1>1. users' = AP!withAdmin(users)
  BY SameRestart DEF Restart, AP!Restart
<1>2. AP!AdminRow.name.flipped = FALSE
  BY DEF AP!AdminRow, AP!Admin
<1> QED
  BY <1>1, <1>2 DEF AP!withAdmin, NamesPlain, UsersKept

(* Until something is deleted, an account stays what it is. *)
LEMMA AccountsKept ==
  ASSUME ComponentsInv, HistoryTyped, NamesPlain, Next
  PROVE  NamesPlain' /\ (deletions' = 0 => UsersKept)
<1>1. CASE UNCHANGED users
  BY <1>1 DEF NamesPlain, UsersKept
<1>2. ASSUME NEW k, \/ \E name \in Names \cup {AdminWord} : authenticate(k, name)
                    \/ deauthenticate(k) \/ checkSession(k) \/ getLocalUserData(k)
      PROVE  UNCHANGED users
  BY <1>2 DEF authenticate, A!authenticate, deauthenticate, A!deauthenticate, checkSession,
              A!checkSession, getLocalUserData, A!getLocalUserData
<1>3. ASSUME NEW k \in Browsers,
             \/ \E b : createVehicle(k, b)
             \/ \E id, plate : updateVehicle(k, id, plate)
             \/ \E id : deleteVehicle(k, id) \/ selectVehicle(k, id) \/ BookHandler(k, id)
             \/ \E id, part : addPartToService(k, id, part)
             \/ \E lists, UID, fault : searchServices(k, lists, UID, fault)
             \/ \E id, fault : selectService(k, id, fault)
             \/ \E entry, UID, fault : selectServicePart(k, entry, UID, fault)
      PROVE  UNCHANGED users
  BY <1>3 DEF createVehicle, updateVehicle, deleteVehicle, selectVehicle, createRequest,
              authoriseRequest, updateService, closeService, addPartToService,
              removePartFromService, searchServices, selectService, selectServicePart, Shows,
              KeepSessions, BookHandler
<1> QED
  BY <1>1, <1>2, <1>3, CreateUserKeeps, RegisterUserKeeps, DeleteUserKeeps, UpdateUserKeeps,
     RestartKeeps DEF Next, BookHandler

(* So does a vehicle. *)
LEMMA FleetKept ==
  ASSUME ComponentsInv, HistoryTyped, Next, deletions' = 0
  PROVE  VehiclesKept
<1>1. CASE UNCHANGED vehicles
  BY <1>1 DEF VehiclesKept
<1>2. ASSUME NEW k, NEW b, createVehicle(k, b)
      PROVE  VehiclesKept
  <2>1. VP!createVehicle(A!caller(k), b, 0)
    BY <1>2, SameCreateVehicle DEF createVehicle
  <2>2. \/ UNCHANGED vehicles
        \/ \E row : /\ VP!NextRowId(vehicles) <= MaxVehicles
                     /\ vehicles' = VP!insertRow(vehicles, row)
    BY <2>1 DEF VP!createVehicle, VP!createStores
  <2>3. ASSUME NEW row, VP!NextRowId(vehicles) <= MaxVehicles,
               vehicles' = VP!insertRow(vehicles, row)
        PROVE  VehiclesKept
    <3>1. VP!NextRowId(vehicles) \notin DOMAIN vehicles
      BY <2>3, MarkersAssumed, VehiclesAssumed, VP!FreshVehicle DEF ComponentsInv, TablesTyped
    <3> QED
      BY <2>3, <3>1 DEF VP!insertRow, VehiclesKept
  <2> QED
    BY <1>1, <2>2, <2>3
<1>3. ASSUME NEW k, NEW id, deleteVehicle(k, id)
      PROVE  UNCHANGED vehicles
  BY <1>3 DEF deleteVehicle, countDeletion, HistoryTyped
<1>4. ASSUME UNCHANGED vehicleVars
      PROVE  UNCHANGED vehicles
  BY <1>4 DEF vehicleVars
<1>5. ASSUME NEW k, \/ \E name : authenticate(k, name)
                    \/ \E name, password : registerUser(k, name, password)
                    \/ deauthenticate(k) \/ checkSession(k) \/ getLocalUserData(k)
                    \/ \E name, level : createUser(k, name, level)
                    \/ \E id : deleteUser(k, id)
                    \/ \E id, name, permissions : updateUser(k, id, name, permissions)
      PROVE  UNCHANGED vehicleVars
  BY <1>5 DEF authenticate, registerUser, deauthenticate, checkSession, getLocalUserData,
              createUser, deleteUser, updateUser
<1>6. ASSUME NEW k, \/ \E id : BookHandler(k, id)
                    \/ \E id, part : addPartToService(k, id, part)
      PROVE  UNCHANGED vehicleVars
  BY <1>6 DEF createRequest, authoriseRequest, updateService, closeService, addPartToService,
              removePartFromService, BookHandler
<1>7. ASSUME NEW k, \/ \E lists, UID, fault : searchServices(k, lists, UID, fault)
                    \/ \E id, fault : selectService(k, id, fault)
                    \/ \E entry, UID, fault : selectServicePart(k, entry, UID, fault)
      PROVE  UNCHANGED vehicleVars
  BY <1>7 DEF searchServices, selectService, selectServicePart, Shows
<1>8. Restart => UNCHANGED vehicleVars
  BY DEF Restart
<1>9. ASSUME NEW k, NEW id, NEW plate, updateVehicle(k, id, plate)
      PROVE  VehiclesKept
  <2> DEFINE b == [ID |-> id, plate |-> plate, colour |-> Words]
             row == VP!updatedVehicle(vehicles[id], b)
  <2>1. VP!updateVehicle(A!caller(k), b, 0)
    BY <1>9, SameUpdateVehicle DEF updateVehicle
  <2>2. b.ID = id
    OBVIOUS
  <2> HIDE DEF b
  <2>3. UNCHANGED vehicles \/ vehicles' = [vehicles EXCEPT ![id] = row]
    BY <2>1, <2>2 DEF VP!updateVehicle, VP!handleRefused, VP!updateStores
  <2>4. id \in DOMAIN vehicles => row.owner = vehicles[id].owner
    BY DEF VP!updatedVehicle, ComponentsInv, TablesTyped, VP!TypeOK, VP!VehicleRows
  <2> HIDE DEF row
  <2> QED
    BY <2>3, <2>4 DEF VehiclesKept
<1>10. ASSUME NEW k, NEW id, selectVehicle(k, id)
       PROVE  UNCHANGED vehicles
  BY <1>10 DEF selectVehicle, V!selectVehicle, V!handleRefused
<1> QED
  BY <1>1, <1>2, <1>3, <1>4, <1>5, <1>6, <1>7, <1>8, <1>9, <1>10 DEF Next, BookHandler

(* A log-in names the session after the account it found; the others stay. *)
LEMMA RequestTraced ==
  ASSUME ComponentsInv, HistoryTyped, NEW k \in Browsers, NEW name \in STRING,
         NEW b, b.username.word = name, NEW written,
         AP!request(users', k, b, 0, written, TRUE), nameSession(k, name)
  PROVE  loggedAs' \in [DOMAIN sessions' -> STRING] /\ SessionsTraced
<1>1. loggedAs' \in [DOMAIN sessions' -> STRING]
  <2>1. \A sid \in DOMAIN sessions : loggedAs[sid] \in STRING
    BY DEF HistoryTyped
  <2> QED
    BY <2>1 DEF nameSession
<1>2. /\ DOMAIN sessions \subseteq Sids /\ NoCookie \notin Sids
      /\ cookie \in [Browsers -> Sids \cup {NoCookie}]
  BY GarageAssumption DEF ComponentsInv, TablesTyped, AP!TypeOK
<1>3. CASE AP!loginFails(users', k, b, 0, written, TRUE)
  <2>1. sessions' = AP!deleteRow(sessions, cookie[k]) /\ cookie'[k] = NoCookie
    BY <1>2, <1>3 DEF AP!loginFails, AP!released, AP!Hear
  <2>2. \A sid \in DOMAIN sessions' :
          sid \in DOMAIN sessions /\ sessions'[sid] = sessions[sid] /\ sid # cookie'[k]
    BY <1>2, <2>1 DEF AP!deleteRow
  <2> QED
    BY <1>1, <2>2 DEF nameSession, SessionsTraced
<1>4. CASE AP!loginSucceeds(users', k, b, 0, written, TRUE)
  <2>1. PICK id \in AP!matches(users', b), new \in Sids \ DOMAIN AP!released(k) :
          /\ sessions' = [s \in DOMAIN AP!released(k) \cup {new} |->
                            IF s = new THEN [level |-> AP!asLevel(users'[id].perm), user |-> id]
                                       ELSE AP!released(k)[s]]
          /\ AP!Hear(k, TRUE, new)
    BY <1>4 DEF AP!loginSucceeds
  <2>2. id \in DOMAIN users' /\ users'[id].name.word = name
    BY DEF AP!matches
  <2>3. cookie'[k] = new
    BY <1>2, <2>1 DEF AP!Hear
  <2>4. sessions'[new].user = id /\ loggedAs'[new] = name
    BY <2>1, <2>3 DEF nameSession
  <2>5. \A sid \in DOMAIN sessions' \ {new} :
          /\ sid \in DOMAIN sessions /\ sessions'[sid] = sessions[sid]
          /\ loggedAs'[sid] = loggedAs[sid]
    BY <2>1, <2>3 DEF AP!released, AP!deleteRow, nameSession
  <2> QED
    BY <1>1, <2>2, <2>4, <2>5 DEF SessionsTraced
<1>5. 0 # 2
  OBVIOUS
<1> QED
  BY <1>3, <1>4, <1>5, Zenon DEF AP!request

(* authenticate and registerUser end with such a log-in. *)
LEMMA LoginTraced ==
  ASSUME ComponentsInv, HistoryTyped, NEW k \in Browsers, NEW name \in Names \cup {AdminWord},
         \/ authenticate(k, name)
         \/ \E password \in Passwords : registerUser(k, name, password)
  PROVE  loggedAs' \in [DOMAIN sessions' -> STRING] /\ SessionsTraced
<1>1. name \in STRING /\ text(name) \in A!Texts /\ A!Admin \in A!Texts
  BY GarageAssumption DEF A!Texts, text, A!Admin
<1>2. text(name).word = name
  BY DEF text
<1>3. CASE authenticate(k, name)
  <2> DEFINE b == [username |-> text(name), password |-> A!Admin]
  <2>1. AP!authenticate(k, b, 0, TRUE)
    BY <1>3, SameAuthenticate DEF authenticate
  <2>2. AP!containsAll({b.username, b.password})
    BY <1>1, GarageAssumption DEF AP!containsAll, AP!hasElement
  <2>3. b.username.word = name
    BY <1>2
  <2> HIDE DEF b
  <2>4. AP!request(users, k, b, 0, NoReply, TRUE) /\ users' = users
    BY <2>1, <2>2 DEF AP!authenticate
  <2>5. AP!request(users', k, b, 0, NoReply, TRUE)
    BY <2>4
  <2> QED
    BY <1>1, <1>3, <2>3, <2>5, RequestTraced DEF authenticate
<1>4. ASSUME NEW password \in Passwords, registerUser(k, name, password)
      PROVE  loggedAs' \in [DOMAIN sessions' -> STRING] /\ SessionsTraced
  <2> DEFINE b == [username |-> text(name), password |-> password]
  <2>1. AP!registerUser(k, b, 0, TRUE)
    BY <1>4, SameRegisterUser DEF registerUser
  <2>2. password \in A!Texts
    BY GarageAssumption DEF A!Texts
  <2>3. AP!containsAll({b.username, b.password})
    BY <1>1, <2>2, GarageAssumption DEF AP!containsAll, AP!hasElement
  <2>4. b.username.word = name
    BY <1>2
  <2> HIDE DEF b
  <2>5. 0 # 1
    OBVIOUS
  <2>6. \/ AP!request(users, k, b, 0, INTERNALERROR, TRUE) /\ users' = users
        \/ AP!request(users', k, b, 0, NoReply, TRUE)
    BY <2>1, <2>3, <2>5 DEF AP!registerUser
  <2>7. \/ AP!request(users', k, b, 0, INTERNALERROR, TRUE)
        \/ AP!request(users', k, b, 0, NoReply, TRUE)
    BY <2>6
  <2>8. nameSession(k, name)
    BY <1>4 DEF registerUser
  <2> QED
    BY <1>1, <2>4, <2>7, <2>8, RequestTraced
<1> QED
  BY <1>3, <1>4

(* Any other handler only keeps or ends sessions. *)
LEMMA SessionsShrink ==
  ASSUME HistoryTyped,
         \A sid \in DOMAIN sessions' : sid \in DOMAIN sessions /\ sessions'[sid] = sessions[sid],
         loggedAs' = [sid \in DOMAIN sessions' |-> loggedAs[sid]]
  PROVE  loggedAs' \in [DOMAIN sessions' -> STRING] /\ SessionsTraced
BY DEF HistoryTyped, SessionsTraced

(* So a session is the one it was, or of the account its log-in named. *)
LEMMA SessionChanges ==
  ASSUME ComponentsInv, HistoryTyped, Next
  PROVE  loggedAs' \in [DOMAIN sessions' -> STRING] /\ SessionsTraced
<1> DEFINE Goal == loggedAs' \in [DOMAIN sessions' -> STRING] /\ SessionsTraced
<1>1. ASSUME NEW k, deauthenticate(k)
      PROVE  Goal
  <2>1. sessions' = sessions \/ sessions' = A!deleteRow(sessions, cookie[k])
    BY <1>1 DEF deauthenticate, A!deauthenticate, A!Reply, A!released
  <2>2. \A sid \in DOMAIN sessions' : sid \in DOMAIN sessions /\ sessions'[sid] = sessions[sid]
    BY <2>1 DEF A!deleteRow
  <2> QED
    BY <1>1, <2>2, SessionsShrink DEF deauthenticate, keepNames
<1>2. ASSUME KeepSessions
      PROVE  Goal
  <2>1. \A sid \in DOMAIN sessions' : sid \in DOMAIN sessions /\ sessions'[sid] = sessions[sid]
    BY <1>2 DEF KeepSessions, A!NoSessions
  <2> QED
    BY <1>2, <2>1, SessionsShrink DEF KeepSessions, keepNames
<1>3. ASSUME UNCHANGED <<loggedAs, sessions>>
      PROVE  Goal
  BY <1>3 DEF HistoryTyped, SessionsTraced
<1>4. ASSUME NEW k, NEW name, NEW level, createUser(k, name, level)
      PROVE  UNCHANGED <<loggedAs, sessions>>
  BY <1>4 DEF createUser, A!createUser, A!createRefused, A!Reply, history
<1>5. ASSUME NEW k, NEW id, deleteUser(k, id)
      PROVE  UNCHANGED <<loggedAs, sessions>>
  BY <1>5 DEF deleteUser, A!deleteUser, A!Reply
<1>6. ASSUME NEW k, NEW id, NEW name, NEW permissions, updateUser(k, id, name, permissions)
       PROVE  UNCHANGED <<loggedAs, sessions>>
  <2>1. 0 # 1 /\ 0 # 2
    OBVIOUS
  <2> QED
    BY <1>6, <2>1 DEF updateUser, A!updateUser, A!updateRefused, A!updateStores, A!Reply
<1>7. ASSUME NEW k, checkSession(k) \/ getLocalUserData(k)
       PROVE  Goal
  <2>1. sessions' = sessions \/ sessions' = A!NoSessions
    <3>1. 0 \notin {1, 2}
      OBVIOUS
    <3> QED
      BY <1>7, <3>1 DEF checkSession, getLocalUserData, A!checkSession, A!getLocalUserData,
                         A!Reply, A!Crash
  <2>2. \A sid \in DOMAIN sessions' : sid \in DOMAIN sessions /\ sessions'[sid] = sessions[sid]
    BY <2>1 DEF A!NoSessions
  <2> QED
    BY <1>7, <2>2, SessionsShrink DEF checkSession, getLocalUserData, keepNames
<1>8. Restart => UNCHANGED <<loggedAs, sessions>>
  BY DEF Restart, A!Restart, history
<1>9. ASSUME NEW k, \/ \E b : createVehicle(k, b)
                    \/ \E id, plate : updateVehicle(k, id, plate)
                    \/ \E id : deleteVehicle(k, id) \/ selectVehicle(k, id)
                    \/ \E id : BookHandler(k, id)
                    \/ \E id, part : addPartToService(k, id, part)
      PROVE  KeepSessions
  BY <1>9 DEF createVehicle, updateVehicle, deleteVehicle, selectVehicle, createRequest,
              authoriseRequest, updateService, closeService, addPartToService,
              removePartFromService, BookHandler
<1>10. ASSUME NEW k, \/ \E lists, UID, fault : searchServices(k, lists, UID, fault)
                     \/ \E id, fault : selectService(k, id, fault)
                     \/ \E entry, UID, fault : selectServicePart(k, entry, UID, fault)
       PROVE  KeepSessions
  BY <1>10 DEF searchServices, selectService, selectServicePart, Shows
<1> HIDE DEF Goal
<1>11. Goal
  BY <1>1, <1>2, <1>3, <1>4, <1>5, <1>6, <1>7, <1>8, <1>9, <1>10, LoginTraced
     DEF Next, Goal, BookHandler
<1> QED
  BY <1>11 DEF Goal

(* createRequest adds a service only for a manager or for the owner of the  *)
(* vehicle, and notes down which.                                           *)
LEMMA RequestPlaced ==
  ASSUME ComponentsInv, NEW k \in Browsers, NEW vid \in VIDs, createRequest(k, vid)
  PROVE  /\ UNCHANGED <<active, told>>
         /\ UNCHANGED <<shared, placed>> \/ Placed(k, vid)
<1> DEFINE c == A!caller(k)
           b == [VID |-> vid, request |-> Words]
           o == ownerAnswer(vid)
<1>1. SP!createRequest(c, b, o, 0)
  BY SameCreateRequest DEF createRequest
<1>2. b.VID = vid
  OBVIOUS
<1>3. shared \in Seq(VIDs)
  BY DEF ComponentsInv, TablesTyped, SP!TypeOK
<1>4. o # NoRow => vid \in DOMAIN vehicles /\ o = vehicles[vid].owner
  BY DEF ownerAnswer
<1> HIDE DEF b, c, o
<1>5. CASE SP!createRefused(c, b, o, 0)
  <2>1. UNCHANGED <<shared, active, told>>
    BY <1>5 DEF SP!createRefused, SP!tables, SP!lifecycle
  <2> QED
    BY <2>1 DEF createRequest
<1>6. CASE SP!createInserts(c, b, o, 0)
  <2>1. shared' = Append(shared, vid) /\ UNCHANGED <<active, told>>
    BY <1>2, <1>6 DEF SP!createInserts
  <2>2. shared' # shared
    BY <1>3, <2>1
  <2>3. placed' = Append(placed, placing(k, vid))
    BY <2>2 DEF createRequest
  <2>4. /\ c # NoSession
        /\ c.level >= manager \/ (o # NoRow /\ c.user = o)
    BY <1>6 DEF SP!createInserts, SP!mayRequest, SP!verify, SP!isSessionUserFromID
  <2> QED
    BY <1>4, <2>1, <2>3, <2>4 DEF Placed, c
<1> QED
  BY <1>1, <1>5, <1>6 DEF SP!createRequest

(* authoriseRequest notes down the manager behind the session. *)
LEMMA RequestAuthorised ==
  ASSUME ComponentsInv, NEW k \in Browsers, NEW id \in Ids, authoriseRequest(k, id)
  PROVE  /\ UNCHANGED <<shared, placed>> /\ told'.failed = told.failed
         /\ UNCHANGED active \/ Authorised(k)
<1> DEFINE c == A!caller(k)
           b == [ID |-> id, quote |-> Words, notes |-> Absent]
           row == SP!newActiveRow(c, b)
<1>1. SP!authoriseRequest(c, b, 0)
  BY SameAuthoriseRequest DEF authoriseRequest
<1>2. told \in [authorised : SUBSET Nat, failed : SUBSET Nat]
  BY DEF ComponentsInv, TablesTyped, SP!TypeOK
<1>3. ~SP!getElementThrows(b.quote)
  BY GarageAssumption DEF SP!getElementThrows
<1>4. c \in Sessions \cup {NoSession}
  BY CallerTyped DEF ComponentsInv, TablesTyped
<1>5. c # NoSession => row \in SP!ActiveRows /\ row.authoriser = c.user
  <2> SUFFICES ASSUME c # NoSession
               PROVE  row \in SP!ActiveRows /\ row.authoriser = c.user
    OBVIOUS
  <2>1. c.user \in Nat /\ id \in Nat
    BY <1>4, GarageAssumption DEF Sessions, Ids
  <2>2. {0, Empty, Words} \subseteq SP!Cells
    BY GarageAssumption DEF SP!Cells
  <2>3. row = [service |-> id, labour |-> 0, notes |-> Empty, authoriser |-> c.user,
               quote |-> Words]
    BY DEF SP!newActiveRow, SP!hasElement
  <2> HIDE DEF row, c
  <2> QED
    BY <2>1, <2>2, <2>3 DEF SP!ActiveRows
<1> HIDE DEF b, c, row
<1>6. CASE SP!authoriseRefused(c, b, 0)
  BY <1>6 DEF SP!authoriseRefused, SP!tables, SP!lifecycle, authoriseRequest
<1>7. CASE SP!authoriseMoves(c, b, 0)
  <2>1. /\ c # NoSession /\ UNCHANGED shared
        /\ active' = Append(active, row) /\ SP!tellAuthorised(b.ID)
    BY <1>3, <1>7 DEF SP!authoriseMoves, SP!verify, row
  <2>2. told'.failed = told.failed
    BY <1>2, <2>1 DEF SP!tellAuthorised
  <2> QED
    BY <1>5, <2>1, <2>2 DEF Authorised, authoriseRequest, c
<1> QED
  BY <1>1, <1>6, <1>7 DEF SP!authoriseRequest

(* updateService leaves the authoriser of every row alone. *)
LEMMA ServiceUpdated ==
  ASSUME ComponentsInv, NEW k, NEW id \in Ids, updateService(k, id)
  PROVE  /\ told'.failed = told.failed
         /\ UNCHANGED <<shared, placed>> /\ AuthorisersSame
<1> DEFINE b == [ID |-> id, notes |-> Absent, hours |-> Words]
<1>1. SP!updateService(A!caller(k), b, 0)
  BY SameUpdateService DEF updateService
<1>2. active \in Seq(SP!ActiveRows)
  BY DEF ComponentsInv, TablesTyped, SP!TypeOK
<1> HIDE DEF b
<1>3. UNCHANGED <<shared, told>>
  BY <1>1 DEF SP!updateService, SP!tables, SP!lifecycle
<1>4. \A i \in DOMAIN active :
        SP!updatedRow(active[i], b).authoriser = active[i].authoriser
  BY <1>2 DEF SP!updatedRow, SP!ActiveRows
<1>5. \/ UNCHANGED active
      \/ active' = [i \in DOMAIN active |-> IF i = b.ID THEN SP!updatedRow(active[i], b)
                                                       ELSE active[i]]
  BY <1>1 DEF SP!updateService
<1>6. AuthorisersSame
  BY <1>4, <1>5 DEF AuthorisersSame
<1> QED
  BY <1>3, <1>6 DEF updateService

(* Every other step leaves the requests and authorisations as they are. *)
LEMMA BookChanges ==
  ASSUME ComponentsInv, Next
  PROVE  /\ told'.failed = told.failed
         /\ \/ UNCHANGED <<shared, placed>> /\ AuthorisersSame
            \/ UNCHANGED active /\ \E k \in Browsers, vid \in VIDs : Placed(k, vid)
            \/ UNCHANGED <<shared, placed>> /\ \E k \in Browsers : Authorised(k)
<1> DEFINE Still == UNCHANGED <<shared, placed, active, told>>
<1>1. ASSUME NEW k, \/ \E name : authenticate(k, name)
                    \/ \E name, password : registerUser(k, name, password)
                    \/ deauthenticate(k) \/ checkSession(k) \/ getLocalUserData(k)
                    \/ \E name, level : createUser(k, name, level)
                    \/ \E id : deleteUser(k, id)
                    \/ \E id, name, permissions : updateUser(k, id, name, permissions)
      PROVE  Still
  BY <1>1 DEF authenticate, registerUser, deauthenticate, checkSession, getLocalUserData,
              createUser, deleteUser, updateUser, bookVars, history
<1>2. ASSUME NEW k, \/ \E b : createVehicle(k, b)
                    \/ \E id, plate : updateVehicle(k, id, plate)
                    \/ \E id : deleteVehicle(k, id) \/ selectVehicle(k, id)
      PROVE  Still
  BY <1>2 DEF createVehicle, updateVehicle, deleteVehicle, selectVehicle, bookVars
<1>3. ASSUME NEW k, \/ \E id : closeService(k, id)
                    \/ \E id, part : addPartToService(k, id, part)
                    \/ \E entry : removePartFromService(k, entry)
      PROVE  Still
  BY <1>3 DEF closeService, S!closeService, addPartToService, S!addPartToService,
              removePartFromService, S!removePartFromService, S!lifecycle
<1>4. ASSUME NEW k, \/ \E lists, UID, fault : searchServices(k, lists, UID, fault)
                    \/ \E id, fault : selectService(k, id, fault)
                    \/ \E entry, UID, fault : selectServicePart(k, entry, UID, fault)
      PROVE  Still
  BY <1>4 DEF searchServices, selectService, selectServicePart, Shows, bookVars
<1>5. Restart => Still
  BY DEF Restart, bookVars, history
<1>6. ASSUME NEW k, NEW id \in Ids, updateService(k, id)
      PROVE  /\ told'.failed = told.failed
             /\ UNCHANGED <<shared, placed>> /\ AuthorisersSame
  BY <1>6, ServiceUpdated
<1>7. \/ Still
      \/ \E k \in Browsers : \E id \in Ids : updateService(k, id)
      \/ \E k \in Browsers : \E id \in VIDs : createRequest(k, id)
      \/ \E k \in Browsers : \E id \in Ids : authoriseRequest(k, id)
  <2> HIDE DEF Still
  <2> QED
    BY <1>1, <1>2, <1>3, <1>4, <1>5 DEF Next
<1>8. UNCHANGED active => AuthorisersSame
  BY DEF AuthorisersSame
<1>9. Still => UNCHANGED <<shared, placed, active>> /\ told'.failed = told.failed
  OBVIOUS
<1>10. UNCHANGED told => told'.failed = told.failed
  OBVIOUS
<1> HIDE DEF Still
<1> QED
  BY <1>6, <1>7, <1>8, <1>9, <1>10, RequestPlaced, RequestAuthorised

(* A session that calls is one with a name. *)
LEMMA CallerNamed ==
  ASSUME HistoryTyped, NEW k, A!caller(k) # NoSession
  PROVE  /\ cookie[k] \in DOMAIN sessions /\ A!caller(k) = sessions[cookie[k]]
         /\ loggedAs[cookie[k]] \in STRING
BY DEF A!caller, HistoryTyped

(* What is noted down of a service is well typed. *)
LEMMA PlacingTyped ==
  ASSUME ComponentsInv, HistoryTyped, NEW k, NEW vid, A!caller(k) # NoSession
  PROVE  placing(k, vid) \in PlacedRows
<1>1. \A id \in DOMAIN users : users[id].name.word \in STRING
  BY DEF ComponentsInv, TablesTyped, AP!TypeOK, AP!UserRows, AP!Texts
<1>2. loggedAs[cookie[k]] \in STRING
  BY CallerNamed
<1> QED
  BY <1>1, <1>2 DEF placing, PlacedRows

(* The history stays typed, with one entry for each service. *)
LEMMA HistoryStaysTyped ==
  ASSUME ComponentsInv, HistoryTyped, Next
  PROVE  HistoryTyped'
<1>1. shared \in Seq(VIDs)
  BY DEF ComponentsInv, TablesTyped, SP!TypeOK
<1>2. placed' \in Seq(PlacedRows) /\ Len(placed') = Len(shared')
  <2>1. CASE UNCHANGED <<shared, placed>>
    BY <2>1 DEF HistoryTyped
  <2>2. ASSUME NEW k \in Browsers, NEW vid \in VIDs, Placed(k, vid)
        PROVE  placed' \in Seq(PlacedRows) /\ Len(placed') = Len(shared')
    <3>1. placing(k, vid) \in PlacedRows
      BY <2>2, PlacingTyped DEF Placed
    <3> QED
      BY <1>1, <2>2, <3>1 DEF Placed, HistoryTyped
  <2> QED
    BY <2>1, <2>2, BookChanges
<1> QED
  BY <1>2, SessionChanges, DeletionsCounted DEF HistoryTyped

(* A session keeps standing for the person who logged in. *)
LEMMA SessionsStayNamed ==
  ASSUME SessionsNamed, SessionsTraced, UsersKept
  PROVE  SessionsNamed'
BY DEF SessionsNamed, SessionsTraced, UsersKept

(* An authoriser keeps being an account. *)
LEMMA AuthorisersStayKnown ==
  ASSUME ComponentsInv, HistoryTyped, SessionsNamed, AuthorisersKnown, UsersKept, Next
  PROVE  AuthorisersKnown'
<1>1. CASE UNCHANGED active \/ AuthorisersSame
  BY <1>1 DEF AuthorisersKnown, UsersKept, AuthorisersSame
<1>2. ASSUME NEW k \in Browsers, Authorised(k)
      PROVE  AuthorisersKnown'
  <2>1. PICK row \in SP!ActiveRows :
          row.authoriser = A!caller(k).user /\ active' = Append(active, row)
    BY <1>2 DEF Authorised
  <2>2. row.authoriser \in DOMAIN users
    BY <1>2, <2>1, CallerNamed DEF Authorised, SessionsNamed
  <2>3. active \in Seq(SP!ActiveRows)
    BY DEF ComponentsInv, TablesTyped, SP!TypeOK
  <2>4. \A i \in DOMAIN active' : active'[i].authoriser \in DOMAIN users
    BY <2>1, <2>2, <2>3 DEF AuthorisersKnown
  <2> QED
    BY <2>4 DEF AuthorisersKnown, UsersKept
<1> QED
  BY <1>1, <1>2, BookChanges

(* What a new service is noted down with is so, and by whom it is placed. *)
LEMMA PlacingKnown ==
  ASSUME HistoryTyped, SessionsNamed, NEW k, NEW vid, Placed(k, vid)
  PROVE  /\ placing(k, vid).owner # NoRow =>
              /\ vid \in DOMAIN vehicles /\ vehicles[vid].owner \in DOMAIN users
              /\ users[vehicles[vid].owner].name.word = placing(k, vid).owner
         /\ placing(k, vid).manager \/ placing(k, vid).by = placing(k, vid).owner
<1>1. /\ cookie[k] \in DOMAIN sessions /\ A!caller(k) = sessions[cookie[k]]
  BY CallerNamed DEF Placed
<1>2. /\ A!caller(k).user \in DOMAIN users
      /\ users[A!caller(k).user].name.word = loggedAs[cookie[k]]
  BY <1>1 DEF SessionsNamed
<1> QED
  BY <1>2 DEF placing, Placed

(* A service keeps belonging to the person it was placed for, and placed    *)
(* by that person or a manager.                                             *)
LEMMA OwnersStayKnown ==
  ASSUME ComponentsInv, HistoryTyped, SessionsNamed, OwnersKnown, UsersKept, VehiclesKept, Next,
         \A s \in DOMAIN placed : placed[s].manager \/ placed[s].by = placed[s].owner
  PROVE  /\ OwnersKnown'
         /\ \A s \in DOMAIN placed' : placed'[s].manager \/ placed'[s].by = placed'[s].owner
<1> DEFINE Known(p, v) == p.owner # NoRow =>
                            /\ v \in DOMAIN vehicles /\ vehicles[v].owner \in DOMAIN users
                            /\ users[vehicles[v].owner].name.word = p.owner
           Own(p) == p.manager \/ p.by = p.owner
<1>1. \A s \in DOMAIN placed : Known(placed[s], shared[s]) /\ Own(placed[s])
  BY DEF OwnersKnown
<1>2. \A s \in DOMAIN placed' : Known(placed'[s], shared'[s]) /\ Own(placed'[s])
  <2>1. CASE UNCHANGED <<shared, placed>>
    BY <1>1, <2>1
  <2>2. ASSUME NEW k \in Browsers, NEW vid \in VIDs, Placed(k, vid)
        PROVE  \A s \in DOMAIN placed' : Known(placed'[s], shared'[s]) /\ Own(placed'[s])
    <3> DEFINE p == placing(k, vid)
    <3>1. p \in PlacedRows
      BY <2>2, PlacingTyped DEF Placed
    <3>2. Known(p, vid) /\ Own(p)
      BY <2>2, PlacingKnown
    <3>3. shared' = Append(shared, vid) /\ placed' = Append(placed, p)
      BY <2>2 DEF Placed
    <3>4. /\ shared \in Seq(VIDs) /\ placed \in Seq(PlacedRows) /\ Len(placed) = Len(shared)
      BY DEF ComponentsInv, TablesTyped, SP!TypeOK, HistoryTyped
    <3> HIDE DEF p, Known, Own
    <3>5. /\ \A s \in DOMAIN placed : placed'[s] = placed[s] /\ shared'[s] = shared[s]
          /\ placed'[Len(placed) + 1] = p /\ shared'[Len(placed) + 1] = vid
          /\ DOMAIN placed' = DOMAIN placed \cup {Len(placed) + 1}
      BY <3>1, <3>3, <3>4
    <3> QED
      BY <1>1, <3>2, <3>5
  <2> QED
    BY <2>1, <2>2, BookChanges
<1>3. \A p, v : Known(p, v) /\ p.owner # NoRow =>
                  /\ v \in DOMAIN vehicles' /\ vehicles'[v].owner \in DOMAIN users'
                  /\ users'[vehicles'[v].owner].name.word = p.owner
  BY DEF UsersKept, VehiclesKept
<1> QED
  BY <1>2, <1>3 DEF OwnersKnown

(* The invariant holds at first. *)
LEMMA InitGarage == Init => GarageInv
<1> SUFFICES ASSUME Init PROVE GarageInv
  OBVIOUS
<1>1. sessions = [sid \in {} |-> A!AdminRow] /\ users = A!withAdmin([id \in {} |-> A!AdminRow])
  BY DEF Init, A!Init, A!NoSessions
<1>2. DOMAIN sessions = {} /\ DOMAIN users = {0} /\ users[0] = A!AdminRow
  BY <1>1 DEF A!withAdmin, A!nameTaken
<1>3. NamesPlain
  BY <1>2 DEF NamesPlain, A!AdminRow, A!Admin
<1>4. shared = <<>> /\ placed = <<>> /\ active = <<>> /\ deletions = 0
  BY DEF Init, S!Init
<1>5. HistoryTyped
  <2>1. loggedAs \in [DOMAIN sessions -> STRING]
    BY <1>2 DEF Init
  <2> QED
    BY <1>4, <2>1 DEF HistoryTyped
<1>6. NothingLost
  BY DEF Init, S!Init, NothingLost
<1>7. SessionsNamed /\ AuthorisersKnown /\ OwnersKnown /\ PlacedByItsOwner
  BY <1>2, <1>4 DEF SessionsNamed, AuthorisersKnown, OwnersKnown, PlacedByItsOwner
<1> QED
  BY <1>3, <1>5, <1>6, <1>7, InitComponents DEF GarageInv

(* Every step keeps it. *)
LEMMA NextKeepsGarage == GarageInv /\ [Next]_vars => GarageInv'
<1> SUFFICES ASSUME GarageInv, [Next]_vars PROVE GarageInv'
  OBVIOUS
<1>1. ComponentsInv'
  BY NextKeepsComponents DEF GarageInv
<1>2. CASE Next
  <2>1. HistoryTyped' /\ NamesPlain'
    BY <1>2, HistoryStaysTyped, AccountsKept DEF GarageInv
  <2>2. NothingLost'
    BY <1>2, BookChanges DEF GarageInv, NothingLost
  <2>3. ASSUME deletions' = 0
        PROVE  SessionsNamed' /\ AuthorisersKnown' /\ OwnersKnown' /\ PlacedByItsOwner'
    <3>1. deletions = 0
      BY <1>2, <2>3, DeletionsCounted DEF GarageInv, HistoryTyped
    <3>2. /\ SessionsNamed /\ AuthorisersKnown /\ OwnersKnown
          /\ \A s \in DOMAIN placed : placed[s].manager \/ placed[s].by = placed[s].owner
      BY <3>1 DEF GarageInv, PlacedByItsOwner
    <3>3. UsersKept /\ VehiclesKept /\ SessionsTraced
      BY <1>2, <2>3, AccountsKept, FleetKept, SessionChanges DEF GarageInv
    <3>4. SessionsNamed' /\ AuthorisersKnown'
      BY <1>2, <3>2, <3>3, SessionsStayNamed, AuthorisersStayKnown DEF GarageInv
    <3>5. /\ OwnersKnown'
          /\ \A s \in DOMAIN placed' : placed'[s].manager \/ placed'[s].by = placed'[s].owner
      BY <1>2, <3>2, <3>3, OwnersStayKnown DEF GarageInv
    <3> QED
      BY <3>4, <3>5 DEF PlacedByItsOwner
  <2>4. deletions' # 0 => PlacedByItsOwner'
    BY DEF PlacedByItsOwner
  <2> QED
    BY <1>1, <2>1, <2>2, <2>3, <2>4 DEF GarageInv
<1>3. CASE UNCHANGED vars
  BY <1>1, <1>3 DEF vars, accountVars, vehicleVars, bookVars, history, GarageInv, HistoryTyped,
     NamesPlain, NothingLost, SessionsNamed, AuthorisersKnown, OwnersKnown, PlacedByItsOwner
<1> QED
  BY <1>2, <1>3

(* So it holds in every state of the server. *)
LEMMA GarageAlways == Spec => []GarageInv
BY InitGarage, NextKeepsGarage, PTL DEF Spec

(* As long as nothing has been deleted, a request is placed by the person   *)
(* whose vehicle it is for, or by a manager, although createRequest only    *)
(* compares the number in the session with the one in VEHICLES              *)
(* (isSessionUserFromID): that is, however many log-ins, log-outs, failed   *)
(* log-ins, new accounts, vehicles and restarts come between.               *)
THEOREM PlacedCorrect == Spec => []PlacedByItsOwner
<1>1. GarageInv => PlacedByItsOwner
  BY DEF GarageInv
<1> QED
  BY <1>1, GarageAlways, PTL

-----------------------------------------------------------------------------
(* What the handlers that show services find. *)

(* Every service is on one of the three lists. *)
LEMMA OnSomeList ==
  ASSUME ComponentsInv, NothingLost, NEW s \in DOMAIN shared
  PROVE  \/ listName(s) = "unauthorised" /\ s \in unauthorised
         \/ /\ listName(s) = "open" /\ s \notin unauthorised
            /\ \E i \in DOMAIN active : active[i].service = s /\ i \in open
         \/ /\ listName(s) = "closed" /\ s \notin unauthorised
            /\ \E i \in DOMAIN active : active[i].service = s /\ i \in closed
            /\ \A i \in DOMAIN active : active[i].service = s => i \notin open
<1>1. s \in unauthorised \/ \E i \in DOMAIN active : active[i].service = s /\ i \in open \cup closed
  BY DEF ComponentsInv, SP!BookInv, SP!NoSilentLoss, SP!Tracked, SP!ActiveOf, NothingLost
<1> QED
  BY <1>1 DEF listName, S!statusOf, S!ActiveOf

(* When its owner is known, a service is listed to the owner and to nobody  *)
(* else.                                                                    *)
LEMMA ListedOnce ==
  ASSUME ComponentsInv, NothingLost, AuthorisersKnown, NEW s \in DOMAIN shared, joined(s),
         NEW u \in DOMAIN users
  PROVE  /\ u = ownerOf(s) => s \in listed(listName(s), u)
         /\ u # ownerOf(s) =>
              \A list \in {"unauthorised", "open", "closed"} : s \notin listed(list, u)
<1>1. hasElement(u)
  <2>1. PICK T \in SUBSET (0..MaxUsers) : users \in [T -> AP!UserRows]
    BY DEF ComponentsInv, TablesTyped, AP!TypeOK
  <2>2. u \in Nat
    BY <2>1
  <2> QED
    BY <2>2, MarkerAssumption DEF hasElement
<1>2. s \in rowsOf(listName(s))
  <2>1. CASE listName(s) = "unauthorised" /\ s \in unauthorised
    BY <2>1 DEF rowsOf
  <2>2. ASSUME NEW i \in DOMAIN active, active[i].service = s, i \in open, listName(s) = "open"
        PROVE  s \in rowsOf(listName(s))
    BY <2>2 DEF rowsOf, AuthorisersKnown
  <2>3. ASSUME NEW i \in DOMAIN active, active[i].service = s, i \in closed, listName(s) = "closed"
        PROVE  s \in rowsOf(listName(s))
    BY <2>3 DEF rowsOf
  <2> QED
    BY <2>1, <2>2, <2>3, OnSomeList
<1> QED
  BY <1>1, <1>2 DEF listed

(* As long as no account and no vehicle has been deleted, every service     *)
(* placed for somebody's vehicle is listed by searchServices to that person *)
(* under the heading that fits it, and to no other user: two accounts never *)
(* share the name, the vehicle, its owner and the authoriser are found by   *)
(* the joins, and no service is on no list.                                 *)
THEOREM ListedCorrect == Spec => []ListedToItsOwner
<1>1. GarageInv => ListedToItsOwner
  <2> SUFFICES ASSUME GarageInv, deletions = 0,
                      NEW s \in DOMAIN placed, NEW u \in DOMAIN users, placed[s].owner # NoRow
               PROVE  IF users[u].name.word = placed[s].owner
                        THEN s \in listed(listName(s), u)
                        ELSE \A list \in {"unauthorised", "open", "closed"} : s \notin listed(list, u)
    BY DEF ListedToItsOwner
  <2>1. s \in DOMAIN shared
    BY DEF GarageInv, HistoryTyped, ComponentsInv, TablesTyped, SP!TypeOK
  <2>2. joined(s) /\ users[ownerOf(s)].name.word = placed[s].owner
    BY <2>1 DEF GarageInv, OwnersKnown, joined, ownerOf
  <2>3. users[u].name.word = placed[s].owner => u = ownerOf(s)
    <3> SUFFICES ASSUME users[u].name.word = placed[s].owner PROVE u = ownerOf(s)
      OBVIOUS
    <3> DEFINE o == ownerOf(s)
    <3>1. o \in DOMAIN users
      BY <2>2 DEF joined, ownerOf
    <3>2. users[u].name \in AP!Texts /\ users[o].name \in AP!Texts
      BY <3>1 DEF GarageInv, ComponentsInv, TablesTyped, AP!TypeOK, AP!UserRows
    <3>3. users[u].name.flipped = users[o].name.flipped /\ users[u].name.word = users[o].name.word
      BY <2>2, <3>1 DEF GarageInv, NamesPlain
    <3> HIDE DEF o
    <3>4. users[u].name = users[o].name
      BY <3>2, <3>3 DEF AP!Texts
    <3>5. u = o
      BY <3>1, <3>4 DEF GarageInv, ComponentsInv, AP!NamesUnique
    <3> QED
      BY <3>5 DEF o
  <2> QED
    BY <2>1, <2>2, <2>3, ListedOnce DEF GarageInv
<1> QED
  BY <1>1, GarageAlways, PTL

(* As long as services are authorised in the order they were requested,     *)
(* selectService shows each under the heading that fits it, although it     *)
(* looks for a request's number among active services' numbers: a service   *)
(* that is not waiting has an active row, which is then the one of its own  *)
(* number, and on which list that is decides the heading.  The details of a *)
(* closed one come from any number in CLOSEDSERVICES, so they are its own   *)
(* when it is the only one there.                                           *)
THEOREM SelectedCorrect == Spec => []SelectedAsListed
<1>1. GarageInv => SelectedAsListed
  <2> SUFFICES ASSUME ComponentsInv, NothingLost, \A i \in DOMAIN active : active[i].service = i,
                      NEW s \in DOMAIN shared, joined(s), priced(s), NEW shown \in selectShows(s)
               PROVE  /\ shown.as = CASE listName(s) = "unauthorised" -> "unauthorised"
                                      [] listName(s) = "open"         -> "authorised"
                                      [] listName(s) = "closed"       -> "closed"
                                      [] OTHER                        -> "error"
                      /\ shown.as = "closed" /\ (\A c, d \in closed : c = d)
                           => shown.of \in S!ActiveOf(s)
    BY DEF SelectedAsListed, GarageInv
  <2>1. CASE listName(s) = "unauthorised" /\ s \in unauthorised
    BY <2>1 DEF selectShows, Only
  <2>2. ASSUME NEW i \in DOMAIN active, active[i].service = s, i \in open \cup closed,
               s \notin unauthorised
        PROVE  /\ s = i /\ s \in S!ActiveOf(s)
               /\ shown.as = IF s \in open THEN "authorised" ELSE "closed"
               /\ s \notin open => s \in closed /\ shown.of \in closed
    <3>1. s = i
      BY <2>2
    <3>2. s \in S!ActiveOf(s)
      BY <2>2, <3>1 DEF S!ActiveOf
    <3>3. CASE s \in open
      <4>1. selectShows(s) = Only("authorised")
        BY <2>2, <3>2, <3>3 DEF selectShows
      <4> QED
        BY <3>1, <3>2, <3>3, <4>1 DEF Only
    <3>4. CASE s \notin open
      <4>1. s \in closed /\ s \in closed \cap DOMAIN shared
        BY <2>2, <3>1, <3>4
      <4>2. selectShows(s) = [as : {"closed"}, of : closed \cap DOMAIN shared]
        BY <2>2, <3>2, <3>4, <4>1 DEF selectShows
      <4> QED
        BY <3>1, <3>2, <3>4, <4>1, <4>2
    <3> QED
      BY <3>3, <3>4
  <2>3. CASE /\ listName(s) = "open" /\ s \notin unauthorised
             /\ \E i \in DOMAIN active : active[i].service = s /\ i \in open
    BY <2>2, <2>3
  <2>4. CASE /\ listName(s) = "closed" /\ s \notin unauthorised
             /\ \E i \in DOMAIN active : active[i].service = s /\ i \in closed
             /\ \A i \in DOMAIN active : active[i].service = s => i \notin open
    <3>1. /\ s \in S!ActiveOf(s) /\ s \notin open /\ s \in closed
          /\ shown.as = "closed" /\ shown.of \in closed
      BY <2>2, <2>4
    <3> QED
      BY <2>4, <3>1
  <2> QED
    BY <2>1, <2>3, <2>4, OnSomeList
<1> QED
  BY <1>1, GarageAlways, PTL
=============================================================================
