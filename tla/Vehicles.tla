------------------------------- MODULE Vehicles -------------------------------
(***************************************************************************)
(* The customers' vehicles: the handlers of Vehicle.h over VEHICLES and    *)
(* VEHICLESHAREDDATA, the table of makes and models vehicles share.        *)
(***************************************************************************)
EXTENDS ServerData, Sequences

CONSTANTS
  Callers,       \* sessions requests arrive with
  PlateFields,   \* what a body may hold in its fields, Absent and Empty
  ModelFields,   \*   included: "plate"; "make" and "model" together;
  OwnerFields,   \*   "owner" (a number or other text); "year";
  YearFields,    \*   "colour"; "ID" (a number or other text)
  ColourFields,
  IDFields,
  ColumnOf,      \* the texts that happen to be the name of a column
  Faults,        \* the statement of a handler that does not complete, or 0
  MaxModels,     \* bound on VEHICLESHAREDDATA rows
  MaxVehicles    \* bound on the IDs of VEHICLES

VARIABLES
  models,        \* VEHICLESHAREDDATA: make and model by ID; never deleted
  vehicles       \* VEHICLES: rows by ID

vars == <<up, reply, models, vehicles>>

Columns == {"plate", "base", "owner", "year", "colour"}

(* No column is ever blank.  A column name in place of a text puts another  *)
(* cell of the row there.                                                   *)
NotBlank(fields) == fields \ {Absent, Empty}

Cells == NotBlank(PlateFields \cup OwnerFields \cup YearFields \cup ColourFields) \cup Nat

VehicleRows == [plate : Cells, base : Nat, owner : NotBlank(OwnerFields),
                year : NotBlank(YearFields), colour : Cells]

ASSUME VehiclesAssumption ==
  /\ Callers \subseteq Sessions \cup {NoSession}
  /\ ColumnOf \in [DOMAIN ColumnOf -> Columns]
  /\ Faults \subseteq Nat
  /\ MaxModels \in Nat
  /\ MaxVehicles \in Nat

-----------------------------------------------------------------------------
Init ==
  /\ up = TRUE /\ reply = NoReply
  /\ models = <<>>
  /\ vehicles = [id \in {} |-> Empty]

(* PLATE is UNIQUE.  Mutated form: it is not. *)
plateTaken_Never(t, plate) == FALSE

plateTaken(t, plate) == \E id \in DOMAIN t : t[id].plate = plate

modelNumber(list, model) == CHOOSE i \in DOMAIN list : list[i] = model

(* createVehicle.  INSERT OR IGNORE makes sure of the make and model, then  *)
(* a second statement adds the vehicle; the first stays when that fails.    *)
createRefused(c, b) ==
  \/ /\ ~containsAll({b.plate, b.model, b.owner, b.year, b.colour})
     /\ Answer(BADREQUEST)
  \/ /\ containsAll({b.plate, b.model, b.owner, b.year, b.colour})
     /\ ~verify(c, manager) /\ ~isSessionUser(c, b.owner)
     /\ Answer(FORBIDDEN)

(* Mutated form: a plain INSERT into a table without UNIQUE. *)
withModel_Always(list, model) == Append(list, model)

withModel(list, model) ==
  IF \E i \in DOMAIN list : list[i] = model THEN list ELSE Append(list, model)

createStores(c, b, fault) ==
  /\ containsAll({b.plate, b.model, b.owner, b.year, b.colour})
  /\ verify(c, manager) \/ isSessionUser(c, b.owner)
  /\ \/ fault = 1 /\ Broken /\ UNCHANGED <<models, vehicles>>
     \/ /\ fault # 1
        /\ Len(withModel(models, b.model)) <= MaxModels
        /\ models' = withModel(models, b.model)
        /\ \/ fault = 2 /\ Broken /\ UNCHANGED vehicles
           \/ /\ fault # 2 /\ plateTaken(vehicles, b.plate)
              /\ Answer(INTERNALERROR) /\ UNCHANGED vehicles
           \/ /\ fault # 2 /\ ~plateTaken(vehicles, b.plate)
              /\ NextRowId(vehicles) <= MaxVehicles
              /\ vehicles' = insertRow(vehicles,
                               [plate |-> b.plate, base |-> modelNumber(models', b.model),
                                owner |-> b.owner, year |-> b.year, colour |-> b.colour])
              /\ Answer(OK)

createVehicle(c, b, fault) ==
  /\ up
  /\ \/ createRefused(c, b) /\ UNCHANGED <<models, vehicles>>
     \/ createStores(c, b, fault)

-----------------------------------------------------------------------------
(* The other handlers begin by reading the owner from row 0 of an answer,   *)
(* whether or not the statement succeeded and found the vehicle.  Without   *)
(* the row that is a read through a null pointer, which ends the process    *)
(* unless the compiler has moved the read behind the test for a session.    *)
ownerUnread(b, fault) == fault = 1 \/ b.ID \notin DOMAIN vehicles

mayHandle(c, b) == isSessionUserFromID(c, vehicles[b.ID].owner) \/ verify(c, manager)

handleRefused(c, b, fault) ==
  /\ \/ ~hasElement(b.ID) /\ Answer(BADREQUEST)
     \/ /\ hasElement(b.ID) /\ ownerUnread(b, fault)
        /\ Die \/ (c = NoSession /\ Answer(FORBIDDEN))
     \/ /\ hasElement(b.ID) /\ ~ownerUnread(b, fault) /\ ~mayHandle(c, b)
        /\ Answer(FORBIDDEN)
  /\ UNCHANGED vehicles

handleAllowed(c, b, fault) ==
  hasElement(b.ID) /\ ~ownerUnread(b, fault) /\ mayHandle(c, b)

(* Mutated form: generateUpdateStatement also writes empty fields. *)
updatedCell_Blank(row, f, old) == IF f # Absent THEN sqlValue(ColumnOf, row, f) ELSE old

updatedCell(row, f, old) == IF hasElement(f) THEN sqlValue(ColumnOf, row, f) ELSE old

(* Mutated form: the vehicle can be transferred. *)
updatedVehicle_Transfer(row, b) ==
  [row EXCEPT !.plate = updatedCell(row, b.plate, @), !.owner = updatedCell(row, b.colour, @)]

updatedVehicle(row, b) ==
  [row EXCEPT !.plate = updatedCell(row, b.plate, @), !.colour = updatedCell(row, b.colour, @)]

updateStores(b, fault) ==
  \/ /\ nothingToUpdate({b.plate, b.colour})
     /\ Answer(OK) /\ UNCHANGED vehicles
  \/ /\ ~nothingToUpdate({b.plate, b.colour})
     /\ \/ fault = 2 /\ Broken /\ UNCHANGED vehicles
        \/ /\ fault # 2
           /\ plateTaken(deleteRow(vehicles, b.ID), updatedVehicle(vehicles[b.ID], b).plate)
           /\ Answer(INTERNALERROR) /\ UNCHANGED vehicles
        \/ /\ fault # 2
           /\ ~plateTaken(deleteRow(vehicles, b.ID), updatedVehicle(vehicles[b.ID], b).plate)
           /\ vehicles' = [vehicles EXCEPT ![b.ID] = updatedVehicle(@, b)]
           /\ Answer(OK)

updateVehicle(c, b, fault) ==
  /\ up
  /\ \/ handleRefused(c, b, fault)
     \/ handleAllowed(c, b, fault) /\ updateStores(b, fault)
  /\ UNCHANGED models

deleteVehicle(c, b, fault) ==
  /\ up
  /\ \/ handleRefused(c, b, fault)
     \/ /\ handleAllowed(c, b, fault)
        /\ \/ fault = 2 /\ Broken /\ UNCHANGED vehicles
           \/ /\ fault # 2 /\ Answer(OK)
              /\ vehicles' = deleteRow(vehicles, b.ID)
  /\ UNCHANGED models

(* selectVehicle changes nothing, but it too can end the process.  It joins *)
(* the vehicle with its make and model.                                     *)
selectVehicle(c, b, fault) ==
  /\ up
  /\ \/ handleRefused(c, b, fault)
     \/ /\ handleAllowed(c, b, fault) /\ UNCHANGED vehicles
        /\ \/ fault = 2 /\ Broken
           \/ fault # 2 /\ Answer(IF vehicles[b.ID].base \in DOMAIN models THEN OK ELSE NOTFOUND)
  /\ UNCHANGED models

(* The process is started again on the same database file. *)
Restart ==
  /\ ~up /\ up' = TRUE /\ reply' = NoReply
  /\ UNCHANGED <<models, vehicles>>

CreateBodies == [plate : PlateFields, model : ModelFields, owner : OwnerFields,
                 year : YearFields, colour : ColourFields]
UpdateBodies == [ID : IDFields, plate : PlateFields, colour : ColourFields]
HandleBodies == [ID : IDFields]

Next ==
  \/ \E c \in Callers, fault \in Faults :
       \/ \E b \in CreateBodies : createVehicle(c, b, fault)
       \/ \E b \in UpdateBodies : updateVehicle(c, b, fault)
       \/ \E b \in HandleBodies : deleteVehicle(c, b, fault) \/ selectVehicle(c, b, fault)
  \/ Restart

Spec == Init /\ [][Next]_vars

-----------------------------------------------------------------------------
(***************************************************************************)
(* Properties.                                                             *)
(***************************************************************************)
(* Both tables hold rows of their declared columns, none of them blank. *)
TypeOK ==
  /\ up \in BOOLEAN
  /\ reply \in HTTPCodes \cup {NoReply}
  /\ models \in Seq(NotBlank(ModelFields)) /\ Len(models) <= MaxModels
  /\ \E S \in SUBSET (1..MaxVehicles) : vehicles \in [S -> VehicleRows]

(* Every vehicle's BASE is the number of a make and model in the shared     *)
(* table, and the table lists each of them once: the subquery of            *)
(* createVehicle finds exactly one row although the two statements are no   *)
(* transaction and the reference is not enforced.                           *)
ModelsHold ==
  /\ \A id \in DOMAIN vehicles : vehicles[id].base \in DOMAIN models
  /\ \A i, j \in DOMAIN models : models[i] = models[j] => i = j

(* "Vehicle number plates must be unique (across all users)"                *)
(* (AddVehicle.htmt:4), whichever of createVehicle and updateVehicle set    *)
(* them, and also where the new plate is read from another column.          *)
PlatesUnique ==
  \A i, j \in DOMAIN vehicles : vehicles[i].plate = vehicles[j].plate => i = j

(* "the year, make or model of the vehicle may not be updated [...] Nor may *)
(* the user, vehicles are not to be transferred" (Vehicle.h:78): a vehicle  *)
(* keeps all of these as long as it exists.                                 *)
KeepsDetails ==
  \A id \in DOMAIN vehicles \cap DOMAIN vehicles' :
    /\ \A col \in {"owner", "year", "base"} : vehicles'[id][col] = vehicles[id][col]
    /\ models'[vehicles'[id].base] = models[vehicles[id].base]

DetailsFixed == [][KeepsDetails]_vars
=============================================================================
