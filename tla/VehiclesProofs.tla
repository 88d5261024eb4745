---------------------------- MODULE VehiclesProofs ----------------------------
(***************************************************************************)
(* Proofs about Vehicles, for all bodies, callers and bounds and every     *)
(* choice of failing statements.  A step adds a make and model at the end  *)
(* of its table at most, and does one of three things to VEHICLES; the     *)
(* theorems follow from these few ways.                                    *)
(***************************************************************************)
EXTENDS Vehicles, ServerDataProofs

(* The make and model of a request is in the table afterwards. *)
ModelStored(m) ==
  /\ m \in NotBlank(ModelFields)
  /\ Len(withModel(models, m)) <= MaxModels
  /\ models' = withModel(models, m)

NewVehicle(b) ==
  [plate |-> b.plate, base |-> modelNumber(models', b.model),
   owner |-> b.owner, year |-> b.year, colour |-> b.colour]

VehicleAdded ==
  \E b \in CreateBodies :
    /\ containsAll({b.plate, b.model, b.owner, b.year, b.colour})
    /\ ModelStored(b.model)
    /\ ~plateTaken(vehicles, b.plate) /\ NextRowId(vehicles) <= MaxVehicles
    /\ vehicles' = insertRow(vehicles, NewVehicle(b))

VehicleChanged ==
  \E id \in DOMAIN vehicles, b \in UpdateBodies :
    /\ ~plateTaken(deleteRow(vehicles, id), updatedVehicle(vehicles[id], b).plate)
    /\ vehicles' = [vehicles EXCEPT ![id] = updatedVehicle(@, b)]

VehicleRemoved == \E id \in DOMAIN vehicles : vehicles' = deleteRow(vehicles, id)

ModelStep == UNCHANGED models \/ \E m \in NotBlank(ModelFields) : ModelStored(m)

VehicleStep ==
  \/ ModelStep /\ UNCHANGED vehicles
  \/ VehicleAdded
  \/ UNCHANGED models /\ (VehicleChanged \/ VehicleRemoved)

(* Every step is one of these. *)
LEMMA StepsOfNext ==
  ASSUME Next
  PROVE  VehicleStep
<1>1. ASSUME NEW c, NEW fault, NEW b \in CreateBodies, createVehicle(c, b, fault)
      PROVE  VehicleStep
  <2>1. CASE createRefused(c, b) /\ UNCHANGED <<models, vehicles>>
    BY <2>1 DEF VehicleStep, ModelStep
  <2>2. CASE createStores(c, b, fault)
    <3>1. CASE UNCHANGED <<models, vehicles>>
      BY <3>1 DEF VehicleStep, ModelStep
    <3>2. b.model \in NotBlank(ModelFields)
      BY <2>2 DEF createStores, containsAll, hasElement, NotBlank, CreateBodies
    <3>3. CASE models' = withModel(models, b.model)
      <4>1. ModelStored(b.model) \/ UNCHANGED <<models, vehicles>>
        BY <2>2, <3>2, <3>3 DEF createStores, ModelStored
      <4>2. UNCHANGED vehicles \/
            (/\ ~plateTaken(vehicles, b.plate) /\ NextRowId(vehicles) <= MaxVehicles
             /\ vehicles' = insertRow(vehicles, NewVehicle(b)))
        BY <2>2 DEF createStores, NewVehicle
      <4>3. containsAll({b.plate, b.model, b.owner, b.year, b.colour})
        BY <2>2 DEF createStores
      <4> QED
        BY <3>1, <3>2, <4>1, <4>2, <4>3 DEF VehicleStep, ModelStep, VehicleAdded
    <3> QED
      BY <2>2, <3>1, <3>3 DEF createStores
  <2> QED
    BY <1>1, <2>1, <2>2 DEF createVehicle
<1>2. ASSUME NEW c, NEW fault, NEW b, handleRefused(c, b, fault), UNCHANGED models
      PROVE  VehicleStep
  BY <1>2 DEF handleRefused, VehicleStep, ModelStep
<1>3. ASSUME NEW c, NEW fault, NEW b \in UpdateBodies, updateVehicle(c, b, fault)
      PROVE  VehicleStep
  <2>1. CASE handleRefused(c, b, fault)
    BY <1>2, <1>3, <2>1 DEF updateVehicle
  <2>2. CASE handleAllowed(c, b, fault) /\ updateStores(b, fault)
    <3>1. b.ID \in DOMAIN vehicles
      BY <2>2 DEF handleAllowed, ownerUnread
    <3> QED
      BY <1>3, <2>2, <3>1
         DEF updateVehicle, updateStores, VehicleStep, ModelStep, VehicleChanged
  <2> QED
    BY <1>3, <2>1, <2>2 DEF updateVehicle
<1>4. ASSUME NEW c, NEW fault, NEW b, deleteVehicle(c, b, fault) \/ selectVehicle(c, b, fault)
      PROVE  VehicleStep
  <2>1. CASE handleRefused(c, b, fault)
    BY <1>2, <1>4, <2>1 DEF deleteVehicle, selectVehicle
  <2>2. CASE handleAllowed(c, b, fault)
    <3>1. b.ID \in DOMAIN vehicles
      BY <2>2 DEF handleAllowed, ownerUnread
    <3> QED
      BY <1>4, <2>2, <3>1 DEF deleteVehicle, selectVehicle, handleRefused, VehicleStep,
                              ModelStep, VehicleRemoved
  <2> QED
    BY <1>4, <2>1, <2>2 DEF deleteVehicle, selectVehicle
<1>5. CASE Restart
  BY <1>5 DEF Restart, VehicleStep, ModelStep
<1> QED
  BY <1>1, <1>3, <1>4, <1>5 DEF Next

(* Every step ends with an answer, a dropped connection or a start. *)
Ended == up' \in BOOLEAN /\ reply' \in HTTPCodes \cup {NoReply}

LEMMA NextEnds ==
  ASSUME up \in BOOLEAN, Next
  PROVE  Ended
<1>1. \A code \in HTTPCodes : Answer(code) => Ended
  BY DEF Answer, Ended
<1>2. Die => Ended
  BY DEF Die, Ended
<1>3. Broken => Ended
  BY <1>1, <1>2 DEF Broken, HTTPCodes
<1>4. {OK, BADREQUEST, FORBIDDEN, NOTFOUND, INTERNALERROR} \subseteq HTTPCodes
  BY DEF HTTPCodes
<1>5. ASSUME NEW c, NEW fault, NEW b, createVehicle(c, b, fault)
      PROVE  Ended
  BY <1>1, <1>3, <1>4, <1>5 DEF createVehicle, createRefused, createStores
<1>6. ASSUME NEW c, NEW fault, NEW b, handleRefused(c, b, fault)
      PROVE  Ended
  BY <1>1, <1>2, <1>4, <1>6 DEF handleRefused
<1>7. ASSUME NEW c, NEW fault, NEW b,
             updateVehicle(c, b, fault) \/ deleteVehicle(c, b, fault)
      PROVE  Ended
  BY <1>1, <1>3, <1>4, <1>6, <1>7 DEF updateVehicle, updateStores, deleteVehicle
<1>8. ASSUME NEW c, NEW fault, NEW b, selectVehicle(c, b, fault)
      PROVE  Ended
  <2> DEFINE code == IF vehicles[b.ID].base \in DOMAIN models THEN OK ELSE NOTFOUND
  <2>1. code \in HTTPCodes
    BY <1>4
  <2>2. handleRefused(c, b, fault) \/ Broken \/ Answer(code)
    BY <1>8 DEF selectVehicle
  <2> QED
    BY <1>1, <1>3, <1>6, <2>1, <2>2
<1>9. CASE Restart
  BY <1>9 DEF Restart, Ended
<1> QED
  BY <1>5, <1>7, <1>8, <1>9 DEF Next

-----------------------------------------------------------------------------
(* The table of makes and models only grows at its end, and has the one     *)
(* asked for.                                                               *)
LEMMA StoredModel ==
  ASSUME models \in Seq(NotBlank(ModelFields)), NEW m \in NotBlank(ModelFields), ModelStored(m)
  PROVE  /\ models' \in Seq(NotBlank(ModelFields)) /\ Len(models') <= MaxModels
         /\ \A i \in DOMAIN models : i \in DOMAIN models' /\ models'[i] = models[i]
         /\ modelNumber(models', m) \in DOMAIN models'
<1>1. CASE \E i \in DOMAIN models : models[i] = m
  <2>1. models' = models /\ Len(models') <= MaxModels
    BY <1>1 DEF ModelStored, withModel
  <2>2. modelNumber(models, m) \in DOMAIN models
    BY <1>1 DEF modelNumber
  <2> QED
    BY <2>1, <2>2
<1>2. CASE ~ \E i \in DOMAIN models : models[i] = m
  <2>1. models' = Append(models, m) /\ Len(models') <= MaxModels
    BY <1>2 DEF ModelStored, withModel
  <2>2. Len(models) + 1 \in DOMAIN models' /\ models'[Len(models) + 1] = m
    BY <2>1
  <2>3. modelNumber(models', m) \in DOMAIN models'
    BY <2>2 DEF modelNumber
  <2>4. \A i \in DOMAIN models : i \in DOMAIN models' /\ models'[i] = models[i]
    BY <2>1
  <2> QED
    BY <2>1, <2>3, <2>4
<1> QED
  BY <1>1, <1>2

(* So it grows in every step. *)
LEMMA ModelsGrow ==
  ASSUME TypeOK, VehicleStep
  PROVE  /\ models' \in Seq(NotBlank(ModelFields)) /\ Len(models') <= MaxModels
         /\ \A i \in DOMAIN models : i \in DOMAIN models' /\ models'[i] = models[i]
<1>1. models \in Seq(NotBlank(ModelFields)) /\ Len(models) <= MaxModels
  BY DEF TypeOK
<1>2. CASE UNCHANGED models
  BY <1>1, <1>2
<1>3. ASSUME NEW m \in NotBlank(ModelFields), ModelStored(m)
      PROVE  /\ models' \in Seq(NotBlank(ModelFields)) /\ Len(models') <= MaxModels
             /\ \A i \in DOMAIN models : i \in DOMAIN models' /\ models'[i] = models[i]
  BY <1>1, <1>3, StoredModel
<1>4. UNCHANGED models \/ \E m \in NotBlank(ModelFields) : ModelStored(m)
  BY DEF VehicleStep, ModelStep, VehicleAdded, ModelStored
<1> QED
  BY <1>2, <1>3, <1>4

(* A vehicle that is added is a row of VEHICLES with its model's number. *)
LEMMA NewVehicleTyped ==
  ASSUME models \in Seq(NotBlank(ModelFields)), NEW b \in CreateBodies, ModelStored(b.model),
         containsAll({b.plate, b.model, b.owner, b.year, b.colour})
  PROVE  NewVehicle(b) \in VehicleRows /\ NewVehicle(b).base \in DOMAIN models'
<1>1. b.model \in NotBlank(ModelFields)
  BY DEF ModelStored
<1>2. modelNumber(models', b.model) \in DOMAIN models' /\ models' \in Seq(NotBlank(ModelFields))
  BY <1>1, StoredModel
<1>3. modelNumber(models', b.model) \in Nat
  BY <1>2
<1>4. /\ b.plate \in NotBlank(PlateFields) /\ b.owner \in NotBlank(OwnerFields)
      /\ b.year \in NotBlank(YearFields) /\ b.colour \in NotBlank(ColourFields)
  BY DEF CreateBodies, containsAll, hasElement, NotBlank
<1>5. b.plate \in Cells /\ b.colour \in Cells
  BY <1>4 DEF Cells, NotBlank
<1> QED
  BY <1>2, <1>3, <1>4, <1>5 DEF NewVehicle, VehicleRows

(* An update writes only PLATE and COLOUR, with something that fits there   *)
(* also when a text is taken for a column.                                  *)
LEMMA UpdatedVehicleTyped ==
  ASSUME NEW row \in VehicleRows, NEW b \in UpdateBodies
  PROVE  /\ updatedVehicle(row, b) \in VehicleRows
         /\ \A col \in {"owner", "year", "base"} : updatedVehicle(row, b)[col] = row[col]
<1>1. \A col \in Columns : row[col] \in Cells
  <2>1. row.owner \in Cells /\ row.year \in Cells /\ row.base \in Cells
    BY DEF VehicleRows, Cells, NotBlank
  <2>2. row.plate \in Cells /\ row.colour \in Cells
    BY DEF VehicleRows
  <2> QED
    BY <2>1, <2>2 DEF Columns
<1>2. \A f \in PlateFields \cup ColourFields : hasElement(f) => sqlValue(ColumnOf, row, f) \in Cells
  <2> TAKE f \in PlateFields \cup ColourFields
  <2> HAVE hasElement(f)
  <2>1. CASE f \in DOMAIN ColumnOf
    BY <1>1, <2>1, VehiclesAssumption DEF sqlValue
  <2>2. CASE f \notin DOMAIN ColumnOf
    BY <2>2 DEF sqlValue, Cells, NotBlank, hasElement
  <2> QED
    BY <2>1, <2>2
<1>3. b.plate \in PlateFields /\ b.colour \in ColourFields
  BY DEF UpdateBodies
<1>4. /\ updatedCell(row, b.plate, row.plate) \in Cells
      /\ updatedCell(row, b.colour, row.colour) \in Cells
  BY <1>1, <1>2, <1>3 DEF updatedCell, Columns
<1> QED
  BY <1>4 DEF updatedVehicle, VehicleRows

(* The next number is free in a table of at most MaxVehicles. *)
LEMMA FreshVehicle ==
  ASSUME TypeOK, NextRowId(vehicles) <= MaxVehicles
  PROVE  NextRowId(vehicles) \in 1..MaxVehicles /\ NextRowId(vehicles) \notin DOMAIN vehicles
<1>1. DOMAIN vehicles \subseteq 0..MaxVehicles /\ MaxVehicles \in Nat
  BY VehiclesAssumption DEF TypeOK
<1> QED
  BY <1>1, NextRowIdIsNext

-----------------------------------------------------------------------------
VehiclesTyped(t) == \E S \in SUBSET (1..MaxVehicles) : t \in [S -> VehicleRows]

LEMMA StepTyped ==
  ASSUME TypeOK, VehicleStep
  PROVE  VehiclesTyped(vehicles')
<1>1. PICK S \in SUBSET (1..MaxVehicles) : vehicles \in [S -> VehicleRows]
  BY DEF TypeOK
<1>2. CASE UNCHANGED vehicles
  BY <1>1, <1>2 DEF VehiclesTyped
<1>3. CASE VehicleAdded
  <2>1. PICK b \in CreateBodies :
          /\ containsAll({b.plate, b.model, b.owner, b.year, b.colour})
          /\ ModelStored(b.model) /\ NextRowId(vehicles) <= MaxVehicles
          /\ vehicles' = insertRow(vehicles, NewVehicle(b))
    BY <1>3 DEF VehicleAdded
  <2>2. NewVehicle(b) \in VehicleRows
    BY <2>1, NewVehicleTyped DEF TypeOK
  <2>3. NextRowId(vehicles) \in 1..MaxVehicles
    BY <2>1, FreshVehicle
  <2>4. vehicles' \in [S \cup {NextRowId(vehicles)} -> VehicleRows]
    BY <1>1, <2>1, <2>2 DEF insertRow
  <2> QED
    BY <2>3, <2>4 DEF VehiclesTyped
<1>4. CASE VehicleChanged
  <2>1. PICK id \in DOMAIN vehicles, b \in UpdateBodies :
          vehicles' = [vehicles EXCEPT ![id] = updatedVehicle(vehicles[id], b)]
    BY <1>4 DEF VehicleChanged
  <2>2. updatedVehicle(vehicles[id], b) \in VehicleRows
    BY <1>1, UpdatedVehicleTyped
  <2> QED
    BY <1>1, <2>1, <2>2 DEF VehiclesTyped
<1>5. CASE VehicleRemoved
  <2>1. PICK id \in DOMAIN vehicles : vehicles' = deleteRow(vehicles, id)
    BY <1>5 DEF VehicleRemoved
  <2>2. vehicles' \in [S \ {id} -> VehicleRows]
    BY <1>1, <2>1 DEF deleteRow
  <2> QED
    BY <2>2 DEF VehiclesTyped
<1> QED
  BY <1>2, <1>3, <1>4, <1>5 DEF VehicleStep

(* Empty tables are well typed. *)
LEMMA InitTyped == Init => TypeOK
<1> SUFFICES ASSUME Init PROVE TypeOK
  OBVIOUS
<1>1. vehicles \in [{} -> VehicleRows] /\ models \in Seq(NotBlank(ModelFields)) /\ Len(models) <= MaxModels
  BY VehiclesAssumption DEF Init
<1> QED
  BY <1>1 DEF Init, TypeOK

(* Every step keeps them so. *)
LEMMA NextTyped == TypeOK /\ [Next]_vars => TypeOK'
<1> SUFFICES ASSUME TypeOK, [Next]_vars PROVE TypeOK'
  OBVIOUS
<1>1. CASE Next
  <2>1. Ended
    BY <1>1, NextEnds DEF TypeOK
  <2>2. VehicleStep
    BY <1>1, StepsOfNext
  <2>3. VehiclesTyped(vehicles')
    BY <2>2, StepTyped
  <2> QED
    BY <2>1, <2>2, <2>3, ModelsGrow DEF TypeOK, Ended, VehiclesTyped
<1>2. CASE UNCHANGED vars
  BY <1>2 DEF vars, TypeOK
<1> QED
  BY <1>1, <1>2

(* Both tables keep their declared shape, whatever a text is taken for. *)
THEOREM TypeCorrect == Spec => []TypeOK
<1>1. Init => TypeOK
  BY InitTyped
<1>2. TypeOK /\ [Next]_vars => TypeOK'
  BY NextTyped
<1> QED
  BY <1>1, <1>2, PTL DEF Spec

-----------------------------------------------------------------------------
(* Makes and models.  A row of the shared table never moves, so the number  *)
(* a vehicle got stays good; a new one is stored only when it is missing.   *)
LEMMA StepKeepsModels ==
  ASSUME TypeOK, ModelsHold, VehicleStep
  PROVE  ModelsHold'
<1>1. /\ models' \in Seq(NotBlank(ModelFields))
      /\ \A i \in DOMAIN models : i \in DOMAIN models' /\ models'[i] = models[i]
  BY ModelsGrow
<1>2. \A i, j \in DOMAIN models' : models'[i] = models'[j] => i = j
  <2>1. CASE UNCHANGED models
    BY <2>1 DEF ModelsHold
  <2>2. ASSUME NEW m \in NotBlank(ModelFields), ModelStored(m)
        PROVE  \A i, j \in DOMAIN models' : models'[i] = models'[j] => i = j
    BY <2>2 DEF ModelStored, withModel, ModelsHold, TypeOK
  <2>3. UNCHANGED models \/ \E m \in NotBlank(ModelFields) : ModelStored(m)
    BY DEF VehicleStep, ModelStep, VehicleAdded, ModelStored
  <2> QED
    BY <2>1, <2>2, <2>3
<1>3. \A id \in DOMAIN vehicles : vehicles[id].base \in DOMAIN models'
  BY <1>1 DEF ModelsHold
<1>4. \A id \in DOMAIN vehicles' : vehicles'[id].base \in DOMAIN models'
  <2>1. CASE UNCHANGED vehicles
    BY <1>3, <2>1
  <2>2. CASE VehicleAdded
    <3>1. PICK b \in CreateBodies :
            /\ containsAll({b.plate, b.model, b.owner, b.year, b.colour})
            /\ ModelStored(b.model)
            /\ vehicles' = insertRow(vehicles, NewVehicle(b))
      BY <2>2 DEF VehicleAdded
    <3>2. NewVehicle(b).base \in DOMAIN models'
      BY <3>1, NewVehicleTyped DEF TypeOK
    <3> QED
      BY <1>3, <3>1, <3>2 DEF insertRow
  <2>3. CASE VehicleChanged
    <3>1. PICK id \in DOMAIN vehicles, b \in UpdateBodies :
            vehicles' = [vehicles EXCEPT ![id] = updatedVehicle(vehicles[id], b)]
      BY <2>3 DEF VehicleChanged
    <3>2. vehicles[id] \in VehicleRows
      BY DEF TypeOK
    <3>3. updatedVehicle(vehicles[id], b).base = vehicles[id].base
      BY <3>2, UpdatedVehicleTyped
    <3> QED
      BY <1>3, <3>1, <3>3
  <2>4. CASE VehicleRemoved
    BY <1>3, <2>4 DEF VehicleRemoved, deleteRow
  <2> QED
    BY <2>1, <2>2, <2>3, <2>4 DEF VehicleStep
<1> QED
  BY <1>2, <1>4 DEF ModelsHold

(* Every vehicle's model exists and is listed once, although createVehicle  *)
(* is two statements without a transaction.                                 *)
THEOREM ModelsCorrect == Spec => []ModelsHold
<1>1. Init => ModelsHold
  BY DEF Init, ModelsHold
<1>2. TypeOK /\ ModelsHold /\ [Next]_vars => ModelsHold'
  <2>1. ASSUME ModelsHold, UNCHANGED vars PROVE ModelsHold'
    BY <2>1 DEF vars, ModelsHold
  <2> QED
    BY <2>1, StepsOfNext, StepKeepsModels
<1> QED
  BY <1>1, <1>2, TypeCorrect, PTL DEF Spec

-----------------------------------------------------------------------------
(* Plates.  Both handlers that write PLATE fail when another row has it.    *)
LEMMA StepKeepsPlates ==
  ASSUME TypeOK, PlatesUnique, VehicleStep
  PROVE  PlatesUnique'
<1>1. CASE UNCHANGED vehicles
  BY <1>1 DEF PlatesUnique
<1>2. CASE VehicleAdded
  <2>1. PICK b \in CreateBodies :
          /\ ~plateTaken(vehicles, b.plate) /\ NextRowId(vehicles) <= MaxVehicles
          /\ vehicles' = insertRow(vehicles, NewVehicle(b))
    BY <1>2 DEF VehicleAdded
  <2>2. NextRowId(vehicles) \notin DOMAIN vehicles
    BY <2>1, FreshVehicle
  <2>3. NewVehicle(b).plate = b.plate
    BY DEF NewVehicle
  <2> QED
    BY <2>1, <2>2, <2>3 DEF PlatesUnique, plateTaken, insertRow
<1>3. CASE VehicleChanged
  <2>1. PICK id \in DOMAIN vehicles, b \in UpdateBodies :
          /\ ~plateTaken(deleteRow(vehicles, id), updatedVehicle(vehicles[id], b).plate)
          /\ vehicles' = [vehicles EXCEPT ![id] = updatedVehicle(vehicles[id], b)]
    BY <1>3 DEF VehicleChanged
  <2> DEFINE row == updatedVehicle(vehicles[id], b)
  <2>2. ~plateTaken(deleteRow(vehicles, id), row.plate) /\ vehicles' = [vehicles EXCEPT ![id] = row]
    BY <2>1
  <2> HIDE DEF row
  <2>3. \A j \in DOMAIN vehicles \ {id} : vehicles[j].plate # row.plate
    BY <2>2 DEF plateTaken, deleteRow
  <2> QED
    BY <2>2, <2>3 DEF PlatesUnique
<1>4. CASE VehicleRemoved
  BY <1>4 DEF VehicleRemoved, deleteRow, PlatesUnique
<1> QED
  BY <1>1, <1>2, <1>3, <1>4 DEF VehicleStep

(* No two vehicles have one plate. *)
THEOREM PlatesCorrect == Spec => []PlatesUnique
<1>1. Init => PlatesUnique
  BY DEF Init, PlatesUnique
<1>2. TypeOK /\ PlatesUnique /\ [Next]_vars => PlatesUnique'
  <2>1. ASSUME PlatesUnique, UNCHANGED vars PROVE PlatesUnique'
    BY <2>1 DEF vars, PlatesUnique
  <2> QED
    BY <2>1, StepsOfNext, StepKeepsPlates
<1> QED
  BY <1>1, <1>2, TypeCorrect, PTL DEF Spec

-----------------------------------------------------------------------------
(* Owner, year, make and model.  That the number of the model means the     *)
(* same afterwards needs ModelsHold: the row it names is already there.     *)
LEMMA StepKeepsDetails ==
  ASSUME TypeOK, ModelsHold, VehicleStep
  PROVE  KeepsDetails
<1>1. \A i \in DOMAIN models : models'[i] = models[i]
  BY ModelsGrow
<1>2. SUFFICES \A id \in DOMAIN vehicles \cap DOMAIN vehicles' :
                 \A col \in {"owner", "year", "base"} : vehicles'[id][col] = vehicles[id][col]
  BY <1>1 DEF KeepsDetails, ModelsHold
<1>3. CASE UNCHANGED vehicles
  BY <1>3
<1>4. CASE VehicleAdded
  <2>1. PICK row : /\ vehicles' = insertRow(vehicles, row)
                   /\ NextRowId(vehicles) <= MaxVehicles
    BY <1>4 DEF VehicleAdded
  <2> QED
    BY <2>1, FreshVehicle DEF insertRow
<1>5. CASE VehicleChanged
  <2>1. PICK id \in DOMAIN vehicles, b \in UpdateBodies :
          vehicles' = [vehicles EXCEPT ![id] = updatedVehicle(vehicles[id], b)]
    BY <1>5 DEF VehicleChanged
  <2>2. vehicles[id] \in VehicleRows
    BY DEF TypeOK
  <2> QED
    BY <2>1, <2>2, UpdatedVehicleTyped
<1>6. CASE VehicleRemoved
  BY <1>6 DEF VehicleRemoved, deleteRow
<1> QED
  BY <1>3, <1>4, <1>5, <1>6 DEF VehicleStep

(* A vehicle is never transferred and keeps its year, make and model. *)
THEOREM DetailsCorrect == Spec => DetailsFixed
<1>1. TypeOK /\ ModelsHold /\ [Next]_vars => [KeepsDetails]_vars
  BY StepsOfNext, StepKeepsDetails DEF vars
<1> QED
  BY <1>1, TypeCorrect, ModelsCorrect, PTL DEF Spec, DetailsFixed
=============================================================================
