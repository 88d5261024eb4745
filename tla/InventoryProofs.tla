---------------------------- MODULE InventoryProofs ----------------------------
(***************************************************************************)
(* Proofs about Inventory, for all bodies, callers and bounds and every    *)
(* choice of failing statements.  A step appends a row to one of the three *)
(* tables or changes one row of one of them.                               *)
(***************************************************************************)
EXTENDS Inventory, TLAPS

SupplierStep ==
  \/ \E row \in SupplierRows :
       /\ ~supplierTaken(0, row.name) /\ Len(suppliers) < MaxRows
       /\ suppliers' = Append(suppliers, row)
  \/ \E i \in DOMAIN suppliers, b \in RenameBodies :
       /\ ~supplierTaken(i, updatedSupplier(i, suppliers[i], b).name)
       /\ suppliers' = [suppliers EXCEPT ![i] = updatedSupplier(i, @, b)]

GroupStep ==
  \/ \E name \in Cells :
       /\ \A i \in DOMAIN groups : groups[i] # name
       /\ Len(groups) < MaxRows /\ groups' = Append(groups, name)
  \/ \E i \in DOMAIN groups, name \in Cells :
       /\ \A j \in DOMAIN groups \ {i} : groups[j] # name
       /\ groups' = [groups EXCEPT ![i] = name]

PartStep ==
  \/ \E row \in PartRows :
       /\ ~partTaken(0, row.name) /\ Len(parts) < MaxRows
       /\ parts' = Append(parts, row)
  \/ \E c \in Callers, fault \in Faults, b \in ChangeBodies :
       /\ updatePart(c, b, fault) /\ b.ID \in DOMAIN parts
       /\ ~partTaken(b.ID, updatedPart(b.ID, parts[b.ID], b).name)
       /\ parts' = [parts EXCEPT ![b.ID] = updatedPart(b.ID, @, b)]

TableStep ==
  /\ UNCHANGED suppliers \/ SupplierStep
  /\ UNCHANGED groups \/ GroupStep
  /\ UNCHANGED parts \/ PartStep

(* A field with a text is something a column can hold. *)
LEMMA FieldIsCell ==
  ASSUME NEW f \in Fields
  PROVE  /\ hasElement(f) => f \in Cells
         /\ orNull(f) \in Cells
BY DEF hasElement, orNull, Cells, NotBlank

(* What the handlers append are rows of the tables. *)
LEMMA NewRows ==
  /\ \A b \in SupplierBodies : hasElement(b.name) =>
       [name |-> b.name, phone |-> orNull(b.phone), email |-> orNull(b.email)] \in SupplierRows
  /\ \A b \in GroupBodies : /\ hasElement(b.name) => b.name \in Cells
                            /\ hasElement(b.rename) => b.rename \in Cells
  /\ \A b \in PartBodies : partFields(b) => newPart(b) \in PartRows
<1>1. ASSUME NEW b \in SupplierBodies, hasElement(b.name)
      PROVE  [name |-> b.name, phone |-> orNull(b.phone), email |-> orNull(b.email)] \in SupplierRows
  <2>1. b.name \in Cells /\ orNull(b.phone) \in Cells /\ orNull(b.email) \in Cells
    BY <1>1, FieldIsCell DEF SupplierBodies, Fields
  <2> QED
    BY <2>1 DEF SupplierRows
<1>2. ASSUME NEW b \in GroupBodies
      PROVE  /\ hasElement(b.name) => b.name \in Cells
             /\ hasElement(b.rename) => b.rename \in Cells
  BY FieldIsCell DEF GroupBodies, Fields
<1>3. ASSUME NEW b \in PartBodies, partFields(b)
      PROVE  newPart(b) \in PartRows
  <2>1. /\ b.name \in Cells /\ b.quantity \in Cells /\ b.supplier \in Cells /\ b.price \in Cells
        /\ NullText \in Cells
    BY <1>3, FieldIsCell DEF PartBodies, partFields, containsAll, Cells, Fields
  <2> QED
    BY <2>1 DEF newPart, PartRows
<1> QED
  BY <1>1, <1>2, <1>3

(* Every step is one of these. *)
LEMMA StepsOfNext ==
  ASSUME Next
  PROVE  TableStep
<1>1. UNCHANGED <<suppliers, groups, parts>> => TableStep
  BY DEF TableStep
<1>2. ASSUME NEW c, NEW fault, NEW b \in SupplierBodies, createSupplier(c, b, fault)
      PROVE  TableStep
  <2>1. CASE UNCHANGED suppliers
    BY <1>1, <1>2, <2>1 DEF createSupplier, refused
  <2>2. ASSUME hasElement(b.name), ~supplierTaken(0, b.name), Len(suppliers) < MaxRows,
               suppliers' = Append(suppliers, [name |-> b.name, phone |-> orNull(b.phone),
                                               email |-> orNull(b.email)])
        PROVE  SupplierStep
    BY <2>2, NewRows DEF SupplierStep
  <2>3. UNCHANGED <<groups, parts>>
    BY <1>2 DEF createSupplier, refused
  <2>4. UNCHANGED suppliers \/ SupplierStep
    BY <1>2, <2>1, <2>2 DEF createSupplier, refused
  <2> QED
    BY <2>3, <2>4 DEF TableStep
<1>3. ASSUME NEW c, NEW fault, NEW b \in RenameBodies, updateSupplier(c, b, fault)
      PROVE  TableStep
  <2>1. UNCHANGED <<groups, parts>>
    BY <1>3 DEF updateSupplier, refused
  <2>2. UNCHANGED suppliers \/ SupplierStep
    BY <1>3 DEF updateSupplier, refused, SupplierStep
  <2> QED
    BY <2>1, <2>2 DEF TableStep
<1>4. ASSUME NEW c, NEW fault, NEW b \in GroupBodies,
             createPartGroup(c, b, fault) \/ updatePartGroup(c, b, fault)
      PROVE  TableStep
  <2>1. UNCHANGED <<suppliers, parts>>
    BY <1>4 DEF createPartGroup, updatePartGroup, refused
  <2>2. CASE createPartGroup(c, b, fault)
    BY <2>1, <2>2, NewRows DEF createPartGroup, refused, GroupStep, TableStep
  <2>3. CASE updatePartGroup(c, b, fault)
    <3>1. UNCHANGED groups \/ hasElement(b.rename)
      BY <2>3 DEF updatePartGroup, refused, containsAll
    <3>2. hasElement(b.rename) => b.rename \in Cells
      BY NewRows
    <3> QED
      BY <2>1, <2>3, <3>1, <3>2 DEF updatePartGroup, refused, GroupStep, TableStep
  <2> QED
    BY <1>4, <2>2, <2>3
<1>5. ASSUME NEW c, NEW fault, NEW b \in PartBodies, createPart(c, b, fault)
      PROVE  TableStep
  <2>1. UNCHANGED <<suppliers, groups>>
    BY <1>5 DEF createPart, refused
  <2>2. ASSUME partFields(b), ~partTaken(0, b.name), Len(parts) < MaxRows,
               parts' = Append(parts, newPart(b))
        PROVE  PartStep
    <3>1. newPart(b) \in PartRows /\ newPart(b).name = b.name
      BY <2>2, NewRows DEF newPart
    <3> QED
      BY <2>2, <3>1 DEF PartStep
  <2>3. UNCHANGED parts \/ PartStep
    BY <1>5, <2>2 DEF createPart, refused
  <2> QED
    BY <2>1, <2>3 DEF TableStep
<1>6. ASSUME NEW c \in Callers, NEW fault \in Faults, NEW b \in ChangeBodies, updatePart(c, b, fault)
      PROVE  TableStep
  <2>1. UNCHANGED <<suppliers, groups>>
    BY <1>6 DEF updatePart, refused
  <2>2. UNCHANGED parts \/ PartStep
    BY <1>6 DEF updatePart, refused, PartStep
  <2> QED
    BY <2>1, <2>2 DEF TableStep
<1>7. ASSUME NEW c, NEW present, NEW found, NEW fault, shows(c, present, found, fault)
      PROVE  TableStep
  BY <1>1, <1>7 DEF shows
<1>8. ASSUME NEW c, NEW fault, NEW name, NEW group, NEW id,
             \/ searchSuppliers(c, name, fault) \/ searchPartGroups(c, name, fault)
             \/ selectSupplier(c, id, fault) \/ selectPartGroup(c, id, fault)
             \/ selectPart(c, id, fault) \/ searchParts(c, name, group, fault)
      PROVE  TableStep
  BY <1>7, <1>8 DEF searchSuppliers, searchPartGroups, selectSupplier, selectPartGroup,
                    selectPart, searchParts
<1>9. CASE Restart
  BY <1>1, <1>9 DEF Restart
<1> QED
  BY <1>2, <1>3, <1>4, <1>5, <1>6, <1>8, <1>9 DEF Next

(* Every step ends with an answer, a dropped connection or a start. *)
Ended == up' \in BOOLEAN /\ reply' \in HTTPCodes \cup {NoReply}

LEMMA NextEnds ==
  ASSUME up \in BOOLEAN, Next
  PROVE  Ended
<1>1. \A code \in HTTPCodes : Answer(code) => Ended
  BY DEF Answer, Ended
<1>2. {OK, BADREQUEST, FORBIDDEN, NOTFOUND, INTERNALERROR} \subseteq HTTPCodes
  BY DEF HTTPCodes
<1>3. Broken => Ended
  <2>1. Die => Ended
    BY DEF Die, Ended
  <2> QED
    BY <1>1, <1>2, <2>1 DEF Broken
<1>4. ASSUME NEW c, NEW present, refused(c, present)
      PROVE  Ended
  BY <1>1, <1>2, <1>4 DEF refused
<1>5. ASSUME NEW c, NEW fault, NEW b, createSupplier(c, b, fault) \/ updateSupplier(c, b, fault)
      PROVE  Ended
  BY <1>1, <1>2, <1>3, <1>4, <1>5 DEF createSupplier, updateSupplier
<1>6. ASSUME NEW c, NEW fault, NEW b, createPartGroup(c, b, fault) \/ updatePartGroup(c, b, fault)
      PROVE  Ended
  BY <1>1, <1>2, <1>3, <1>4, <1>6 DEF createPartGroup, updatePartGroup
<1>7. ASSUME NEW c, NEW fault, NEW b, createPart(c, b, fault) \/ updatePart(c, b, fault)
      PROVE  Ended
  BY <1>1, <1>2, <1>3, <1>4, <1>7 DEF createPart, updatePart
<1>8. ASSUME NEW c, NEW present, NEW found, NEW fault, shows(c, present, found, fault)
      PROVE  Ended
  BY <1>1, <1>2, <1>3, <1>8 DEF shows
<1>9. ASSUME NEW c, NEW fault, NEW name, NEW group, NEW id,
             \/ searchSuppliers(c, name, fault) \/ searchPartGroups(c, name, fault)
             \/ selectSupplier(c, id, fault) \/ selectPartGroup(c, id, fault)
             \/ selectPart(c, id, fault) \/ searchParts(c, name, group, fault)
      PROVE  Ended
  BY <1>8, <1>9 DEF searchSuppliers, searchPartGroups, selectSupplier, selectPartGroup,
                    selectPart, searchParts
<1>10. CASE Restart
  BY <1>10 DEF Restart, Ended
<1> QED
  BY <1>5, <1>6, <1>7, <1>9, <1>10 DEF Next

-----------------------------------------------------------------------------
(* A cell that is written holds a text of the body or another cell of the   *)
(* row, never a blank.                                                      *)
LEMMA UpdatedCellTyped ==
  ASSUME NEW i \in 1..MaxRows, NEW row, \A col \in DOMAIN row : row[col] \in Cells,
         NEW old \in Cells, NEW f \in Fields
  PROVE  updatedCell(i, row, f, old) \in Cells
<1>1. \A col \in DOMAIN row \cup {"ID"} : withID(i, row)[col] \in Cells
  BY DEF withID, Cells
<1>2. CASE f \in DOMAIN columnsOf(row)
  <2>1. columnsOf(row)[f] \in DOMAIN row \cup {"ID"}
    BY <1>2 DEF columnsOf
  <2> QED
    BY <1>1, <1>2, <2>1 DEF updatedCell, sqlValue
<1>3. CASE f \notin DOMAIN columnsOf(row)
  BY <1>3, FieldIsCell DEF updatedCell, sqlValue
<1> QED
  BY <1>2, <1>3

LEMMA UpdatedRows ==
  /\ \A i \in 1..MaxRows, row \in SupplierRows, b \in RenameBodies :
       updatedSupplier(i, row, b) \in SupplierRows
  /\ \A i \in 1..MaxRows, row \in PartRows, b \in ChangeBodies :
       updatedPart(i, row, b) \in PartRows
<1>1. ASSUME NEW i \in 1..MaxRows, NEW row \in SupplierRows, NEW b \in RenameBodies
      PROVE  updatedSupplier(i, row, b) \in SupplierRows
  <2>1. \A col \in DOMAIN row : row[col] \in Cells
    BY DEF SupplierRows
  <2>2. row.name \in Cells /\ row.phone \in Cells /\ row.email \in Cells
    BY DEF SupplierRows
  <2>3. /\ updatedCell(i, row, b.rename, row.name) \in Cells
        /\ updatedCell(i, row, b.phone, row.phone) \in Cells
        /\ updatedCell(i, row, b.email, row.email) \in Cells
    BY <2>1, <2>2, UpdatedCellTyped DEF RenameBodies, Fields
  <2> QED
    BY <2>3 DEF updatedSupplier, SupplierRows
<1>2. ASSUME NEW i \in 1..MaxRows, NEW row \in PartRows, NEW b \in ChangeBodies
      PROVE  updatedPart(i, row, b) \in PartRows
  <2>1. \A col \in DOMAIN row : row[col] \in Cells
    BY DEF PartRows
  <2>2. /\ row.name \in Cells /\ row.quantity \in Cells /\ row.supplier \in Cells
        /\ row.price \in Cells /\ row.similar \in Cells
    BY DEF PartRows
  <2>3. /\ updatedCell(i, row, b.name, row.name) \in Cells
        /\ updatedCell(i, row, b.quantity, row.quantity) \in Cells
        /\ updatedCell(i, row, b.supplier, row.supplier) \in Cells
        /\ updatedCell(i, row, b.price, row.price) \in Cells
        /\ updatedCell(i, row, b.group, row.similar) \in Cells
    BY <2>1, <2>2, UpdatedCellTyped DEF ChangeBodies, Fields
  <2> QED
    BY <2>3 DEF updatedPart, PartRows
<1> QED
  BY <1>1, <1>2

(* A table stays one when a row is appended or changed. *)
LEMMA AppendTyped ==
  ASSUME NEW S, NEW s \in Seq(S), NEW row \in S, Len(s) < MaxRows
  PROVE  Append(s, row) \in Seq(S) /\ Len(Append(s, row)) <= MaxRows
BY InventoryAssumption

LEMMA ChangeTyped ==
  ASSUME NEW S, NEW s \in Seq(S), NEW i \in DOMAIN s, NEW row \in S
  PROVE  [s EXCEPT ![i] = row] \in Seq(S) /\ Len([s EXCEPT ![i] = row]) = Len(s)
OBVIOUS

(* The tables keep their declared shape and no cell is ever blank. *)
THEOREM TypeCorrect == Spec => []TypeOK
<1>1. Init => TypeOK
  BY InventoryAssumption DEF Init, TypeOK
<1>2. TypeOK /\ [Next]_vars => TypeOK'
  <2> SUFFICES ASSUME TypeOK, [Next]_vars PROVE TypeOK'
    OBVIOUS
  <2>1. CASE Next
    <3>1. Ended /\ TableStep
      BY <2>1, NextEnds, StepsOfNext DEF TypeOK
    <3>2. suppliers' \in Seq(SupplierRows) /\ Len(suppliers') <= MaxRows
      <4>1. CASE UNCHANGED suppliers
        BY <4>1 DEF TypeOK
      <4>2. CASE SupplierStep
        <5>1. CASE \E row \in SupplierRows :
                     Len(suppliers) < MaxRows /\ suppliers' = Append(suppliers, row)
          BY <5>1, AppendTyped DEF TypeOK
        <5>2. ASSUME NEW i \in DOMAIN suppliers, NEW b \in RenameBodies,
                     suppliers' = [suppliers EXCEPT ![i] = updatedSupplier(i, suppliers[i], b)]
              PROVE  suppliers' \in Seq(SupplierRows) /\ Len(suppliers') <= MaxRows
          <6>1. updatedSupplier(i, suppliers[i], b) \in SupplierRows
            <7>1. i \in 1..MaxRows /\ suppliers[i] \in SupplierRows
              BY InventoryAssumption DEF TypeOK
            <7> QED
              BY <7>1, UpdatedRows
          <6> QED
            BY <5>2, <6>1, ChangeTyped DEF TypeOK
        <5> QED
          BY <4>2, <5>1, <5>2 DEF SupplierStep
      <4> QED
        BY <3>1, <4>1, <4>2 DEF TableStep
    <3>3. groups' \in Seq(Cells) /\ Len(groups') <= MaxRows
      <4>1. CASE UNCHANGED groups
        BY <4>1 DEF TypeOK
      <4>2. CASE \E name \in Cells : Len(groups) < MaxRows /\ groups' = Append(groups, name)
        BY <4>2, AppendTyped DEF TypeOK
      <4>3. CASE \E i \in DOMAIN groups, name \in Cells : groups' = [groups EXCEPT ![i] = name]
        BY <4>3, ChangeTyped DEF TypeOK
      <4> QED
        BY <3>1, <4>1, <4>2, <4>3 DEF TableStep, GroupStep
    <3>4. parts' \in Seq(PartRows) /\ Len(parts') <= MaxRows
      <4>1. CASE UNCHANGED parts
        BY <4>1 DEF TypeOK
      <4>2. CASE PartStep
        <5>1. CASE \E row \in PartRows : Len(parts) < MaxRows /\ parts' = Append(parts, row)
          BY <5>1, AppendTyped DEF TypeOK
        <5>2. ASSUME NEW i \in DOMAIN parts, NEW b \in ChangeBodies,
                     parts' = [parts EXCEPT ![i] = updatedPart(i, parts[i], b)]
              PROVE  parts' \in Seq(PartRows) /\ Len(parts') <= MaxRows
          <6>1. updatedPart(i, parts[i], b) \in PartRows
            <7>1. i \in 1..MaxRows /\ parts[i] \in PartRows
              BY InventoryAssumption DEF TypeOK
            <7> QED
              BY <7>1, UpdatedRows
          <6> QED
            BY <5>2, <6>1, ChangeTyped DEF TypeOK
        <5> QED
          BY <4>2, <5>1, <5>2 DEF PartStep
      <4> QED
        BY <3>1, <4>1, <4>2 DEF TableStep
    <3> QED
      BY <3>1, <3>2, <3>3, <3>4 DEF TypeOK, Ended
  <2>2. CASE UNCHANGED vars
    BY <2>2 DEF vars, TypeOK
  <2> QED
    BY <2>1, <2>2
<1> QED
  BY <1>1, <1>2, PTL DEF Spec

-----------------------------------------------------------------------------
(* Names.  Appending and changing both look at all other rows. *)
LEMMA StepKeepsNames ==
  ASSUME TypeOK, NamesIdentify, TableStep
  PROVE  NamesIdentify'
<1>1. \A i, j \in DOMAIN suppliers' : suppliers'[i].name = suppliers'[j].name => i = j
  <2>1. CASE UNCHANGED suppliers
    BY <2>1 DEF NamesIdentify
  <2>2. ASSUME NEW row \in SupplierRows, ~supplierTaken(0, row.name),
               suppliers' = Append(suppliers, row)
        PROVE  \A i, j \in DOMAIN suppliers' : suppliers'[i].name = suppliers'[j].name => i = j
    <3>1. \A j \in DOMAIN suppliers : suppliers[j].name # row.name
      BY <2>2 DEF supplierTaken, TypeOK
    <3> QED
      BY <2>2, <3>1 DEF NamesIdentify, TypeOK
  <2>3. ASSUME NEW k \in DOMAIN suppliers, NEW row, ~supplierTaken(k, row.name),
               suppliers' = [suppliers EXCEPT ![k] = row]
        PROVE  \A i, j \in DOMAIN suppliers' : suppliers'[i].name = suppliers'[j].name => i = j
    BY <2>3 DEF NamesIdentify, supplierTaken
  <2> QED
    BY <2>1, <2>2, <2>3 DEF TableStep, SupplierStep
<1>2. \A i, j \in DOMAIN groups' : groups'[i] = groups'[j] => i = j
  <2>1. CASE UNCHANGED groups
    BY <2>1 DEF NamesIdentify
  <2>2. CASE GroupStep
    <3>1. ASSUME NEW name, \A i \in DOMAIN groups : groups[i] # name,
                 groups' = Append(groups, name)
          PROVE  \A i, j \in DOMAIN groups' : groups'[i] = groups'[j] => i = j
      BY <3>1 DEF NamesIdentify, TypeOK
    <3>2. ASSUME NEW k \in DOMAIN groups, NEW name, \A j \in DOMAIN groups \ {k} : groups[j] # name,
                 groups' = [groups EXCEPT ![k] = name]
          PROVE  \A i, j \in DOMAIN groups' : groups'[i] = groups'[j] => i = j
      BY <3>2 DEF NamesIdentify
    <3> QED
      BY <2>2, <3>1, <3>2 DEF GroupStep
  <2> QED
    BY <2>1, <2>2 DEF TableStep
<1>3. \A i, j \in DOMAIN parts' : parts'[i].name = parts'[j].name => i = j
  <2>1. CASE UNCHANGED parts
    BY <2>1 DEF NamesIdentify
  <2>2. ASSUME NEW row \in PartRows, ~partTaken(0, row.name), parts' = Append(parts, row)
        PROVE  \A i, j \in DOMAIN parts' : parts'[i].name = parts'[j].name => i = j
    <3>1. \A j \in DOMAIN parts : parts[j].name # row.name
      BY <2>2 DEF partTaken, TypeOK
    <3> QED
      BY <2>2, <3>1 DEF NamesIdentify, TypeOK
  <2>3. ASSUME NEW k \in DOMAIN parts, NEW row, ~partTaken(k, row.name),
               parts' = [parts EXCEPT ![k] = row]
        PROVE  \A i, j \in DOMAIN parts' : parts'[i].name = parts'[j].name => i = j
    BY <2>3 DEF NamesIdentify, partTaken
  <2> QED
    BY <2>1, <2>2, <2>3 DEF TableStep, PartStep
<1> QED
  BY <1>1, <1>2, <1>3 DEF NamesIdentify

(* A name stands for at most one supplier, one group and one part. *)
THEOREM NamesCorrect == Spec => []NamesIdentify
<1>1. Init => NamesIdentify
  BY DEF Init, NamesIdentify
<1>2. TypeOK /\ NamesIdentify /\ [Next]_vars => NamesIdentify'
  <2>1. ASSUME NamesIdentify, UNCHANGED vars PROVE NamesIdentify'
    BY <2>1 DEF vars, NamesIdentify
  <2> QED
    BY <2>1, StepsOfNext, StepKeepsNames
<1> QED
  BY <1>1, <1>2, TypeCorrect, PTL DEF Spec

-----------------------------------------------------------------------------
(* The list of parts.  No supplier is ever removed, so only an update that  *)
(* writes SUPPLIER can take a part off the list.                            *)
LEMMA StepKeepsListed ==
  ASSUME TypeOK, TableStep
  PROVE  KeepsListed
<1>1. DOMAIN suppliers \subseteq DOMAIN suppliers'
  BY DEF TableStep, SupplierStep, TypeOK
<1>2. \A p \in DOMAIN parts : p \in partsListed(Empty, Absent) <=>
                                parts[p].supplier \in DOMAIN suppliers
  BY MarkerAssumption DEF partsListed, like
<1>3. \A p \in DOMAIN parts' : p \in partsListed(Empty, Absent)' <=>
                                 parts'[p].supplier \in DOMAIN suppliers'
  BY MarkerAssumption DEF partsListed, like
<1>4. ASSUME NEW p \in DOMAIN parts, parts[p].supplier \in DOMAIN suppliers
      PROVE  \/ p \in DOMAIN parts' /\ parts'[p].supplier \in DOMAIN suppliers'
             \/ NamesNoSupplier(p)
  <2>1. CASE UNCHANGED parts
    BY <1>1, <1>4, <2>1
  <2>2. ASSUME NEW row \in PartRows, parts' = Append(parts, row)
        PROVE  p \in DOMAIN parts' /\ parts'[p].supplier \in DOMAIN suppliers'
    BY <1>1, <1>4, <2>2 DEF TypeOK
  <2>3. ASSUME NEW c \in Callers, NEW fault \in Faults, NEW b \in ChangeBodies,
               updatePart(c, b, fault), b.ID \in DOMAIN parts,
               parts' = [parts EXCEPT ![b.ID] = updatedPart(b.ID, parts[b.ID], b)]
        PROVE  \/ p \in DOMAIN parts' /\ parts'[p].supplier \in DOMAIN suppliers'
               \/ NamesNoSupplier(p)
    <3>1. CASE p # b.ID
      BY <1>1, <1>4, <2>3, <3>1
    <3>2. CASE p = b.ID
      <4>1. parts[p] \in PartRows
        BY DEF TypeOK
      <4>2. /\ p \in DOMAIN parts'
            /\ parts'[p].supplier = updatedCell(p, parts[p], b.supplier, parts[p].supplier)
        BY <2>3, <3>2, <4>1 DEF updatedPart, PartRows
      <4>3. CASE ~hasElement(b.supplier)
        BY <1>1, <1>4, <4>2, <4>3 DEF updatedCell
      <4>4. CASE hasElement(b.supplier) /\ parts'[p].supplier \in DOMAIN suppliers
        BY <1>1, <4>2, <4>4
      <4>5. CASE hasElement(b.supplier) /\ parts'[p].supplier \notin DOMAIN suppliers
        <5>1. parts'[p].supplier = updatedCell(p, parts[p], b.supplier, Absent)
          BY <4>2, <4>5 DEF updatedCell
        <5> QED
          BY <2>3, <3>2, <4>5, <5>1 DEF NamesNoSupplier
      <4> QED
        BY <4>3, <4>4, <4>5
    <3> QED
      BY <3>1, <3>2
  <2> QED
    BY <2>1, <2>2, <2>3 DEF TableStep, PartStep
<1>5. partsListed(Empty, Absent) \subseteq DOMAIN parts
  BY DEF partsListed
<1> QED
  BY <1>2, <1>3, <1>4, <1>5 DEF KeepsListed

(* A part that is listed leaves the list only by an update of that part     *)
(* that carries a supplier which is none.                                   *)
THEOREM ListedCorrect == Spec => ListedStaysListed
<1>1. TypeOK /\ [Next]_vars => [KeepsListed]_vars
  BY StepsOfNext, StepKeepsListed DEF vars
<1> QED
  BY <1>1, TypeCorrect, PTL DEF Spec, ListedStaysListed
=============================================================================
