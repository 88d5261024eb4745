------------------------------- MODULE Inventory -------------------------------
(***************************************************************************)
(* Suppliers, part groups and parts: the handlers of Parts.h, over         *)
(* SUPPLIERS, PARTGROUPS and PARTS.  No row of these tables is ever        *)
(* deleted, so the ID of a row is its place in a sequence.                 *)
(***************************************************************************)
EXTENDS ServerData, Sequences

CONSTANTS
  Callers,         \* sessions requests arrive with
  NameFields,      \* what a body may hold in its fields, Absent and Empty
  RenameFields,    \*   included: "name" (of suppliers, groups and parts) and
  PhoneFields,     \*   "group" of a new part; "rename", and "name" of a part
  EmailFields,     \*   that is changed; "phone"; "email";
  SupplierFields,  \*   "supplier" of a new part, and of one that is changed,
  ChangeFields,    \*   both a number or other text; "quantity" and "price";
  PriceFields,     \*   "group" of a part that is changed, a number or other
  GroupFields,     \*   text; "ID"
  IDFields,
  NullText,        \* the text "NULL"
  ColumnOf,        \* the texts that are the name of a column of some table
  Faults,          \* the statement of a handler that does not complete, or 0
  MaxRows          \* bound on the rows of each table

VARIABLES suppliers, groups, parts

vars == <<up, reply, suppliers, groups, parts>>

NotBlank(fields) == fields \ {Absent, Empty}

Fields == NameFields \cup RenameFields \cup PhoneFields \cup EmailFields \cup SupplierFields
            \cup ChangeFields \cup PriceFields \cup GroupFields

Cells == NotBlank(Fields) \cup {NullText} \cup 1..MaxRows

SupplierColumns == {"name", "phone", "email"}
PartColumns     == {"name", "quantity", "supplier", "price", "similar"}

SupplierRows == [name : Cells, phone : Cells, email : Cells]
PartRows     == [name : Cells, quantity : Cells, supplier : Cells, price : Cells,
                 similar : Cells]

ASSUME InventoryAssumption ==
  /\ Callers \subseteq Sessions \cup {NoSession}
  /\ NullText \notin {Absent, Empty}
  /\ ColumnOf \in [DOMAIN ColumnOf -> SupplierColumns \cup PartColumns \cup {"ID"}]
  /\ Faults \subseteq Nat
  /\ MaxRows \in Nat

-----------------------------------------------------------------------------
Init ==
  /\ up = TRUE /\ reply = NoReply
  /\ suppliers = <<>> /\ groups = <<>> /\ parts = <<>>

(* NAME is UNIQUE in all three tables: i may not get a name another row has.*)
(* Mutated form: it is not.                                                 *)
supplierTaken_Never(i, name) == FALSE

supplierTaken(i, name) == \E j \in DOMAIN suppliers \ {i} : suppliers[j].name = name
partTaken(i, name)     == \E j \in DOMAIN parts \ {i} : parts[j].name = name

orNull(f) == IF hasElement(f) THEN f ELSE NullText

(* What all six handlers begin with: the fields they need, then the level. *)
refused(c, present) ==
  /\ \/ ~present /\ Answer(BADREQUEST)
     \/ present /\ ~verify(c, manager) /\ Answer(FORBIDDEN)
  /\ UNCHANGED <<suppliers, groups, parts>>

createSupplier(c, b, fault) ==
  /\ up
  /\ \/ refused(c, hasElement(b.name))
     \/ /\ hasElement(b.name) /\ verify(c, manager)
        /\ \/ fault = 1 /\ Broken /\ UNCHANGED suppliers
           \/ /\ fault # 1 /\ supplierTaken(0, b.name)
              /\ Answer(INTERNALERROR) /\ UNCHANGED suppliers
           \/ /\ fault # 1 /\ ~supplierTaken(0, b.name) /\ Len(suppliers) < MaxRows
              /\ suppliers' = Append(suppliers, [name |-> b.name, phone |-> orNull(b.phone),
                                                 email |-> orNull(b.email)])
              /\ Answer(OK)
        /\ UNCHANGED <<groups, parts>>

(* An UPDATE sees a row with its ID, and reads a text as a column when the  *)
(* row has one of that name: "PHONE" in SUPPLIERS and not in PARTS, "PRICE" *)
(* the other way round.                                                     *)
withID(i, row) == [col \in DOMAIN row \cup {"ID"} |-> IF col = "ID" THEN i ELSE row[col]]

columnsOf(row) ==
  [t \in {t \in DOMAIN ColumnOf : ColumnOf[t] \in DOMAIN row \cup {"ID"}} |-> ColumnOf[t]]

(* Mutated form: generateUpdateStatement also writes empty fields. *)
updatedCell_Blank(i, row, f, old) ==
  IF f # Absent THEN sqlValue(columnsOf(row), withID(i, row), f) ELSE old

updatedCell(i, row, f, old) ==
  IF hasElement(f) THEN sqlValue(columnsOf(row), withID(i, row), f) ELSE old

updatedSupplier(i, row, b) ==
  [row EXCEPT !.name  = updatedCell(i, row, b.rename, @),
              !.phone = updatedCell(i, row, b.phone, @),
              !.email = updatedCell(i, row, b.email, @)]

(* updateSupplier.  A supplier is named by its name; without one that has   *)
(* it the UPDATE changes no row and the answer is 200.                      *)
updateSupplier(c, b, fault) ==
  /\ up
  /\ \/ refused(c, hasElement(b.name))
     \/ /\ hasElement(b.name) /\ verify(c, manager)
        /\ nothingToUpdate({b.rename, b.phone, b.email})
        /\ Answer(OK) /\ UNCHANGED <<suppliers, groups, parts>>
     \/ /\ hasElement(b.name) /\ verify(c, manager)
        /\ ~nothingToUpdate({b.rename, b.phone, b.email})
        /\ \/ fault = 1 /\ Broken /\ UNCHANGED suppliers
           \/ /\ fault # 1 /\ ~supplierTaken(0, b.name)
              /\ Answer(OK) /\ UNCHANGED suppliers
           \/ /\ fault # 1
              /\ \E i \in DOMAIN suppliers :
                   /\ suppliers[i].name = b.name
                   /\ \/ /\ supplierTaken(i, updatedSupplier(i, suppliers[i], b).name)
                         /\ Answer(INTERNALERROR) /\ UNCHANGED suppliers
                      \/ /\ ~supplierTaken(i, updatedSupplier(i, suppliers[i], b).name)
                         /\ suppliers' = [suppliers EXCEPT ![i] = updatedSupplier(i, @, b)]
                         /\ Answer(OK)
        /\ UNCHANGED <<groups, parts>>

-----------------------------------------------------------------------------
createPartGroup(c, b, fault) ==
  /\ up
  /\ \/ refused(c, hasElement(b.name))
     \/ /\ hasElement(b.name) /\ verify(c, manager)
        /\ \/ fault = 1 /\ Broken /\ UNCHANGED groups
           \/ /\ fault # 1 /\ \E i \in DOMAIN groups : groups[i] = b.name
              /\ Answer(INTERNALERROR) /\ UNCHANGED groups
           \/ /\ fault # 1 /\ \A i \in DOMAIN groups : groups[i] # b.name
              /\ Len(groups) < MaxRows
              /\ groups' = Append(groups, b.name)
              /\ Answer(OK)
        /\ UNCHANGED <<suppliers, parts>>

updatePartGroup(c, b, fault) ==
  /\ up
  /\ \/ refused(c, containsAll({b.name, b.rename}))
     \/ /\ containsAll({b.name, b.rename}) /\ verify(c, manager)
        /\ \/ fault = 1 /\ Broken /\ UNCHANGED groups
           \/ /\ fault # 1 /\ \A i \in DOMAIN groups : groups[i] # b.name
              /\ Answer(OK) /\ UNCHANGED groups
           \/ /\ fault # 1
              /\ \E i \in DOMAIN groups :
                   /\ groups[i] = b.name
                   /\ \/ /\ \E j \in DOMAIN groups \ {i} : groups[j] = b.rename
                         /\ Answer(INTERNALERROR) /\ UNCHANGED groups
                      \/ /\ \A j \in DOMAIN groups \ {i} : groups[j] # b.rename
                         /\ groups' = [groups EXCEPT ![i] = b.rename]
                         /\ Answer(OK)
        /\ UNCHANGED <<suppliers, parts>>

-----------------------------------------------------------------------------
(* createPart.  A group must exist, by name, and is then forgotten: SIMILAR *)
(* is the text NULL either way.  The supplier is not looked up.             *)
partFields(b) == containsAll({b.name, b.quantity, b.supplier, b.price})

groupMissing(b) == hasElement(b.group) /\ \A i \in DOMAIN groups : groups[i] # b.group

newPart(b) == [name |-> b.name, quantity |-> b.quantity, supplier |-> b.supplier,
               price |-> b.price, similar |-> NullText]

createPart(c, b, fault) ==
  /\ up
  /\ \/ refused(c, partFields(b))
     \/ /\ partFields(b) /\ verify(c, manager)
        /\ \/ fault = 1 /\ hasElement(b.group) /\ Broken /\ UNCHANGED parts
           \/ fault # 1 /\ groupMissing(b) /\ Answer(INTERNALERROR) /\ UNCHANGED parts
           \/ fault = 2 /\ ~groupMissing(b) /\ Broken /\ UNCHANGED parts
           \/ /\ fault = 0 /\ ~groupMissing(b) /\ partTaken(0, b.name)
              /\ Answer(INTERNALERROR) /\ UNCHANGED parts
           \/ /\ fault = 0 /\ ~groupMissing(b) /\ ~partTaken(0, b.name)
              /\ Len(parts) < MaxRows
              /\ parts' = Append(parts, newPart(b))
              /\ Answer(OK)
        /\ UNCHANGED <<suppliers, groups>>

(* Mutated form: the price is written to SUPPLIER. *)
updatedPart_WrongColumn(i, row, b) ==
  [row EXCEPT !.supplier = updatedCell(i, row, b.price, @)]

updatedPart(i, row, b) ==
  [row EXCEPT !.name     = updatedCell(i, row, b.name, @),
              !.quantity = updatedCell(i, row, b.quantity, @),
              !.supplier = updatedCell(i, row, b.supplier, @),
              !.price    = updatedCell(i, row, b.price, @),
              !.similar  = updatedCell(i, row, b.group, @)]

updatePart(c, b, fault) ==
  /\ up
  /\ \/ refused(c, hasElement(b.ID))
     \/ /\ hasElement(b.ID) /\ verify(c, manager)
        /\ nothingToUpdate({b.name, b.quantity, b.supplier, b.price, b.group})
        /\ Answer(OK) /\ UNCHANGED <<suppliers, groups, parts>>
     \/ /\ hasElement(b.ID) /\ verify(c, manager)
        /\ ~nothingToUpdate({b.name, b.quantity, b.supplier, b.price, b.group})
        /\ \/ fault = 1 /\ Broken /\ UNCHANGED parts
           \/ fault # 1 /\ b.ID \notin DOMAIN parts /\ Answer(OK) /\ UNCHANGED parts
           \/ /\ fault # 1 /\ b.ID \in DOMAIN parts
              /\ \/ /\ partTaken(b.ID, updatedPart(b.ID, parts[b.ID], b).name)
                    /\ Answer(INTERNALERROR) /\ UNCHANGED parts
                 \/ /\ ~partTaken(b.ID, updatedPart(b.ID, parts[b.ID], b).name)
                    /\ parts' = [parts EXCEPT ![b.ID] = updatedPart(b.ID, @, b)]
                    /\ Answer(OK)
        /\ UNCHANGED <<suppliers, groups>>

-----------------------------------------------------------------------------
(* The handlers that show rows.  Names are whole words, so that one matches *)
(* "LIKE %term%" when the term is the name or has no text.                  *)
like(term, text) == term \in {Empty, text}

shows(c, present, found, fault) ==
  /\ up
  /\ \/ ~present /\ Answer(BADREQUEST)
     \/ present /\ ~verify(c, employee) /\ Answer(FORBIDDEN)
     \/ /\ present /\ verify(c, employee)
        /\ \/ fault = 1 /\ Broken
           \/ fault # 1 /\ found /\ Answer(OK)
           \/ fault # 1 /\ ~found /\ Answer(NOTFOUND)
  /\ UNCHANGED <<suppliers, groups, parts>>

searchSuppliers(c, term, fault) ==
  shows(c, term # Absent,
        \E i \in DOMAIN suppliers, col \in SupplierColumns : like(term, suppliers[i][col]), fault)

selectSupplier(c, id, fault) == shows(c, hasElement(id), id \in DOMAIN suppliers, fault)

searchPartGroups(c, name, fault) ==
  shows(c, name # Absent, \E i \in DOMAIN groups : like(name, groups[i]), fault)

selectPartGroup(c, id, fault) == shows(c, hasElement(id), id \in DOMAIN groups, fault)

(* The parts searchParts lists: the inner join keeps those whose SUPPLIER   *)
(* is in SUPPLIERS, the left join keeps those without a group.              *)
partsListed(name, group) ==
  {p \in DOMAIN parts :
     /\ parts[p].supplier \in DOMAIN suppliers
     /\ name # Absent => like(name, parts[p].name)
     /\ group # Absent => group \in DOMAIN groups /\ parts[p].similar = group}

(* searchParts answers 200 whatever the list holds. *)
searchParts(c, name, group, fault) ==
  shows(c, name # Absent \/ group # Absent, TRUE, fault)

(* selectPart.  Its joins have no condition: every group and every supplier *)
(* goes with the part, and without a supplier the part is not found.        *)
selectPart(c, id, fault) ==
  shows(c, hasElement(id), id \in DOMAIN parts /\ suppliers # <<>>, fault)

(* The process is started again on the same database file. *)
Restart ==
  /\ ~up /\ up' = TRUE /\ reply' = NoReply
  /\ UNCHANGED <<suppliers, groups, parts>>

SupplierBodies == [name : NameFields, phone : PhoneFields, email : EmailFields]
RenameBodies   == [name : NameFields, rename : RenameFields, phone : PhoneFields,
                   email : EmailFields]
GroupBodies    == [name : NameFields, rename : RenameFields]
PartBodies     == [name : NameFields, quantity : PriceFields, supplier : SupplierFields,
                   price : PriceFields, group : NameFields]
ChangeBodies   == [ID : IDFields, name : RenameFields, quantity : PriceFields,
                   supplier : ChangeFields, price : PriceFields, group : GroupFields]

Next ==
  \/ \E c \in Callers, fault \in Faults :
       \/ \E b \in SupplierBodies : createSupplier(c, b, fault)
       \/ \E b \in RenameBodies : updateSupplier(c, b, fault)
       \/ \E b \in GroupBodies : createPartGroup(c, b, fault) \/ updatePartGroup(c, b, fault)
       \/ \E b \in PartBodies : createPart(c, b, fault)
       \/ \E b \in ChangeBodies : updatePart(c, b, fault)
       \/ \E name \in NameFields : searchSuppliers(c, name, fault) \/ searchPartGroups(c, name, fault)
       \/ \E id \in IDFields :
            selectSupplier(c, id, fault) \/ selectPartGroup(c, id, fault) \/ selectPart(c, id, fault)
       \/ \E name \in NameFields, group \in GroupFields : searchParts(c, name, group, fault)
  \/ Restart

Spec == Init /\ [][Next]_vars

-----------------------------------------------------------------------------
(***************************************************************************)
(* Properties.                                                             *)
(***************************************************************************)
(* The tables hold rows of their declared columns, none of them blank. *)
TypeOK ==
  /\ up \in BOOLEAN
  /\ reply \in HTTPCodes \cup {NoReply}
  /\ suppliers \in Seq(SupplierRows) /\ Len(suppliers) <= MaxRows
  /\ groups \in Seq(Cells) /\ Len(groups) <= MaxRows
  /\ parts \in Seq(PartRows) /\ Len(parts) <= MaxRows

(* A supplier, a group and a part can be told by its name, which is how     *)
(* updateSupplier, updatePartGroup and createPart look them up: no sequence *)
(* of renamings, also those that read another column, merges two.           *)
NamesIdentify ==
  /\ \A i, j \in DOMAIN suppliers : suppliers[i].name = suppliers[j].name => i = j
  /\ \A i, j \in DOMAIN groups : groups[i] = groups[j] => i = j
  /\ \A i, j \in DOMAIN parts : parts[i].name = parts[j].name => i = j

(* updatePart writes into SUPPLIER of part p what its field "supplier"      *)
(* says, a text or the column it names, and no supplier has that number.    *)
NamesNoSupplier(p) ==
  \E c \in Callers, fault \in Faults, b \in ChangeBodies :
    /\ b.ID = p /\ hasElement(b.supplier)
    /\ parts'[p].supplier = updatedCell(p, parts[p], b.supplier, Absent)
    /\ parts'[p].supplier \notin DOMAIN suppliers
    /\ updatePart(c, b, fault)

(* A part that the list of parts shows leaves it in one way only: a manager *)
(* updates that part with a "supplier" that is none (updatePart looks up    *)
(* nothing, SUPPLIER REFERENCES SUPPLIERS is not enforced, and the inner    *)
(* join of searchParts drops the part).  No renaming of a supplier, a group *)
(* or a part, no other change, no failing statement and no restart does.    *)
KeepsListed ==
  \A p \in partsListed(Empty, Absent) :
    p \in partsListed(Empty, Absent)' \/ NamesNoSupplier(p)

ListedStaysListed == [][KeepsListed]_vars
=============================================================================
