------------------------------- MODULE Services -------------------------------
(***************************************************************************)
(* The service book of the garage: the handlers of Services.h that change  *)
(* the database, over the six tables they change.                          *)
(*                                                                         *)
(*   request -> SERVICESHAREDDATA row, listed in UNAUTHORISEDSERVICES      *)
(*   authorise -> ACTIVESERVICEDATA row, listed in OPENSERVICES            *)
(*   close -> listed in CLOSEDSERVICES                                     *)
(*                                                                         *)
(* Two numberings meet here: UNAUTHORISEDSERVICES and PARTSINSERVICE refer *)
(* to SERVICESHAREDDATA rows, OPENSERVICES and CLOSEDSERVICES refer to     *)
(* ACTIVESERVICEDATA rows.  Foreign keys are declared and never enforced:  *)
(* SQLite ignores them unless a pragma asks otherwise.                     *)
(***************************************************************************)
EXTENDS ServerData, Sequences

CONSTANTS
  Callers,        \* sessions requests arrive with
  OwnerAnswers,   \* what SELECT OWNER can find: NoRow or a user
  NoRow,
  VIDFields,      \* what a request body may hold in its fields, Absent and
  TextFields,     \*   Empty included: "VID"; "request", "quote" and "paid";
  NoteFields,     \*   "notes" and "hours";
  IDFields,       \*   "ID"; "serviceID"; "partID"; "entry"; "quantity".
  ServiceFields,  \*   A field that holds an ID is the number its text stands
  PartFields,     \*   for, or some text that is no number.
  EntryFields,
  QuantityFields, \* with both readings of the text, see below
  ColumnOf,       \* the notes that happen to be the name of a column
  Faults,         \* the statement of a handler that does not complete, or 0
  MaxInteger,     \* the largest INTEGER SQLite stores (2^63 - 1)
  LeadingDigit(_), \* the first digit of a number's decimal form
  MaxServices,    \* bound on SERVICESHAREDDATA rows
  MaxEntries,     \* bound on the IDs of PARTSINSERVICE
  MaxQuantity     \* bound on a stored quantity

VARIABLES
  shared,         \* SERVICESHAREDDATA: vehicle by ID; rows are never deleted
  unauthorised,   \* UNAUTHORISEDSERVICES: the SERVICE column
  active,         \* ACTIVESERVICEDATA: rows by ID; never deleted
  open,           \* OPENSERVICES: the SERVICE column
  closed,         \* CLOSEDSERVICES: the SERVICE column; never deleted
  parts,          \* PARTSINSERVICE: rows by ID
  told            \* what callers have been told about services (history)

lifecycle == <<shared, unauthorised, active, open, closed>>
tables    == <<lifecycle, parts>>
vars      == <<up, reply, tables, told>>

-----------------------------------------------------------------------------
(* A quantity is read twice: by std::from_chars, which takes the digits the *)
(* text begins with, and by SQLite, which takes the number it stands for.   *)
(* "2e1" is 2 to the first and 20 to the second.                            *)
NotANumber == -1

QuantityReadings == [chars : Nat \cup {NotANumber}, sql : Nat]

OneText == [chars |-> 1, sql |-> 1]

(* A stored quantity comes back as text.  Past the INTEGER range SQLite     *)
(* keeps a REAL and prints it as d.ddde+NN, of which from_chars reads d;    *)
(* of a negative number it reads nothing.                                   *)
storedChars(n) ==
  CASE n < 0               -> NotANumber
    [] n \in 0..MaxInteger -> n
    [] OTHER               -> LeadingDigit(n)

ActiveColumns == {"service", "labour", "notes", "authoriser", "quote"}

Cells == Nat \cup ((TextFields \cup NoteFields) \ {Absent}) \cup {Empty}

ActiveRows == [service : Nat, labour : Cells, notes : Cells,
               authoriser : Nat, quote : Cells]

Quantities == {n \in Int : n <= MaxQuantity}

PartRows == [part : PartFields, service : ServiceFields, quantity : Quantities]

ASSUME ServicesAssumption ==
  /\ Callers \subseteq Sessions \cup {NoSession}
  /\ OwnerAnswers \subseteq Nat \cup {NoRow}
  /\ NoRow \notin Nat
  /\ ColumnOf \in [DOMAIN ColumnOf -> ActiveColumns]
  /\ QuantityFields \subseteq QuantityReadings \cup {Absent, Empty}
  /\ {Absent, Empty} \cap QuantityReadings = {}
  /\ Faults \subseteq Nat
  /\ MaxInteger \in Nat \ 0..8
  /\ \A n \in 1..MaxQuantity : LeadingDigit(n) \in 1..9
  /\ MaxServices \in Nat
  /\ MaxEntries \in Nat
  /\ MaxQuantity \in Nat

-----------------------------------------------------------------------------
Init ==
  /\ up = TRUE /\ reply = NoReply
  /\ shared = <<>> /\ unauthorised = {}
  /\ active = <<>> /\ open = {} /\ closed = {}
  /\ parts = [id \in {} |-> OneText]
  /\ told = [authorised |-> {}, failed |-> {}]

(* Services whose handler stopped before its last statement: the caller saw *)
(* a 500 or a dropped connection.                                           *)
tellFailed(s)     == told' = [told EXCEPT !.failed = @ \cup {s}]
tellAuthorised(s) == told' = [told EXCEPT !.authorised = @ \cup {s}]

-----------------------------------------------------------------------------
(* createRequest.  A manager may request for any vehicle, anyone else for a *)
(* vehicle they own.  The owner is read from row 0 of the answer without    *)
(* looking whether there is one: without the row that is a read through a   *)
(* null pointer, which ends the process unless the compiler has moved the   *)
(* read behind the test for a session.                                      *)
createRefused(c, b, owner, fault) ==
  /\ \/ /\ ~containsAll({b.VID, b.request})
        /\ Answer(BADREQUEST)
     \/ /\ containsAll({b.VID, b.request}) /\ ~verify(c, manager)
        /\ \/ fault = 1 /\ Broken
           \/ fault # 1 /\ owner = NoRow /\ Die
           \/ fault # 1 /\ owner = NoRow /\ c = NoSession /\ Answer(FORBIDDEN)
           \/ /\ fault # 1 /\ owner # NoRow
              /\ ~isSessionUserFromID(c, owner)
              /\ Answer(FORBIDDEN)
  /\ UNCHANGED <<tables, told>>

(* Mutated form: any session will do. *)
mayRequest_AnySession(c, owner, fault) == verify(c, manager) \/ (fault # 1 /\ c # NoSession)

mayRequest(c, owner, fault) ==
  \/ verify(c, manager)
  \/ fault # 1 /\ owner # NoRow /\ isSessionUserFromID(c, owner)

createInserts(c, b, owner, fault) ==
  /\ containsAll({b.VID, b.request})
  /\ mayRequest(c, owner, fault)
  /\ Len(shared) < MaxServices
  /\ \/ fault = 2 /\ Broken /\ UNCHANGED <<shared, unauthorised, told>>
     \/ /\ fault = 3 /\ Broken
        /\ shared' = Append(shared, b.VID)
        /\ tellFailed(Len(shared) + 1)
        /\ UNCHANGED unauthorised
     \/ /\ fault \notin {2, 3} /\ Answer(OK)
        /\ shared' = Append(shared, b.VID)
        /\ unauthorised' = unauthorised \cup {Len(shared) + 1}
        /\ UNCHANGED told
  /\ UNCHANGED <<active, open, closed, parts>>

createRequest(c, b, owner, fault) ==
  up /\ (createRefused(c, b, owner, fault) \/ createInserts(c, b, owner, fault))

-----------------------------------------------------------------------------
(* authoriseRequest.  Refused only when both fields are missing, so either  *)
(* one alone gets through: without "ID" the first look-up throws, without   *)
(* "quote" the exception comes after the DELETE has been committed.         *)
authoriseRefused(c, b, fault) ==
  /\ \/ /\ ~hasElement(b.ID) /\ ~hasElement(b.quote)
        /\ Answer(BADREQUEST)
     \/ /\ hasElement(b.ID) \/ hasElement(b.quote)
        /\ \/ ~verify(c, manager) /\ Answer(FORBIDDEN)
           \/ verify(c, manager) /\ getElementThrows(b.ID) /\ Die
           \/ /\ verify(c, manager) /\ ~getElementThrows(b.ID)
              /\ \/ fault = 1 /\ Broken
                 \/ fault # 1 /\ b.ID \notin unauthorised /\ Answer(NOTFOUND)
                 \/ fault = 2 /\ b.ID \in unauthorised /\ Broken
  /\ UNCHANGED <<tables, told>>

(* Mutated form: the labour starts at -1 for "not known". *)
newActiveRow_Unknown(c, b) ==
  [service |-> b.ID, labour |-> -1, notes |-> Empty,
   authoriser |-> c.user, quote |-> b.quote]

newActiveRow(c, b) ==
  [service    |-> b.ID, labour |-> 0,
   notes      |-> IF hasElement(b.notes) THEN b.notes ELSE Empty,
   authoriser |-> c.user, quote |-> b.quote]

(* Mutated forms: the request's number is put into OPENSERVICES; the DELETE *)
(* is left out; the result of the last INSERT is ignored; the waiting list  *)
(* is not looked at.                                                        *)
authoriseMoves_OtherNumber(c, b, fault) ==
  /\ verify(c, manager) /\ b.ID \in unauthorised /\ fault = 0
  /\ unauthorised' = unauthorised \ {b.ID}
  /\ active' = Append(active, newActiveRow(c, b))
  /\ open' = open \cup {b.ID}
  /\ Answer(OK) /\ tellAuthorised(b.ID)
  /\ UNCHANGED <<shared, closed, parts>>

authoriseMoves_NoDelete(c, b, fault) ==
  /\ verify(c, manager) /\ b.ID \in unauthorised /\ fault = 0
  /\ active' = Append(active, newActiveRow(c, b))
  /\ open' = open \cup {Len(active) + 1}
  /\ Answer(OK) /\ tellAuthorised(b.ID)
  /\ UNCHANGED <<shared, unauthorised, closed, parts>>

authoriseMoves_Unchecked(c, b, fault) ==
  /\ verify(c, manager) /\ b.ID \in unauthorised /\ fault \in {0, 4}
  /\ unauthorised' = unauthorised \ {b.ID}
  /\ active' = Append(active, newActiveRow(c, b))
  /\ open' = IF fault = 4 THEN open ELSE open \cup {Len(active) + 1}
  /\ Answer(OK) /\ tellAuthorised(b.ID)
  /\ UNCHANGED <<shared, closed, parts>>

authoriseMoves_AnyRequest(c, b, fault) ==
  /\ verify(c, manager) /\ b.ID \in DOMAIN shared /\ fault = 0
  /\ Len(active) < MaxServices
  /\ unauthorised' = unauthorised \ {b.ID}
  /\ active' = Append(active, newActiveRow(c, b))
  /\ open' = open \cup {Len(active) + 1}
  /\ Answer(OK) /\ tellAuthorised(b.ID)
  /\ UNCHANGED <<shared, closed, parts>>

authoriseMoves(c, b, fault) ==
  /\ verify(c, manager)
  /\ hasElement(b.ID) /\ b.ID \in unauthorised
  /\ fault \notin {1, 2}
  /\ unauthorised' = unauthorised \ {b.ID}
  /\ \/ /\ \/ getElementThrows(b.quote) /\ Die
           \/ ~getElementThrows(b.quote) /\ fault = 3 /\ Broken
        /\ tellFailed(b.ID)
        /\ UNCHANGED <<active, open>>
     \/ /\ ~getElementThrows(b.quote) /\ fault # 3
        /\ active' = Append(active, newActiveRow(c, b))
        /\ \/ fault = 4 /\ Broken /\ tellFailed(b.ID) /\ UNCHANGED open
           \/ /\ fault # 4 /\ Answer(OK) /\ tellAuthorised(b.ID)
              /\ open' = open \cup {Len(active) + 1}
  /\ UNCHANGED <<shared, closed, parts>>

authoriseRequest(c, b, fault) ==
  up /\ (authoriseRefused(c, b, fault) \/ authoriseMoves(c, b, fault))

-----------------------------------------------------------------------------
(* updateService.  Only the notes and the hours can be changed, and nothing *)
(* asks whether the ID stands for a service that is open.                   *)
updatedCell(row, f, old) == IF hasElement(f) THEN sqlValue(ColumnOf, row, f) ELSE old

(* Mutated form: the hours are written to QUOTE. *)
updatedRow_WrongColumn(row, b) ==
  [row EXCEPT !.notes = updatedCell(row, b.notes, @),
              !.quote = updatedCell(row, b.hours, @)]

updatedRow(row, b) ==
  [row EXCEPT !.notes  = updatedCell(row, b.notes, @),
              !.labour = updatedCell(row, b.hours, @)]

updateService(c, b, fault) ==
  /\ up
  /\ \/ /\ \/ ~hasElement(b.ID) /\ Answer(BADREQUEST)
           \/ hasElement(b.ID) /\ ~verify(c, employee) /\ Answer(FORBIDDEN)
           \/ /\ hasElement(b.ID) /\ verify(c, employee)
              /\ ~hasElement(b.notes) /\ ~hasElement(b.hours)
              /\ Answer(OK)
        /\ UNCHANGED active
     \/ /\ hasElement(b.ID) /\ verify(c, employee)
        /\ hasElement(b.notes) \/ hasElement(b.hours)
        /\ \/ fault = 1 /\ Broken /\ UNCHANGED active
           \/ /\ fault # 1 /\ Answer(OK)
              /\ active' = [i \in DOMAIN active |->
                              IF i = b.ID THEN updatedRow(active[i], b)
                                          ELSE active[i]]
  /\ UNCHANGED <<shared, unauthorised, open, closed, parts, told>>

-----------------------------------------------------------------------------
(* Mutated forms: the DELETE comes first; the level is tested last. *)
closeService_DeleteFirst(c, b, fault) ==
  /\ up /\ hasElement(b.ID) /\ verify(c, manager) /\ b.ID \notin closed
  /\ open' = open \ {b.ID}
  /\ \/ fault = 2 /\ Broken /\ UNCHANGED closed
     \/ fault # 2 /\ Answer(OK) /\ closed' = closed \cup {b.ID}
  /\ UNCHANGED <<shared, unauthorised, active, parts, told>>

closeService_TestLast(c, b, fault) ==
  /\ up /\ hasElement(b.ID) /\ fault = 0 /\ b.ID \notin closed
  /\ closed' = closed \cup {b.ID} /\ open' = open \ {b.ID}
  /\ Answer(IF verify(c, manager) THEN OK ELSE FORBIDDEN)
  /\ UNCHANGED <<shared, unauthorised, active, parts, told>>

(* closeService.  Nothing asks whether the service is open: any ID is put   *)
(* into CLOSEDSERVICES once, and the UNIQUE column refuses it afterwards.   *)
closeService(c, b, fault) ==
  /\ up
  /\ \/ /\ \/ ~hasElement(b.ID) /\ Answer(BADREQUEST)
           \/ hasElement(b.ID) /\ ~verify(c, manager) /\ Answer(FORBIDDEN)
           \/ /\ hasElement(b.ID) /\ verify(c, manager)
              /\ \/ getElementThrows(b.paid) /\ Die
                 \/ /\ ~getElementThrows(b.paid)
                    /\ \/ fault = 1 /\ Broken
                       \/ fault # 1 /\ b.ID \in closed /\ Answer(INTERNALERROR)
        /\ UNCHANGED <<open, closed>>
     \/ /\ hasElement(b.ID) /\ verify(c, manager)
        /\ ~getElementThrows(b.paid) /\ fault # 1 /\ b.ID \notin closed
        /\ closed' = closed \cup {b.ID}
        /\ \/ fault = 2 /\ Broken /\ UNCHANGED open
           \/ fault # 2 /\ Answer(OK) /\ open' = open \ {b.ID}
  /\ UNCHANGED <<shared, unauthorised, active, parts, told>>

-----------------------------------------------------------------------------
quantityText(q) == IF hasElement(q) THEN q ELSE OneText

(* Mutated form: the two parameters of the query are swapped. *)
entriesFor_Swapped(b) ==
  {e \in DOMAIN parts : parts[e].service = b.partID /\ parts[e].part = b.serviceID}

entriesFor(b) ==
  {e \in DOMAIN parts : parts[e].service = b.serviceID /\ parts[e].part = b.partID}

(* addPartToService.  Neither the service nor the part is looked up. *)
addRefused(c, b) ==
  /\ \/ ~containsAll({b.serviceID, b.partID}) /\ Answer(BADREQUEST)
     \/ /\ containsAll({b.serviceID, b.partID}) /\ ~verify(c, employee)
        /\ Answer(FORBIDDEN)
     \/ /\ containsAll({b.serviceID, b.partID}) /\ verify(c, employee)
        /\ hasElement(b.quantity) /\ b.quantity.chars \in {NotANumber, 0}
        /\ Answer(BADREQUEST)
  /\ UNCHANGED parts

addStores(c, b, fault) ==
  /\ containsAll({b.serviceID, b.partID}) /\ verify(c, employee)
  /\ quantityText(b.quantity).chars > 0
  /\ \/ fault \in {1, 2} /\ Broken /\ UNCHANGED parts
     \/ /\ fault \notin {1, 2} /\ Answer(OK)
        /\ \/ \E e \in entriesFor(b) :
                /\ \A d \in entriesFor(b) : e <= d
                /\ parts[e].quantity + quantityText(b.quantity).sql <= MaxQuantity
                /\ parts' = [parts EXCEPT ![e].quantity =
                               @ + quantityText(b.quantity).sql]
           \/ /\ entriesFor(b) = {} /\ NextRowId(parts) <= MaxEntries
              /\ quantityText(b.quantity).sql <= MaxQuantity
              /\ parts' = insertRow(parts,
                            [part |-> b.partID, service |-> b.serviceID,
                             quantity |-> quantityText(b.quantity).sql])

addPartToService(c, b, fault) ==
  /\ up
  /\ addRefused(c, b) \/ addStores(c, b, fault)
  /\ UNCHANGED <<lifecycle, told>>

(* removePartFromService.  Which of DELETE and UPDATE runs is decided by    *)
(* what from_chars reads; the UPDATE subtracts what SQLite reads.           *)
removeRefused(c, b, fault) ==
  /\ \/ ~hasElement(b.entry) /\ Answer(BADREQUEST)
     \/ hasElement(b.entry) /\ ~verify(c, employee) /\ Answer(FORBIDDEN)
     \/ /\ hasElement(b.entry) /\ verify(c, employee)
        /\ \/ fault = 1 /\ Broken
           \/ fault # 1 /\ b.entry \notin DOMAIN parts /\ Answer(NOTFOUND)
           \/ /\ fault # 1 /\ b.entry \in DOMAIN parts
              /\ \/ /\ storedChars(parts[b.entry].quantity) = NotANumber
                    /\ Answer(INTERNALERROR)
                 \/ /\ storedChars(parts[b.entry].quantity) # NotANumber
                    /\ quantityText(b.quantity).chars \in {NotANumber, 0}
                    /\ Answer(BADREQUEST)
  /\ UNCHANGED parts

(* Mutated form: removing all there are keeps the entry. *)
removeStores_KeepsLast(c, b, fault) ==
  /\ hasElement(b.entry) /\ verify(c, employee) /\ b.entry \in DOMAIN parts
  /\ quantityText(b.quantity).chars > 0 /\ Answer(OK)
  /\ IF quantityText(b.quantity).chars > storedChars(parts[b.entry].quantity)
       THEN parts' = deleteRow(parts, b.entry)
       ELSE parts' = [parts EXCEPT ![b.entry].quantity = @ - quantityText(b.quantity).sql]

removeStores(c, b, fault) ==
  /\ hasElement(b.entry) /\ verify(c, employee)
  /\ fault # 1 /\ b.entry \in DOMAIN parts
  /\ storedChars(parts[b.entry].quantity) # NotANumber
  /\ quantityText(b.quantity).chars > 0
  /\ \/ fault = 2 /\ Broken /\ UNCHANGED parts
     \/ /\ fault # 2 /\ Answer(OK)
        /\ \/ /\ quantityText(b.quantity).chars >= storedChars(parts[b.entry].quantity)
              /\ parts' = deleteRow(parts, b.entry)
           \/ /\ quantityText(b.quantity).chars < storedChars(parts[b.entry].quantity)
              /\ parts' = [parts EXCEPT ![b.entry].quantity =
                             @ - quantityText(b.quantity).sql]

removePartFromService(c, b, fault) ==
  /\ up
  /\ removeRefused(c, b, fault) \/ removeStores(c, b, fault)
  /\ UNCHANGED <<lifecycle, told>>

-----------------------------------------------------------------------------
(* The process is started again on the same database file. *)
Restart ==
  /\ ~up /\ up' = TRUE /\ reply' = NoReply
  /\ UNCHANGED <<tables, told>>

CreateBodies    == [VID : VIDFields, request : TextFields]
AuthoriseBodies == [ID : IDFields, quote : TextFields, notes : NoteFields]
UpdateBodies    == [ID : IDFields, notes : NoteFields, hours : NoteFields]
CloseBodies     == [ID : IDFields, paid : TextFields]
AddBodies       == [serviceID : ServiceFields, partID : PartFields,
                    quantity : QuantityFields]
RemoveBodies    == [entry : EntryFields, quantity : QuantityFields]

Next ==
  \/ \E c \in Callers, fault \in Faults :
       \/ \E b \in CreateBodies, o \in OwnerAnswers : createRequest(c, b, o, fault)
       \/ \E b \in AuthoriseBodies : authoriseRequest(c, b, fault)
       \/ \E b \in UpdateBodies : updateService(c, b, fault)
       \/ \E b \in CloseBodies : closeService(c, b, fault)
       \/ \E b \in AddBodies : addPartToService(c, b, fault)
       \/ \E b \in RemoveBodies : removePartFromService(c, b, fault)
  \/ Restart

Spec == Init /\ [][Next]_vars

-----------------------------------------------------------------------------
(***************************************************************************)
(* Properties.                                                             *)
(***************************************************************************)
ActiveOf(s) == {i \in DOMAIN active : active[i].service = s}

Tracked(s) == \E i \in ActiveOf(s) : i \in open \cup closed

(* Every table holds rows of its declared columns. *)
TypeOK ==
  /\ up \in BOOLEAN
  /\ reply \in HTTPCodes \cup {NoReply}
  /\ shared \in Seq(VIDFields) /\ Len(shared) <= MaxServices
  /\ unauthorised \subseteq Nat
  /\ active \in Seq(ActiveRows)
  /\ open \subseteq Nat
  /\ closed \subseteq IDFields
  /\ \E S \in SUBSET (1..MaxEntries) : parts \in [S -> PartRows]
  /\ told \in [authorised : SUBSET Nat, failed : SUBSET Nat]

(* The foreign keys of sqlcrt.txt that SQLite does not enforce hold anyway  *)
(* for the service lists: whatever statement or process failed, no list     *)
(* refers to a row that is not there.                                       *)
ReferencesHold ==
  /\ unauthorised \subseteq DOMAIN shared
  /\ \A i \in DOMAIN active : active[i].service \in DOMAIN shared
  /\ open \subseteq DOMAIN active

(* A request is authorised at most once (ACTIVESERVICEDATA.SERVICE has no   *)
(* UNIQUE): no two active rows share a service, and none belongs to a       *)
(* service that is still waiting, however often authoriseRequest is sent.   *)
AuthorisedOnce ==
  \A i \in DOMAIN active :
    /\ active[i].service \notin unauthorised
    /\ \A j \in DOMAIN active : active[i].service = active[j].service => i = j

(* A request disappears from all three lists only when createRequest or     *)
(* authoriseRequest had answered 500 or dropped the connection over it; and *)
(* such a request is not waiting either, so that trying again finds nothing.*)
NoSilentLoss ==
  /\ \A s \in DOMAIN shared :
       s \in unauthorised \/ Tracked(s) \/ s \in told.failed
  /\ told.failed \subseteq DOMAIN shared \ unauthorised

(* A manager told that a request is authorised (200) can rely on it: the    *)
(* service is open or closed from then on, and it is never one that an      *)
(* earlier failed attempt had removed from the waiting list.                *)
AuthorisedIsTracked ==
  /\ \A s \in told.authorised : Tracked(s)
  /\ told.authorised \cap told.failed = {}

(* addPartToService keeps one PARTSINSERVICE row for each part of a service *)
(* (there is no UNIQUE on the pair), also after entries were removed and    *)
(* their IDs given again.                                                   *)
OneEntryPerPart ==
  \A e, f \in DOMAIN parts :
    parts[e].part = parts[f].part /\ parts[e].service = parts[f].service => e = f

(* removePartFromService.htmt:4, "The server prevents the number of parts   *)
(* from becoming negative": every stored quantity is positive.              *)
QuantitiesPositive == \A e \in DOMAIN parts : parts[e].quantity > 0

(* Both readers see the same number in every quantity text. *)
PlainQuantities ==
  \A q \in QuantityFields \cap QuantityReadings : q.chars \in Nat => q.chars = q.sql

(* A handler that answers 400, 403 or 404 has changed no table. *)
RefusedUnchanged ==
  reply' \in {BADREQUEST, FORBIDDEN, NOTFOUND} => UNCHANGED tables

RefusalsChangeNothing == [][RefusedUnchanged]_vars

(* No handler rewrites history: requests and authorisations stay as they    *)
(* were made, and a service leaves OPENSERVICES only into CLOSEDSERVICES.   *)
KeepsHistory ==
  /\ \A s \in DOMAIN shared : s \in DOMAIN shared' /\ shared'[s] = shared[s]
  /\ \A i \in DOMAIN active :
       /\ i \in DOMAIN active'
       /\ \A col \in {"service", "authoriser", "quote"} :
            active'[i][col] = active[i][col]
  /\ open \subseteq open' \cup closed'
  /\ closed \subseteq closed'

HistoryKept == [][KeepsHistory]_vars

(* What selectService takes for open, so that closeService.htmt shows its   *)
(* form: an authorised service whose number is in OPENSERVICES.             *)
ShownAsOpen(s) == s \in open /\ ActiveOf(s) # {}

(* closeServiceResult.htmt:3, "This page lets the user know if they         *)
(* sucessfully closed the service": when the number of a service whose form *)
(* was shown (closeService.htmt:8 posts it as "ID") is put into             *)
(* CLOSEDSERVICES, that service and no other stops being open.              *)
CloseActsOnNamedService ==
  [][\A s \in closed' \ closed : ShownAsOpen(s) =>
       /\ ActiveOf(s) \cap open' = {}
       /\ {active[i].service : i \in open \ open'} \subseteq {s}]_vars

(* Where each service stands, in the order waiting, open, closed: the       *)
(* refinement mapping.                                                      *)
statusOf(s) ==
  IF s \notin DOMAIN shared THEN "none"
  ELSE IF s \in unauthorised THEN "unauthorised"
  ELSE IF ActiveOf(s) \cap open # {} THEN "open"
  ELSE IF ActiveOf(s) \cap closed # {} THEN "closed"
  ELSE "lost"

Lifecycle == INSTANCE ServiceLifecycle
               WITH Ids    <- 1..MaxServices,
                    status <- [s \in 1..MaxServices |-> statusOf(s)]

(* The handlers implement ServiceLifecycle. *)
ImplementsLifecycle == Lifecycle!Spec
=============================================================================
