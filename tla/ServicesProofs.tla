---------------------------- MODULE ServicesProofs ----------------------------
(***************************************************************************)
(* Proofs about Services, for every number of services, every body field   *)
(* and every choice of the statements that fail.                           *)
(***************************************************************************)
EXTENDS Services, ServerDataProofs

(* A caller that passes a level test has a user ID. *)
LEMMA VerifiedCaller ==
  ASSUME NEW c \in Callers, NEW l \in Nat, verify(c, l)
  PROVE  c \in Sessions
BY ServicesAssumption DEF verify

(* Every way a handler ends leaves a status code or a dropped connection. *)
LEMMA EndsTyped ==
  ASSUME up \in BOOLEAN, NEW code \in HTTPCodes,
         Answer(code) \/ Die \/ Broken
  PROVE  up' \in BOOLEAN /\ reply' \in HTTPCodes \cup {NoReply}
<1>1. CASE Answer(code)
  BY <1>1 DEF Answer
<1>2. CASE Die
  BY <1>2 DEF Die
<1>3. CASE Answer(INTERNALERROR)
  BY <1>3 DEF Answer, HTTPCodes
<1> QED
  BY <1>1, <1>2, <1>3 DEF Broken

(* What callers are told is about service numbers. *)
LEMMA TellTyped ==
  ASSUME TypeOK, NEW s \in Nat, tellFailed(s) \/ tellAuthorised(s)
  PROVE  told' \in [authorised : SUBSET Nat, failed : SUBSET Nat]
BY DEF TypeOK, tellFailed, tellAuthorised

(* Every column of an active row holds a cell. *)
LEMMA ColumnIsCell ==
  ASSUME NEW row \in ActiveRows, NEW col \in ActiveColumns
  PROVE  row[col] \in Cells
BY DEF ActiveRows, ActiveColumns, Cells

(* updateService leaves a row of ACTIVESERVICEDATA, also when a text is     *)
(* taken for a column.                                                      *)
LEMMA UpdatedRowTyped ==
  ASSUME NEW row \in ActiveRows, NEW b \in UpdateBodies
  PROVE  updatedRow(row, b) \in ActiveRows
<1>1. \A f \in NoteFields, old \in Cells : updatedCell(row, f, old) \in Cells
  <2> TAKE f \in NoteFields, old \in Cells
  <2>1. CASE ~hasElement(f)
    BY <2>1 DEF updatedCell
  <2>2. CASE hasElement(f) /\ f \in DOMAIN ColumnOf
    BY <2>2, ColumnIsCell, ServicesAssumption DEF updatedCell, sqlValue
  <2>3. CASE hasElement(f) /\ f \notin DOMAIN ColumnOf
    BY <2>3 DEF updatedCell, sqlValue, hasElement, Cells
  <2> QED
    BY <2>1, <2>2, <2>3
<1>2. b.notes \in NoteFields /\ b.hours \in NoteFields
  BY DEF UpdateBodies
<1> QED
  BY <1>1, <1>2 DEF updatedRow, ActiveRows

(* The part entries keep their shape under the three statements that change *)
(* them.                                                                    *)
PartsTyped(p) == \E S \in SUBSET (1..MaxEntries) : p \in [S -> PartRows]

(* Removing an entry. *)
LEMMA DeleteTyped ==
  ASSUME NEW p, PartsTyped(p), NEW e
  PROVE  PartsTyped(deleteRow(p, e))
BY DEF PartsTyped, deleteRow

(* Changing the quantity of an entry. *)
LEMMA SetQuantityTyped ==
  ASSUME NEW p, PartsTyped(p), NEW e \in DOMAIN p, NEW n \in Quantities
  PROVE  PartsTyped([p EXCEPT ![e].quantity = n])
<1>1. PICK S \in SUBSET (1..MaxEntries) : p \in [S -> PartRows]
  BY DEF PartsTyped
<1>2. [p[e] EXCEPT !.quantity = n] \in PartRows
  BY <1>1 DEF PartRows
<1>3. [p EXCEPT ![e].quantity = n] \in [S -> PartRows]
  BY <1>1, <1>2
<1> QED
  BY <1>3 DEF PartsTyped

(* Adding an entry under the next ID. *)
LEMMA InsertTyped ==
  ASSUME NEW p, PartsTyped(p), NEW row \in PartRows, NextRowId(p) <= MaxEntries
  PROVE  PartsTyped(insertRow(p, row))
<1>1. PICK S \in SUBSET (1..MaxEntries) : p \in [S -> PartRows]
  BY DEF PartsTyped
<1>2. MaxEntries \in Nat
  BY ServicesAssumption
<1>3. NextRowId(p) \in Nat \ {0}
  <2>1. DOMAIN p \subseteq 0..MaxEntries
    BY <1>1, <1>2
  <2> QED
    BY <1>2, <2>1, NextRowIdIsNext
<1>4. NextRowId(p) \in 1..MaxEntries
  BY <1>2, <1>3
<1>5. insertRow(p, row) \in [S \cup {NextRowId(p)} -> PartRows]
  BY <1>1 DEF insertRow
<1> QED
  BY <1>1, <1>4, <1>5 DEF PartsTyped

-----------------------------------------------------------------------------
(* Type correctness, one lemma for each handler. *)

(* createRequest keeps the tables typed. *)
LEMMA CreateTyped ==
  ASSUME TypeOK, NEW c \in Callers, NEW b \in CreateBodies, NEW o \in OwnerAnswers,
         NEW fault \in Faults, createRequest(c, b, o, fault)
  PROVE  TypeOK'
<1>1. up' \in BOOLEAN /\ reply' \in HTTPCodes \cup {NoReply}
  BY EndsTyped DEF TypeOK, createRequest, createRefused, createInserts, HTTPCodes
<1>2. CASE createRefused(c, b, o, fault)
  BY <1>1, <1>2 DEF TypeOK, createRefused, tables, lifecycle
<1>3. CASE createInserts(c, b, o, fault)
  <2>1. b.VID \in VIDFields
    BY DEF CreateBodies
  <2>2. Len(shared) + 1 \in Nat
    BY DEF TypeOK
  <2>3. /\ shared' \in Seq(VIDFields) /\ Len(shared') <= MaxServices
        /\ unauthorised' \subseteq Nat
    <3>1. shared' = shared \/ shared' = Append(shared, b.VID)
      BY <1>3 DEF createInserts
    <3>2. shared' \in Seq(VIDFields) /\ Len(shared') <= MaxServices
      <4>1. Len(shared) < MaxServices /\ MaxServices \in Nat
        BY <1>3, ServicesAssumption DEF createInserts
      <4> QED
        BY <2>1, <3>1, <4>1 DEF TypeOK
    <3>3. unauthorised' \subseteq Nat
      BY <1>3, <2>2 DEF TypeOK, createInserts
    <3> QED
      BY <3>2, <3>3
  <2>4. told' \in [authorised : SUBSET Nat, failed : SUBSET Nat]
    BY <1>3, <2>2 DEF TypeOK, createInserts, tellFailed
  <2> QED
    BY <1>1, <1>3, <2>3, <2>4 DEF TypeOK, createInserts
<1> QED
  BY <1>2, <1>3 DEF createRequest

(* authoriseRequest keeps the tables typed. *)
LEMMA AuthoriseTyped ==
  ASSUME TypeOK, NEW c \in Callers, NEW b \in AuthoriseBodies,
         NEW fault \in Faults, authoriseRequest(c, b, fault)
  PROVE  TypeOK'
<1>1. up' \in BOOLEAN /\ reply' \in HTTPCodes \cup {NoReply}
  BY EndsTyped DEF TypeOK, authoriseRequest, authoriseRefused, authoriseMoves,
                   HTTPCodes
<1>2. CASE authoriseRefused(c, b, fault)
  BY <1>1, <1>2 DEF TypeOK, authoriseRefused, tables, lifecycle
<1>3. CASE authoriseMoves(c, b, fault)
  <2>1. b.ID \in Nat
    BY <1>3 DEF TypeOK, authoriseMoves
  <2>2. ~getElementThrows(b.quote) => newActiveRow(c, b) \in ActiveRows
    <3> HAVE ~getElementThrows(b.quote)
    <3>1. c \in Sessions
      BY <1>3, VerifiedCaller DEF authoriseMoves, manager
    <3>2. b.quote \in TextFields /\ b.notes \in NoteFields
      BY DEF AuthoriseBodies
    <3>3. b.quote \in Cells /\ (hasElement(b.notes) => b.notes \in Cells)
      BY <3>2 DEF getElementThrows, hasElement, Cells
    <3>4. 0 \in Cells /\ Empty \in Cells
      BY DEF Cells
    <3> QED
      BY <2>1, <3>1, <3>3, <3>4 DEF newActiveRow, ActiveRows, Sessions
  <2>3. active' \in Seq(ActiveRows)
    <3>1. \/ active' = active
          \/ ~getElementThrows(b.quote) /\ active' = Append(active, newActiveRow(c, b))
      BY <1>3 DEF authoriseMoves
    <3> QED
      BY <3>1, <2>2 DEF TypeOK
  <2>4. open' \subseteq Nat /\ unauthorised' \subseteq Nat
    <3>1. Len(active) + 1 \in Nat
      BY DEF TypeOK
    <3> QED
      BY <1>3, <3>1 DEF TypeOK, authoriseMoves
  <2>5. told' \in [authorised : SUBSET Nat, failed : SUBSET Nat]
    BY <1>3, <2>1, TellTyped DEF authoriseMoves
  <2> QED
    BY <1>1, <1>3, <2>3, <2>4, <2>5 DEF TypeOK, authoriseMoves
<1> QED
  BY <1>2, <1>3 DEF authoriseRequest

(* updateService keeps the tables typed. *)
LEMMA UpdateTyped ==
  ASSUME TypeOK, NEW c \in Callers, NEW b \in UpdateBodies,
         NEW fault \in Faults, updateService(c, b, fault)
  PROVE  TypeOK'
<1>1. up' \in BOOLEAN /\ reply' \in HTTPCodes \cup {NoReply}
  BY EndsTyped DEF TypeOK, updateService, HTTPCodes
<1>2. active' \in Seq(ActiveRows)
  <2> DEFINE edited == [i \in DOMAIN active |->
                          IF i = b.ID THEN updatedRow(active[i], b) ELSE active[i]]
  <2>1. \A i \in DOMAIN active : updatedRow(active[i], b) \in ActiveRows
    BY UpdatedRowTyped DEF TypeOK
  <2>2. edited \in Seq(ActiveRows)
    <3>1. edited \in [1..Len(active) -> ActiveRows]
      BY <2>1 DEF TypeOK
    <3> HIDE DEF edited
    <3> QED
      BY <3>1 DEF TypeOK
  <2>3. active' = active \/ active' = edited
    BY DEF updateService
  <2> QED
    BY <2>2, <2>3 DEF TypeOK
<1> QED
  BY <1>1, <1>2 DEF TypeOK, updateService

(* closeService keeps the tables typed. *)
LEMMA CloseTyped ==
  ASSUME TypeOK, NEW c \in Callers, NEW b \in CloseBodies,
         NEW fault \in Faults, closeService(c, b, fault)
  PROVE  TypeOK'
<1>1. up' \in BOOLEAN /\ reply' \in HTTPCodes \cup {NoReply}
  BY EndsTyped DEF TypeOK, closeService, HTTPCodes
<1>2. open' \subseteq Nat /\ closed' \subseteq IDFields
  BY DEF TypeOK, closeService, CloseBodies
<1> QED
  BY <1>1, <1>2 DEF TypeOK, closeService

(* What both readers make of a quantity field. *)
LEMMA QuantityTextTyped ==
  ASSUME NEW q \in QuantityFields
  PROVE  quantityText(q) \in QuantityReadings
BY ServicesAssumption DEF quantityText, hasElement, QuantityReadings, OneText,
                          NotANumber

(* An entry has an ID in range and a bounded quantity. *)
LEMMA PartRowTyped ==
  ASSUME TypeOK, NEW e \in DOMAIN parts
  PROVE  /\ e \in 1..MaxEntries /\ parts[e] \in PartRows
         /\ parts[e].quantity \in Int /\ parts[e].quantity <= MaxQuantity
BY DEF TypeOK, PartRows, Quantities

(* addPartToService keeps the tables typed. *)
LEMMA AddTyped ==
  ASSUME TypeOK, NEW c \in Callers, NEW b \in AddBodies,
         NEW fault \in Faults, addPartToService(c, b, fault)
  PROVE  TypeOK'
<1>1. up' \in BOOLEAN /\ reply' \in HTTPCodes \cup {NoReply}
  BY EndsTyped DEF TypeOK, addPartToService, addRefused, addStores, HTTPCodes
<1> DEFINE n == quantityText(b.quantity).sql
<1>2. n \in Nat
  BY QuantityTextTyped DEF AddBodies, QuantityReadings
<1> HIDE DEF n
<1>3. PartsTyped(parts)
  BY DEF TypeOK, PartsTyped
<1>4. PartsTyped(parts')
  <2>1. CASE parts' = parts
    BY <1>3, <2>1
  <2>2. ASSUME NEW e \in entriesFor(b), parts[e].quantity + n <= MaxQuantity,
               parts' = [parts EXCEPT ![e].quantity = @ + n]
        PROVE  PartsTyped(parts')
    <3>1. e \in DOMAIN parts
      BY DEF entriesFor
    <3>2. parts[e].quantity + n \in Quantities
      BY <1>2, <2>2, <3>1, PartRowTyped DEF Quantities
    <3>3. parts' = [parts EXCEPT ![e].quantity = parts[e].quantity + n]
      BY <2>2, <3>1
    <3> QED
      BY <1>3, <3>1, <3>2, <3>3, SetQuantityTyped
  <2>3. ASSUME NextRowId(parts) <= MaxEntries, n <= MaxQuantity,
               parts' = insertRow(parts, [part |-> b.partID, service |-> b.serviceID,
                                          quantity |-> n])
        PROVE  PartsTyped(parts')
    <3> DEFINE row == [part |-> b.partID, service |-> b.serviceID, quantity |-> n]
    <3>1. row \in PartRows
      BY <1>2, <2>3 DEF AddBodies, PartRows, Quantities
    <3>2. parts' = insertRow(parts, row)
      BY <2>3
    <3>3. NextRowId(parts) <= MaxEntries
      BY <2>3
    <3> HIDE DEF row
    <3>4. PartsTyped(insertRow(parts, row))
      BY <1>3, <3>1, <3>3, InsertTyped
    <3> QED
      BY <3>2, <3>4
  <2> QED
    BY <2>1, <2>2, <2>3 DEF addPartToService, addRefused, addStores, n
<1> QED
  BY <1>1, <1>4 DEF TypeOK, PartsTyped, addPartToService, lifecycle

(* removePartFromService keeps the tables typed. *)
LEMMA RemoveTyped ==
  ASSUME TypeOK, NEW c \in Callers, NEW b \in RemoveBodies,
         NEW fault \in Faults, removePartFromService(c, b, fault)
  PROVE  TypeOK'
<1>1. up' \in BOOLEAN /\ reply' \in HTTPCodes \cup {NoReply}
  BY EndsTyped DEF TypeOK, removePartFromService, removeRefused, removeStores,
                   HTTPCodes
<1> DEFINE n == quantityText(b.quantity).sql
<1>2. n \in Nat
  BY QuantityTextTyped DEF RemoveBodies, QuantityReadings
<1> HIDE DEF n
<1>3. PartsTyped(parts)
  BY DEF TypeOK, PartsTyped
<1>4. PartsTyped(parts')
  <2>1. CASE parts' = parts
    BY <1>3, <2>1
  <2>2. CASE parts' = deleteRow(parts, b.entry)
    BY <1>3, <2>2, DeleteTyped
  <2>3. ASSUME b.entry \in DOMAIN parts,
               parts' = [parts EXCEPT ![b.entry].quantity = @ - n]
        PROVE  PartsTyped(parts')
    <3>1. parts[b.entry].quantity - n \in Quantities
      BY <1>2, <2>3, PartRowTyped, ServicesAssumption DEF Quantities
    <3> DEFINE e == b.entry
               m == parts[b.entry].quantity - n
    <3>2. /\ e \in DOMAIN parts /\ m \in Quantities
          /\ parts' = [parts EXCEPT ![e].quantity = m]
      BY <2>3, <3>1
    <3> HIDE DEF e, m
    <3> QED
      BY <1>3, <3>2, SetQuantityTyped
  <2> QED
    BY <2>1, <2>2, <2>3 DEF removePartFromService, removeRefused, removeStores, n
<1> QED
  BY <1>1, <1>4 DEF TypeOK, PartsTyped, removePartFromService, lifecycle

(* An empty book is well typed. *)
LEMMA InitTyped == Init => TypeOK
<1> SUFFICES ASSUME Init PROVE TypeOK
  OBVIOUS
<1>1. parts \in [{} -> PartRows]
  BY DEF Init
<1>2. \E S \in SUBSET (1..MaxEntries) : parts \in [S -> PartRows]
  BY <1>1
<1>3. /\ shared \in Seq(VIDFields) /\ Len(shared) <= MaxServices
      /\ active \in Seq(ActiveRows)
  BY ServicesAssumption DEF Init
<1> QED
  BY <1>2, <1>3 DEF Init, TypeOK

(* Whatever step is taken, the tables keep their columns' types. *)
LEMMA NextTyped == TypeOK /\ [Next]_vars => TypeOK'
<1> SUFFICES ASSUME TypeOK, [Next]_vars PROVE TypeOK'
  OBVIOUS
<1>1. CASE Restart
  BY <1>1 DEF Restart, TypeOK, tables, lifecycle
<1>2. CASE UNCHANGED vars
  BY <1>2 DEF vars, TypeOK, tables, lifecycle
<1> QED
  BY <1>1, <1>2, CreateTyped, AuthoriseTyped, UpdateTyped, CloseTyped, AddTyped,
     RemoveTyped DEF Next

(* Every reachable state of the service book is well typed: the tables hold *)
(* rows of their declared columns, and part entries keep IDs in range.      *)
THEOREM TypeCorrect == Spec => []TypeOK
<1>1. Init => TypeOK
  BY InitTyped
<1>2. TypeOK /\ [Next]_vars => TypeOK'
  BY NextTyped
<1> QED
  BY <1>1, <1>2, PTL DEF Spec

-----------------------------------------------------------------------------
(* The lists a service passes through.  None of the four invariants is      *)
(* inductive alone: that authoriseRequest finds no earlier active row needs *)
(* waiting services to have none, that its 200 is never given for a service *)
(* an attempt had already failed on needs failed services not to be waiting.*)
BookInv == /\ ReferencesHold
           /\ AuthorisedOnce
           /\ NoSilentLoss
           /\ AuthorisedIsTracked

(* BookInv depends on the lists only. *)
LEMMA BookUnchanged ==
  ASSUME BookInv, UNCHANGED <<lifecycle, told>>
  PROVE  BookInv'
BY DEF BookInv, ReferencesHold, AuthorisedOnce, NoSilentLoss, AuthorisedIsTracked,
       Tracked, ActiveOf, lifecycle

(* createRequest keeps BookInv, stopped half-way or not. *)
LEMMA CreateKeepsBook ==
  ASSUME TypeOK, BookInv, NEW c \in Callers, NEW b \in CreateBodies,
         NEW o \in OwnerAnswers, NEW fault \in Faults, createInserts(c, b, o, fault)
  PROVE  BookInv'
<1> DEFINE s == Len(shared) + 1
<1>1. s \in Nat /\ s \notin DOMAIN shared
  BY DEF TypeOK
<1>2. \/ shared' = shared /\ UNCHANGED <<unauthorised, told>>
      \/ /\ DOMAIN shared' = DOMAIN shared \cup {s}
         /\ \/ unauthorised' = unauthorised /\ tellFailed(s)
            \/ unauthorised' = unauthorised \cup {s} /\ told' = told
  <2>1. shared' = Append(shared, b.VID) => DOMAIN shared' = DOMAIN shared \cup {s}
    BY DEF TypeOK
  <2> QED
    BY <2>1 DEF createInserts
<1>3. UNCHANGED <<active, open, closed>>
  BY DEF createInserts
<1>4. told.failed \in SUBSET Nat /\ told.authorised \in SUBSET Nat
  BY DEF TypeOK
<1>5. \/ told' = told
      \/ told'.failed = told.failed \cup {s} /\ told'.authorised = told.authorised
  BY <1>2 DEF tellFailed, TypeOK
<1>6. s \notin told.authorised
  BY <1>1 DEF BookInv, AuthorisedIsTracked, Tracked, ActiveOf, ReferencesHold
<1>7. \A x : Tracked(x)' <=> Tracked(x)
  BY <1>3 DEF Tracked, ActiveOf
<1> HIDE DEF s
<1>8. ReferencesHold'
  BY <1>2, <1>3 DEF BookInv, ReferencesHold
<1>9. AuthorisedOnce'
  BY <1>1, <1>2, <1>3 DEF BookInv, ReferencesHold, AuthorisedOnce
<1>10. NoSilentLoss'
  BY <1>1, <1>2, <1>5, <1>7 DEF BookInv, ReferencesHold, NoSilentLoss, tellFailed, TypeOK
<1>11. AuthorisedIsTracked'
  BY <1>2, <1>5, <1>6, <1>7 DEF BookInv, AuthorisedIsTracked
<1> QED
  BY <1>8, <1>9, <1>10, <1>11 DEF BookInv

(* authoriseRequest keeps BookInv, whichever of its statements fails. *)
LEMMA AuthoriseKeepsBook ==
  ASSUME TypeOK, BookInv, NEW c \in Callers, NEW b \in AuthoriseBodies,
         NEW fault \in Faults, authoriseMoves(c, b, fault)
  PROVE  BookInv'
<1> DEFINE s == b.ID
           n == Len(active) + 1
<1>1. s \in unauthorised /\ unauthorised' = unauthorised \ {s}
  BY DEF authoriseMoves
<1>2. UNCHANGED <<shared, closed>>
  BY DEF authoriseMoves
<1>3. s \notin told.failed /\ s \notin told.authorised /\ s \in DOMAIN shared
  BY <1>1 DEF BookInv, NoSilentLoss, AuthorisedIsTracked, Tracked, ActiveOf,
              AuthorisedOnce, ReferencesHold
<1>4. n \in Nat /\ n \notin DOMAIN active
  BY DEF TypeOK
<1>5. CASE active' = active /\ open' = open /\ tellFailed(s)
  <2>1. told'.failed = told.failed \cup {s} /\ told'.authorised = told.authorised
    BY <1>5 DEF tellFailed, TypeOK
  <2>2. \A x : Tracked(x)' <=> Tracked(x)
    BY <1>2, <1>5 DEF Tracked, ActiveOf
  <2> HIDE DEF s, n
  <2>3. ReferencesHold' /\ AuthorisedOnce'
    BY <1>1, <1>2, <1>5 DEF BookInv, ReferencesHold, AuthorisedOnce
  <2>4. NoSilentLoss' /\ AuthorisedIsTracked'
    BY <1>1, <1>2, <1>3, <2>1, <2>2 DEF BookInv, NoSilentLoss, AuthorisedIsTracked
  <2> QED
    BY <2>3, <2>4 DEF BookInv
<1>6. CASE /\ active' = Append(active, newActiveRow(c, b))
           /\ \/ open' = open /\ tellFailed(s)
              \/ open' = open \cup {n} /\ tellAuthorised(s)
  <2>1. /\ DOMAIN active' = DOMAIN active \cup {n}
        /\ \A i \in DOMAIN active : active'[i] = active[i]
        /\ active'[n].service = s
    BY <1>6 DEF TypeOK, newActiveRow
  <2>2. \/ /\ open' = open
           /\ told'.failed = told.failed \cup {s}
           /\ told'.authorised = told.authorised
        \/ /\ open' = open \cup {n}
           /\ told'.failed = told.failed
           /\ told'.authorised = told.authorised \cup {s}
    BY <1>6 DEF tellFailed, tellAuthorised, TypeOK
  <2> HIDE DEF s, n
  <2>3. \A x : Tracked(x) => Tracked(x)'
    BY <1>2, <2>1, <2>2 DEF Tracked, ActiveOf
  <2>4. open' # open => Tracked(s)'
    BY <2>1, <2>2 DEF Tracked, ActiveOf
  <2>5. ReferencesHold'
    BY <1>1, <1>2, <1>3, <2>1, <2>2 DEF BookInv, ReferencesHold
  <2>6. AuthorisedOnce'
    BY <1>1, <1>4, <2>1 DEF BookInv, AuthorisedOnce
  <2>7. n \notin open
    BY <1>4 DEF BookInv, ReferencesHold
  <2>8. NoSilentLoss'
    BY <1>1, <1>2, <1>3, <2>2, <2>3, <2>4, <2>7 DEF BookInv, NoSilentLoss
  <2>9. AuthorisedIsTracked'
    BY <1>3, <2>2, <2>3, <2>4, <2>7 DEF BookInv, AuthorisedIsTracked
  <2> QED
    BY <2>5, <2>6, <2>8, <2>9 DEF BookInv
<1> QED
  BY <1>5, <1>6 DEF authoriseMoves

(* updateService keeps BookInv: the column SERVICE is never written. *)
LEMMA UpdateKeepsBook ==
  ASSUME TypeOK, BookInv, NEW c \in Callers, NEW b \in UpdateBodies,
         NEW fault \in Faults, updateService(c, b, fault)
  PROVE  BookInv'
<1>1. \A i \in DOMAIN active : updatedRow(active[i], b).service = active[i].service
  BY DEF TypeOK, ActiveRows, updatedRow
<1>2. /\ DOMAIN active' = DOMAIN active
      /\ \A i \in DOMAIN active : active'[i].service = active[i].service
  BY <1>1 DEF updateService
<1>3. UNCHANGED <<shared, unauthorised, open, closed, told>>
  BY DEF updateService
<1> QED
  BY <1>2, <1>3 DEF BookInv, ReferencesHold, AuthorisedOnce, NoSilentLoss,
                    AuthorisedIsTracked, Tracked, ActiveOf

(* closeService keeps BookInv, although it takes any number. *)
LEMMA CloseKeepsBook ==
  ASSUME TypeOK, BookInv, NEW c \in Callers, NEW b \in CloseBodies,
         NEW fault \in Faults, closeService(c, b, fault)
  PROVE  BookInv'
<1>1. UNCHANGED <<shared, unauthorised, active, told>>
  BY DEF closeService
<1>2. open' \subseteq open /\ open \cup closed \subseteq open' \cup closed'
  BY DEF closeService
<1>3. \A x : Tracked(x) => Tracked(x)'
  BY <1>1, <1>2 DEF Tracked, ActiveOf
<1> QED
  BY <1>1, <1>2, <1>3 DEF BookInv, ReferencesHold, AuthorisedOnce, NoSilentLoss,
                          AuthorisedIsTracked

(* Every step keeps BookInv. *)
LEMMA NextKeepsBook == TypeOK /\ BookInv /\ [Next]_vars => BookInv'
<1> SUFFICES ASSUME TypeOK, BookInv, [Next]_vars PROVE BookInv'
  OBVIOUS
<1>1. ASSUME NEW c \in Callers, NEW fault \in Faults, NEW b \in CreateBodies,
             NEW o \in OwnerAnswers, createRequest(c, b, o, fault)
      PROVE  BookInv'
  BY <1>1, CreateKeepsBook, BookUnchanged DEF createRequest, createRefused, tables
<1>2. ASSUME NEW c \in Callers, NEW fault \in Faults, NEW b \in AuthoriseBodies,
             authoriseRequest(c, b, fault)
      PROVE  BookInv'
  BY <1>2, AuthoriseKeepsBook, BookUnchanged DEF authoriseRequest, authoriseRefused, tables
<1>3. ASSUME NEW c \in Callers, NEW fault \in Faults, NEW b \in AddBodies,
             addPartToService(c, b, fault)
      PROVE  BookInv'
  BY <1>3, BookUnchanged DEF addPartToService
<1>4. ASSUME NEW c \in Callers, NEW fault \in Faults, NEW b \in RemoveBodies,
             removePartFromService(c, b, fault)
      PROVE  BookInv'
  BY <1>4, BookUnchanged DEF removePartFromService
<1>5. CASE Restart
  BY <1>5, BookUnchanged DEF Restart, tables
<1>6. CASE UNCHANGED vars
  BY <1>6, BookUnchanged DEF vars, tables
<1> QED
  BY <1>1, <1>2, <1>3, <1>4, <1>5, <1>6, UpdateKeepsBook, CloseKeepsBook DEF Next

(* The four promises of the service book hold in every reachable state,     *)
(* whichever statements fail and whenever the process stops: references     *)
(* hold, a request is authorised once, none is lost without its caller      *)
(* hearing of it, and what was answered 200 stays open or closed.           *)
THEOREM BookCorrect ==
  Spec => [](ReferencesHold /\ AuthorisedOnce /\ NoSilentLoss /\ AuthorisedIsTracked)
<1>1. Init => BookInv
  BY DEF Init, BookInv, ReferencesHold, AuthorisedOnce, NoSilentLoss,
         AuthorisedIsTracked, Tracked, ActiveOf
<1>2. TypeOK /\ BookInv /\ [Next]_vars => BookInv'
  BY NextKeepsBook
<1>3. BookInv => ReferencesHold /\ AuthorisedOnce /\ NoSilentLoss /\ AuthorisedIsTracked
  BY DEF BookInv
<1> QED
  BY <1>1, <1>2, <1>3, TypeCorrect, PTL DEF Spec

(* No list refers to a row that is not there. *)
THEOREM ReferencesCorrect == Spec => []ReferencesHold
BY BookCorrect, PTL

(* No request has two authorisations, nor one while it waits. *)
THEOREM OnceCorrect == Spec => []AuthorisedOnce
BY BookCorrect, PTL

(* What a manager was told is authorised is open or closed from then on. *)
THEOREM TrackedCorrect == Spec => []AuthorisedIsTracked
BY BookCorrect, PTL

-----------------------------------------------------------------------------
(* The parts of a service. *)

(* Only the two part handlers write PARTSINSERVICE. *)
LEMMA PartSteps ==
  ASSUME [Next]_vars, parts' # parts
  PROVE  \E c \in Callers, fault \in Faults :
           \/ \E b \in AddBodies : addPartToService(c, b, fault)
           \/ \E b \in RemoveBodies : removePartFromService(c, b, fault)
<1>1. ASSUME NEW c, NEW b, NEW o, NEW fault, createRequest(c, b, o, fault)
      PROVE  FALSE
  BY <1>1 DEF createRequest, createRefused, createInserts, tables
<1>2. ASSUME NEW c, NEW b, NEW fault, authoriseRequest(c, b, fault)
      PROVE  FALSE
  BY <1>2 DEF authoriseRequest, authoriseRefused, authoriseMoves, tables
<1>3. ASSUME NEW c, NEW b, NEW fault, updateService(c, b, fault) \/ closeService(c, b, fault)
      PROVE  FALSE
  BY <1>3 DEF updateService, closeService
<1>4. ~ UNCHANGED vars /\ ~ Restart
  BY DEF vars, Restart, tables
<1> QED
  BY <1>1, <1>2, <1>3, <1>4 DEF Next

(* Changing quantities and deleting rows keep the pairs apart. *)
LEMMA AddKeepsOneEntry ==
  ASSUME TypeOK, OneEntryPerPart, NEW c \in Callers, NEW b \in AddBodies,
         NEW fault \in Faults, addPartToService(c, b, fault)
  PROVE  OneEntryPerPart'
<1> DEFINE n == quantityText(b.quantity).sql
<1>1. CASE parts' = parts
  BY <1>1 DEF OneEntryPerPart
<1>2. ASSUME NEW e \in entriesFor(b), parts' = [parts EXCEPT ![e].quantity = @ + n]
      PROVE  OneEntryPerPart'
  <2>1. /\ DOMAIN parts' = DOMAIN parts
        /\ \A d \in DOMAIN parts : /\ parts'[d].part = parts[d].part
                                   /\ parts'[d].service = parts[d].service
    BY <1>2, PartRowTyped DEF PartRows
  <2> QED
    BY <2>1 DEF OneEntryPerPart
<1>3. ASSUME entriesFor(b) = {},
             parts' = insertRow(parts, [part |-> b.partID, service |-> b.serviceID,
                                        quantity |-> n])
      PROVE  OneEntryPerPart'
  BY <1>3 DEF OneEntryPerPart, insertRow, entriesFor
<1> QED
  BY <1>1, <1>2, <1>3 DEF addPartToService, addRefused, addStores

(* removePartFromService makes no entry. *)
LEMMA RemoveKeepsOneEntry ==
  ASSUME TypeOK, OneEntryPerPart, NEW c \in Callers, NEW b \in RemoveBodies,
         NEW fault \in Faults, removePartFromService(c, b, fault)
  PROVE  OneEntryPerPart'
<1> DEFINE n == quantityText(b.quantity).sql
<1>1. CASE parts' = parts
  BY <1>1 DEF OneEntryPerPart
<1>2. CASE parts' = deleteRow(parts, b.entry)
  BY <1>2 DEF OneEntryPerPart, deleteRow
<1>3. ASSUME b.entry \in DOMAIN parts,
             parts' = [parts EXCEPT ![b.entry].quantity = @ - n]
      PROVE  OneEntryPerPart'
  <2>1. /\ DOMAIN parts' = DOMAIN parts
        /\ \A d \in DOMAIN parts : /\ parts'[d].part = parts[d].part
                                   /\ parts'[d].service = parts[d].service
    BY <1>3, PartRowTyped DEF PartRows
  <2> QED
    BY <2>1 DEF OneEntryPerPart
<1> QED
  BY <1>1, <1>2, <1>3 DEF removePartFromService, removeRefused, removeStores

(* So no step brings a second one. *)
LEMMA StepKeepsOneEntry == TypeOK /\ OneEntryPerPart /\ [Next]_vars => OneEntryPerPart'
<1> SUFFICES ASSUME TypeOK, OneEntryPerPart, [Next]_vars PROVE OneEntryPerPart'
  OBVIOUS
<1>1. CASE parts' = parts
  BY <1>1 DEF OneEntryPerPart
<1> QED
  BY <1>1, PartSteps, AddKeepsOneEntry, RemoveKeepsOneEntry

(* A part has one entry in a service, always: addPartToService looks for it *)
(* first, and neither removals nor reused entry IDs bring a second one.     *)
THEOREM OneEntryCorrect == Spec => []OneEntryPerPart
<1>1. Init => OneEntryPerPart
  BY DEF Init, OneEntryPerPart
<1> QED
  BY <1>1, StepKeepsOneEntry, TypeCorrect, PTL DEF Spec

-----------------------------------------------------------------------------
(* With plain texts SQLite adds and subtracts what from_chars has tested. *)
LEMMA PlainReadings ==
  ASSUME PlainQuantities, NEW q \in QuantityFields, quantityText(q).chars > 0
  PROVE  /\ quantityText(q).chars \in Nat
         /\ quantityText(q).sql = quantityText(q).chars
<1>1. quantityText(q) \in QuantityReadings
  BY QuantityTextTyped
<1>2. quantityText(q).chars \in Nat
  BY <1>1 DEF QuantityReadings, NotANumber
<1>3. CASE hasElement(q)
  BY <1>1, <1>2, <1>3 DEF PlainQuantities, quantityText
<1>4. CASE ~hasElement(q)
  BY <1>4 DEF quantityText, OneText
<1> QED
  BY <1>2, <1>3, <1>4

(* What from_chars reads back of a positive quantity is at most it. *)
LEMMA StoredCharsBound ==
  ASSUME NEW n \in 1..MaxQuantity
  PROVE  storedChars(n) \in Int /\ storedChars(n) <= n
<1>1. n \in Nat /\ MaxInteger \in Nat /\ MaxInteger >= 9
  BY ServicesAssumption
<1>2. CASE n \in 0..MaxInteger
  BY <1>1, <1>2 DEF storedChars
<1>3. CASE n \notin 0..MaxInteger
  <2>1. storedChars(n) = LeadingDigit(n)
    BY <1>1, <1>3 DEF storedChars
  <2>2. LeadingDigit(n) \in 1..9
    BY ServicesAssumption
  <2> QED
    BY <1>1, <1>3, <2>1, <2>2
<1> QED
  BY <1>2, <1>3

(* addPartToService adds a positive number. *)
LEMMA AddKeepsPositive ==
  ASSUME TypeOK, PlainQuantities, QuantitiesPositive, NEW c \in Callers,
         NEW b \in AddBodies, NEW fault \in Faults, addPartToService(c, b, fault)
  PROVE  QuantitiesPositive'
<1> DEFINE n == quantityText(b.quantity).sql
<1>1. CASE parts' = parts
  BY <1>1 DEF QuantitiesPositive
<1>2. CASE parts' # parts
  <2>1. n \in Nat /\ n > 0
    BY <1>2, PlainReadings DEF addPartToService, addRefused, addStores, AddBodies
  <2> HIDE DEF n
  <2>2. ASSUME NEW e \in entriesFor(b), parts' = [parts EXCEPT ![e].quantity = @ + n]
        PROVE  QuantitiesPositive'
    BY <2>1, <2>2, PartRowTyped DEF QuantitiesPositive, PartRows, entriesFor
  <2>3. ASSUME parts' = insertRow(parts, [part |-> b.partID, service |-> b.serviceID,
                                          quantity |-> n])
        PROVE  QuantitiesPositive'
    BY <2>1, <2>3 DEF QuantitiesPositive, insertRow
  <2> QED
    BY <1>2, <2>2, <2>3 DEF addPartToService, addRefused, addStores, n
<1> QED
  BY <1>1, <1>2

(* removePartFromService takes away less than there is, or the entry. *)
LEMMA RemoveKeepsPositive ==
  ASSUME TypeOK, PlainQuantities, QuantitiesPositive, NEW c \in Callers,
         NEW b \in RemoveBodies, NEW fault \in Faults, removePartFromService(c, b, fault)
  PROVE  QuantitiesPositive'
<1> DEFINE q == quantityText(b.quantity)
           old == parts[b.entry].quantity
<1>1. CASE parts' = parts
  BY <1>1 DEF QuantitiesPositive
<1>2. CASE parts' = deleteRow(parts, b.entry)
  BY <1>2 DEF QuantitiesPositive, deleteRow
<1>3. ASSUME b.entry \in DOMAIN parts, q.chars > 0, q.chars < storedChars(old),
             parts' = [parts EXCEPT ![b.entry].quantity = @ - q.sql]
      PROVE  QuantitiesPositive'
  <2>1. q.chars \in Nat /\ q.sql = q.chars
    BY <1>3, PlainReadings DEF RemoveBodies
  <2>2. old \in 1..MaxQuantity
    BY <1>3, PartRowTyped, ServicesAssumption DEF QuantitiesPositive
  <2>3. old - q.sql > 0
    <3>1. storedChars(old) \in Int /\ storedChars(old) <= old
      BY <2>2, StoredCharsBound
    <3> QED
      BY <1>3, <2>1, <2>2, <3>1
  <2>4. /\ DOMAIN parts' = DOMAIN parts
        /\ \A d \in DOMAIN parts :
             parts'[d].quantity = IF d = b.entry THEN old - q.sql
                                                 ELSE parts[d].quantity
    BY <1>3, PartRowTyped DEF PartRows
  <2> QED
    BY <2>3, <2>4 DEF QuantitiesPositive
<1> QED
  BY <1>1, <1>2, <1>3 DEF removePartFromService, removeRefused, removeStores

(* So no step leaves one that is not positive. *)
LEMMA StepKeepsPositive ==
  ASSUME PlainQuantities, TypeOK, QuantitiesPositive, [Next]_vars
  PROVE  QuantitiesPositive'
<1>1. CASE parts' = parts
  BY <1>1 DEF QuantitiesPositive
<1> QED
  BY <1>1, PartSteps, AddKeepsPositive, RemoveKeepsPositive

(* Quantities stay positive as long as every quantity text means the same   *)
(* to std::from_chars and to SQLite; past the INTEGER range included.       *)
THEOREM PositiveQuantities == PlainQuantities /\ Spec => []QuantitiesPositive
<1> SUFFICES ASSUME PlainQuantities PROVE Spec => []QuantitiesPositive
  OBVIOUS
<1>1. Init => QuantitiesPositive
  BY DEF Init, QuantitiesPositive
<1>2. TypeOK /\ QuantitiesPositive /\ [Next]_vars => QuantitiesPositive'
  BY StepKeepsPositive
<1> QED
  BY <1>1, <1>2, TypeCorrect, PTL DEF Spec

-----------------------------------------------------------------------------
(* Action properties. *)

(* An answer of 200 or 500, or none, is no refusal. *)
LEMMA AcceptedCode ==
  ASSUME Answer(OK) \/ Broken \/ Die \/ reply' = NoReply
  PROVE  RefusedUnchanged
<1>1. NoReply \notin {400, 403, 404}
  BY MarkerAssumption DEF HTTPCodes, OK, BADREQUEST, FORBIDDEN, NOTFOUND
<1>2. reply' = 200 \/ reply' = 500 \/ reply' = NoReply
  BY DEF Answer, Broken, Die, OK, INTERNALERROR
<1>3. reply' \notin {400, 403, 404}
  BY <1>1, <1>2
<1> QED
  BY <1>3 DEF RefusedUnchanged, BADREQUEST, FORBIDDEN, NOTFOUND

(* A handler that left the tables alone may answer anything. *)
LEMMA SameTables ==
  ASSUME UNCHANGED <<shared, unauthorised, active, open, closed, parts>>
  PROVE  RefusedUnchanged
BY DEF RefusedUnchanged, tables, lifecycle

(* Every handler that refuses has changed nothing. *)
LEMMA StepRefusal == [Next]_vars => [RefusedUnchanged]_vars
<1> SUFFICES ASSUME Next PROVE RefusedUnchanged
  BY DEF vars
<1>1. ASSUME NEW c, NEW b, NEW o, NEW fault, createRequest(c, b, o, fault)
      PROVE  RefusedUnchanged
  <2>1. CASE createRefused(c, b, o, fault)
    BY <2>1, SameTables DEF createRefused, tables, lifecycle
  <2>2. CASE createInserts(c, b, o, fault)
    BY <2>2, AcceptedCode DEF createInserts
  <2> QED
    BY <1>1, <2>1, <2>2 DEF createRequest
<1>2. ASSUME NEW c, NEW b, NEW fault, authoriseRequest(c, b, fault)
      PROVE  RefusedUnchanged
  <2>1. CASE authoriseRefused(c, b, fault)
    BY <2>1, SameTables DEF authoriseRefused, tables, lifecycle
  <2>2. CASE authoriseMoves(c, b, fault)
    BY <2>2, AcceptedCode DEF authoriseMoves
  <2> QED
    BY <1>2, <2>1, <2>2 DEF authoriseRequest
<1>3. ASSUME NEW c, NEW b, NEW fault, updateService(c, b, fault)
      PROVE  RefusedUnchanged
  BY <1>3, SameTables, AcceptedCode DEF updateService
<1>4. ASSUME NEW c, NEW b, NEW fault, closeService(c, b, fault)
      PROVE  RefusedUnchanged
  BY <1>4, SameTables, AcceptedCode DEF closeService
<1>5. ASSUME NEW c, NEW b, NEW fault, addPartToService(c, b, fault)
      PROVE  RefusedUnchanged
  BY <1>5, SameTables, AcceptedCode DEF addPartToService, addRefused, addStores, lifecycle
<1>6. ASSUME NEW c, NEW b, NEW fault, removePartFromService(c, b, fault)
      PROVE  RefusedUnchanged
  BY <1>6, SameTables, AcceptedCode
     DEF removePartFromService, removeRefused, removeStores, lifecycle
<1>7. Restart => RefusedUnchanged
  BY AcceptedCode DEF Restart
<1> QED
  BY <1>1, <1>2, <1>3, <1>4, <1>5, <1>6, <1>7 DEF Next

(* A 400, 403 or 404 means that nothing was changed. *)
THEOREM RefusalsCorrect == Spec => RefusalsChangeNothing
<1>1. [Next]_vars => [RefusedUnchanged]_vars
  BY StepRefusal
<1> QED
  BY <1>1, PTL DEF Spec, RefusalsChangeNothing

(* Every step keeps requests and authorisations. *)
LEMMA StepHistory == TypeOK /\ [Next]_vars => [KeepsHistory]_vars
<1> SUFFICES ASSUME TypeOK, Next PROVE KeepsHistory
  BY DEF vars
<1>1. ASSUME NEW c, NEW b, NEW o, NEW fault, createRequest(c, b, o, fault)
      PROVE  KeepsHistory
  <2>1. shared' = shared \/ shared' = Append(shared, b.VID)
    BY <1>1 DEF createRequest, createRefused, createInserts, tables, lifecycle
  <2>2. \A s \in DOMAIN shared : s \in DOMAIN shared' /\ shared'[s] = shared[s]
    BY <2>1 DEF TypeOK
  <2>3. UNCHANGED <<active, open, closed>>
    BY <1>1 DEF createRequest, createRefused, createInserts, tables, lifecycle
  <2> QED
    BY <2>2, <2>3 DEF KeepsHistory
<1>2. ASSUME NEW c, NEW b, NEW fault, authoriseRequest(c, b, fault)
      PROVE  KeepsHistory
  <2>1. active' = active \/ active' = Append(active, newActiveRow(c, b))
    BY <1>2 DEF authoriseRequest, authoriseRefused, authoriseMoves, tables, lifecycle
  <2>2. \A i \in DOMAIN active : i \in DOMAIN active' /\ active'[i] = active[i]
    BY <2>1 DEF TypeOK
  <2>3. UNCHANGED <<shared, closed>> /\ open \subseteq open'
    BY <1>2 DEF authoriseRequest, authoriseRefused, authoriseMoves, tables, lifecycle
  <2> QED
    BY <2>2, <2>3 DEF KeepsHistory
<1>3. ASSUME NEW c, NEW b, NEW fault, updateService(c, b, fault)
      PROVE  KeepsHistory
  <2>1. \A row \in ActiveRows : \A col \in {"service", "authoriser", "quote"} :
          updatedRow(row, b)[col] = row[col]
    BY DEF ActiveRows, updatedRow
  <2>2. \A i \in DOMAIN active : active[i] \in ActiveRows
    BY DEF TypeOK
  <2>3. /\ DOMAIN active' = DOMAIN active
        /\ \A i \in DOMAIN active :
             active'[i] = active[i] \/ active'[i] = updatedRow(active[i], b)
    BY <1>3 DEF updateService
  <2>4. \A i \in DOMAIN active : \A col \in {"service", "authoriser", "quote"} :
          active'[i][col] = active[i][col]
    BY <2>1, <2>2, <2>3
  <2>5. UNCHANGED <<shared, open, closed>>
    BY <1>3 DEF updateService
  <2> QED
    BY <2>3, <2>4, <2>5 DEF KeepsHistory
<1>4. ASSUME NEW c, NEW b, NEW fault, closeService(c, b, fault)
      PROVE  KeepsHistory
  BY <1>4 DEF closeService, KeepsHistory
<1>5. ASSUME UNCHANGED lifecycle
      PROVE  KeepsHistory
  BY <1>5 DEF lifecycle, KeepsHistory
<1> QED
  BY <1>1, <1>2, <1>3, <1>4, <1>5
     DEF Next, addPartToService, removePartFromService, Restart, tables

(* Nothing the server does rewrites a request or an authorisation, and an   *)
(* open service only leaves OPENSERVICES into CLOSEDSERVICES.               *)
THEOREM HistoryCorrect == Spec => HistoryKept
<1>1. TypeOK /\ [Next]_vars => [KeepsHistory]_vars
  BY StepHistory
<1> QED
  BY <1>1, TypeCorrect, PTL DEF Spec, HistoryKept

-----------------------------------------------------------------------------
(* Services implements ServiceLifecycle: every step of the handlers, also   *)
(* one that stops between two statements, moves at most one service one     *)
(* stage forward.  The invariants above are what makes the mapping work: a  *)
(* service has at most one ACTIVESERVICEDATA row, and none while it waits.  *)

(* The status of all services, as ServiceLifecycle sees it. *)
Status == [s \in 1..MaxServices |-> statusOf(s)]

(* A service that keeps its place in all lists keeps its status. *)
LEMMA SameStatus ==
  ASSUME NEW x,
         x \in DOMAIN shared' <=> x \in DOMAIN shared,
         x \in unauthorised' <=> x \in unauthorised,
         ActiveOf(x)' \cap open' = ActiveOf(x) \cap open,
         ActiveOf(x)' \cap closed' = ActiveOf(x) \cap closed
  PROVE  statusOf(x)' = statusOf(x)
BY DEF statusOf

(* A step that changes the status of one service is that service's move. *)
LEMMA OneMoves ==
  ASSUME NEW s \in 1..MaxServices, NEW from, NEW to,
         statusOf(s) \in from, statusOf(s)' = to,
         \A x \in 1..MaxServices \ {s} : statusOf(x)' = statusOf(x)
  PROVE  Lifecycle!move(s, from, to)
<1>1. Status[s] \in from
  BY DEF Status
<1>2. Status' = [Status EXCEPT ![s] = to]
  BY DEF Status
<1> QED
  BY <1>1, <1>2 DEF Lifecycle!move, Status

(* A step that leaves every status alone is a stutter. *)
LEMMA NoneMoves ==
  ASSUME \A x \in 1..MaxServices : statusOf(x)' = statusOf(x)
  PROVE  Status' = Status
BY DEF Status

(* A step that leaves the five lists alone is a stutter. *)
LEMMA ListsUnchanged ==
  ASSUME UNCHANGED lifecycle
  PROVE  Status' = Status
BY NoneMoves, SameStatus DEF lifecycle, ActiveOf

(* Numbers of requests are numbers of ServiceLifecycle. *)
LEMMA SharedIds ==
  ASSUME TypeOK
  PROVE  DOMAIN shared \subseteq 1..MaxServices
BY ServicesAssumption DEF TypeOK

(* createRequest requests the next service or loses it. *)
LEMMA CreateMoves ==
  ASSUME TypeOK, BookInv, NEW c \in Callers, NEW b \in CreateBodies,
         NEW o \in OwnerAnswers, NEW fault \in Faults, createInserts(c, b, o, fault)
  PROVE  Lifecycle!Next \/ Status' = Status
<1>0. PICK s : s = Len(shared) + 1
  OBVIOUS
<1>1. s \in 1..MaxServices /\ s \notin DOMAIN shared
  BY <1>0, ServicesAssumption DEF TypeOK, createInserts
<1>2. UNCHANGED <<active, open, closed>>
  BY DEF createInserts
<1>3. CASE shared' = shared /\ unauthorised' = unauthorised
  BY <1>2, <1>3, ListsUnchanged DEF lifecycle
<1>4. CASE /\ shared' = Append(shared, b.VID)
           /\ unauthorised' \in {unauthorised, unauthorised \cup {s}}
  <2>1. DOMAIN shared' = DOMAIN shared \cup {s}
    BY <1>0, <1>4 DEF TypeOK
  <2>2. \A x \in 1..MaxServices \ {s} : statusOf(x)' = statusOf(x)
    BY <1>2, <1>4, <2>1, SameStatus DEF ActiveOf
  <2>3. statusOf(s) = "none"
    BY <1>1 DEF statusOf
  <2>4. s \notin unauthorised /\ ActiveOf(s)' = {}
    BY <1>1, <1>2 DEF BookInv, ReferencesHold, ActiveOf
  <2>5. CASE unauthorised' = unauthorised
    <3>1. statusOf(s)' = "lost"
      BY <2>1, <2>4, <2>5 DEF statusOf
    <3>2. Lifecycle!Lose(s)
      BY <1>1, <2>2, <2>3, <3>1, OneMoves DEF Lifecycle!Lose
    <3> QED
      BY <1>1, <3>2 DEF Lifecycle!Next
  <2>6. CASE unauthorised' = unauthorised \cup {s}
    <3>1. statusOf(s)' = "unauthorised"
      BY <2>1, <2>6 DEF statusOf
    <3>2. Lifecycle!Request(s)
      BY <1>1, <2>2, <2>3, <3>1, OneMoves DEF Lifecycle!Request
    <3> QED
      BY <1>1, <3>2 DEF Lifecycle!Next
  <2> QED
    BY <1>4, <2>5, <2>6
<1> QED
  BY <1>0, <1>3, <1>4 DEF createInserts

(* authoriseRequest authorises a waiting service or loses it; it may count  *)
(* as closed when its number was closed before.                             *)
LEMMA AuthoriseMoves ==
  ASSUME TypeOK, BookInv, NEW c \in Callers, NEW b \in AuthoriseBodies,
         NEW fault \in Faults, authoriseMoves(c, b, fault)
  PROVE  Lifecycle!Next
<1> DEFINE s == b.ID
           n == Len(active) + 1
<1>1. s \in unauthorised /\ unauthorised' = unauthorised \ {s}
  BY DEF authoriseMoves
<1>2. s \in DOMAIN shared /\ s \in 1..MaxServices /\ ActiveOf(s) = {}
  BY <1>1, SharedIds DEF BookInv, ReferencesHold, AuthorisedOnce, ActiveOf
<1>3. UNCHANGED <<shared, closed>>
  BY DEF authoriseMoves
<1>4. statusOf(s) = "unauthorised"
  BY <1>1, <1>2 DEF statusOf
<1>5. n \notin DOMAIN active /\ n \notin open
  BY DEF TypeOK, BookInv, ReferencesHold
<1>6. CASE active' = active /\ open' = open
  <2> HIDE DEF s, n
  <2>1. \A x \in 1..MaxServices \ {s} : statusOf(x)' = statusOf(x)
    BY <1>1, <1>3, <1>6, SameStatus DEF ActiveOf
  <2>2. ActiveOf(s)' = {}
    BY <1>2, <1>6 DEF ActiveOf
  <2>3. statusOf(s)' = "lost"
    BY <1>1, <1>2, <1>3, <2>2 DEF statusOf
  <2>4. Lifecycle!Lose(s)
    BY <1>2, <1>4, <2>1, <2>3, OneMoves DEF Lifecycle!Lose
  <2> QED
    BY <1>2, <2>4 DEF Lifecycle!Next
<1>7. CASE /\ active' = Append(active, newActiveRow(c, b))
           /\ open' \in {open, open \cup {n}}
  <2>1. /\ DOMAIN active' = DOMAIN active \cup {n}
        /\ \A i \in DOMAIN active : active'[i] = active[i]
        /\ active'[n].service = s
    BY <1>7 DEF TypeOK, newActiveRow
  <2> HIDE DEF s, n
  <2>2. \A x : ActiveOf(x)' = IF x = s THEN {n} ELSE ActiveOf(x)
    <3> TAKE x
    <3>1. ActiveOf(x)' = {i \in DOMAIN active \cup {n} : active'[i].service = x}
      BY <2>1 DEF ActiveOf
    <3>2. CASE x = s
      BY <1>2, <2>1, <3>1, <3>2 DEF ActiveOf
    <3>3. CASE x # s
      BY <2>1, <3>1, <3>3 DEF ActiveOf
    <3> QED
      BY <3>2, <3>3
  <2>3. \A x \in 1..MaxServices \ {s} : statusOf(x)' = statusOf(x)
    <3> TAKE x \in 1..MaxServices \ {s}
    <3>1. ActiveOf(x)' = ActiveOf(x) /\ n \notin ActiveOf(x)
      BY <1>5, <2>2 DEF ActiveOf
    <3> QED
      BY <1>1, <1>3, <1>7, <3>1, SameStatus
  <2>4. s \in DOMAIN shared' /\ s \notin unauthorised' /\ ActiveOf(s)' = {n}
    BY <1>1, <1>2, <1>3, <2>2
  <2>5. CASE open' = open \cup {n}
    <3>1. statusOf(s)' = "open"
      BY <2>4, <2>5 DEF statusOf
    <3>2. Lifecycle!Authorise(s)
      BY <1>2, <1>4, <2>3, <3>1, OneMoves DEF Lifecycle!Authorise
    <3> QED
      BY <1>2, <3>2 DEF Lifecycle!Next
  <2>6. CASE open' = open
    <3>1. CASE n \in closed
      <4>1. statusOf(s)' = "closed"
        BY <1>3, <1>5, <2>4, <2>6, <3>1 DEF statusOf
      <4>2. Lifecycle!Skip(s)
        BY <1>2, <1>4, <2>3, <4>1, OneMoves DEF Lifecycle!Skip
      <4> QED
        BY <1>2, <4>2 DEF Lifecycle!Next
    <3>2. CASE n \notin closed
      <4>1. statusOf(s)' = "lost"
        BY <1>3, <1>5, <2>4, <2>6, <3>2 DEF statusOf
      <4>2. Lifecycle!Lose(s)
        BY <1>2, <1>4, <2>3, <4>1, OneMoves DEF Lifecycle!Lose
      <4> QED
        BY <1>2, <4>2 DEF Lifecycle!Next
    <3> QED
      BY <3>1, <3>2
  <2> QED
    BY <1>7, <2>5, <2>6
<1> QED
  BY <1>6, <1>7 DEF authoriseMoves

(* updateService moves no service. *)
LEMMA UpdateStutters ==
  ASSUME TypeOK, NEW c \in Callers, NEW b \in UpdateBodies,
         NEW fault \in Faults, updateService(c, b, fault)
  PROVE  Status' = Status
<1>1. DOMAIN active' = DOMAIN active
  BY DEF updateService
<1>2. \A i \in DOMAIN active : active'[i].service = active[i].service
  <2>1. \A i \in DOMAIN active : updatedRow(active[i], b).service = active[i].service
    BY DEF updatedRow, TypeOK, ActiveRows
  <2> QED
    BY <2>1 DEF updateService
<1>3. \A x : ActiveOf(x)' = ActiveOf(x)
  BY <1>1, <1>2 DEF ActiveOf
<1> QED
  BY <1>3, NoneMoves, SameStatus DEF updateService

(* closeService closes the service its number stands for, if there is one   *)
(* and the row is taken from the open list.                                 *)
LEMMA CloseMoves ==
  ASSUME TypeOK, BookInv, NEW c \in Callers, NEW b \in CloseBodies,
         NEW fault \in Faults, closeService(c, b, fault)
  PROVE  Lifecycle!Next \/ Status' = Status
<1> DEFINE i == b.ID
<1>1. UNCHANGED <<shared, unauthorised, active>>
  BY DEF closeService
<1>2. \A x : ActiveOf(x)' = ActiveOf(x)
  BY <1>1 DEF ActiveOf
<1>3. CASE open' = open /\ closed' = closed
  BY <1>1, <1>3, ListsUnchanged DEF lifecycle
<1>4. CASE /\ i \notin closed /\ closed' = closed \cup {i}
           /\ open' \in {open, open \ {i}}
  <2> HIDE DEF i
  <2>1. \A x : i \notin ActiveOf(x) => statusOf(x)' = statusOf(x)
    BY <1>1, <1>2, <1>4, SameStatus
  <2>2. CASE i \notin DOMAIN active
    BY <2>1, <2>2, NoneMoves DEF ActiveOf
  <2>3. CASE i \in DOMAIN active
    <3>0. PICK s : s = active[i].service
      OBVIOUS
    <3>1. s \in DOMAIN shared /\ s \notin unauthorised /\ s \in 1..MaxServices
      BY <2>3, <3>0, SharedIds DEF BookInv, ReferencesHold, AuthorisedOnce
    <3>2. ActiveOf(s) = {i}
      BY <2>3, <3>0 DEF BookInv, AuthorisedOnce, ActiveOf
    <3>3. \A x \in 1..MaxServices \ {s} : i \notin ActiveOf(x)
      BY <3>0 DEF ActiveOf
    <3>4. \A x \in 1..MaxServices \ {s} : statusOf(x)' = statusOf(x)
      BY <2>1, <3>3
    <3>5. ActiveOf(s)' = {i}
      BY <1>2, <3>2
    <3>6. CASE i \in open /\ open' = open
      <4>1. statusOf(s)' = statusOf(s)
        BY <1>1, <3>1, <3>2, <3>5, <3>6 DEF statusOf
      <4> QED
        BY <3>4, <4>1, NoneMoves
    <3>7. CASE i \notin open \/ open' = open \ {i}
      <4>1. statusOf(s) \in {"open", "lost"}
        BY <1>4, <3>1, <3>2 DEF statusOf
      <4>2. i \notin open' /\ i \in closed'
        BY <1>4, <3>7
      <4>3. statusOf(s)' = "closed"
        BY <1>1, <3>1, <3>5, <4>2 DEF statusOf
      <4>4. Lifecycle!Close(s)
        BY <3>1, <3>4, <4>1, <4>3, OneMoves DEF Lifecycle!Close
      <4> QED
        BY <3>1, <4>4 DEF Lifecycle!Next
    <3> QED
      BY <1>4, <3>6, <3>7
  <2> QED
    BY <2>2, <2>3
<1> QED
  BY <1>3, <1>4 DEF closeService

(* Every step of the server is a step of ServiceLifecycle or a stutter. *)
LEMMA StepMoves ==
  TypeOK /\ BookInv /\ [Next]_vars => Lifecycle!Next \/ Status' = Status
<1> SUFFICES ASSUME TypeOK, BookInv, [Next]_vars
             PROVE  Lifecycle!Next \/ Status' = Status
  OBVIOUS
<1>1. ASSUME NEW c \in Callers, NEW fault \in Faults, NEW b \in CreateBodies,
             NEW o \in OwnerAnswers, createRequest(c, b, o, fault)
      PROVE  Lifecycle!Next \/ Status' = Status
  BY <1>1, CreateMoves, ListsUnchanged DEF createRequest, createRefused, tables
<1>2. ASSUME NEW c \in Callers, NEW fault \in Faults, NEW b \in AuthoriseBodies,
             authoriseRequest(c, b, fault)
      PROVE  Lifecycle!Next \/ Status' = Status
  BY <1>2, AuthoriseMoves, ListsUnchanged DEF authoriseRequest, authoriseRefused, tables
<1>3. ASSUME NEW c \in Callers, NEW fault \in Faults, NEW b \in UpdateBodies,
             updateService(c, b, fault)
      PROVE  Status' = Status
  BY <1>3, UpdateStutters
<1>4. ASSUME NEW c \in Callers, NEW fault \in Faults, NEW b \in CloseBodies,
             closeService(c, b, fault)
      PROVE  Lifecycle!Next \/ Status' = Status
  BY <1>4, CloseMoves
<1>5. ASSUME NEW c \in Callers, NEW fault \in Faults,
             \/ \E b \in AddBodies : addPartToService(c, b, fault)
             \/ \E b \in RemoveBodies : removePartFromService(c, b, fault)
      PROVE  Status' = Status
  BY <1>5, ListsUnchanged DEF addPartToService, removePartFromService
<1>6. CASE Restart \/ UNCHANGED vars
  BY <1>6, ListsUnchanged DEF Restart, vars, tables
<1> QED
  BY <1>1, <1>2, <1>3, <1>4, <1>5, <1>6 DEF Next

(* No service has a status before the first request. *)
LEMMA InitMaps == Init => Lifecycle!Init
<1> SUFFICES ASSUME Init PROVE Lifecycle!Init
  OBVIOUS
<1>1. \A s \in 1..MaxServices : statusOf(s) = "none"
  BY DEF Init, statusOf
<1> QED
  BY <1>1 DEF Lifecycle!Init

(* The handlers of Services.h implement ServiceLifecycle, whatever fails    *)
(* and however often the server is restarted.                               *)
THEOREM LifecycleImplemented == Spec => ImplementsLifecycle
<1>1. Init => Lifecycle!Init
  BY InitMaps
<1>2. TypeOK /\ BookInv /\ [Next]_vars => [Lifecycle!Next]_Status
  BY StepMoves
<1>3. Spec => []BookInv
  BY BookCorrect, PTL DEF BookInv
<1>4. Spec => []TypeOK
  BY TypeCorrect
<1>5. [Lifecycle!Next]_Status <=> [Lifecycle!Next]_[s \in 1..MaxServices |-> statusOf(s)]
  BY DEF Status
<1> QED
  BY <1>1, <1>2, <1>3, <1>4, <1>5, PTL DEF Spec, ImplementsLifecycle, Lifecycle!Spec
=============================================================================
