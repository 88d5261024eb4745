SPECIFICATION Spec
CONSTANTS
  Absent = Absent
  Empty = Empty
  NoSession = NoSession
  NoReply = NoReply
  NoRow = NoRow
  Junk = Junk
  Words = Words
  QuoteWord = QuoteWord
  P1 = P1
  P2 = P2
  P3 = P3
  Callers <- OwnerAndManager
  OwnerAnswers <- OwnerFound
  VIDFields = {1}
  TextFields = {Words}
  NoteFields = {Absent}
  IDFields = {1, 2}
  ServiceFields = {}
  PartFields = {}
  EntryFields = {}
  QuantityFields = {}
  ColumnOf <- NoColumns
  Faults = {0}
  MaxInteger = 9
  LeadingDigit <- FirstDigit
  MaxServices = 2
  MaxEntries = 0
  MaxQuantity = 0
PROPERTIES
  CloseActsOnNamedService
