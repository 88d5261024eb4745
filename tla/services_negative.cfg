SPECIFICATION Spec
CONSTANTS
  Absent = Absent
  Empty = Empty
  NoSession = NoSession
  NoReply = NoReply
  NoRow = NoRow
  Junk = Junk
  Words = Words
  QuoteWord = QuoteWord
  P1 = P1
  P2 = P2
  P3 = P3
  Callers <- PartCallers
  OwnerAnswers = {}
  VIDFields = {1}
  TextFields = {Words, Absent}
  NoteFields = {Absent}
  IDFields = {}
  ServiceFields = {1}
  PartFields = {P1}
  EntryFields = {1}
  QuantityFields <- ExponentTexts
  ColumnOf <- NoColumns
  Faults = {0}
  MaxInteger = 99
  LeadingDigit <- FirstDigit
  MaxServices = 0
  MaxEntries = 1
  MaxQuantity = 6
INVARIANTS
  QuantitiesPositive
