SPECIFICATION Spec
CONSTANTS
  Absent = Absent
  Empty = Empty
  NoSession = NoSession
  NoReply = NoReply
  NoRow = NoRow
  Junk = Junk
  Words = Words
  QuoteWord = QuoteWord
  P1 = P1
  P2 = P2
  P3 = P3
  Callers <- OwnerAndManager
  OwnerAnswers <- OwnerFound
  VIDFields = {1}
  TextFields = {Words, Absent}
  NoteFields = {Absent}
  IDFields = {1, 2, 3, Absent}
  ServiceFields = {}
  PartFields = {}
  EntryFields = {}
  QuantityFields = {}
  ColumnOf <- NoColumns
  Faults = {0, 1, 2, 3, 4}
  MaxInteger = 9
  LeadingDigit <- FirstDigit
  MaxServices = 3
  MaxEntries = 0
  MaxQuantity = 0
INVARIANTS
  TypeOK
  ReferencesHold
  AuthorisedOnce
  NoSilentLoss
  AuthorisedIsTracked
PROPERTIES
  ImplementsLifecycle
