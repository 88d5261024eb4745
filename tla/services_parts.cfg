SPECIFICATION Spec
CONSTANTS
  Absent = Absent
  Empty = Empty
  NoSession = NoSession
  NoReply = NoReply
  NoRow = NoRow
  Junk = Junk
  Words = Words
  QuoteWord = QuoteWord
  P1 = P1
  P2 = P2
  P3 = P3
  Callers <- EveryKind
  OwnerAnswers <- OwnerFound
  VIDFields = {Junk, Empty}
  TextFields = {Words, Absent}
  NoteFields = {QuoteWord, Junk, Absent}
  IDFields = {1, Absent}
  ServiceFields = {1}
  PartFields = {P1, P2, Empty}
  EntryFields = {1, 2, Empty}
  QuantityFields <- PlainTexts
  ColumnOf <- QuoteColumns
  Faults = {0, 1, 2, 3, 4}
  MaxInteger = 9
  LeadingDigit <- FirstDigit
  MaxServices = 1
  MaxEntries = 2
  MaxQuantity = 10
INVARIANTS
  OneEntryPerPart
  QuantitiesPositive
PROPERTIES
  RefusalsChangeNothing
  HistoryKept
VIEW StateView
