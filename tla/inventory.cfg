SPECIFICATION Spec
CONSTANTS
  Absent = Absent
  Empty = Empty
  NoSession = NoSession
  NoReply = NoReply
  A = A
  PhoneWord = PhoneWord
  PriceWord = PriceWord
  Price = Price
  Callers <- TwoCallers
  NameFields = {A, Absent}
  RenameFields = {PhoneWord, PriceWord, Empty}
  PhoneFields = {A, Absent}
  EmailFields = {Absent}
  SupplierFields = {1}
  ChangeFields = {2, Absent}
  PriceFields = {Price, Empty}
  GroupFields = {1, Absent}
  IDFields = {1, 2, Absent}
  NullText = NullText
  ColumnOf <- WordColumns
  Faults = {0, 1, 2}
  MaxRows = 2
INVARIANTS
  TypeOK
  NamesIdentify
PROPERTIES
  ListedStaysListed
VIEW StateView
