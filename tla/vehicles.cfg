SPECIFICATION Spec
CONSTANTS
  Absent = Absent
  Empty = Empty
  NoSession = NoSession
  NoReply = NoReply
  PlateA = PlateA
  PlateB = PlateB
  ColourWord = ColourWord
  M1 = M1
  M2 = M2
  Callers <- EveryKind
  PlateFields = {PlateA, PlateB, ColourWord, Empty}
  ModelFields = {M1, M2}
  OwnerFields = {1, 2, Empty}
  YearFields = {1999}
  ColourFields = {PlateA, Absent}
  IDFields = {1, 2, Absent}
  ColumnOf <- ColourColumn
  Faults = {0, 1, 2}
  MaxModels = 2
  MaxVehicles = 2
INVARIANTS
  TypeOK
  ModelsHold
  PlatesUnique
PROPERTIES
  DetailsFixed
