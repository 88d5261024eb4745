SPECIFICATION Spec
CONSTANTS
  Absent = Absent
  Empty = Empty
  NoSession = NoSession
  NoReply = NoReply
  NoCookie = NoCookie
  NoRow = NoRow
  B1 = B1
  B2 = B2
  PlateA = PlateA
  PlateB = PlateB
  Model = Model
  Words = Words
  Browsers = {B1, B2}
  S1 = S1
  S2 = S2
  Sids = {S1, S2}
  AdminWord = "ADMIN"
  Names = {"ANN"}
  Levels = {0}
  Passwords <- Usable
  NewNames = {"ANN"}
  PermissionsFields = {Absent}
  PlateFields = {PlateA, PlateB}
  OwnerFields = {0, 1}
  ModelFields = {Model}
  VIDs = {1}
  PartNumbers = {1}
  Unpriceable = {1}
  UIDFields = {1, Absent}
  Lists <- AllLists
  Faults = {0, 1}
  LevelLimit = 4
  MaxInteger = 9
  LeadingDigit <- FirstDigit
  MaxUsers = 1
  MaxVehicles = 1
  MaxServices = 2
  MaxEntries = 1
  MaxQuantity = 1
  MaxDeletions = 1
INVARIANTS
  AllWaitingListed
VIEW StateView
SYMMETRY BrowserSymmetry
