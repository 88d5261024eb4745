SPECIFICATION Spec
CONSTANTS
  Absent = Absent
  Empty = Empty
  NoSession = NoSession
  NoReply = NoReply
  B1 = B1
  B2 = B2
  S1 = S1
  S2 = S2
  Browsers = {B1, B2}
  Sids = {S1, S2}
  NoCookie = NoCookie
  AdminWord = "ADMIN"
  NameFields <- NamesOrEmpty
  PasswordFields <- TwoOrEmpty
  PermissionFields <- SomeLevels
  PermissionsFields <- StoredLevels
  IDFields = {0, 1, Empty}
  ColumnOf <- PasswordColumns
  Deliveries = {TRUE}
  Faults = {0, 1, 2}
  LevelLimit = 6
  MaxUsers = 1
INVARIANTS
  TypeOK
  NamesUnique
  NoOrphanSessions
  LevelsAccountedFor
PROPERTIES
  SessionsKept
  AccountsProtected
VIEW StateView
SYMMETRY BrowserSymmetry
