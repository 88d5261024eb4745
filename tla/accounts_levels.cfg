SPECIFICATION Spec
CONSTANTS
  Absent = Absent
  Empty = Empty
  NoSession = NoSession
  NoReply = NoReply
  B1 = B1
  B2 = B2
  S1 = S1
  S2 = S2
  Browsers = {B1}
  Sids = {S1}
  NoCookie = NoCookie
  AdminWord = "ADMIN"
  NameFields <- TwoNames
  PasswordFields <- TwoPasswords
  PermissionFields = {Absent}
  PermissionsFields <- RaisedLevels
  IDFields = {0, 1}
  ColumnOf <- PasswordColumns
  Deliveries = {TRUE, FALSE}
  Faults = {0}
  LevelLimit = 6
  MaxUsers = 1
PROPERTIES
  UpgradesWithinLevel
