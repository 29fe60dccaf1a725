SPECIFICATION MCSpec
CONSTANTS
  one = one  two = two
  A = A  B = B
  Tables = {A, B}
  Nothing = Nothing
  Sources = {one, two}
  LiveTables = {"orders", "users"}
  Sqls = {"q1"}
  ColumnsOf <- MCColumnsOf
  PkOf <- MCPkOf
  MaxReading = 2
  MaxValidations = 1
  This = "this"
  Others = {"users", "links"}
  Stored <- MCStored
  ColumnNames <- MCColumnNames
  Refers <- MCRefers
  MaxEdits = 7
  Hooks = {"h1", "h2"}
  Configs = {"none", "c"}
  NoConfig = "none"
  NoJson = "text"
  MaxEntries = 3
  Users = {one, two}
  Roles = {"admin", "clerk"}
  Admin = "admin"
  Absent = Absent
  MaxRequests = 2
  Defs = {one, two}
  Rights = {"read"}
  MaxRoleWrites = 1
  Refs = {"o", "u"}
  Files <- MCFiles
  MaxIds = 3
  Requests = {one, two}
  MaxItems = 3
  MaxFaults = 1
  Managers = {one, two}
  DsNames = {"main", "copy"}
  Passwords = {"p"}
  NoPassword = ""
  MaxSources = 2
  MaxDsWrites = 3
  Csvs = {"f", "g"}
  RowsIn <- MCRowsIn
  Groups = {one, two}
  NoGroup = NoGroup
  NoTable = NoTable
  MaxRegroups = 2
INVARIANTS
  ConsoleTypeOK
  SavedAsInspected
  ChoicesAccepted
  ActionIdsUnique
  InputsTellTruth
  AdminRemains
  AppliedWasPreviewed
  MoveSwapsNeighbours
  NewItemComesLast
  PasswordsKept
  LoadReportHolds
  TablesUnderTheirGroups
PROPERTIES
  UntouchedGrantsStay
  ImportedReferencesResolve
SYMMETRY MCSymmetry
CHECK_DEADLOCK FALSE
