SPECIFICATION AccountsSpec
CONSTANTS
  u1 = u1  u2 = u2
  Tables = {}
  Nothing = Nothing
  Absent = Absent
  Users = {u1, u2}
  Roles = {"admin", "clerk"}
  Admin = "admin"
  MaxRequests = 2
INVARIANT UsersHaveRoles
CHECK_DEADLOCK FALSE
