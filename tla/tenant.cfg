SPECIFICATION FairSpec
CONSTANTS
  Redises = {r}
  Labelled = {r}
  Tenant = t
  Children = {}
  Absent = Absent
  UserOps = {"create", "delete", "deleteForeground", "createTenant", "deleteTenant", "pause"}
  MaxEdits = 4
  MaxFaults = 1
  Breaks = {"Redis", "Tenant"}
  MaxLag = 1
INVARIANT RTypeOK
PROPERTIES FinalizerHolds ActiveAreCounted TenantGoes ComesToRest
CHECK_DEADLOCK FALSE
