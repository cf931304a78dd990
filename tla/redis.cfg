SPECIFICATION FairSpec
CONSTANTS
  Redises = {r}
  Labelled = {}
  Tenant = t
  Children = {"StatefulSet", "Service"}
  Absent = Absent
  UserOps = {"create", "delete", "image", "deleteChild"}
  MaxEdits = 3
  MaxFaults = 1
  Breaks = {"StatefulSet"}
  MaxLag = 1
PROPERTIES OwnersNeverGoBack Converges ComesToRest
CHECK_DEADLOCK FALSE
