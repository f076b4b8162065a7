SPECIFICATION Spec
CONSTANTS
  Absent = Absent
  Unset = Unset
  Specs <- OnlyPlain
  Lagging = {"gateway"}
  Neighbours = {}
  InitialKEDA = {FALSE}
  AutoscaledReplicas = {}
  DisturbanceKinds = {"crash"}
  Deletable = {}
  MaxDisturbances = 1
  MaxEdits = 0
  MaxUid = 1
PROPERTIES DeletionCompletes
CHECK_DEADLOCK FALSE
