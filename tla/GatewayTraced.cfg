SPECIFICATION SpecWithResync
CONSTANTS
  Absent = Absent
  Unset = Unset
  Specs <- OnlyTraced
  Lagging = {}
  Neighbours = {}
  InitialKEDA = {FALSE}
  AutoscaledReplicas = {}
  DisturbanceKinds = {}
  Deletable = {}
  MaxDisturbances = 0
  MaxEdits = 1
  MaxUid = 1
PROPERTIES EventuallyConverged
CHECK_DEADLOCK FALSE
