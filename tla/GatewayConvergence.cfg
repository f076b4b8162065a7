SPECIFICATION SpecWithResync
CONSTANTS
  Absent = Absent
  Unset = Unset
  Specs <- PlainNoRbacOrKEDA
  Lagging = {"gateway"}
  Neighbours = {}
  InitialKEDA = {FALSE}
  AutoscaledReplicas = {}
  DisturbanceKinds = {"installKEDA", "namespaceError", "externalDelete", "terminate"}
  Deletable = {"clusterRole"}
  MaxDisturbances = 1
  MaxEdits = 0
  MaxUid = 2
PROPERTIES EventuallyConverged
CHECK_DEADLOCK FALSE
