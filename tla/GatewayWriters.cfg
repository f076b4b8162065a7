SPECIFICATION Safety
CONSTANTS
  Absent = Absent
  Unset = Unset
  Specs <- PlainOrHPA
  Lagging = {"gateway", "deployment", "clusterRoleBinding"}
  Neighbours = {"neighbour"}
  InitialKEDA = {TRUE}
  AutoscaledReplicas = {2}
  DisturbanceKinds = {"scale", "crash", "neighbour"}
  Deletable = {}
  MaxDisturbances = 2
  MaxEdits = 2
  MaxUid = 1
INVARIANTS QuiescentConverged
PROPERTIES NeighboursKeepGrants ReplicasPreserved
CHECK_DEADLOCK FALSE
