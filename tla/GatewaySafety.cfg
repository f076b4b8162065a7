SPECIFICATION Spec
CONSTANTS
  Absent = Absent
  Unset = Unset
  Specs <- PlainOrTraced
  Lagging = {"gateway", "clusterRoleBinding"}
  Neighbours = {"neighbour"}
  InitialKEDA = {FALSE}
  AutoscaledReplicas = {}
  DisturbanceKinds = {"crash", "externalDelete", "neighbour"}
  Deletable = {"clusterRoleBinding"}
  MaxDisturbances = 1
  MaxEdits = 0
  MaxUid = 2
INVARIANTS TypeOK FinalizerProtocol SubjectHasFinalizer
PROPERTIES ChildrenOfTheLiving ImplementsLifecycle DeletionCompletesOnceBound
CHECK_DEADLOCK FALSE
