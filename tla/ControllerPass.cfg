SPECIFICATION Safety
CONSTANTS
  n1 = n1
  n2 = n2
  Absent = Absent
  Unset = Unset
  Instances <- OneInstance
  Specs <- EditedSpecs
  CreatedSpecs <- OnlyDefault
  CRDs <- TwoCRDs
  Lagging <- LaggingBindings
  DisturbanceKinds = {"crash", "edit", "recreate", "apiError", "namespaceError", "installCRD", "deleteBinding", "terminate"}
  MaxDisturbances = 2
INVARIANTS TypeOK FinalizerProtocol AtRestConverged WorkProtocol AtRestDeletionsAreDone
PROPERTIES GrantsOnlyProtected RevokedBeforeRemoved
CHECK_DEADLOCK FALSE
