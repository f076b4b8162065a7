SPECIFICATION Safety
CONSTANTS
  n1 = n1
  n2 = n2
  Absent = Absent
  Unset = Unset
  Instances <- TwoNamespaces
  Specs <- RenamedSpecs
  CreatedSpecs <- OnlyDefault
  CRDs <- OneCRD
  Lagging <- LaggingBindings
  DisturbanceKinds = {"crash", "edit"}
  MaxDisturbances = 1
SYMMETRY Namespaces
INVARIANTS AtRestConverged
PROPERTIES OthersKeepGrants
CHECK_DEADLOCK FALSE
