SPECIFICATION Safety
CONSTANTS
  Absent = Absent
  Unset = Unset
  Specs <- InvalidHPAOrKEDA
  Lagging = {"gateway", "hpa"}
  Neighbours = {}
  InitialKEDA = {TRUE}
  AutoscaledReplicas = {}
  DisturbanceKinds = {"crash", "apiError"}
  Deletable = {}
  MaxDisturbances = 1
  MaxEdits = 2
  MaxUid = 1
INVARIANTS QuiescentConverged WorkProtocol ObservedGenerationIsHonest VersionsInOrder
PROPERTIES ObservedGenerationAdvances
CHECK_DEADLOCK FALSE
