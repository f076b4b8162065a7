SPECIFICATION Spec
CONSTANTS
  Absent = Absent
  Unset = Unset
  DefaultGateway <- SampleGateway
  DefaultController <- SampleController
  Parts <- AllParts
INVARIANTS TypeOK VerdictMatchesRules ScalerCanWork RefusalsExplained NothingIsLeftOver ProxiesFindTheControlPlane PodsRunAsGranted
PROPERTIES SettledPassChangesNothing
