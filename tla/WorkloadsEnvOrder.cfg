SPECIFICATION Spec
CONSTANTS
  Absent = Absent
  Unset = Unset
  DefaultGateway <- SampleGateway
  DefaultController <- SampleController
  Parts <- EnvParts
PROPERTIES SettledPassChangesNothing
