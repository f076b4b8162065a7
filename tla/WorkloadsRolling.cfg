SPECIFICATION Spec
CONSTANTS
  Absent = Absent
  Unset = Unset
  DefaultGateway <- MinimalGateway
  DefaultController <- SampleController
  Parts <- NoParts
INVARIANTS SchemaAcceptedIsDeployed
