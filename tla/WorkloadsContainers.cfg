SPECIFICATION Spec
CONSTANTS
  Absent = Absent
  Unset = Unset
  DefaultGateway <- SampleGateway
  DefaultController <- SampleController
  Parts <- ContainerParts
INVARIANTS EditsReachTheDeployment
