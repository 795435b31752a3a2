SPECIFICATION Spec
CONSTANTS
  p1 = p1
  p2 = p2
  NoProc = NoProc
  Procs <- MCProcs
  Artifacts <- MCArtifacts
  Limit = 2
  NewerVersion = 2
PROPERTIES
  ImplementsProtocol
