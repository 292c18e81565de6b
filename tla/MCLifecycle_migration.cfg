SPECIFICATION Spec
CONSTANTS
  Runners <- MCRunners
  MaxRuns = 3
  ByHand = {}
  Callers <- MCCallers
  KindsOf <- MCKindsOf
  EndpointCount = 2
  MaxCalls = 3
CHECK_DEADLOCK FALSE
INVARIANT MigrationFindsTables
