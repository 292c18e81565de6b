SPECIFICATION FairSpec
CONSTANTS
  Runners <- MCRunners
  MaxRuns = 3
  ByHand = {"positions", "risk_events"}
  Callers <- MCCallers
  KindsOf <- MCKindsOf
  EndpointCount = 2
  MaxCalls = 3
CHECK_DEADLOCK FALSE
INVARIANT TypeOK StopsAreSafe
INVARIANT StoreIsUsable
PROPERTY StopsAndSignalsEnd ReadFindsHealthyEndpoint
