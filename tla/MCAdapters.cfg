SPECIFICATION Spec
CONSTANTS
  p = p
  q = q
  TestedPools <- MCTestedPools
  Horizon = 15
  Windows <- MCWindows
  Interval = 3
  StateStep = 6
  TickAt <- MCTickAt
  Spread = 2
  MaxRuns = 2
  Signers = {"c1", "c2"}
  BuildsOf <- MCBuildsOf
  Amounts = {0, 3}
  Slippages <- MCSlippages
  FirstNonce = 2
  MaxNonce = 3
  TokenNonce = 1
  MarketPools = {"p1", "p2"}
  Profiles <- MCProfiles
  Volatilities = {2000}
  Callers = {"c", "d"}
  SimulatorsOf <- MCSimulatorsOf
  Blocks = {1, 2}
  MaxTxs = 2
  MaxEvents = 5
  MaxFileSize = 1
  MaxFiles = 2
  Kinds <- MCKinds
  MaxPools = 2
  Times <- MCTimes
  Floors = {0, 10}
  Limits = {0, 1}
CONSTRAINT MCForks
CHECK_DEADLOCK FALSE
INVARIANT TypeOK
INVARIANT CacheAndFilesAgree FeesCountEverySwap
INVARIANT SignedIsSound
INVARIANT RangesAreSound
INVARIANT SimulationsAreSound
INVARIANT AuditKeepsOrder
 
PROPERTY ClosedWalletSignsNothing RotationsNeverReturn
