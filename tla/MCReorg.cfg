SPECIFICATION Spec
CONSTANTS
  Hashes <- MCHashes
  MaxNonce = 1
  BaseNonces <- MCBaseNonces
  Workers <- MCWorkers
  TxHashes <- MCTxHashes
  MaxRBF = 3
  MaxCount = 0
  Records <- MCRecords
  Handlers <- MCHandlers
  r1 = r1
  r2 = r2
  u1 = u1
  MaxReorgRetries = 2
  MaxStates = 2
  DatabaseFails = TRUE
SYMMETRY MCSymmetry
CONSTRAINT NotSetBack
CHECK_DEADLOCK FALSE
INVARIANT TypeOK RebroadcastsAreSound
