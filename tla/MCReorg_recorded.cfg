SPECIFICATION Spec
CONSTANTS
  Hashes <- MCHashes
  MaxNonce = 2
  BaseNonces <- MCBaseNonces
  Workers <- MCWorkers
  TxHashes <- MCTxHashes
  MaxRBF = 3
  MaxCount = 0
  Records <- MCRecords
  Handlers <- MCHandlers
  r1 = r1
  r2 = r2
  u1 = u1
  MaxReorgRetries = 2
  MaxStates = 3
  DatabaseFails = FALSE
CHECK_DEADLOCK FALSE
PROPERTY RebroadcastIsRecorded
