SPECIFICATION Spec
CONSTANTS
  Hashes <- MCHashes
  MaxNonce = 2
  BaseNonces <- MCBaseNonces
  MaxAttempts = 2
  MaxRecorded = 2
PROPERTY ReplacementKeepsNonce
