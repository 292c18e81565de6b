SPECIFICATION Spec
CONSTANTS
  Hashes <- MCHashes
  MaxNonce = 2
  BaseNonces <- MCBaseNonces
  MaxAttempts = 2
  MaxRecorded = 2
INVARIANT TypeOK GrantedIsAnInterval NoForeignNonce
PROPERTY OriginalNonceSticks
