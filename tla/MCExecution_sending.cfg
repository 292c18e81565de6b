SPECIFICATION Spec
CONSTANTS
  w1 = w1
  w2 = w2
  p1 = p1
  p2 = p2
  Parts = {"sending"}
  Callers <- MCCallers
  Positions <- MCPositions
  Ranges <- MCRanges
  MaxOpens = 2
  Keys <- MCKeys
  Needs <- MCNeeds
  PositionIds <- MCPositionIds
  TxHashes <- MCTxHashes
  MaxRBF = 3
  MaxCount = 4
  TxRecords <- MCTxRecords
  Ids <- MCIds
  PoolOf <- MCPoolOf
  Limit <- MCLimit
  Amounts <- MCAmounts
  Capital = 700
  ExposurePct = 30
  Fees <- MCFees
  Losses <- MCLosses
  MaxClock = 2
  MaxFee = 1
  Txs <- MCTxs
  Confirmations = 1
  MaxHeight = 3
  MaxCalls = 2
INVARIANT BothFailedIsNotSent
SYMMETRY MCSymmetry
CHECK_DEADLOCK FALSE
