SPECIFICATION LoopSpec
CONSTANTS
  HasRepo = TRUE
  VaRWarnPct = 8
  VaRKillPct = 12
  DailyDDKillPct = 5
  WeeklyDDFreezePct = 10
  TotalExposurePct = 30
  MaxSingleTradeUSD = 50
  Amounts <- MCAmounts
  EventIds = {e1, e2}
  Evaluators = {v1, v2}
  TierLimit <- MCTierLimit
  MaxEvaluations = 3
PROPERTY KillNeedsUnlock
