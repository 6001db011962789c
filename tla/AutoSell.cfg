CONSTANTS
  None = None
  Tokens = {t1, t2}
  Payouts = {3, 6}
  Prices = {1, 2}
  Gases = {1, 3}
  Share = 1
  MinProfit = 1
  GasCap = 2
  Approved = FALSE
  RequireUsdPrice = FALSE
  Confirmations = 2
  NonceSlack = 1
  MaxForks = 1
  MaxForeign = 1
SPECIFICATION FairSpec
INVARIANTS SalesPay OneInFlight ReportIsRight ApprovalIsFinal DryRunAgrees
PROPERTY RunEnds
CHECK_DEADLOCK FALSE
