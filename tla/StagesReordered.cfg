CONSTANTS
  None = None
  Runs = {r1}
  Fees = {0}
  MaxReplacements = 1
  Confirmations = 2
  NonceSlack = 1
  MaxForks = 1
  MaxNonce = 1
  MaxForeign = 1
  Schedules <- ReorderedSchedules
  Eligible = {"list", "public", "open"}
  Lag = 0
  RetryDelay = 1
  SearchDelay = 1
  MaxTime = 8
  MaxChanges = 1
  MaxOthers = 0
SPECIFICATION SpecMC
INVARIANT NoStageSlept
CHECK_DEADLOCK FALSE
