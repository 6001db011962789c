CONSTANTS
  None = None
  Runs = {r1}
  Fees = {0}
  MaxReplacements = 1
  Confirmations = 2
  NonceSlack = 1
  MaxForks = 2
  MaxNonce = 1
  MaxForeign = 1
  Schedules <- ShiftingSchedules
  Eligible = {"list", "public", "open"}
  Lag = 1
  RetryDelay = 1
  SearchDelay = 2
  MaxTime = 6
  MaxChanges = 1
  MaxOthers = 1
SPECIFICATION SpecMC
INVARIANTS AtMostOneMint LiveMintHoldsLock NoStageSlept SignsNextNonce
PROPERTIES MintIsResolved KeepsOutcome
CHECK_DEADLOCK FALSE
