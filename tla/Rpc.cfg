CONSTANTS
  Endpoints = {e1, e2, e3}
  MaxCalls = 2
  Providers = {p1, p2}
  Timeout = 2
  Window = 1
  GasWindow = 0
  Kinds = {"receipt", "logs", "code", "ink", "nonce", "gas", "balance", "timestamp", "call", "call_at"}
  MaxHeight = 2
  MaxFork = 1
SPECIFICATION SpecMC
INVARIANTS ReceiptIsAgreed ReadsAreOnTheSafeSide AnswersAreUnanimous
PROPERTIES IsSubmission Returns
CHECK_DEADLOCK FALSE
