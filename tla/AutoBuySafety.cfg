CONSTANTS
  a = a  b = b  c = c
  t1 = t1  t2 = t2
  None = None
  Procs = {p1, p2}
  Orders = {a, b, c}
  Tokens = {t1, t2}
  Token <- MCToken
  Erc721 = {a, b}
  Quantity = 2
  FailedGasCap = 3
  Reserves = {1, 2}
  Confirmations = 2
  Legacy = {c}
  NonceSlack = 1
  MaxForks = 1
  MaxNonce = 1
SYMMETRY Symmetry
SPECIFICATION Spec
INVARIANTS NoOrphan CountMatchesChain NoOverbuy LossWithinBudget
  NoTokenTwice
PROPERTIES ResolvedForGood KeepsLedger
CHECK_DEADLOCK FALSE
