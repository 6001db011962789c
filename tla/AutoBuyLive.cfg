CONSTANTS
  a = a  b = b  c = c
  t1 = t1  t2 = t2
  None = None
  Procs = {p1, p2}
  Orders = {a, b}
  Tokens = {t1, t2}
  Token <- MCToken
  Erc721 = {a, b}
  Quantity = 1
  FailedGasCap = 1
  Reserves = {1}
  Confirmations = 2
  Legacy = {}
  NonceSlack = 0
  MaxForks = 1
  MaxNonce = 0
SPECIFICATION FairSpec
PROPERTY PendingIsSettled
CHECK_DEADLOCK FALSE
