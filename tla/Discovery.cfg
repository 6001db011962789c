CONSTANTS
  Cursors = {"c1", "c2", "c3"}
  Floor = "f"
  Orders = {"a", "b"}
  Value <- ValueMC
  Asked <- AskedMC
  Chains <- ChainsMC
  Places <- PlacesMC
  Rates = {4, 5, 6}
  Target = 10
  Percent = 15
  Quantity = 2
  Broken = {}
  MaxFailures = 1
  MaxChanges = 1
  MaxMoves = 1
  Scale = 5
  Fine = 1
  Hundred = 100
  None = None
SPECIFICATION FairSpec
INVARIANTS LapIsGapless PaidWithinBand
PROPERTY Covered
CHECK_DEADLOCK FALSE
