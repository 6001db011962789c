CONSTANTS
  Cursors = {"c1", "c2", "c3"}
  Floor = "f"
  Orders = {"a", "b"}
  Value <- ValueMC
  Asked <- AskedMC
  Chains <- LongChains
  Places <- BrokenPlaces
  Rates = {5}
  Target = 10
  Percent = 15
  Quantity = 1
  Broken = {"a"}
  MaxFailures = 0
  MaxChanges = 0
  MaxMoves = 0
  Scale = 5
  Fine = 1
  Hundred = 100
  None = None
SPECIFICATION FairSpec
PROPERTY Covered
CHECK_DEADLOCK FALSE
