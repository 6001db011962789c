CONSTANTS
  Mints <- MintsMC
  Sources <- SourcesMC
  Offers <- OffersMC
  Multiplier = 5
  Parts = 4
  Scale = 4
  Fine = 3
  Hundred = 100
  None = None
  Contract = "nft"
  TokenId = 1
  Payment = "weth"
  Seller = "seller"
  Buyer = "buyer"
  Width = 2
  SaleCalls <- SaleCallsMC
  PurchaseCases <- PurchaseCasesMC
SPECIFICATION SpecMC
INVARIANTS SoldAtProfit NoProfitLost PricesAreGiven SaleIsAsJudged OrdinaryIsAccepted PurchaseIsAsJudged
  AcceptedExecutes
CHECK_DEADLOCK FALSE
