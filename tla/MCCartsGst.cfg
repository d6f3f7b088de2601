CONSTANTS
  Branches = {b1}
  FreeBranches = {}
  Places = {p1}
  Requests = {1, 2}
  MaxInFlight = 1
  MaxConcurrent = 2
  Failures = FALSE
  None = None
  Totals = {1, 2}
  Top = 1
  DayLength = 6
  CronEvery = 2
  MaxRun = 1
  LastMinute = 11
  Ranges <- SomeRanges
  Offsets <- SomeOffsets
  Books <- SomeBooks
  Movers = {1, 2, 3}
  Diners = {"diner", "bistro"}
  Shops = {"east", "west", "north"}
  DinerOf <- TwoDiners
  Purchases = {"east", "west", "north"}
  ShopOf <- OneOrderEach
  Parts = {"carts"}
  wrap = wrap
  drink = drink
  Products <- Sold
  Menu <- PriceList
  Lines <- SomeLines
  MaxLines = 3
  Balances <- SomeBalances
  Coupons <- SomeCoupons
  TaxRates <- Rates
  Tips <- SomeTips
SYMMETRY Symmetry
SPECIFICATION MCSpec
INVARIANTS
  GstAddedOnce
CHECK_DEADLOCK FALSE
