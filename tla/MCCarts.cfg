CONSTANTS
  Branches = {b1, b2}
  FreeBranches = {b2}
  Places = {p1, p2}
  Requests = {1, 2, 3, 4, 5}
  MaxInFlight = 2
  MaxConcurrent = 4
  Failures = TRUE
  None = None
  Totals = {1, 2}
  Top = 1
  DayLength = 6
  CronEvery = 2
  MaxRun = 1
  LastMinute = 11
  Ranges <- SomeRanges
  Offsets <- SomeOffsets
  Books <- SomeBooks
  Movers = {1, 2, 3}
  Diners = {"diner", "bistro"}
  Shops = {"east", "west", "north"}
  DinerOf <- TwoDiners
  Purchases = {"east", "west", "north"}
  ShopOf <- OneOrderEach
  Parts = {"carts", "bill", "points", "boards", "stats", "trends"}
  wrap = wrap
  drink = drink
  Products <- Sold
  Menu <- PriceList
  Lines <- SomeLines
  MaxLines = 3
  Balances <- SomeBalances
  Coupons <- SomeCoupons
  TaxRates <- Rates
  Tips <- SomeTips
SYMMETRY Symmetry
SPECIFICATION MCSpec
INVARIANTS
  CartsWithinOverlap FeeForAddress AppendSticks
  PointsAccounted BillWithinACent  OnOnePage SalesAddUp
  RewardsAgree ServedIsRecent
CHECK_DEADLOCK FALSE
