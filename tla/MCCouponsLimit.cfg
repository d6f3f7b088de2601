CONSTANTS
  Branches = {b1}
  Codes = {c1}
  Limits = {1}
  Operations <- Customer
  MaxRequests = 5
  MaxInFlight = 1
  MaxCalm = 5
  OneBranch = b1
  Failures = FALSE
  None = None
  Parts = {"coupons"}
  Readers = {reader1, reader2}
  Diners = {diner}
  Locations = {patio, hall}
  DinerOf <- OneDiner
  Sales = {1}
  SoldAt <- OnePlace
  ViewTTL = 2
  MaxCompute = 1
  LastHour = 4
  Meals = {meal1, meal2}
  Guests = {1, 2, 3}
  StarParts = 100
  Stars = {100, 497}
  Dishes = {dish1, dish2}
SYMMETRY Symmetry
SPECIFICATION MCSpec
INVARIANTS
  LimitHolds
CHECK_DEADLOCK FALSE
